# Verification of the Quark Drive WebDAV bridge

TLA+ models of the bridge in `src/quarkdrive-webdav`, the TLC configurations
that check them on small instances, and proofs that hold for every value of
their constants. Paths below are relative to `src/quarkdrive-webdav/src/`.

The bridge mounts a Quark cloud drive as a volume of macOS. Finder speaks
WebDAV over HTTPS to a local proxy, the proxy forwards to a local WebDAV server
(the `dav-server` crate), whose file system trait is implemented on top of the
cloud's HTTP API, with caches and overlays that hide the API's latency and lag.

    Finder --HTTPS--> proxy.rs --HTTP--> webdav.rs --> vfs.rs --> drive/mod.rs --> cloud
                      PROPFIND cache                    |  overlays, locks
                                                        +-> cache.rs (moka + disk)
    main.rs: mount supervisor, watchdog, cookie refresh, signals
    health.rs: probes and repair      cookie.rs, admin.rs, tray.rs

## 1. Inventory

### Write path (vfs.rs)

*State.* Per request a `QuarkDavFile` with the opened file's fid and an
`UploadState` (temp file, size, generation, upload task data). Shared by all
requests: `write_locks` (one async mutex per path), `upload_generation` (write
folding counter per path), `uploading` (placeholders of new files, per parent),
`active_writes` (45 s overlay of the last write of each path),
`pending_renames`, the directory cache.

*Operations.* `open` 339-489, `write_buf` 2033, `flush` 2243-2320, `do_flush`
1187-1660 with the spawned upload task 1416-1625, `after_flush` 1938,
`remove_file` 794-854, `register_active_write` 121.

*Hard.* A PUT is some twenty awaits long. Only its flush runs under the path's
lock; DELETE, PROPFIND and MOVE do not take the lock at all. The upload runs in
a task that outlives the request when `--upload-wait-timeout` expires or the
connection drops. Every cloud call may fail, or fail after it took effect. The
cloud's list API lags behind its own changes, and every lookup of a fid relies
on it, directly or through the cache.

*Correct when* overwriting never loses content, an acknowledged PUT is durable,
uploads of one path do not overlap, a folded PUT leaves the path to a newer
one, placeholders do not outlive their requests, and a queued PUT is answered.

### Directory cache and chunk cache (cache.rs)

*State.* Moka (memory, `time_to_live`) over JSON files (`disk_ttl`) for
directory listings; chunk files of 24 h for file content.

*Operations.* `get` 306, `get_or_insert` 124, `dfs` 193, `insert` 322,
`invalidate` 343, `invalidate_parent` 356, `write_disk` (spawned) 97,
`read_chunk` / `write_chunk` / `invalidate_chunks` 379-463.

*Hard.* Reads, invalidations and spawned disk writes interleave at every await;
a disk hit is promoted to moka with a new time to live; the files survive
restarts; expiry comparisons differ between the tiers; a walk to a path refetches
stale parents and restarts from the root on 404.

*Correct when* a change is missed for a bounded time only, nothing invented is
served, and a chunk served belongs to the file's current content.

### Namespace operations (vfs.rs)

*State.* None of its own: the cache, the overlays, `pending_renames`.

*Operations.* `create_dir` 681-757, `remove_dir` 760-792, `rename` 856-1032,
`read_dir` 490-571, `metadata` 573-632.

*Hard.* A MOVE across directories is two cloud calls; a MOVE of a file still
uploading is handed to the upload task through `pending_renames`; Finder
creates a directory and puts files into it before the list API shows it.

*Correct when* a MOVE ends with the file in one place under one name, whenever
the upload ends, and a created directory can be used at once.

### Read path (vfs.rs 2051-2241, chunk cache)

*State.* Per request the opened file (fid, size, download URL) and a position;
shared: `chunk_locks`, one mutex per path and offset, and the chunk files.

*Hard.* Chunks are keyed by path and offset, not by content; writing and
invalidating chunks are both spawned; download URLs expire in between; a lock is
held across a download. *Correct when* a read is complete and in place, a chunk
is downloaded by one read at a time, and no chunk is served of a file that is
no longer at the path.

### Cloud client (drive/mod.rs, drive/model.rs)

Stateless but for the cookie map and cached download URLs. Requests with
retries, the multi-step upload protocol (`up_pre`, `up_hash`, `up_part`,
`up_auth_and_commit`, `finish`), listing, removal, moves. *Hard:* a retry after
an error answer is sent without the body and the cookie of the first attempt.

### HTTPS proxy (proxy.rs)

*State.* PROPFIND answers of 5 s. *Hard:* an answer is inserted after the
backend call, whatever was invalidated meanwhile. *Correct when* a listing
served is at most a given age behind the file system.

### Start-up, supervision, shutdown (main.rs, mount.rs, health.rs, admin.rs)

*State.* The mount, two server tasks, health records, a watchdog signal.
*Hard:* the mount supervisor, the health checker, the watchdog and the admin
routes repair the same things on timers of their own; a `notify_waiters` has no
memory. *Correct when* a failed server or lost mount is eventually back and two
repairs do not undo each other.

### Cookies (cookie.rs, main.rs 597-611)

*State.* The shared cookie map and the drive's own copy of it. *Hard:*
`replace` is a clear and many inserts; the drive's copy is taken once.

### WebDAV front (webdav.rs), tray (tray.rs)

A GET is dispatched to `dav-server`, for a browser first to a directory page, and
gets a Digest header from a lookup of its own; *correct when* Digest, length and
body are of one file. The tray's entries quit and refresh the cookies.

### Not modelled

- The menus, notifications, status page and log tail: they only show state.
- The Swift helper, packaging, `src/legacy` (earlier versions of the program and
  its Python predecessor, not part of the build), and the scripts but for the
  launcher of serve-only mode.
- `get_quota`, COPY and the properties of PROPFIND: they read, or are
  `dav-server`'s own composition of the operations modelled.
- The rotation of the `__puus` cookie by Set-Cookie answers; the upload functions
  without a caller (`upload_mini_byte_file`, `upload_chunk`).
- The proxy's answers for AppleDouble (`._*`) paths and its LOCK and UNLOCK mocks:
  constant answers without state. TLS, authentication, the formatting of XML,
  HTML and headers.
- The ciphers of browser cookie stores: whether a row decrypts is a predicate.

## 2. Plan

Order of work, the most important behaviour first.

| # | Module | Of | Abstract specification | State |
|---|--------|----|------------------------|-------|
| 1 | `Upload` | write path of one path | - | modelled, checked, proved |
| 2 | `DirCache` | two-tier listing cache | `StaleListing` | modelled, checked, proved |
| 3 | `ProxyCache` | PROPFIND cache of the proxy | `StaleListing` | modelled, checked, proved |
| 4 | `ChunkRead` | chunk cache and `read_bytes` of one path | - | modelled, checked, proved |
| 5 | `Rename` | MOVE, `pending_renames`, the overlay, beside uploads | - | modelled, checked, proved |
| 6 | `CacheWalk` | `get_or_insert` and `dfs` over a tree, MKCOL, DELETE | - | modelled, checked, proved |
| 7 | `Supervision` | servers, watchdog, health loop, mounts, shutdown | - | modelled, checked, proved |
| 8 | `CloudUpload` | the calls of one upload, retries, lost answers | `AtomicReplace` | modelled, checked, proved |
| 9 | `Cookies` | cookie store and its refreshers | - | modelled, checked, proved |
| 10 | `GetFile` | a GET from proxy to download | - | modelled, checked, proved |

How they compose: `StaleListing` is implemented by `DirCache` and assumed and
implemented again by `ProxyCache`, so the ages add up to what Finder sees.
`CacheWalk` takes cached listings at their worst (any that ever was), which
covers what `DirCache` bounds. `Upload` treats the cloud's calls of an upload as
steps that succeed, fail or fail after they took effect; `CloudUpload` takes them
apart. `Rename` meets the upload task of `Upload` at `pending_renames`,
`GetFile` meets its placeholders and overlay entries, and reads the chunk cache at its
worst: any chunk ever stored for the path may be found, which covers what `ChunkRead`
follows step by step. `Cookies` fills the store whose state `Supervision` knows as
`cookies_ok`.

The type invariants, the other safety properties and the refinements of all modules are
proved; section 5 says from what. What is left for TLC alone is liveness, and of four of the
liveness properties section 5 proves the part that is safety. `ChunkReadProofs` is about
`ChunkRead` and `GetFile`, `CookiesProofs` about `Cookies` and `Supervision`, the component
each of them meets; so that one module can extend both, `GetFile` and `Supervision` have
names of their own for what every module has (`GetSpec`, `GetTypeOK`, `ServiceSpec`,
`ServiceTypeOK`, `mishaps`).

## 3. The modules

### Upload

One dav path, any number of PUTs (`Puts`), a bounded number of DELETEs. An
action is the code between two awaits that another actor can slip into; a
spawned task is a second program counter of its PUT.

| Model | Code |
|-------|------|
| `pc[p]`, `task[p]` | position of the request handler and of the spawned task |
| `fid`, `old`, `new`, `gen` | `self.file.fid`, `old_fid`, the fid of `up_pre`, `upload_state.generation` |
| `write_lock` | the path's mutex of `write_locks`, as the set of its holders |
| `upload_generation`, `uploading`, `active_writes` | the maps of those names, at this path |
| `dir_cache` | the cached listing of the parent: same-name fids |
| `cloudLive`, `cloudPending` | files of this name in the cloud, and those `up_pre` announced |
| `cloudListed` | what the list API answers while it lags |
| `finished`, `erased` | history: confirmed uploads, files removed by DELETE |

Handlers: `Lookup`, `Open`, `WriteBuf`, `Flush`, then under the lock `Fold` or
`Acquire`, `Probe` (empty body), `CaptureOld`, `ClearPlaceholder`, `Md5Same` /
`Md5Differs`, `PreFails` / `PreInstant` / `PreStarts`, `HashFails` /
`HashInstant`, `InstantRemovesOld`, `InstantAnswers`, `Spawn`, `TaskReports` /
`WaitTimesOut`, and `CleanUp` for errors. Task: `ChunksDone`, `TaskDies`,
`EarlyFinish`, `Commit`, `Finish`, `FinishFails`, `RemoveOrphan`, `RemoveOld`,
`Publish`. DELETE: `DeleteLookup`, `DeleteRemoves`, `DeletePlaceholder`.

What is abstracted: bodies are empty, below or above the folding limit, with an
md5; fids are numbers in the order they are handed out; the temp file is left
out but for the fact that writing it may fail (`Abort`); a fetch of the listing
is one step together with its insertion into the cache (a lagging list API
covers a fetch that is overtaken); the branch at vfs.rs:1311-1322 for files of
the same size without an md5 only logs. A rename of the path while it uploads
(`pending_renames`) belongs to `Rename`. Two uploads of one path at the same time are
here only; `Rename` has one at a time, and `CloudUpload` one upload without the early
finish (vfs.rs:1489-1509), which `Upload` and `Rename` have.

### DirCache and StaleListing

One directory. A listing is the set of changes it shows. Time stamps become
ages: `Tick` ages both tiers, the pending writes and what requests hold, and
ages stop growing where no comparison of the code can tell them apart, so time
is unbounded and the state finite. `Readers` run `get_or_insert`;
`Invalidators` change the cloud and then invalidate (a change by another client
is one that never gets so far, because `Restart` takes its request away);
`Mkdirs` run the cache protocol of `create_dir`. `MaxDelay` bounds the time
between reading the first page of a listing and storing it, `MaxLag` the list API's lag,
`MaxWrites` the disk writes spawned and not landed.

`dfs` reads the first page (`Fetch`) and then the others concurrently (`MorePages`), and
stores what it has as the whole listing: without the pages that failed three times
(cache.rs:266-276), without those after the 20th (230), without what a change has moved
from a page still to come to one already read, or empty, where the cloud answers an
empty list for a folder that is gone. So `MorePages` may leave out any change.

`StaleListing` is what the readers may rely on: an answer shows only what has
happened, and misses only what happened, or was left out by a partial reading of the
directory (`LeaveOut`), at most `Bound` ago. In a directory of one page nothing is left
out, and the bound is on the age of the change alone; in a larger one it says that what a
lost page hides comes back once a later reading has it, however the tiers pass the
partial listing on. `DirCache` is shown to implement it with

    Bound == (1 + |Mkdirs|) * (2 * (Ttl + MaxDelay) - 1) + max(MaxLag - 1, 0)

and `Bound - 1` is not enough (ages are compared at whole ticks, so a lag of
`MaxLag` lets a change be missed up to the age `MaxLag - 1`). The factor 2 is the promotion of an expiring
disk entry into moka with a new time to live; each MKCOL that runs beside adds
the same again, because it extends whatever listing it finds and stores it as
new. The program runs with a time to live of 600 s (main.rs:331), so a change
made by another client may be invisible for 20 minutes rather than the 10 the
setting suggests. `invalidate_all` is not called anywhere and is left out.

### ProxyCache

The PROPFIND cache of `proxy.rs` and the requests that invalidate it. A path is
a sequence of names; a key is a path and a depth, as in the code.

| Model | Code |
|-------|------|
| `cache[k]` | the entry of `PROPFIND_CACHE` for a path and depth; its age stands for the stored `Instant` |
| `pc[r]`, `key[r]`, `held[r]` | position of a PROPFIND, the key it asks for, the backend's answer before it is stored |
| `pc[w]`, `left[w]` | position of a request that changes the file system, and the paths it has still to pass to `invalidate_propfind` |
| `truth`, `since` | the writes that have taken effect, and how long ago |
| `outdated` of an entry | history: the writes that came after it was stored |

A lookup and the removal of an expired entry take the lock separately
(`Miss`, `RemoveExpired`), as do the calls of `invalidate_propfind`
(`Invalidate`, one path at a time in the order of `vfs.rs`). The backend is not
modelled again: `Forward` answers anything `StaleListing` allows with
`BackendLag`, so the result composes with `DirCache` by setting `BackendLag` to
its `Bound + 1`. The proxy then implements `StaleListing` itself with

    Bound == max(BackendLag - 1, 0) + MaxDelay + Ttl - 1

and one less is not enough. Headers, TLS, authentication, and the LOCK, UNLOCK
and AppleDouble mocks are left out, as are requests other than PROPFIND that the
proxy only passes on.

Two operations invalidate less than they change: a PUT without content nothing
(it registers a placeholder and returns before vfs.rs:1275), and the MOVE of a
placeholder to another directory not the two parents (vfs.rs:980-984). They are
operations of the model (`probe`, `movePlaceholder`); `Dropped` does not hold for
them, and its runs and its theorem leave them out.

### ChunkRead

`read_bytes` through the chunk cache, for one path. A version is a cloud file
that is or was at the path, with a size; byte `b` of it is `<<version, b>>`, so
an answer shows which version and which position each of its bytes is from.

| Model | Code |
|-------|------|
| `chunks[k]`, `k = [start, len]` | the file `start-end.bin` in the path's chunk directory: absent, or the version its bytes are of |
| `writes`, `wipes` | the spawned tasks of `write_chunk` and `invalidate_chunks` |
| `chunk_locks[s]` | the FIFO mutex of the chunk at `s`: holder first, then who waits |
| `file[r]`, `read[r]`, `tries[r]`, `data[r]` | the opened fid, the loop of `read_bytes` with `result_buf`, `retries`, the bytes `read_chunk` has read |
| `current`, `past`, `up` | the version at the path, those that have been there, how far each upload is |
| `strayed` | history: versions used after they had left the path |

Reader: `Open`, `ReadBytes`, `ReadChunk`, `CheckAge`, `Download`, `Retry`, `Fail`,
`Close` (the end of the request or a dropped connection). `read_chunk` is two
steps, because the file may be replaced between reading its bytes and its time
stamp. Disk: `WriteChunk`, `WipeChunks`. Path: `UploadFinishes`,
`UploadPublishes` (invalidates the chunks, once an upload), `Leaves` (DELETE, MOVE away),
`MovesIn`, `Restart`.

What is abstracted: any chunk file may be found to be older than 24 h; `Open` may
find any version that has been at the path (listings lag); a download delivers
the bytes asked for of the opened version, even when it has been removed (URLs outlive
files; a server that ignores Range is in `GetFile`); writing
one chunk file is one step, so two tasks that write the same file at once leave
one of the two contents; a removal may fail and leave any chunks. A version
comes to the path once. A read of a placeholder (no fid) is answered from
`active_writes` and does not touch the cache; it is part of `GetFile`.

### Rename

`rename` of `vfs.rs`, up to the number of its cloud calls, beside the upload tasks
of the files it moves. A path is `<<directory, name>>`; the two cloud calls set one
component each.

| Model | Code |
|-------|------|
| `at`, `shown` | where each file is in the cloud, and where the list API shows it |
| `cached[d]`, `active_writes[p]`, `pending_renames[f]` | the directory cache and the maps of those names |
| `task[f]`, `target[f]` | the PUT of a file and its upload task, and `latest_parent_path` / `latest_file_name` |
| `old[f]` | `old_fid`: the file the upload is to replace |
| `pc`, `from`, `to`, `got`, `attempt` | the MOVE requests |
| `wanted`, `disturbed` | history: where the last MOVE wants a file; files with a failed call, of MOVEs that met, or in the hands of a MOVE and a PUT |

MOVE: `ResolveFile`, `ResolveEntry` or `ResolveNothing`, `Again` (the three lookups
of P4-2), `OverlayMove`, `FindParent`, `CallMove`, `CallRename`, `Invalidate`. Upload:
`Probe`, `Open` and `Flush`, which find the file to replace in the listing, the overlay
or a fresh listing, `EarlyFinish`, `TaskFails` or `Finish` (by the task, or at once by
`up_hash` or `up_pre`), `RemoveOld`, `TakePending`, `ReplayMove`, `ReplayName`,
`Register` or, where `up_pre` has found the content and `self.file.fid` is still the old
fid, `RegisterOld`. Around them the list API catches up, entries and listings expire, and
the process restarts. One upload of a path is under way at a time (`Alone`); `Upload` is
about more.

`SettlesWhereMoved` says that the hand-over works: whatever the order of the MOVE's
calls and the task's repetition of them, the file ends where the client wanted it, and it
goes only when a PUT replaces it there. What the property excuses (`disturbed`) is what
the code does not prevent: a call failed (`rename` answers Ok all the same), MOVEs of one
file ran into each other, or a PUT and a MOVE had the same file in hand. The last means
loss: a PUT that has looked the file up removes it by its fid when the upload is done
(vfs.rs:1557), wherever a MOVE that was answered Ok has taken it meanwhile. The run
reaches this: without that excuse TLC finds the MOVE that loses its file. With it the
property shows that no other file is lost or left on the way.
`OverlayTrueUnlessMoved` says when the overlay may show a file where it is not: only
after a MOVE that came too late for the task, whose note nobody takes, or where
`RegisterOld` has registered the file it has just replaced.

### CloudUpload and AtomicReplace

One upload as the sequence of requests it makes: `at` is the call under way, and
`Answered`, `Garbled`, `Refused`, `Transient` and `GivesUp` are what can become of
it. The retrying middleware repeats a call `MaxRetries` times; `post_request` then
repeats some refused calls by hand, without body, cookie and content type, which the
cloud refuses. The cloud executes a request whether or not the answer arrives
(`Prepares`, `Hashes`, `Stores`, `Commits`, `Finishes`, `Removes`), and cannot tell a
repetition from a new call: `up_pre` repeated begins a second upload, a part sent
twice replaces itself. `Login` makes the drive's copy of the cookies worthless until
a `Restart`, because the drive copies them at the start only (main.rs:319-324).

`AtomicReplace` is the promise: never neither the old nor the new file, Ok only with
the new one, an error only with the old one. `FailedLeavesNothing` adds that commit
and finish clean up after themselves even where the cloud had carried out what it
did not answer; `PublishedIsWhole` that parts are numbered, cut and repeated so that
the file is the body. What `Follow` and `Recover` say is the order of `do_flush` and
its task; the panic of `up_auth_and_commit` on a refused authorization
(drive/mod.rs:806-810) ends the task like an error, but for the clean-up.

### CacheWalk

`get_or_insert` (the climb to the nearest cached ancestor, `Climb` with `Found`,
`Uncached`, `DropStale`, `PassStale`) and `dfs`, one directory after the other, and the
operations of `vfs.rs` made of such lookups: `read_dir`, `create_dir`, `remove_dir`,
`remove_file`. Other clients put and remove, the list API lags, listings expire. A cached
listing is any combination of what was ever in the folder (`Plausible`); `moka` says which
folders have one for sure. `StartsWith` compares strings as the code does, so a walk to
`/ab/x` also lists a sibling `/a`.

`dfs` asks for a directory by the fid it has found, which may be that of a folder long
gone. If the folder exists, its listing is read at once (`ListShort`) or, for the folders
in `Long`, in two steps (`ListPage1`, `ListPages`): between them the cloud may change, and
any child may be missing from the result (a page that failed, the pages after the 20th, a
child moved between pages), which is cached as complete. If it does not, the cloud answers
404 (`List404`, which starts again at the root) or an empty list (`ListNothing`, cached;
the test at drive/mod.rs:1225-1229 admits both). The first page may fail (`ListFails`).

`NotFoundOnlyIfAbsent`: a lookup answers None, which becomes a 404, only if the
folder was absent at some moment of the lookup, if a list call of this lookup failed or
answered a listing that hid a folder on the way which exists (the API's lag, a lost page,
an empty list for an outdated fid), or if the listing just fetched was dropped before it
was read again (`get_or_insert` inserts and then gets). What it rules out is that the old
listings a lookup comes across hide a folder by themselves. `LookupsEnd`: neither stale
listings that come back from disk nor the unlimited restarts on 404 keep a lookup
running for ever, if the list API catches up; a cloud that answers 404 for ever for
a folder it lists would, at full speed.

### Supervision

Both modes of `main`. Full mode: servers, mount, health loop, watchdog, tray,
signal handler, admin server. Serve-only mode: servers, `mount_supervisor_loop`,
and the launcher script that mounts beside it.

| Model | Code |
|-------|------|
| `main`, `server`, `slots`, `watchdog` | where `main` stands, the server tasks, `server_slots`, the task that waits on `restart_signal` |
| `checker[c]` | `check` and `repair`, in the loop and for `/api/repair` |
| `mounts` | mounts on the mount point, one on top of the other |
| `supervisor`, `cooling`, `launcher` | `mount_supervisor_loop`, its `last_action`, the script |
| `signal` | the signal handler |
| `crossed`, `excused` | history: two mounters at once, or one that could not look; a mount that came back in the supervisor's blind moment |

Times are left out, but for the order the code's own periods force: a tick of the
health loop during a respawn counts as a fault (it happens if ticks were missed).
`notify_waiters` is a step that has an effect only where the watchdog waits. The
supervisor's forced unmount may fail, which the code ignores (main.rs:211-214).

### Cookies

`database[b][p]` is what the profiles of each browser hold; `Loaded` is the code's
choice (first browser with any cookie of Quark, first profile with a database, rows
that decrypt under the database's version, the last of several cookies of one name).
`main` fills the store at its start or takes `--quark-cookie`; the timer, the tray,
the admin page and the health checker's repair each run `from_chromium` and
`replace`, whose `clear` goes shard by shard and whose inserts go one by one
(`Clear`, `Fill`), beside each other. `jar` is what a refresher has read, `last` the
jar whose clear ended last.

`ReplacedWhole`: a store nobody is replacing has every cookie of the last jar, and
nothing else unless two replaces met. `CatchesUp`: once browsers and keychain rest,
the timer brings the store to what they hold. It says nothing of a browser that hides
another one with one useless cookie; the order of browsers is taken as intended.

### GetFile

A GET of one path: `HandleRequest` (proxy), `HandleBrowserRequest` or `HandleWith`
(webdav.rs), `OpenFile` (listing, then overlay, then placeholder), `Headers` and `Seek`
(dav-server with `metadata`, `seek`, `redirect_url`), `LookUpDigest` and `Md5`, then
`read_bytes` chunk by chunk: `ReadOverlay` for what has no fid, else `ReadStored` from the
chunk cache or `MissChunk`, `GetDownloadUrl`, `StartDownload`, `Delivered` (stored and
sent) or `DownloadFails`, `RetryPiece`. Around it the path changes: `Relists`, `PutOpens`,
`PutFails`, `RegisterWithoutFid`, `PutPublishes`, `EntryExpires`, `RemoveFile`, and
another GET stores chunks (`OtherGetStores`). A body is counted in chunks, each
`<<fid, number>>`; a fid stands for its content and md5, since an upload always makes a
new file. `disk` is every chunk ever stored for the path, by its number and not by its
file, as cache.rs:376-394 has it: any of them may be found or have been removed, which is
more than the code's removals allow.

`SentInPlace` compares a complete body with the files that were at the path: it has the
length asked for of one of them, each chunk is in its place, and where a chunk is not that
file's it is one of another file that the disk has for this place. The last happens, and
the run reaches it: DELETE and MOVE do not remove chunks, so one answer can mix chunks of a
file that has left the path with downloaded ones of the file opened. Two more excuses are
what the code does not exclude either: a server that ignores Range (drive/mod.rs:439-483
does not look at the status), and a placeholder overtaken by another upload of the path,
whose body is then read with the length of the first. `DigestOfBody` excuses a listing that changed between the two lookups.

## 4. Runs

| Run | Instance | Shows |
|-----|----------|-------|
| `upload_serial` | 2 PUTs, 3 bodies, 2 DELETEs, lagging list API, wait for ever, no dropped connections | type invariant; `NewestKept`, `SerializedEndToEnd`, `AckDurable`, `UploadingDrains` hold |
| `upload_background` | 2 PUTs, 3 bodies, wait timeout, dropped connections, fairness | `NewestKept`, `FoldHasHeir` hold although uploads overlap; every queued PUT is answered |
| `upload_replaced_once` | 2 PUTs over an old file | two PUTs remove the same old file (finding) |
| `dircache_bound` | 1 reader, 1 change, 1 MKCOL, ttl 1, delay 1, no lag, 1 write on its way | `DirCache` implements `StaleListing` |
| `proxy_bound` | 2 PROPFINDs, a folder and a file, a PUT and a MOVE, ttl 1, delay 1, lag 1 | `Dropped`, and `ProxyCache` implements `StaleListing` |
| `chunk_reads` | 2 readers, versions of 2 and 3 bytes, chunks of 2 bytes | `ReadExact`, `UploadLeavesNoOldChunk`, `LockHolderWorks` hold |
| `renames` | 2 MOVEs, 2 directories, 2 names, 1 file that is uploaded over another one | `SettlesWhereMoved`, `OverlayTrueUnlessMoved` hold |
| `supervise` | both modes, 3 faults | `StackedOnlyByOverlap`, `SparesLiveMount`; `ServersRecover`, `MountRecovers` under fairness |
| `cloud_uploads` | 3 parts over an old file, 2 retries, 6 faults | implements `AtomicReplace`; `PublishedIsWhole`, `FailedLeavesNothing`; every upload ends |
| `cache_walks` | 3 folders and a file, the root of several pages, 1 request at a time, 4 fids, 1 failing list call | `NotFoundOnlyIfAbsent`; every lookup ends |
| `cookie_store` | 2 browsers, 2 profiles, 3 refreshers, 1 fault | `ReplacedWhole`; the store catches up |
| `get_files` | 2 files of 2 and 1 chunks, whole and a range, 2 faults | `DigestOfBody`, `SentInPlace`; every GET ends |

*Bounds.* Hazards of the write path are pairwise: a PUT meets another PUT or a
DELETE at the lock, in the overlays or in the cloud, and a third PUT repeats one
of those pairs; the theorems below hold for any number. Two cache readers add
only states in which one of them has answered. A lag of the list API only adds its
length to the bound; a lost page can leave out what a lag does and more, so the run has
none. One disk write on its way at a time suffices for it to land after the
invalidation. The theorem has any lag and any number of writes. A ttl of 1 makes every age
comparison of the code (below, equal, above) happen. Two PROPFINDs are needed for
one to remove or replace the other's entry, and a file below a folder that moves
for the prefix rule of `invalidate_propfind`. Two versions of different sizes share
the name of a full chunk and differ in a short one; reads of two bytes at 0, 1 and
3 cover one chunk, cross into the next, end with the file and start behind it; two
readers contend for a lock. `MaxDeletes` bounds the DELETEs of a path.

Two MOVEs of one file are all it takes for one to overwrite the other's note, or to
come before and after the task looks; two directories and two names make MOVEs that
change one, the other and both. Three faults of the service are a server that breaks,
a signal lost while it is respawned and a command that fails. Six faults of an
upload exhaust the retries of one call and leave three for the calls after it; five
bytes in parts of two have a short last part. The tree of `cache_walks` has a folder
below a folder, so that a climb passes a stale parent, and a name that is the
beginning of another; `MaxTodo` only bounds how long the list API may lag on while
404s pile up, and with one request expiry and other clients stand for what other
requests drop. Three refreshers let two replaces meet and the timer follow. Two
files of different length tell a body that is cut, filled up or mixed; two faults are a
placeholder and what overtakes it, or a chunk stored and the PUT of another file. In
`renames` the second file is at the path the first is uploaded to, so that either MOVE
can take it before, during or after the upload. `MaxFids` bounds the folders
created, `MaxFaults` (`MaxMishaps` in `Supervision`) what goes wrong in each module, restarts
included where it says so; restarts and time are unbounded in `DirCache`, `ProxyCache`, `ChunkRead` and
`Rename`.

*Deadlock* is checked in `chunk_reads`, `cache_walks` and `get_files`, where something
may always happen next; in the others a finite number of requests or faults ends, and
then nothing need happen.

*Fairness.* Weak fairness of each PUT's handler and of its task: every remote
call ends, with an answer or by the HTTP client's 300 s timeout, and the runtime
polls what is ready. Nothing obliges a client to send its body or anybody to
send a DELETE. The mutex of tokio is FIFO; with finitely many PUTs weak fairness
of the handlers is enough for the queue to advance.

In `Supervision` the tasks run, the loops' timers fire and the commands they start
end; ticks of the loop during a respawn and requests to the admin page are not
promised, nor that a mount command succeeds more often than faults are spent. In
`CloudUpload` and `GetFile` every request ends by a timeout of its client
(drive/mod.rs:87-137; 3 s and 300 s in `read_bytes`), and the retries are counted. In
`CacheWalk` requests go on as long as they can, each of their steps being a call with
such a timeout, and the list API catches up, which only the cloud can guarantee. In
`Cookies` the timer's ticker ticks whatever became of the last refresh, and a
refresh once begun goes on.

### Finding

**The same old file is replaced twice** (`ReplacedOnce`, run `upload_replaced_once`).
The fid found by `open` is used under the lock as `old_fid` (vfs.rs:1222), although a
PUT that held the lock before may have replaced that file. Both PUTs remove the same
file and leave two new ones of the same name; the comment of `write_locks`
(vfs.rs:70-72) says this race is fixed. Nothing is lost (`NewestKept` holds).

### Known divergences

What the code does against its own comments or documents, seen while modelling. Each
can be followed in the model named; no run is kept for it, and no property claims the
opposite.

1. *Upload.* An instant upload registers size 0: `after_flush` resets the state whose
   size is registered next (vfs.rs:1347-1348, 1393-1394), although vfs.rs:1265 says
   that it is registered again with its real size.
2. *Upload.* An answered PUT can be invisible while its upload goes on: placeholders
   are found by name and removed by whoever ends first (vfs.rs:2302), although
   vfs.rs:1271-1274 counts on them. A placeholder whose request was dropped or whose
   background upload failed is never removed.
3. *Upload.* A deleted file can come back for 45 s: DELETE does not wait for the PUT in
   progress, whose registration follows it (vfs.rs:1347, against vfs.rs:165-169).
4. *Upload.* The early-finish branch of the task (vfs.rs:1495) neither removes the old
   file nor looks at `pending_renames`.
5. *DirCache.* A directory just created may not be found: `create_dir` drops the listing
   it has just extended (vfs.rs:701 and 747, against 703-710). `remove_dir` leaves the
   listings below the directory cached (vfs.rs:782).
6. *ProxyCache.* A listing read before a write is stored after its invalidation and
   served for the whole ttl (proxy.rs:526, against proxy.rs:46-48). The MOVE of a
   placeholder to another directory invalidates neither parent (vfs.rs:980-984).
7. *ChunkRead.* `invalidate_chunks` is called after uploads only, although cache.rs:423
   names deletions and renames: a file moved to the path of another is read from that
   one's chunks where ranges coincide, for up to 24 h. One answer can mix chunks of both
   files (`GetFile`).
8. *Rename.* vfs.rs:957-958 takes a source that is found in the overlay only for a
   placeholder without a cloud file, but `active_writes_get` answers every entry without
   its fid (vfs.rs:93-107): a MOVE of a file just uploaded that the listing does not show
   yet is made in the overlay alone, and the file stays where it was.
   vfs.rs:1555 calls it safe to delete the old file once the new one is finished, but a
   MOVE may have taken the old file away meanwhile: it is answered Ok and its file removed.
9. *Supervision.* tray.rs:32 says that `run` blocks until the user quits or `shutdown`
   fires, but nobody awaits `shutdown`: a first SIGTERM in full mode unmounts, after which
   the health loop mounts again, and the process goes on.
10. *CloudUpload.* docs/security.md:15 says that the app picks up a new cookie by a refresh
    of the admin panel, but the drive sends the copy made at its start (main.rs:319-324).
11. docs/performance.md:42 says that `--upload-wait-timeout` is 0 by default,
    main.rs:97-99 makes it 5. With a wait timeout or dropped connections
    `SerializedEndToEnd` and `AckDurable` do not hold, so the default configuration
    does not have them.

## 5. Proofs

`UploadProofs` proves, for every set of PUTs and bodies and every number of
DELETEs (the assumptions are those on the constants' types in `Upload`):

- `TypeCorrect`: the type invariant.
- `NewestIsKept`: overwriting never loses the newest confirmed content, whatever
  fails, times out, is dropped or runs beside it. It follows from the inductive
  `FinishedSuperseded`: a confirmed file is in the cloud, or was removed by a
  DELETE, or a newer file has been confirmed. That needs to know what the two
  removals aim at: `ReplacesOlder` (the old fid of a PUT is below its new one),
  `RemovesAfterConfirmation` (the old file is removed only when the new one is
  confirmed) and `OrphansUnconfirmed` (the clean-up of a failed upload never aims
  at a confirmed file), which in turn rests on `FidsOwned` (two uploads never
  write to one fid) and `FidsIssued` (all fids in the state were handed out).
- `FoldingHasHeir`: a folded PUT leaves the path to a newer one that is not
  folded, from `HeirKept`: the newest generation always belongs to a PUT, and
  generations are distinct.
- `LockExclusive`: the handler in `do_flush` holds the path's lock, alone; and the other
  way round `LockIsReleased`: whoever holds the lock is in `do_flush`.
- Under `AwaitedMode` (wait for ever, no dropped connection):
  `UploadsSerialized` - the lock covers the spawned task as well, because the
  handler waits for it (`TasksAwaited`) - and `AcksDurable`: the file an answer
  rests on stays until a DELETE or a later confirmed upload.
- Under `AwaitedMode`, `PlaceholdersDrain`: `UploadingDrains`, which is about the end
  only. The inductive `Drains` says what holds on the way there: the path is in
  `uploading` once at most, and while it is, some request stands where it will still
  remove it (`Owes`), or is a probe. Removal is by name, so the one who removes it need
  not be the one who pushed it; as there is never a second entry, none is left over.

`ProxyCacheProofs` proves, for every set of PROPFINDs, keys and writes and every
ttl, delay and lag:

- `ProxyTypeCorrect`: the type invariant.
- `ProxyImplementsPromise`: `Spec => Promise!Spec`. Each step maps to a step of
  `StaleListing` or a stutter; the step that answers needs `AgesBounded`, the
  inductive invariant that an answer on its way misses nothing older than the
  backend's bound and its own age (`HeldAges`), and a live entry nothing older
  than that with the delay of storing it (`CacheAges`).
- `AnsweredWritesDrop`: `Dropped`, if no write is a `probe` or a
  `movePlaceholder` (`Thorough`). `Dropped` is not inductive: while a write is
  still invalidating, every entry it has made outdated must lie on one of the
  paths to come (`OutdatedGoes`), and what is on its way to the cache is not
  outdated yet (`NotYetOutdated`).

`ChunkReadProofs` proves `UploadTakesOldChunks`, for every set of readers and
versions, all sizes and any chunk size: once an upload is through and its removals are
done, the only old chunks left are of versions in `strayed`. The inductive
invariant `CInv` adds `BusyStrayed` - a version somebody still reads or writes
chunks of is at the path or has strayed, so a late write brings back nothing
else - and `NotYetUploaded` - a version that comes by a MOVE was not uploaded
here, so the promise of an upload does not fall on it. On top of `CInv` it proves, by
the inductive `RdInv` (`ReadInvariant`):

- `ReadsAreExact`: `ReadExact`, for every range, size and chunk size. While a read is
  going on its buffer is filled exactly up to the position it has reached (`Reads`), each
  byte with that of its position in some version of the path; a chunk file or a download
  brings the bytes between its bounds, of which the read copies those it was asked for.
- `LocksAreInOrder`: `LockHolderWorks`. A read that needs a chunk stands exactly once in
  the line of that chunk's lock, and only the first of it goes on (`Lines`).
- `ReadTypeCorrect`: the type invariant. Its bound on the removals under way (one an
  upload) needs a count of the uploads whose states are past spawning them (`Spawned`),
  so this one assumes `IsFiniteSet(Versions)`; the others do not.

The same module proves, about `GetFile` for every set of files and every size of file
and range, under that module's assumption:

- `BodiesInPlace`: `SentInPlace`. A body is compared at its end only, so the invariant
  (`GetInvariant`) follows it on the way: up to the position reached, each chunk is that of
  the file opened or one the disk has for its place (`SentSoFar`, `Right`), and what the
  disk has is of files that are or were at the path, unless a Range was ignored
  (`DiskTrue`). Neither the disk nor the files of the path ever get less, so what has been
  sent stays right (`BodyKept`). What was opened is a file that is or was at
  the path, with its size, or a placeholder whose bytes can only come from the file to come
  as long as nothing overtakes it (`FileTrue`), because whatever a listing, an entry or a
  placeholder shows is true of some such file (`PlaceTrue`).
- `DigestsAgree`: `DigestOfBody`. The md5 the drive has of a file is that file's, and unless
  the listing has changed the second lookup finds the file that was opened (`DigestTrue`).
- `GetTypeCorrect`: the type invariant, with the counters of retries and attempts.
- `GetsDescend`: each step of a GET takes it to a later stage or, within its body, lowers
  `Effort`, eleven for each chunk still to send, five for each download and one for each attempt
  left of the piece, and the steps to the next attempt; and no other step of the system
  raises it, a URL that expires being paid for by the fault it costs.

`CookiesProofs` proves, for every set of cookie names, browsers, profiles, databases and
refreshers (those of the code: timer, tray, admin page, repair), under the assumption that
what decrypts is a value:

- `CookieTypeCorrect`: the type invariant.
- `StoreEndsWhole`: `ReplacedWhole`. It says nothing while a replace is under way, so it is
  not inductive; `ReplacesOnTheirWay` is: once no clear is under way, a cookie that the last
  to clear has read is in the store or still on its reader's list (`LastOnItsWay`: fills only
  ever add, and every clear makes its own reader the last); and a replace that has met no
  other knows all there is in the store (`AloneKnowsStore`). TLC has checked that invariant
  on the instance of `cookie_store` too.

The same module proves, about `Supervision` for every number of mishaps, where the run has
three:

- `StacksByOverlap`: `StackedOnlyByOverlap`. Unless mounters have met, at most one has set
  out, and only while nothing is mounted (`OneAtATime`). `main` is the one mounter that does
  not ask whether others are at it; that it need not is `StartsAlone`: until it runs, the
  checkers are idle and the supervisor waits, and the launcher is of the other mode.
- `LiveMountSpared`: the action property `SparesLiveMount`. Between the supervisor's second
  look and its forced unmount any mount there is, is excused (`ClearExcused`).
- `ServiceTypeCorrect`: the type invariant. The three follow from `SupervisionInvariant`.
- `RestartsArePrepared`: a watchdog that wakes up has the handles of both servers, and what
  it spawns finds neither port taken by a server that lives on. The inductive `HandlesKept`
  says that nothing stirs the watchdog before `main` has kept the handles, and that it is
  without them only from the abort to the respawn. So the branch of `Respawn` for a server
  whose port is still held is never taken.

`CloudUploadProofs` proves, for every size of body and of part and every bound on retries
and faults:

- `PartsAreBody`: the parts a body is cut into, in order, are the body. No induction over
  the parts is needed: byte `b` lies in part `b \div PartSize + 1` and in no other.
- `PublishesWhole` (`PublishedIsWhole`) and `FailureCleansUp` (`FailedLeavesNothing`), from
  `UploadInvariant`: what the client has tags for, and what the cloud has stored, are the
  first parts of the body, each with its own bytes, and from the commit on all of them
  (`Types`); what is committed or published is the whole body (`WholeOnly`); before the call
  of the commit nothing is committed (`CommittedLate`); the old file goes last
  (`OldGoesLast`).
- `UploadReplaces`: `Replaces`, the refinement of `AtomicReplace`. A call that the cloud
  carries out and never answers is the hard step: the abstract file appears with the cloud's
  step, not with the client's.
- `UploadTypeCorrect`: the type invariant.
- `UploadDescends`: each step of an upload under way, whatever fails, is refused or lost,
  leaves fewer calls to come (`CallsLeft`) or, during a call, fewer tries of it
  (`TriesLeft`); a login alone leaves both as they are.

`RenameProofs` proves, for every set of names and directories, every set of files and
requests, under `RenameAssumption`:

- `MovesSettle`: `SettlesWhereMoved`. The file need not be where it is wanted while MOVE or
  task are at work; `RenameInvariant` says that an undisturbed file is there in the
  components already set, and that those still to be set are in the hands of one request
  or of one note (`Tracks`), that one request at most has it in hand (`OneInHand`), and
  that a note always carries the last MOVE's target (`NotesLast`). What an upload is to
  replace is, undisturbed, in nobody else's hands and wanted where the upload goes
  (`Replaces`).
- `OverlayIsTrue`: `OverlayTrueUnlessMoved`, with `RegistersLast`: only a task that is done
  has registered its file, where it took it to be.
- `RenameTypeCorrect`: the type invariant, with `UnbornUnseen` (a file before its upload is
  in no listing).

`DirCacheProofs` proves, for every set of readers, invalidators and MKCOLs (the last finite:
the bound counts them), every time to live, delay and lag:

- `CacheImplementsPromise`: `BoundedStaleness`, the refinement of `StaleListing`. The step
  that answers needs the inductive `ListingsAge`, which follows a listing through the
  tiers. With `Round = 2 * (Ttl + MaxDelay) - 1` and `Base` the lag plus one `Round` for
  each MKCOL that has stored a listing so far, an entry of age `a` misses nothing older than

      Base + a                             on its way into the cache
      Base + MaxDelay + a                  on disk and in a spawned write
      Base + MaxDelay + Ttl + a            on its way from disk to moka
      Base + MaxDelay + Ttl + MaxDelay + a in moka, where a < Ttl

  A MKCOL takes what it finds in moka, extends it and stores it as new, which is what the
  last line allows and the first, with one `Round` more, takes up again; it does so once.
- `CacheTypeCorrect`: the type invariant.

`CacheWalkProofs` proves, for every tree of directories, any number of lookups, MKCOLs and
DELETEs at once (the run has one request) and any bound on faults:

- `NotFoundIsFair`: `NotFoundOnlyIfAbsent`. Of a lookup that has no excuse (the folder was
  absent or not shown at some moment, a call failed, a listing was dropped) the inductive
  `LookupInvariant` says at each of its steps that it is on its way: the folder it looks for
  exists (`Sought`); while it climbs it is at a folder above the wanted one (`Climbs`);
  while it walks, either the wanted folder has been listed or the list of calls still to
  make has a folder above it (`Walks`); what it has fetched is in the cache (`Fetched`).
  The step that matters is a complete listing of a folder above the wanted one: it adds
  the child on the way, because the comparison by string prefix, however coarse, never
  leaves out a true ancestor (`WayOn`).
- `WalkTypeCorrect`: the type invariant, and with it that the drive stays a tree.

The assumptions of `CacheWalk` are that paths are a finite set of sequences of names whose
prefixes are folders of the model, that the drive starts as a tree, and that the bounds are
numbers.

Each theorem rests on a step lemma `Inv /\ [Next]_vars => Inv'`, with one step per action
that touches what the invariant mentions, combined by temporal logic. Every inductive
invariant was checked by TLC on the instance of its module's run before it was proved;
`WInv` on that of `cache_walks`, and with two requests on part of the states
(more than three million).

*Model-checked only:* the liveness properties (`QueuedIsAnswered`, `ServersRecover`,
`MountRecovers`, `UploadEnds`, `LookupsEnd`, `CatchesUp`, `GetEnds`): fairness and
`ENABLED` are beyond the prover. Of four of them the safety they rest on is proved, for
every value of the constants and not for the run's alone: a measure that no step raises and
each step of the component lowers (`UploadDescends` for `UploadEnds`, `GetsDescend` for
`GetEnds`), a lock that only somebody at work has (`LockIsReleased` for
`QueuedIsAnswered`), handles that are there when they are needed (`RestartsArePrepared` for
`ServersRecover`). What remains to TLC is that a step is enabled and fairness takes it. Of
`MountRecovers`, `LookupsEnd` and `CatchesUp` nothing like it is proved: the first two come
to rest only with the environment's faults, the last with a timer.
