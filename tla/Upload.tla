------------------------------- MODULE Upload -------------------------------
(***************************************************************************)
(* The write path of the WebDAV file system (vfs.rs): concurrent PUT       *)
(* requests for ONE dav path, each a QuarkDavFile handle that opens, takes *)
(* a body, and flushes under the path's write lock into a multi-step cloud *)
(* upload that a spawned task finishes, possibly after the client has been *)
(* answered.  DELETE requests for the path run beside them without the     *)
(* lock.                                                                   *)
(*                                                                         *)
(* One action is the code between two awaits that another actor can slip   *)
(* into.  The cloud is modelled by how the code uses it: file ids (fids)   *)
(* are numbers handed out in increasing order, 0 is the empty fid, and the *)
(* same-name files of the path are the members of cloudLive.               *)
(***************************************************************************)
EXTENDS Integers, FiniteSets

CONSTANTS
    Puts,               \* PUT requests to the path, one QuarkDavFile each
    Bodies,             \* bodies a client may send: [size, md5]
    UploadWaitTimeout,  \* upload_wait_timeout in seconds, 0 waits for ever
    Aborts,             \* connections may drop and temp-file writes may fail
    FreshListing,       \* the cloud's list API reflects every change at once
    InitialFile,        \* the path holds a file (fid 1) before the first PUT
    InitialMd5,         \* md5 of that file
    MaxDeletes          \* bound on the DELETE requests

Sizes == {"empty", "small", "large"}  \* 0 bytes, < 1_024_000 bytes, the rest

ASSUME BodiesAssumption == \A b \in Bodies : b.size \in Sizes
ASSUME BoolAssumption   == /\ Aborts \in BOOLEAN
                           /\ FreshListing \in BOOLEAN
                           /\ InitialFile \in BOOLEAN
ASSUME NatAssumption    == UploadWaitTimeout \in Nat /\ MaxDeletes \in Nat

VARIABLES
    \* The handles.
    pc,                 \* where the PUT handler stands
    body,               \* the body the client sends
    fid,                \* self.file.fid
    old,                \* old_fid of do_flush
    new,                \* the fid up_pre answered
    gen,                \* upload_state.generation
    task,               \* where the spawned upload task stands
    \* State of the file system shared by the handles.
    write_lock,         \* holder of the path's mutex: {} or {p}
    upload_generation,  \* write-folding counter of the path
    uploading,          \* number of entries of this name in `uploading`
    active_writes,      \* overlay entry of the path: {} or {entry}
    dir_cache,          \* cached listing of the parent: {} or {set of fids}
    \* The cloud.
    cloudLive,          \* fids of finished files of this name
    cloudPending,       \* fids handed out by up_pre and not finished
    cloudListed,        \* what the list API answers when it lags
    nextFid,            \* next fid the cloud hands out
    \* DELETE requests.
    deleting,           \* fid a DELETE has looked up and will remove
    deletes,            \* DELETE requests so far
    \* History, read by the properties only.
    finished,           \* fids whose upload the cloud confirmed
    erased              \* fids removed by a DELETE

handleVars == <<body, fid, old, new, gen>>
cloudVars  == <<cloudLive, cloudPending, nextFid, finished>>
deleteVars == <<deleting, deletes, erased>>
vars == <<pc, handleVars, task, write_lock, upload_generation, uploading,
          active_writes, dir_cache, cloudVars, cloudListed, deleteVars>>

NoFid == 0
Entry == [fid : Nat, size : {"zero", "real"}, aged : BOOLEAN]

\* The answers a PUT can end with: the upload's own result, md5 unchanged,
\* probe, folded, Ok ahead of the upload, error, connection gone.
Answered == {"ok", "skipped", "probed", "folded", "early", "failed", "gone"}
InFlush  == {"entry", "captured", "md5", "pre", "hash",
             "instant", "afterInstant", "waiting"}
PutPc    == {"idle", "listed", "body", "writing", "queued", "cleanup"}
                \cup InFlush \cup Answered
Running  == {"chunks", "commit", "finish", "orphan", "removeOld", "publish"}
TaskPc   == {"none", "done", "failed"} \cup Running

Init ==
    /\ pc = [p \in Puts |-> "idle"]
    /\ body \in [Puts -> Bodies]
    /\ fid = [p \in Puts |-> NoFid]
    /\ old = [p \in Puts |-> NoFid]
    /\ new = [p \in Puts |-> NoFid]
    /\ gen = [p \in Puts |-> 0]
    /\ task = [p \in Puts |-> "none"]
    /\ write_lock = {}
    /\ upload_generation = 0
    /\ uploading = 0
    /\ active_writes = {}
    /\ dir_cache = {}
    /\ cloudLive = IF InitialFile THEN {1} ELSE {}
    /\ cloudPending = {}
    /\ cloudListed = cloudLive
    /\ nextFid = IF InitialFile THEN 2 ELSE 1
    /\ finished = cloudLive
    /\ deleting = {}
    /\ deletes = 0
    /\ erased = {}

-----------------------------------------------------------------------------
\* Helpers of the file system.

\* A fetch of the parent's listing from the cloud.
Listing == IF FreshListing THEN cloudLive ELSE cloudListed

\* The listing get_or_insert answers: the cached one, else a fetched one.
ParentListing == IF dir_cache = {} THEN {Listing} ELSE dir_cache

\* The first same-name file of a listing (any of them), or no file.
FirstMatch(L) == IF L = {} THEN {NoFid} ELSE L

\* Mutation: the entry is taken off without looking whether it is there.
RemoveUploadingUnchecked(k) == uploading - k

\* remove_uploading_file, k times: one entry of the name goes each time.
RemoveUploading(k) == IF uploading < k THEN 0 ELSE uploading - k

\* register_active_write: a fresh entry replaces the path's own.
RegisterActiveWrite(f, size) ==
    active_writes' = {[fid |-> f, size |-> size, aged |-> FALSE]}

\* Mutation: after_flush forgets the placeholder.
AfterFlushKeepsPlaceholder ==
    /\ UNCHANGED uploading
    /\ dir_cache' = {}

\* after_flush: the placeholder goes and the parent's listing is dropped.
AfterFlush ==
    /\ uploading' = RemoveUploading(1)
    /\ dir_cache' = {}

\* The handler of p moves to pc value c.
Goto(p, c) == pc' = [pc EXCEPT ![p] = c]

\* Mutation: the guard outlives the handler.
LeaveLocked(p, c) ==
    /\ Goto(p, c)
    /\ UNCHANGED write_lock

\* p leaves the critical section for pc value c.
Leave(p, c) ==
    /\ Goto(p, c)
    /\ write_lock' = write_lock \ {p}

\* prepare_for_upload: the first byte (or an empty flush) takes a generation.
PrepareForUpload(p) ==
    /\ upload_generation' = upload_generation + 1
    /\ gen' = [gen EXCEPT ![p] = upload_generation + 1]

-----------------------------------------------------------------------------
\* open and write_buf.

\* open looks the path up in the parent's listing, fetching it if needed.
Lookup(p) ==
    /\ pc[p] = "idle"
    /\ \E L \in ParentListing : \E f \in FirstMatch(L) :
         /\ dir_cache' = {L}
         /\ fid' = [fid EXCEPT ![p] = f]
    /\ Goto(p, "listed")
    /\ UNCHANGED <<body, old, new, gen, task, write_lock, upload_generation,
                   uploading, active_writes, cloudVars, cloudListed, deleteVars>>

\* open falls back to a fresh overlay entry, then to an uploading placeholder,
\* and else creates the file, pushing a placeholder of its own.
Open(p) ==
    /\ pc[p] = "listed"
    /\ \/ /\ fid[p] # NoFid
          /\ UNCHANGED <<fid, uploading>>
       \/ /\ fid[p] = NoFid
          /\ \E e \in active_writes :
               /\ ~e.aged
               /\ fid' = [fid EXCEPT ![p] = e.fid]
          /\ UNCHANGED uploading
       \/ /\ fid[p] = NoFid
          /\ \A e \in active_writes : e.aged
          /\ uploading' = IF uploading > 0 THEN uploading ELSE 1
          /\ UNCHANGED fid
    /\ Goto(p, "body")
    /\ UNCHANGED <<body, old, new, gen, task, write_lock, upload_generation,
                   active_writes, dir_cache, cloudVars, cloudListed, deleteVars>>

\* The first write_buf of a body that has bytes.
WriteBuf(p) ==
    /\ pc[p] = "body"
    /\ body[p].size # "empty"
    /\ PrepareForUpload(p)
    /\ Goto(p, "writing")
    /\ UNCHANGED <<body, fid, old, new, task, write_lock, uploading,
                   active_writes, dir_cache, cloudVars, cloudListed, deleteVars>>

\* flush of a complete body queues for the path's lock; an empty body takes
\* its generation only now.
Flush(p) ==
    /\ \/ /\ pc[p] = "writing"
          /\ UNCHANGED <<gen, upload_generation>>
       \/ /\ pc[p] = "body"
          /\ body[p].size = "empty"
          /\ PrepareForUpload(p)
    /\ Goto(p, "queued")
    /\ UNCHANGED <<body, fid, old, new, task, write_lock, uploading,
                   active_writes, dir_cache, cloudVars, cloudListed, deleteVars>>

-----------------------------------------------------------------------------
\* flush under the lock.

\* Mutation: the comparison also holds for the newest generation.
ObsoleteOrNewest(p) ==
    upload_generation >= gen[p] /\ body[p].size # "large"

\* A newer PUT of the path has started and this one is below 1_024_000 bytes.
Obsolete(p) == upload_generation > gen[p] /\ body[p].size # "large"

\* Write folding: a newer PUT of the path has started, so this one is answered
\* Ok without an upload and the lock is released at once.
Fold(p) ==
    /\ pc[p] = "queued"
    /\ write_lock = {}
    /\ Obsolete(p)
    /\ uploading' = RemoveUploading(1)
    /\ Goto(p, "folded")
    /\ UNCHANGED <<handleVars, task, write_lock, upload_generation,
                   active_writes, dir_cache, cloudVars, cloudListed, deleteVars>>

\* Mutation: the guard is not awaited.
AcquireUnguarded(p) ==
    /\ pc[p] = "queued"
    /\ ~Obsolete(p)
    /\ write_lock' = {p}
    /\ Goto(p, "entry")
    /\ UNCHANGED <<handleVars, task, upload_generation, uploading,
                   active_writes, dir_cache, cloudVars, cloudListed, deleteVars>>

\* The lock is free and this upload is still wanted: do_flush begins.
Acquire(p) ==
    /\ pc[p] = "queued"
    /\ write_lock = {}
    /\ ~Obsolete(p)
    /\ write_lock' = {p}
    /\ Goto(p, "entry")
    /\ UNCHANGED <<handleVars, task, upload_generation, uploading,
                   active_writes, dir_cache, cloudVars, cloudListed, deleteVars>>

\* A 0-byte PUT only leaves a placeholder in the overlay.
Probe(p) ==
    /\ pc[p] = "entry"
    /\ body[p].size = "empty"
    /\ RegisterActiveWrite(NoFid, "zero")
    /\ Leave(p, "probed")
    /\ UNCHANGED <<handleVars, task, upload_generation, uploading, dir_cache,
                   cloudVars, cloudListed, deleteVars>>

\* P2-3: a handle opened as brand new whose path has an overlay entry lists
\* the parent again and adopts the fid of a same-name file.  P2-2: the old fid
\* is captured before up_pre overwrites self.file.fid.
CaptureOld(p) ==
    /\ pc[p] = "entry"
    /\ body[p].size # "empty"
    /\ \/ /\ fid[p] = NoFid
          /\ active_writes # {}
          /\ dir_cache' = {Listing}
          /\ \E f \in FirstMatch(Listing) :
               /\ fid' = [fid EXCEPT ![p] = f]
               /\ old' = [old EXCEPT ![p] = f]
       \/ /\ fid[p] # NoFid \/ active_writes = {}
          /\ old' = [old EXCEPT ![p] = fid[p]]
          /\ UNCHANGED <<fid, dir_cache>>
    /\ Goto(p, "captured")
    /\ UNCHANGED <<body, new, gen, task, write_lock, upload_generation,
                   uploading, active_writes, cloudVars, cloudListed, deleteVars>>

\* The overlay entry of the path is dropped before the real upload.
ClearPlaceholder(p) ==
    /\ pc[p] = "captured"
    /\ active_writes' = {}
    /\ Goto(p, IF fid[p] = NoFid THEN "pre" ELSE "md5")
    /\ UNCHANGED <<handleVars, task, write_lock, upload_generation, uploading,
                   dir_cache, cloudVars, cloudListed, deleteVars>>

\* md5 of a cloud file: that of the body it was uploaded from.
HasMd5(f, m) ==
    \/ InitialFile /\ f = 1 /\ m = InitialMd5
    \/ \E q \in Puts : new[q] = f /\ body[q].md5 = m

\* The cloud's copy already has this content: nothing is uploaded.
Md5Same(p) ==
    /\ pc[p] = "md5"
    /\ fid[p] \in cloudLive
    /\ HasMd5(fid[p], body[p].md5)
    /\ AfterFlush
    /\ Leave(p, "skipped")
    /\ UNCHANGED <<handleVars, task, upload_generation, active_writes,
                   cloudVars, cloudListed, deleteVars>>

\* The md5 differs, is not available, or the query fails.
Md5Differs(p) ==
    /\ pc[p] = "md5"
    /\ Goto(p, "pre")
    /\ UNCHANGED <<handleVars, task, write_lock, upload_generation, uploading,
                   active_writes, dir_cache, cloudVars, cloudListed, deleteVars>>

\* up_pre fails: do_flush returns the error and the lock is dropped.
PreFails(p) ==
    /\ pc[p] = "pre"
    /\ Leave(p, "cleanup")
    /\ UNCHANGED <<handleVars, task, upload_generation, uploading,
                   active_writes, dir_cache, cloudVars, cloudListed, deleteVars>>

\* up_pre answers finish (instant upload): a new file, or the old one again.
\* self.file.fid is not updated on this branch.
PreInstant(p) ==
    /\ pc[p] = "pre"
    /\ \/ /\ new' = [new EXCEPT ![p] = nextFid]
          /\ nextFid' = nextFid + 1
          /\ cloudLive' = cloudLive \cup {nextFid}
          /\ finished' = finished \cup {nextFid}
       \/ /\ old[p] \in cloudLive
          /\ new' = [new EXCEPT ![p] = old[p]]
          /\ UNCHANGED <<nextFid, cloudLive, finished>>
    /\ Goto(p, "instant")
    /\ UNCHANGED <<body, fid, old, gen, task, write_lock, upload_generation,
                   uploading, active_writes, dir_cache, cloudPending,
                   cloudListed, deleteVars>>

\* up_pre hands out a fid and an upload task.
PreStarts(p) ==
    /\ pc[p] = "pre"
    /\ new' = [new EXCEPT ![p] = nextFid]
    /\ fid' = [fid EXCEPT ![p] = nextFid]
    /\ nextFid' = nextFid + 1
    /\ cloudPending' = cloudPending \cup {nextFid}
    /\ Goto(p, "hash")
    /\ UNCHANGED <<body, old, gen, task, write_lock, upload_generation,
                   uploading, active_writes, dir_cache, cloudLive, finished,
                   cloudListed, deleteVars>>

\* up_pre's answer has no upload_id, or up_hash fails: the pending cloud file
\* is left behind.
HashFails(p) ==
    /\ pc[p] = "hash"
    /\ Leave(p, "cleanup")
    /\ UNCHANGED <<handleVars, task, upload_generation, uploading,
                   active_writes, dir_cache, cloudVars, cloudListed, deleteVars>>

\* The file new[p] becomes a finished file of the cloud.
CloudFinishes(p) ==
    /\ cloudLive' = cloudLive \cup {new[p]}
    /\ cloudPending' = cloudPending \ {new[p]}

\* up_hash answers finish: the cloud knows the content.
HashInstant(p) ==
    /\ pc[p] = "hash"
    /\ CloudFinishes(p)
    /\ finished' = finished \cup {new[p]}
    /\ Goto(p, "instant")
    /\ UNCHANGED <<handleVars, task, write_lock, upload_generation, uploading,
                   active_writes, dir_cache, nextFid, cloudListed, deleteVars>>

\* Mutation: the old # new guard is dropped.
ReplacedUnguarded(p) == {old[p]} \ {NoFid}

\* The file an upload replaces, never the uploaded file itself.
Replaced(p) == {old[p]} \ {NoFid, new[p]}

\* remove_file of the replaced file; a failure is logged and ignored.
RemoveReplaced(p) ==
    \/ /\ cloudLive' = cloudLive \ Replaced(p)
       /\ cloudPending' = cloudPending \ Replaced(p)
    \/ UNCHANGED <<cloudLive, cloudPending>>

\* Instant upload, first half: the old file is removed.
InstantRemovesOld(p) ==
    /\ pc[p] = "instant"
    /\ RemoveReplaced(p)
    /\ Goto(p, "afterInstant")
    /\ UNCHANGED <<handleVars, task, write_lock, upload_generation, uploading,
                   active_writes, dir_cache, nextFid, finished, cloudListed,
                   deleteVars>>

\* Instant upload, second half: after_flush resets upload_state, so the entry
\* registered next carries the default size 0 and self.file.fid.
InstantAnswers(p) ==
    /\ pc[p] = "afterInstant"
    /\ AfterFlush
    /\ RegisterActiveWrite(fid[p], "zero")
    /\ Leave(p, "ok")
    /\ UNCHANGED <<handleVars, task, upload_generation, cloudVars, cloudListed,
                   deleteVars>>

\* up_hash wants the bytes: the upload task is spawned and the handler waits for it.
Spawn(p) ==
    /\ pc[p] = "hash"
    /\ task' = [task EXCEPT ![p] = "chunks"]
    /\ Goto(p, "waiting")
    /\ UNCHANGED <<handleVars, write_lock, upload_generation, uploading,
                   active_writes, dir_cache, cloudVars, cloudListed, deleteVars>>

\* Mutation: the join result is taken for the task's own result.
TaskReportsJoin(p) ==
    /\ pc[p] = "waiting"
    /\ task[p] \in {"done", "failed"}
    /\ Leave(p, "ok")
    /\ UNCHANGED <<handleVars, task, upload_generation, uploading,
                   active_writes, dir_cache, cloudVars, cloudListed, deleteVars>>

\* The task ended within upload_wait_timeout: its result is the answer.
TaskReports(p) ==
    /\ pc[p] = "waiting"
    /\ \/ task[p] = "done" /\ Leave(p, "ok")
       \/ task[p] = "failed" /\ Leave(p, "cleanup")
    /\ UNCHANGED <<handleVars, task, upload_generation, uploading,
                   active_writes, dir_cache, cloudVars, cloudListed, deleteVars>>

\* upload_wait_timeout passed: the client is answered Ok and the lock is
\* released while the task goes on.
WaitTimesOut(p) ==
    /\ pc[p] = "waiting"
    /\ UploadWaitTimeout > 0
    /\ task[p] \in Running
    /\ Leave(p, "early")
    /\ UNCHANGED <<handleVars, task, upload_generation, uploading,
                   active_writes, dir_cache, cloudVars, cloudListed, deleteVars>>

\* flush runs after_flush on an error, after it has dropped the lock.
CleanUp(p) ==
    /\ pc[p] = "cleanup"
    /\ AfterFlush
    /\ Goto(p, "failed")
    /\ UNCHANGED <<handleVars, task, write_lock, upload_generation,
                   active_writes, cloudVars, cloudListed, deleteVars>>

\* The request is dropped at one of its awaits, or a write to the temp file
\* fails before flush is called.  A spawned task is not affected.
Abort(p) ==
    /\ Aborts
    /\ pc[p] \notin Answered \cup {"idle"}
    /\ Leave(p, "gone")
    /\ UNCHANGED <<handleVars, task, upload_generation, uploading,
                   active_writes, dir_cache, cloudVars, cloudListed, deleteVars>>

-----------------------------------------------------------------------------
\* The spawned upload task.

TaskGoto(p, s) == task' = [task EXCEPT ![p] = s]

\* Every chunk is uploaded.
ChunksDone(p) ==
    /\ task[p] = "chunks"
    /\ TaskGoto(p, "commit")
    /\ UNCHANGED <<pc, handleVars, write_lock, upload_generation, uploading,
                   active_writes, dir_cache, cloudVars, cloudListed, deleteVars>>

\* A chunk fails, or the task panics on the commit's authorisation: nothing is
\* cleaned up.
TaskDies(p) ==
    /\ task[p] \in {"chunks", "commit"}
    /\ TaskGoto(p, "failed")
    /\ UNCHANGED <<pc, handleVars, write_lock, upload_generation, uploading,
                   active_writes, dir_cache, cloudVars, cloudListed, deleteVars>>

\* A part answers "finish": the file is there already, and the old file and
\* pending renames are not looked at.
EarlyFinish(p) ==
    /\ task[p] = "chunks"
    /\ CloudFinishes(p)
    /\ finished' = finished \cup {new[p]}
    /\ RegisterActiveWrite(new[p], "real")
    /\ AfterFlush
    /\ TaskGoto(p, "done")
    /\ UNCHANGED <<pc, handleVars, write_lock, upload_generation, nextFid,
                   cloudListed, deleteVars>>

\* The commit succeeds, or fails and the new file is to be removed.
Commit(p) ==
    /\ task[p] = "commit"
    /\ \E s \in {"finish", "orphan"} : TaskGoto(p, s)
    /\ UNCHANGED <<pc, handleVars, write_lock, upload_generation, uploading,
                   active_writes, dir_cache, cloudVars, cloudListed, deleteVars>>

\* finish succeeds: from here on the new file stands in for the old one.
Finish(p) ==
    /\ task[p] = "finish"
    /\ CloudFinishes(p)
    /\ finished' = finished \cup {new[p]}
    /\ TaskGoto(p, "removeOld")
    /\ UNCHANGED <<pc, handleVars, write_lock, upload_generation, uploading,
                   active_writes, dir_cache, nextFid, cloudListed, deleteVars>>

\* finish fails, with or without having taken effect in the cloud.
FinishFails(p) ==
    /\ task[p] = "finish"
    /\ CloudFinishes(p) \/ UNCHANGED <<cloudLive, cloudPending>>
    /\ TaskGoto(p, "orphan")
    /\ UNCHANGED <<pc, handleVars, write_lock, upload_generation, uploading,
                   active_writes, dir_cache, nextFid, finished, cloudListed,
                   deleteVars>>

\* Commit or finish failed: the new file is removed (or that fails too).
RemoveOrphan(p) ==
    /\ task[p] = "orphan"
    /\ \/ /\ cloudLive' = cloudLive \ {new[p]}
          /\ cloudPending' = cloudPending \ {new[p]}
       \/ UNCHANGED <<cloudLive, cloudPending>>
    /\ TaskGoto(p, "failed")
    /\ UNCHANGED <<pc, handleVars, write_lock, upload_generation, uploading,
                   active_writes, dir_cache, nextFid, finished, cloudListed,
                   deleteVars>>

\* The new file is confirmed: the old one is removed.
RemoveOld(p) ==
    /\ task[p] = "removeOld"
    /\ RemoveReplaced(p)
    /\ TaskGoto(p, "publish")
    /\ UNCHANGED <<pc, handleVars, write_lock, upload_generation, uploading,
                   active_writes, dir_cache, nextFid, finished, cloudListed,
                   deleteVars>>

\* The overlay shows the new file, the placeholder is removed twice and the
\* listing is dropped.  No rename is pending: a rename of this path is not
\* part of this module.
Publish(p) ==
    /\ task[p] = "publish"
    /\ RegisterActiveWrite(new[p], "real")
    /\ uploading' = RemoveUploading(2)
    /\ dir_cache' = {}
    /\ TaskGoto(p, "done")
    /\ UNCHANGED <<pc, handleVars, write_lock, upload_generation, cloudVars,
                   cloudListed, deleteVars>>

-----------------------------------------------------------------------------
\* DELETE, which does not take the write lock, one request at a time.

\* remove_file finds the file in the parent's listing.
DeleteLookup ==
    /\ deletes < MaxDeletes
    /\ deleting = {}
    /\ \E L \in ParentListing : \E f \in L :
         /\ dir_cache' = {L}
         /\ deleting' = {f}
    /\ deletes' = deletes + 1
    /\ UNCHANGED <<pc, handleVars, task, write_lock, upload_generation,
                   uploading, active_writes, cloudVars, cloudListed, erased>>

\* It removes that file from the cloud and clears both overlays, or fails.
DeleteRemoves ==
    /\ deleting # {}
    /\ \/ /\ cloudLive' = cloudLive \ deleting
          /\ cloudPending' = cloudPending \ deleting
          /\ erased' = erased \cup deleting
          /\ active_writes' = {}
          /\ AfterFlush
       \/ UNCHANGED <<cloudLive, cloudPending, erased, active_writes,
                      uploading, dir_cache>>
    /\ deleting' = {}
    /\ UNCHANGED <<pc, handleVars, task, write_lock, upload_generation,
                   nextFid, finished, cloudListed, deletes>>

\* It finds the path only in the overlay: both placeholders go.
DeletePlaceholder ==
    /\ deletes < MaxDeletes
    /\ deleting = {}
    /\ \E L \in ParentListing : L = {} /\ dir_cache' = {L}
    /\ active_writes # {}
    /\ active_writes' = {}
    /\ uploading' = RemoveUploading(1)
    /\ deletes' = deletes + 1
    /\ UNCHANGED <<pc, handleVars, task, write_lock, upload_generation,
                   cloudVars, cloudListed, deleting, erased>>

-----------------------------------------------------------------------------
\* Time and the rest of the world.

\* 45 seconds pass over the overlay entry.
EntryAges ==
    /\ \E e \in active_writes :
         /\ ~e.aged
         /\ active_writes' = {[e EXCEPT !.aged = TRUE]}
    /\ UNCHANGED <<pc, handleVars, task, write_lock, upload_generation,
                   uploading, dir_cache, cloudVars, cloudListed, deleteVars>>

\* A write to another path purges an aged entry (register_active_write).
EntryPurged ==
    /\ \E e \in active_writes : e.aged
    /\ active_writes' = {}
    /\ UNCHANGED <<pc, handleVars, task, write_lock, upload_generation,
                   uploading, dir_cache, cloudVars, cloudListed, deleteVars>>

\* The cached listing expires, or another file of the directory changes.
ListingDropped ==
    /\ dir_cache # {}
    /\ dir_cache' = {}
    /\ UNCHANGED <<pc, handleVars, task, write_lock, upload_generation,
                   uploading, active_writes, cloudVars, cloudListed, deleteVars>>

\* The lagging list API catches up; it may show files not finished yet.
ListingCatchesUp ==
    /\ ~FreshListing
    /\ \E S \in SUBSET cloudPending : cloudListed' = cloudLive \cup S
    /\ UNCHANGED <<pc, handleVars, task, write_lock, upload_generation,
                   uploading, active_writes, dir_cache, cloudVars, deleteVars>>

-----------------------------------------------------------------------------

\* A step of p's request handler that the client does not decide.
Handler(p) ==
    \/ Lookup(p) \/ Open(p)
    \/ Fold(p) \/ Acquire(p) \/ Probe(p) \/ CaptureOld(p)
    \/ ClearPlaceholder(p) \/ Md5Same(p) \/ Md5Differs(p)
    \/ PreFails(p) \/ PreInstant(p) \/ PreStarts(p)
    \/ HashFails(p) \/ HashInstant(p) \/ InstantRemovesOld(p)
    \/ InstantAnswers(p) \/ Spawn(p) \/ TaskReports(p)
    \/ WaitTimesOut(p) \/ CleanUp(p)

\* A step of p's client: it sends the body, or goes away.
Client(p) == WriteBuf(p) \/ Flush(p) \/ Abort(p)

\* A step of p's upload task.
UploadTask(p) ==
    \/ ChunksDone(p) \/ TaskDies(p) \/ EarlyFinish(p) \/ Commit(p)
    \/ Finish(p) \/ FinishFails(p) \/ RemoveOrphan(p) \/ RemoveOld(p)
    \/ Publish(p)

Environment ==
    \/ DeleteLookup \/ DeleteRemoves \/ DeletePlaceholder
    \/ EntryAges \/ EntryPurged \/ ListingDropped \/ ListingCatchesUp

Next ==
    \/ \E p \in Puts : Handler(p) \/ Client(p) \/ UploadTask(p)
    \/ Environment

Spec == Init /\ [][Next]_vars

\* Every remote call returns (the HTTP client has a 300 s timeout), so the
\* runtime keeps a handler and a task going; nothing obliges the client.
Fairness == \A p \in Puts : WF_vars(Handler(p)) /\ WF_vars(UploadTask(p))

FairSpec == Spec /\ Fairness
-----------------------------------------------------------------------------
\* Properties.

\* Every variable has its type; fids in the state are ones the cloud gave out.
TypeOK ==
    /\ pc \in [Puts -> PutPc]
    /\ body \in [Puts -> Bodies]
    /\ fid \in [Puts -> Nat]
    /\ old \in [Puts -> Nat]
    /\ new \in [Puts -> Nat]
    /\ gen \in [Puts -> Nat]
    /\ task \in [Puts -> TaskPc]
    /\ write_lock \in SUBSET Puts
    /\ upload_generation \in Nat
    /\ uploading \in Nat
    /\ active_writes \in SUBSET Entry
    /\ dir_cache \in SUBSET SUBSET Nat
    /\ cloudLive \in SUBSET Nat
    /\ cloudPending \in SUBSET Nat
    /\ cloudListed \in SUBSET Nat
    /\ nextFid \in Nat
    /\ deleting \in SUBSET Nat
    /\ deletes \in Nat
    /\ finished \in SUBSET Nat
    /\ erased \in SUBSET Nat

\* P2-2: overwriting never loses the path's content.  Whatever fails, times
\* out, is dropped or runs concurrently, the newest file whose upload the
\* cloud confirmed is still there unless a DELETE removed that very file.
NewestKept ==
    \A f \in finished :
        (\A g \in finished : g <= f) => f \in cloudLive \cup erased

\* The upload of p is under way, in the handler or in the spawned task.
UploadInFlight(p) == pc[p] \in InFlush \/ task[p] \in Running

\* PUTs to the path are serialized end-to-end: two uploads are never under
\* way at once (the write_locks comment of QuarkDriveFileSystem).
SerializedEndToEnd ==
    \A p, q \in Puts : UploadInFlight(p) /\ UploadInFlight(q) => p = q

\* The cloud file the answer of p rests on.
Backing(p) == IF pc[p] = "skipped" THEN old[p] ELSE new[p]

\* A PUT answered with its own result is durable: its file is in the cloud,
\* or a later upload was confirmed, or a DELETE removed it.
AckDurable ==
    \A p \in Puts : pc[p] \in {"ok", "skipped"} =>
        \/ Backing(p) \in cloudLive \cup erased
        \/ \E g \in finished : g > Backing(p)

\* Write folding only drops a PUT for the sake of a newer one that is itself
\* never dropped by folding.
FoldHasHeir ==
    \A p \in Puts : pc[p] = "folded" =>
        \E q \in Puts : gen[q] > gen[p] /\ gen[q] = upload_generation
                          /\ pc[q] # "folded"

AllAnswered == \A p \in Puts : pc[p] \in Answered /\ task[p] \notin Running

\* No placeholder outlives its request: once every PUT is answered, and none
\* of them was a probe, the path is gone from `uploading`.
UploadingDrains ==
    AllAnswered /\ (\A p \in Puts : pc[p] # "probed") => uploading = 0

\* A queued PUT is answered (or its client goes away).
QueuedIsAnswered ==
    \A p \in Puts : pc[p] = "queued" ~> pc[p] \in Answered

\* C2: the old file of an overwrite is removed by one PUT only.
ReplacedOnce ==
    \A p, q \in Puts :
        /\ pc[p] = "ok" /\ Replaced(p) # {}
        /\ pc[q] = "ok" /\ Replaced(q) = Replaced(p)
        => p = q
=============================================================================
