------------------------------- MODULE DirCache -------------------------------
(***************************************************************************)
(* The two-tier directory cache (cache.rs): an in-memory moka cache over   *)
(* JSON files on disk, for the listing of ONE directory.  Reads look at    *)
(* moka, then at the disk (promoting a hit back into moka), then fetch     *)
(* from the cloud; a fetched listing goes to moka at once and to the disk  *)
(* by a spawned task.  Changes of the directory drop both tiers after the  *)
(* cloud call, one await at a time.  The process may restart, which loses  *)
(* moka and the spawned tasks and keeps the disk.                          *)
(*                                                                         *)
(* A listing is the set of changes of the directory that it shows.  The    *)
(* code compares time stamps with the clock; the model keeps the ages      *)
(* themselves, each only as far as a comparison can tell it apart.         *)
(***************************************************************************)
EXTENDS Integers, FiniteSets

CONSTANTS
    Readers,        \* concurrent get_or_insert calls for the directory
    Invalidators,   \* PUT, DELETE and MOVE requests in the directory, and changes
                    \* by other clients, which do not get to the invalidation
    Mkdirs,         \* MKCOL requests in the directory
    Ttl,            \* time_to_live of moka and disk_ttl
    MaxDelay,       \* longest time between reading a listing and storing it
    MaxLag,         \* how long the cloud's list API may not show a change
    MaxWrites       \* bound: disk writes on their way

Changes == Invalidators \cup Mkdirs
Getters == Readers \cup Mkdirs
Clients == Readers \cup Changes

ASSUME TimesAssumption ==
    Ttl \in Nat \ {0} /\ MaxDelay \in Nat /\ MaxLag \in Nat /\ MaxWrites \in Nat
ASSUME DisjointAssumption ==
    /\ Readers \cap Changes = {}
    /\ Invalidators \cap Mkdirs = {}
ASSUME FiniteAssumption == IsFiniteSet(Mkdirs)

VARIABLES
    moka,       \* the in-memory entry: {} or {[list, age]}
    disk,       \* the JSON file: {} or {[list, age]}
    writes,     \* disk writes spawned and not landed
    pc,         \* where each request stands
    held,       \* listing a request has read and not stored yet: {} or {entry}
    fetched,    \* readers in the get after their fetch
    ans,        \* answer of each reader: {} or {listing}
    truth,      \* changes that have happened in the cloud
    since       \* how long ago each of them did, or dfs last left it out

requestVars == <<pc, held, fetched, ans>>
cloudVars   == <<truth, since>>
vars == <<moka, disk, writes, requestVars, cloudVars>>

Entry == [list : SUBSET Changes, age : Nat]

\* The longest an answer may miss a change: a listing lives Ttl on disk and,
\* promoted at the end of that, Ttl in moka; a MKCOL that finds it there
\* stores it again as new; and the cloud's own answer may lag.
Bound == (1 + Cardinality(Mkdirs)) * (2 * (Ttl + MaxDelay) - 1)
           + (IF MaxLag = 0 THEN 0 ELSE MaxLag - 1)

Pc == {"idle", "get", "disk", "expired", "promote", "fetch", "pages", "insert",
       "preMoka", "preDisk", "cloud", "moka", "delete", "done", "gone"}

Init ==
    /\ moka = {}
    /\ disk = {}
    /\ writes = {}
    /\ pc = [x \in Clients |-> "idle"]
    /\ held = [g \in Getters |-> {}]
    /\ fetched = {}
    /\ ans = [r \in Readers |-> {}]
    /\ truth = {}
    /\ since = [c \in Changes |-> 0]

-----------------------------------------------------------------------------
New(l) == {[list |-> l, age |-> 0]}

\* Mutation: the new entry joins the old one.
StoreBeside(l) == moka' = moka \cup New(l)

\* The moka entry is replaced by a new one with listing l.
Store(l) == moka' = New(l)

Goto(x, c) == pc' = [pc EXCEPT ![x] = c]

\* moka's time_to_live: an entry is gone Ttl after its insertion.
MokaLive(e) == e.age < Ttl

\* Mutation: files on disk do not expire.
NeverExpires(e) == TRUE

\* read_disk: a file older than disk_ttl is treated as a miss.
DiskLive(e) == e.age <= Ttl

\* get has found listing l for x: a reader answers it, create_dir pushes its
\* new directory onto it.
Found(x, l) ==
    \/ /\ x \in Readers
       /\ ans' = [ans EXCEPT ![x] = {l}]
       /\ held' = [held EXCEPT ![x] = {}]
       /\ fetched' = fetched \ {x}
       /\ Goto(x, "idle")
    \/ /\ x \in Mkdirs
       /\ held' = [held EXCEPT ![x] = New(l \cup {x})]
       /\ Goto(x, "insert")
       /\ UNCHANGED <<fetched, ans>>

\* get has found nothing: get_cached gives up, get_or_insert fetches, once.
Missed(x) ==
    /\ Goto(x, IF x \in Mkdirs THEN "moka"
               ELSE IF x \in fetched THEN "idle" ELSE "fetch")
    /\ fetched' = fetched \ {x}

-----------------------------------------------------------------------------
\* get: moka, then disk.

\* A request asks for the listing.
Start(r) ==
    /\ pc[r] = "idle"
    /\ Goto(r, "get")
    /\ ans' = [ans EXCEPT ![r] = {}]
    /\ UNCHANGED <<moka, disk, writes, held, fetched, cloudVars>>

MokaHit(x) ==
    /\ pc[x] = "get"
    /\ \E e \in moka : MokaLive(e) /\ Found(x, e.list)
    /\ UNCHANGED <<moka, disk, writes, cloudVars>>

MokaMiss(x) ==
    /\ pc[x] = "get"
    /\ \A e \in moka : ~MokaLive(e)
    /\ Goto(x, "disk")
    /\ UNCHANGED <<moka, disk, writes, held, fetched, ans, cloudVars>>

\* read_disk reads the file and checks its age.
ReadDisk(x) ==
    /\ pc[x] = "disk"
    /\ \/ /\ disk = {}
          /\ Missed(x)
          /\ UNCHANGED held
       \/ /\ \E e \in disk :
               /\ DiskLive(e)
               /\ held' = [held EXCEPT ![x] = New(e.list)]
          /\ Goto(x, "promote")
          /\ UNCHANGED fetched
       \/ /\ \E e \in disk : ~DiskLive(e)
          /\ Goto(x, "expired")
          /\ UNCHANGED <<held, fetched>>
    /\ UNCHANGED <<moka, disk, writes, ans, cloudVars>>

\* An expired file is removed, whatever has been written to it meanwhile.
RemoveExpired(x) ==
    /\ pc[x] = "expired"
    /\ disk' = {}
    /\ Missed(x)
    /\ UNCHANGED <<moka, writes, held, ans, cloudVars>>

\* A disk hit is promoted, which starts moka's time_to_live again.
Promote(x) ==
    /\ pc[x] = "promote"
    /\ \E e \in held[x] : Store(e.list) /\ Found(x, e.list)
    /\ UNCHANGED <<disk, writes, cloudVars>>

-----------------------------------------------------------------------------
\* get_or_insert beyond the cache: dfs fetches the listing and inserts it.

\* The first page: what the cloud shows of the directory now, perhaps without
\* its latest changes.
Fetch(r) ==
    /\ pc[r] = "fetch"
    /\ \E l \in SUBSET truth :
         /\ \A c \in truth \ l : since[c] < MaxLag
         /\ held' = [held EXCEPT ![r] = New(l)]
    /\ Goto(r, "pages")
    /\ UNCHANGED <<moka, disk, writes, fetched, ans, cloudVars>>

\* dfs leaves the changes in C out of a listing that the cloud would show.
LeaveOut(C) ==
    /\ since' = [c \in Changes |-> IF c \in C THEN 0 ELSE since[c]]
    /\ UNCHANGED truth

\* The other pages, concurrently, with the changes that happen meanwhile.  What
\* is on a page that fails three times, after the 20th page, or moved by a change
\* from a page still to come to one that is read, is left out; so is everything
\* where the fid has become stale and the cloud answers an empty list.  The
\* listing goes on to be cached like any other.
MorePages(r) ==
    /\ pc[r] = "pages"
    /\ \E l \in SUBSET truth, e \in held[r] :
         /\ held' = [held EXCEPT ![r] = {[e EXCEPT !.list = l]}]
         /\ LeaveOut(e.list \ l)
    /\ Goto(r, "insert")
    /\ UNCHANGED <<moka, disk, writes, fetched, ans>>

\* The fetch fails: dfs returns without an entry, and get is tried once more.
FetchFails(r) ==
    /\ pc[r] = "fetch"
    /\ Goto(r, "get")
    /\ fetched' = fetched \cup {r}
    /\ UNCHANGED <<moka, disk, writes, held, ans, cloudVars>>

\* insert: the disk write is spawned with the time stamp of now, and moka is
\* written.  get_or_insert then gets the entry; create_dir goes on.
Insert(x) ==
    /\ pc[x] = "insert"
    /\ Cardinality(writes) < MaxWrites
    /\ \E e \in held[x] : Store(e.list) /\ writes' = writes \cup New(e.list)
    /\ held' = [held EXCEPT ![x] = {}]
    /\ Goto(x, IF x \in Mkdirs THEN "moka" ELSE "get")
    /\ fetched' = fetched \cup ({x} \cap Readers)
    /\ UNCHANGED <<disk, ans, cloudVars>>

\* A spawned write lands, or fails leaving the file as it was or unreadable.
WriteDisk ==
    /\ \E e \in writes :
         /\ writes' = writes \ {e}
         /\ disk' \in {{e}, disk, {}}
    /\ UNCHANGED <<moka, requestVars, cloudVars>>

-----------------------------------------------------------------------------
\* Changes of the directory.

Apply(c) ==
    /\ truth' = truth \cup {c}
    /\ UNCHANGED since

\* PUT, DELETE and MOVE change the cloud first.
ChangeCloud(i) ==
    /\ pc[i] = "idle"
    /\ Apply(i)
    /\ Goto(i, "moka")
    /\ UNCHANGED <<moka, disk, writes, held, fetched, ans>>

\* create_dir invalidates the parent before it creates the folder.
MkdirStarts(m) ==
    /\ pc[m] = "idle"
    /\ Goto(m, "preMoka")
    /\ UNCHANGED <<moka, disk, writes, held, fetched, ans, cloudVars>>

\* create_folder answers the new fid, or an empty one (nothing is cached), or
\* fails (the request fails).
CreateFolder(m) ==
    /\ pc[m] = "cloud"
    /\ \/ Apply(m) /\ \E c \in {"get", "moka"} : Goto(m, c)
       \/ Goto(m, "gone") /\ UNCHANGED cloudVars
    /\ UNCHANGED <<moka, disk, writes, held, fetched, ans>>

\* invalidate drops the moka entry ...
InvalidateMoka(x) ==
    /\ \/ pc[x] = "preMoka" /\ Goto(x, "preDisk")
       \/ pc[x] = "moka" /\ Goto(x, "delete")
    /\ moka' = {}
    /\ UNCHANGED <<disk, writes, held, fetched, ans, cloudVars>>

\* ... and then deletes the file; a write still to land is not known to it.
DeleteDisk(x) ==
    /\ \/ pc[x] = "preDisk" /\ Goto(x, "cloud")
       \/ pc[x] = "delete" /\ Goto(x, "done")
    /\ disk' = {}
    /\ UNCHANGED <<moka, writes, held, fetched, ans, cloudVars>>

-----------------------------------------------------------------------------
\* Time and restarts.

\* moka drops the entry and the disk keeps it: for room, or because a walk to
\* a child of the directory did not find it here, or got 404 for this fid.
MokaDrops ==
    /\ moka # {}
    /\ moka' = {}
    /\ UNCHANGED <<disk, writes, requestVars, cloudVars>>

\* Entries grow older; past Ttl + 1 nothing compares their age any more.
Older(E) == {[e EXCEPT !.age = IF e.age > Ttl THEN e.age ELSE e.age + 1] : e \in E}

\* A listing is stored within MaxDelay of being read: the awaits in between
\* are the file system's and, for further pages, the HTTP client's.
Tick ==
    /\ \A x \in Getters : \A e \in held[x] : e.age < MaxDelay
    /\ moka' = {e \in Older(moka) : MokaLive(e)}
    /\ disk' = Older(disk)
    /\ writes' = Older(writes)
    /\ held' = [x \in Getters |-> {[e EXCEPT !.age = e.age + 1] : e \in held[x]}]
    /\ since' = [c \in Changes |->
                   IF c \in truth /\ since[c] <= Bound THEN since[c] + 1
                                                       ELSE since[c]]
    /\ UNCHANGED <<pc, fetched, ans, truth>>

\* The process ends (kill, crash, watchdog) and starts again: requests are
\* lost, the disk stays.
Restart ==
    /\ moka' = {}
    /\ writes' = {}
    /\ held' = [g \in Getters |-> {}]
    /\ fetched' = {}
    /\ pc' = [x \in Clients |->
                IF x \in Readers THEN "idle"
                ELSE IF pc[x] \in {"idle", "done"} THEN pc[x] ELSE "gone"]
    /\ UNCHANGED <<disk, ans, cloudVars>>

-----------------------------------------------------------------------------
Get(x) ==
    \/ MokaHit(x) \/ MokaMiss(x) \/ ReadDisk(x) \/ RemoveExpired(x)
    \/ Promote(x) \/ Insert(x)

Read(r) == Start(r) \/ Fetch(r) \/ MorePages(r) \/ FetchFails(r)

Invalidate(x) == InvalidateMoka(x) \/ DeleteDisk(x)

Next ==
    \/ \E x \in Getters : Get(x)
    \/ \E r \in Readers : Read(r)
    \/ \E i \in Invalidators : ChangeCloud(i)
    \/ \E m \in Mkdirs : MkdirStarts(m) \/ CreateFolder(m)
    \/ \E c \in Changes : Invalidate(c)
    \/ WriteDisk \/ MokaDrops \/ Tick \/ Restart

Spec == Init /\ [][Next]_vars
-----------------------------------------------------------------------------
\* Properties.

\* Every variable has its type, and each tier holds at most one entry.
TypeOK ==
    /\ moka \in SUBSET Entry /\ Cardinality(moka) <= 1
    /\ disk \in SUBSET Entry /\ Cardinality(disk) <= 1
    /\ writes \in SUBSET Entry
    /\ pc \in [Clients -> Pc]
    /\ held \in [Getters -> SUBSET Entry]
    /\ fetched \in SUBSET Readers
    /\ ans \in [Readers -> SUBSET SUBSET Changes]
    /\ truth \in SUBSET Changes
    /\ since \in [Changes -> Nat]

Promise == INSTANCE StaleListing

\* The cache implements StaleListing: whatever the order of reads, spawned
\* writes, invalidations, promotions and restarts, no answer shows what never
\* happened, or misses a change for longer than Bound after it happened and after
\* dfs last read the directory without it: what a lost page hides comes back.
BoundedStaleness == Promise!Spec
=============================================================================
