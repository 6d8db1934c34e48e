-------------------------------- MODULE Rename --------------------------------
(***************************************************************************)
(* MOVE beside uploads: rename of vfs.rs, the overlay of active_writes it  *)
(* falls back on, and pending_renames, through which an upload task learns *)
(* of a MOVE.  Files are moved by two independent cloud calls: move_file   *)
(* sets the directory, rename_file the name.                               *)
(*                                                                         *)
(* A path is <<directory, name>>.  An upload may replace a file, which its *)
(* PUT has looked up by the path and which goes when the new one is there. *)
(* Two uploads are never under way to one path at once here (that is what  *)
(* module Upload is about), and the client moves to free paths only:       *)
(* dav-server deletes what is there before it calls rename.                *)
(***************************************************************************)
EXTENDS Naturals, FiniteSets

CONSTANTS
    Dirs, Names,
    Files,          \* cloud files, by fid
    Uploads,        \* those that are uploaded; the others exist already
    Home,           \* where each file exists or is uploaded to
    Moves,          \* MOVE requests
    NoFid           \* fid of an overlay entry without a cloud file

Paths == Dirs \X Names

ASSUME RenameAssumption ==
    /\ Uploads \subseteq Files /\ NoFid \notin Files
    /\ Home \in [Files -> Paths]
    /\ Paths # {}           \* the root, and a name

\* Lookups of the source in a MOVE to another directory, after the first one.
MaxAttempts == 3

VARIABLES
    at,             \* where each file is in the cloud: {} or {path}
    shown,          \* where the list API shows it
    cached,         \* cached listing of each directory: {} or {set of <<name, fid>>}
    active_writes,  \* overlay entry of each path: {} or {fid}
    pending_renames,\* {} or {path}, for each fid
    task,           \* where the upload task of each file stands
    target,         \* the path it registers the file at
    old,            \* the file each upload is to replace: {} or {fid}
    pc, from, to,   \* the MOVE requests
    got,            \* the file a MOVE has found: {} or {fid}
    attempt,
    wanted,         \* history: where the last MOVE of each file wants it
    disturbed       \* history: files whose MOVE has failed or run into another, or
                    \* which a PUT has mistaken

cloud  == <<at, shown>>
upload == <<task, target, old>>
move   == <<pc, from, to, got, attempt>>
vars   == <<cloud, cached, active_writes, pending_renames, upload, move,
            wanted, disturbed>>

-----------------------------------------------------------------------------
\* from and to of no request.
Nowhere == CHOOSE p \in Paths : TRUE

Init ==
    /\ at = [f \in Files |-> IF f \in Uploads THEN {} ELSE {Home[f]}]
    /\ shown = at
    /\ cached = [d \in Dirs |-> {}]
    /\ active_writes = [p \in Paths |-> {}]
    /\ pending_renames = [f \in Files |-> {}]
    /\ task = [f \in Files |-> IF f \in Uploads THEN "none" ELSE "over"]
    /\ target = Home
    /\ old = [f \in Files |-> {}]
    /\ pc = [m \in Moves |-> "idle"]
    /\ from = [m \in Moves |-> Nowhere] /\ to = from
    /\ got = [m \in Moves |-> {}]
    /\ attempt = [m \in Moves |-> 0]
    /\ wanted = at
    /\ disturbed = {}

\* Where nothing is, or is about to be.
Free ==
    {p \in Paths :
       /\ \A f \in Files : at[f] # {p}
       /\ \A f \in Uploads : task[f] \in {"opened", "chunks"} => Home[f] # p
       /\ active_writes[p] = {}}

\* The list API's answer for directory d.
Listing(d) == {e \in Names \X Files : shown[e[2]] = {<<d, e[1]>>}}

NamedIn(l, p) == {f \in Files : <<p[2], f>> \in l}

\* get_file: s is what the listing of p's directory has under p's name; the
\* listing is cached, fetched, or cannot be had.
GetFile(cache, p, s) ==
    \/ \E l \in cache[p[1]] : s = NamedIn(l, p) /\ cached' = cache
    \/ /\ cache[p[1]] = {}
       /\ s = NamedIn(Listing(p[1]), p)
       /\ cached' = [cache EXCEPT ![p[1]] = {Listing(p[1])}]
    \/ cache[p[1]] = {} /\ s = {} /\ cached' = cache

Dropped(ds) == [d \in Dirs |-> IF d \in ds THEN {} ELSE cached[d]]

\* register_active_write and remove_active_write.
RegisterActiveWrite(p, f) == active_writes' = [active_writes EXCEPT ![p] = {f}]
RemoveActiveWrite(p)      == active_writes' = [active_writes EXCEPT ![p] = {}]

\* The cloud's two calls, on a file that exists.
MoveFile(f, d)   == at' = [at EXCEPT ![f] = {<<d, p[2]>> : p \in @}]
RenameFile(f, n) == at' = [at EXCEPT ![f] = {<<p[1], n>> : p \in @}]

-----------------------------------------------------------------------------
\* MOVE.

Goto(m, c) == pc' = [pc EXCEPT ![m] = c]

\* What the requests in ms have in hand goes with them.
Forget(ms) ==
    /\ from' = [m \in Moves |-> IF m \in ms THEN Nowhere ELSE from[m]]
    /\ to' = [m \in Moves |-> IF m \in ms THEN Nowhere ELSE to[m]]
    /\ got' = [m \in Moves |-> IF m \in ms THEN {} ELSE got[m]]
    /\ attempt' = [m \in Moves |-> IF m \in ms THEN 0 ELSE attempt[m]]

Moving    == {"move", "rename", "invalidate"}
Replaying == {"replayMove", "replayName"}

Holds(m, f) == pc[m] \in Moving /\ f \in got[m]

\* The MOVE m of f is noted for the upload task that may still have f in hand.
\* History: it is alone, its file is where the client has seen it, and no upload is
\* to replace that.
NotePending(m, f, a, b) ==
    /\ pending_renames' = [pending_renames EXCEPT ![f] = {b}]
    /\ wanted' = [wanted EXCEPT ![f] = {b}]
    /\ disturbed' = disturbed \cup
          {g \in {f} : \/ at[f] # {a} \/ task[f] \in Replaying
                       \/ \E k \in Moves \ {m} : Holds(k, f)
                       \/ \E h \in Files : f \in old[h]}

\* The client asks for a MOVE of a to b, and s is what is found under a.
Looked(m, a, b, s) ==
    /\ a # b /\ GetFile(cached, a, s)
    /\ UNCHANGED <<cloud, upload, attempt>>

Asked(m, a, b) == from' = [from EXCEPT ![m] = a] /\ to' = [to EXCEPT ![m] = b]

\* A file with a fid: in its directory it gets another name, to another directory
\* it is moved once that is found.
ResolveFile(m) ==
    /\ pc[m] = "idle"
    /\ \E b \in Free, a \in Paths, s \in SUBSET Files :
        /\ Looked(m, a, b, s) /\ Asked(m, a, b)
        /\ \E f \in s :
             /\ got' = [got EXCEPT ![m] = {f}]
             /\ \/ a[1] = b[1] /\ NotePending(m, f, a, b) /\ Goto(m, "rename")
                \/ /\ a[1] # b[1] /\ Goto(m, "parent")
                   /\ UNCHANGED <<pending_renames, wanted, disturbed>>
        /\ UNCHANGED active_writes

\* No file, but an overlay entry, of whatever fid.
ResolveEntry(m) ==
    /\ pc[m] = "idle"
    /\ \E b \in Free, a \in Paths :
        /\ Looked(m, a, b, {}) /\ Asked(m, a, b) /\ active_writes[a] # {}
        /\ \/ a[1] = b[1] /\ RemoveActiveWrite(a) /\ Goto(m, "overlay")
           \/ a[1] # b[1] /\ Goto(m, "again") /\ UNCHANGED active_writes
        /\ UNCHANGED <<got, pending_renames, wanted, disturbed>>

\* Neither: 404.
ResolveNothing(m) ==
    /\ pc[m] = "idle"
    /\ \E b \in Free, a \in Paths :
        /\ Looked(m, a, b, {}) /\ active_writes[a] = {}
        /\ Goto(m, "over")
        /\ UNCHANGED <<from, to, got, active_writes, pending_renames, wanted, disturbed>>

\* Mutation: one attempt too many.
AgainOnce(m) ==
    /\ pc[m] = "again" /\ attempt[m] <= MaxAttempts
    /\ attempt' = [attempt EXCEPT ![m] = @ + 1]
    /\ UNCHANGED <<cloud, cached, active_writes, pending_renames, upload, pc, from, to,
                   got, wanted, disturbed>>

\* P4-2, to another directory only: the listing is dropped and the source looked
\* up again, up to three times; then the MOVE is made in the overlay.
Again(m) ==
    /\ pc[m] = "again"
    /\ \/ /\ attempt[m] < MaxAttempts
          /\ \E s \in SUBSET Files :
               /\ GetFile(Dropped({from[m][1]}), from[m], s)
               /\ \/ \E f \in s : got' = [got EXCEPT ![m] = {f}] /\ Goto(m, "parent")
                  \/ s = {} /\ UNCHANGED <<got, pc>>
          /\ attempt' = [attempt EXCEPT ![m] = @ + 1]
          /\ UNCHANGED active_writes
       \/ /\ attempt[m] = MaxAttempts
          /\ RemoveActiveWrite(from[m])
          /\ Goto(m, "overlay")
          /\ UNCHANGED <<cached, got, attempt>>
    /\ UNCHANGED <<cloud, pending_renames, upload, from, to, wanted, disturbed>>

\* The overlay shows the target, without a fid.
OverlayMove(m) ==
    /\ pc[m] = "overlay"
    /\ RegisterActiveWrite(to[m], NoFid)
    /\ Goto(m, "invalidate")
    /\ UNCHANGED <<cloud, cached, pending_renames, upload, from, to, got, attempt,
                   wanted, disturbed>>

\* The target's directory is looked up, to no avail or with success.
FindParent(m) ==
    /\ pc[m] = "parent"
    /\ \/ Goto(m, "over") /\ Forget({m}) /\ UNCHANGED <<pending_renames, wanted, disturbed>>
       \/ /\ \E f \in got[m] : NotePending(m, f, from[m], to[m])
          /\ Goto(m, "move")
          /\ UNCHANGED <<from, to, got, attempt>>
    /\ UNCHANGED <<cloud, cached, active_writes, upload>>

\* Mutation: the file keeps its name in the other directory.
CallMoveOnly(m) ==
    /\ pc[m] = "move"
    /\ \E f \in got[m] : MoveFile(f, to[m][1])
    /\ Goto(m, "invalidate")
    /\ UNCHANGED <<shown, cached, active_writes, pending_renames, upload, from, to, got,
                   attempt, wanted, disturbed>>

\* move_file; when it fails the MOVE ends there, and is answered Ok.
CallMove(m) ==
    /\ pc[m] = "move"
    /\ \E f \in got[m] :
         \/ /\ MoveFile(f, to[m][1])
            /\ Goto(m, IF from[m][2] # to[m][2] THEN "rename" ELSE "invalidate")
            /\ UNCHANGED disturbed
         \/ /\ disturbed' = disturbed \cup {f}
            /\ Goto(m, "invalidate")
            /\ UNCHANGED at
    /\ UNCHANGED <<shown, cached, active_writes, pending_renames, upload, from, to, got,
                   attempt, wanted>>

\* rename_file; that it fails is not noticed.
CallRename(m) ==
    /\ pc[m] = "rename"
    /\ \E f \in got[m] :
         \/ RenameFile(f, to[m][2]) /\ UNCHANGED disturbed
         \/ disturbed' = disturbed \cup {f} /\ UNCHANGED at
    /\ Goto(m, "invalidate")
    /\ UNCHANGED <<shown, cached, active_writes, pending_renames, upload, from, to, got,
                   attempt, wanted>>

\* Both listings are dropped, and the client is answered Ok.
Invalidate(m) ==
    /\ pc[m] = "invalidate"
    /\ cached' = Dropped({from[m][1], to[m][1]})
    /\ Goto(m, "over") /\ Forget({m})
    /\ UNCHANGED <<cloud, active_writes, pending_renames, upload, wanted, disturbed>>

-----------------------------------------------------------------------------
\* The upload task, from the spawn to the end of its life.

TaskGoto(f, s) == task' = [task EXCEPT ![f] = s]

\* No other upload to f's path is under way.
Alone(f) ==
    \A g \in Files \ {f} : Home[g] = Home[f] => task[g] \in {"none", "over"}

\* The PUT without content that comes before the PUT of the file.
Probe(f) ==
    /\ task[f] = "none" /\ Alone(f)
    /\ RegisterActiveWrite(Home[f], NoFid)
    /\ UNCHANGED <<cloud, cached, pending_renames, upload, move, wanted, disturbed>>

\* The files in s are what the upload f is to replace.  History: they are there, and
\* nothing is under way with them.
Adopt(f, s) ==
    /\ old' = [old EXCEPT ![f] = s]
    /\ disturbed' = disturbed \cup
          {g \in s : \/ at[g] # {Home[f]} \/ task[g] # "over"
                     \/ \E m \in Moves : Holds(m, g)}

\* A PUT opens what its path's listing names, or the overlay; if nothing, a new file.
Open(f) ==
    /\ task[f] = "none" /\ Alone(f)
    /\ \E s \in SUBSET Files :
         /\ GetFile(cached, Home[f], s)
         /\ \/ \E g \in s : Adopt(f, {g})
            \/ s = {} /\ Adopt(f, active_writes[Home[f]] \cap Files)
    /\ TaskGoto(f, "opened")
    /\ UNCHANGED <<cloud, active_writes, pending_renames, target, move, wanted>>

\* P2-3: if it has nothing to replace, but there is an overlay entry, its flush looks
\* again in a fresh listing.  The entry is cleared.
Flush(f) ==
    /\ task[f] = "opened"
    /\ IF old[f] = {} /\ active_writes[Home[f]] # {}
         THEN \E s \in SUBSET Files :
                /\ GetFile(Dropped({Home[f][1]}), Home[f], s)
                /\ (\E g \in s : Adopt(f, {g})) \/ (s = {} /\ Adopt(f, {}))
         ELSE UNCHANGED <<cached, old, disturbed>>
    /\ RemoveActiveWrite(Home[f])
    /\ TaskGoto(f, "chunks")
    /\ UNCHANGED <<cloud, pending_renames, target, move, wanted>>

\* Nothing is left to replace.
Disown(f) == old' = [old EXCEPT ![f] = {}]

\* The PUT or its task fails, or the content is there already.
TaskFails(f) ==
    /\ task[f] \in {"opened", "chunks"}
    /\ TaskGoto(f, "over") /\ Disown(f)
    /\ UNCHANGED <<cloud, cached, active_writes, pending_renames, target, move, wanted,
                   disturbed>>

Appears(f) ==
    /\ at' = [at EXCEPT ![f] = {Home[f]}]
    /\ wanted' = [wanted EXCEPT ![f] = {Home[f]}]

\* The cloud says "finish" to a part: the file is confirmed and registered, what it
\* was to replace stays, and pending_renames is not looked at.
EarlyFinish(f) ==
    /\ task[f] = "chunks"
    /\ Appears(f)
    /\ RegisterActiveWrite(Home[f], f)
    /\ cached' = Dropped({Home[f][1]})
    /\ TaskGoto(f, "over") /\ Disown(f)
    /\ UNCHANGED <<shown, pending_renames, target, move, disturbed>>

\* The file is complete: by the task's last call, or at once by up_hash ("instant") or
\* by up_pre ("kept": self.file.fid stays that of the file to replace).
Finish(f) ==
    /\ task[f] = "chunks"
    /\ Appears(f)
    /\ \E s \in {"confirmed", "instant", "kept"} : TaskGoto(f, s)
    /\ UNCHANGED <<shown, cached, active_writes, pending_renames, target, old, move,
                   disturbed>>

\* What it replaces goes, wherever that is; that it does not is logged.  History: the
\* client wants it gone from f's path only.
RemoveOld(f) ==
    /\ task[f] \in {"confirmed", "instant", "kept"}
    /\ \E gone \in {{}, old[f] \ {f}} :
         /\ at' = [g \in Files |-> IF g \in gone THEN {} ELSE at[g]]
         /\ wanted' = [g \in Files |-> IF g \in gone THEN wanted[g] \ {Home[f]} ELSE wanted[g]]
    /\ \/ task[f] = "confirmed" /\ TaskGoto(f, "removed") /\ Disown(f)
       \/ task[f] = "instant" /\ TaskGoto(f, "register") /\ Disown(f)
       \/ task[f] = "kept" /\ TaskGoto(f, "registerOld") /\ UNCHANGED old
    /\ UNCHANGED <<shown, cached, active_writes, pending_renames, target, move, disturbed>>

\* What is left to replay once the directory is right.
AfterMove(f, p) == IF p[2] # Home[f][2] THEN "replayName" ELSE "register"

\* Mutation: the noted MOVE is dropped.
PeekPending(f) ==
    /\ task[f] = "removed"
    /\ target' = [target EXCEPT ![f] = Home[f]]
    /\ TaskGoto(f, "register")
    /\ UNCHANGED <<cloud, cached, active_writes, old, move, wanted, disturbed>>
    /\ pending_renames' = [pending_renames EXCEPT ![f] = {}]

\* The MOVE noted for f, if any, is taken.
TakePending(f) ==
    /\ task[f] = "removed"
    /\ \/ /\ pending_renames[f] = {}
          /\ TaskGoto(f, "register")
          /\ UNCHANGED target
       \/ \E p \in pending_renames[f] :
            /\ target' = [target EXCEPT ![f] = p]
            /\ TaskGoto(f, IF p[1] # Home[f][1] THEN "replayMove" ELSE AfterMove(f, p))
    /\ pending_renames' = [pending_renames EXCEPT ![f] = {}]
    /\ UNCHANGED <<cloud, cached, active_writes, old, move, wanted, disturbed>>

\* It is applied to the cloud, call by call; a failure is logged.
ReplayMove(f) ==
    /\ task[f] = "replayMove"
    /\ MoveFile(f, target[f][1]) \/ UNCHANGED at
    /\ TaskGoto(f, AfterMove(f, target[f]))
    /\ UNCHANGED <<shown, cached, active_writes, pending_renames, target, old, move,
                   wanted, disturbed>>

ReplayName(f) ==
    /\ task[f] = "replayName"
    /\ RenameFile(f, target[f][2]) \/ UNCHANGED at
    /\ TaskGoto(f, "register")
    /\ UNCHANGED <<shown, cached, active_writes, pending_renames, target, old, move,
                   wanted, disturbed>>

\* The file is registered where the task believes it to be.
Register(f) ==
    /\ task[f] = "register"
    /\ RegisterActiveWrite(target[f], f)
    /\ cached' = Dropped({Home[f][1], target[f][1]})
    /\ TaskGoto(f, "over")
    /\ UNCHANGED <<cloud, pending_renames, target, old, move, wanted, disturbed>>

\* After up_pre's finish the entry has the fid of the file that was replaced, or none.
\* History: that is no longer where its file is.
RegisterOld(f) ==
    /\ task[f] = "registerOld"
    /\ active_writes' = [active_writes EXCEPT ![Home[f]] =
                          IF old[f] = {} THEN {NoFid} ELSE old[f]]
    /\ cached' = Dropped({Home[f][1]})
    /\ TaskGoto(f, "over") /\ Disown(f)
    /\ disturbed' = disturbed \cup old[f]
    /\ UNCHANGED <<cloud, pending_renames, target, move, wanted>>

-----------------------------------------------------------------------------
\* Time, the cloud, and the process.

EntryExpires(p) ==
    /\ active_writes[p] # {} /\ RemoveActiveWrite(p)
    /\ UNCHANGED <<cloud, cached, pending_renames, upload, move, wanted, disturbed>>

ListingExpires(d) ==
    /\ cached[d] # {} /\ cached' = Dropped({d})
    /\ UNCHANGED <<cloud, active_writes, pending_renames, upload, move, wanted, disturbed>>

CatchUp(f) ==
    /\ shown[f] # at[f] /\ shown' = [shown EXCEPT ![f] = at[f]]
    /\ UNCHANGED <<at, cached, active_writes, pending_renames, upload, move, wanted,
                   disturbed>>

\* The overlay, the noted MOVEs, the requests and the tasks are gone.
Restart ==
    /\ active_writes' = [p \in Paths |-> {}]
    /\ pending_renames' = [f \in Files |-> {}]
    /\ task' = [f \in Files |-> IF task[f] = "none" THEN "none" ELSE "over"]
    /\ old' = [f \in Files |-> {}]
    /\ pc' = [m \in Moves |-> IF pc[m] = "idle" THEN "idle" ELSE "over"]
    /\ disturbed' = disturbed \cup {f \in Files : \E m \in Moves : Holds(m, f)}
    /\ Forget({m \in Moves : pc[m] # "idle"})
    /\ UNCHANGED <<cloud, cached, target, wanted>>

-----------------------------------------------------------------------------
MoveStep(m) ==
    \/ ResolveFile(m) \/ ResolveEntry(m) \/ ResolveNothing(m)
    \/ Again(m) \/ OverlayMove(m) \/ FindParent(m)
    \/ CallMove(m) \/ CallRename(m) \/ Invalidate(m)

TaskStep(f) ==
    \/ Flush(f) \/ TaskFails(f) \/ EarlyFinish(f) \/ Finish(f) \/ RemoveOld(f)
    \/ TakePending(f) \/ ReplayMove(f) \/ ReplayName(f)
    \/ Register(f) \/ RegisterOld(f)

Next ==
    \/ \E m \in Moves : MoveStep(m)
    \/ \E f \in Files : Probe(f) \/ Open(f) \/ TaskStep(f) \/ CatchUp(f)
    \/ \E p \in Paths : EntryExpires(p)
    \/ \E d \in Dirs : ListingExpires(d)
    \/ Restart

Spec == Init /\ [][Next]_vars

-----------------------------------------------------------------------------
\* Properties.

\* Every variable has its type, and a MOVE tries a bounded number of times.
TypeOK ==
    /\ at \in [Files -> SUBSET Paths] /\ shown \in [Files -> SUBSET Paths]
    /\ cached \in [Dirs -> SUBSET SUBSET (Names \X Files)]
    /\ active_writes \in [Paths -> SUBSET (Files \cup {NoFid})]
    /\ pending_renames \in [Files -> SUBSET Paths]
    /\ task \in [Files -> {"none", "opened", "chunks", "confirmed", "instant", "kept",
                           "removed", "replayMove", "replayName", "register",
                           "registerOld", "over"}]
    /\ target \in [Files -> Paths] /\ old \in [Files -> SUBSET Files]
    /\ pc \in [Moves -> {"idle", "again", "overlay", "parent", "over"}
                        \cup Moving]
    /\ from \in [Moves -> Paths] /\ to \in [Moves -> Paths]
    /\ got \in [Moves -> SUBSET Files]
    /\ attempt \in [Moves -> 0 .. MaxAttempts]
    /\ wanted \in [Files -> SUBSET Paths] /\ disturbed \subseteq Files

\* Nobody is about to change where f is.
Settled(f) == task[f] \notin Replaying /\ \A m \in Moves : ~Holds(m, f)

\* A file ends where its last MOVE wants it, and goes only when a PUT replaces it,
\* although the upload task repeats the calls of a MOVE it has found in
\* pending_renames: unless a call of a MOVE failed, or a MOVE met another one of the
\* same file, a repetition under way, or a file that is no longer where the listing
\* has it, or a PUT had found the file at its path before it was moved away, or by a
\* listing after that (it removes the file wherever that has gone).
SettlesWhereMoved ==
    \A f \in Files \ disturbed : Settled(f) => at[f] = wanted[f]

\* An overlay entry with a fid, which PROPFIND shows for 45 s and GET opens, is
\* where its file is, unless a MOVE came after the upload had looked into
\* pending_renames: those leave their note behind, and the entry is wrong; or the
\* cloud had the content when up_pre asked: the entry is of the file replaced then.
OverlayTrueUnlessMoved ==
    \A p \in Paths, f \in Files \ disturbed :
        f \in active_writes[p] /\ Settled(f) => at[f] = {p} \/ pending_renames[f] # {}
=============================================================================
