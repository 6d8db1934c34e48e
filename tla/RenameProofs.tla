----------------------------- MODULE RenameProofs -----------------------------
(***************************************************************************)
(* Proofs about module Rename, for every set of directories, names, files, *)
(* uploads and MOVE requests: TypeOK, that a file ends where its last MOVE *)
(* wants it although the upload task repeats the calls of the MOVE, and    *)
(* that an overlay entry is where its file is.                             *)
(***************************************************************************)
EXTENDS Rename, TLAPS

-----------------------------------------------------------------------------
\* The inductive invariant.

Early  == {"none", "opened", "chunks"}
Ending == {"confirmed", "instant", "kept", "removed"}
InHand == Replaying \cup {"register"}

\* Before the cloud has the file, nobody has seen it, and until its task looks for a
\* noted MOVE it aims at Home.
UnbornUnseen ==
    \A f \in Files :
        /\ task[f] \in Early =>
             /\ at[f] = {} /\ shown[f] = {} /\ pending_renames[f] = {}
             /\ \A d \in Dirs : \A l \in cached[d] : \A n \in Names : <<n, f>> \notin l
             /\ \A m \in Moves : f \notin got[m]
        /\ task[f] \in Early \cup Ending => target[f] = Home[f]

\* Nor does an upload replace it or the overlay name it.
UnbornUnnamed ==
    \A f \in Files : task[f] \in Early =>
        /\ \A h \in Files : f \notin old[h]
        /\ \A p \in Paths : f \notin active_writes[p]

\* A MOVE has at most one file, and none before it has found one.
OneInHand ==
    \A m \in Moves :
        /\ pc[m] \in {"idle", "again", "overlay"} => got[m] = {}
        /\ \A f, g \in got[m] : f = g

\* How far the only MOVE of f, held by m, has come: repetitions by the upload task
\* of the same MOVE only bring the file nearer.
Underway(m, f) ==
    /\ wanted[f] = {to[m]}
    /\ \E d \in Dirs, n \in Names :
         /\ at[f] = {<<d, n>>}
         /\ d = to[m][1] \/ pc[m] = "move"
         /\ n \in {from[m][2], to[m][2]} /\ (pc[m] = "invalidate" => n = to[m][2])

\* A file is where it is wanted, or its only MOVE is under way.
Tracked(f) ==
    /\ \A m, k \in Moves : Holds(m, f) /\ Holds(k, f) => m = k
    /\ \A m \in Moves : Holds(m, f) => Underway(m, f)
    /\ (\A m \in Moves : ~Holds(m, f)) => at[f] = wanted[f]
    /\ task[f] \in Replaying => wanted[f] = {target[f]}

Tracks == \A f \in Files \ disturbed : Tracked(f)

\* A note is of the last MOVE, as long as a task may take it; a task without one aims
\* where the file is wanted.
NotesLast ==
    \A f \in Files \ disturbed :
        /\ \A p \in pending_renames[f] : wanted[f] = {p} \/ task[f] = "over"
        /\ task[f] \in Ending /\ pending_renames[f] = {} => wanted[f] = {Home[f]}
        /\ task[f] \in InHand /\ pending_renames[f] = {} => wanted[f] = {target[f]}

\* Only a task that is over has registered its file.
RegistersLast ==
    \A f \in Files \ disturbed, p \in Paths :
        f \in active_writes[p] =>
            task[f] = "over" /\ (wanted[f] = {p} \/ pending_renames[f] # {})

\* The file that an upload is to replace is left alone by all others, and from the
\* flush on the overlay does not name it at the upload's path.
Replaced(f, g) ==
    /\ task[g] = "over" /\ \A m \in Moves : ~Holds(m, g)
    /\ wanted[g] \subseteq {Home[f]}
    /\ task[f] # "opened" => g \notin active_writes[Home[f]]

Replaces == \A f \in Files : \A g \in old[f] \ disturbed : Replaced(f, g)

RInv == /\ TypeOK /\ UnbornUnseen /\ UnbornUnnamed /\ OneInHand
        /\ Tracks /\ NotesLast /\ RegistersLast /\ Replaces

-----------------------------------------------------------------------------
\* Type correctness.

\* A listing is one of the type, whether it is cached or fetched.
LEMMA GetFileTyped ==
  ASSUME TypeOK, NEW cache \in [Dirs -> SUBSET SUBSET (Names \X Files)], NEW p \in Paths,
         NEW s, GetFile(cache, p, s)
  PROVE  cached' \in [Dirs -> SUBSET SUBSET (Names \X Files)]
<1>1. Listing(p[1]) \in SUBSET (Names \X Files)
  BY DEF Listing
<1>2. QED
  BY <1>1 DEF GetFile

LEMMA DroppedTyped ==
  ASSUME TypeOK, NEW ds
  PROVE  Dropped(ds) \in [Dirs -> SUBSET SUBSET (Names \X Files)]
  BY DEF Dropped, TypeOK

\* The cloud's calls keep files on paths.
LEMMA CallsTyped ==
  ASSUME TypeOK, NEW f \in Files, NEW p \in Paths,
         MoveFile(f, p[1]) \/ RenameFile(f, p[2])
  PROVE  at' \in [Files -> SUBSET Paths]
<1>1. p[1] \in Dirs /\ p[2] \in Names
  BY DEF Paths
<1>2. \A q \in at[f] : q[1] \in Dirs /\ q[2] \in Names
  BY DEF TypeOK, Paths
<1>3. {<<p[1], q[2]>> : q \in at[f]} \in SUBSET Paths /\ {<<q[1], p[2]>> : q \in at[f]} \in SUBSET Paths
  BY <1>1, <1>2 DEF Paths
<1>4. QED
  BY <1>3 DEF MoveFile, RenameFile, TypeOK

LEMMA ForgetTyped ==
  ASSUME TypeOK, NEW ms, Forget(ms)
  PROVE  /\ from' \in [Moves -> Paths] /\ to' \in [Moves -> Paths]
         /\ got' \in [Moves -> SUBSET Files] /\ attempt' \in [Moves -> 0 .. MaxAttempts]
<1>1. Nowhere \in Paths
  BY RenameAssumption DEF Nowhere
<1>2. 0 \in 0 .. MaxAttempts
  BY DEF MaxAttempts
<1>3. QED
  BY <1>1, <1>2 DEF Forget, TypeOK

LEMMA NoteTyped ==
  ASSUME TypeOK, NEW m, NEW f \in Files, NEW a, NEW b \in Paths, NotePending(m, f, a, b)
  PROVE  /\ pending_renames' \in [Files -> SUBSET Paths]
         /\ wanted' \in [Files -> SUBSET Paths] /\ disturbed' \subseteq Files
  BY DEF NotePending, TypeOK

\* Every step keeps the types.
LEMMA TypesStep ==
  ASSUME TypeOK, Next
  PROVE  TypeOK'
<1> USE DEF cloud, upload, move
<1>1. ASSUME NEW m \in Moves, ResolveFile(m) PROVE TypeOK'
  <2>1. PICK b \in Paths, a \in Paths, s \in SUBSET Files :
              /\ Looked(m, a, b, s) /\ Asked(m, a, b)
              /\ \E f \in s :
                   /\ got' = [got EXCEPT ![m] = {f}]
                   /\ \/ a[1] = b[1] /\ NotePending(m, f, a, b) /\ Goto(m, "rename")
                      \/ /\ a[1] # b[1] /\ Goto(m, "parent")
                         /\ UNCHANGED <<pending_renames, wanted, disturbed>>
              /\ UNCHANGED active_writes
    BY <1>1 DEF ResolveFile, Free
  <2>2. cached' \in [Dirs -> SUBSET SUBSET (Names \X Files)]
    BY <2>1, GetFileTyped DEF Looked, TypeOK
  <2>3. /\ pending_renames' \in [Files -> SUBSET Paths]
        /\ wanted' \in [Files -> SUBSET Paths] /\ disturbed' \subseteq Files
    BY <2>1, NoteTyped DEF TypeOK
  <2>4. got' \in [Moves -> SUBSET Files]
    BY <2>1 DEF TypeOK
  <2>5. /\ from' \in [Moves -> Paths] /\ to' \in [Moves -> Paths]
    BY <2>1 DEF Asked, TypeOK
  <2>6. pc' = [pc EXCEPT ![m] = "rename"] \/ pc' = [pc EXCEPT ![m] = "parent"]
    BY <2>1 DEF Goto
  <2>7. QED
    BY <2>1, <2>2, <2>3, <2>4, <2>5, <2>6 DEF Looked, TypeOK, Moving
<1>2. ASSUME NEW m \in Moves, ResolveEntry(m) PROVE TypeOK'
  <2>1. PICK b \in Paths, a \in Paths :
              /\ Looked(m, a, b, {}) /\ Asked(m, a, b)
              /\ \/ a[1] = b[1] /\ RemoveActiveWrite(a) /\ Goto(m, "overlay")
                 \/ a[1] # b[1] /\ Goto(m, "again") /\ UNCHANGED active_writes
              /\ UNCHANGED <<got, pending_renames, wanted, disturbed>>
    BY <1>2 DEF ResolveEntry, Free
  <2>2. cached' \in [Dirs -> SUBSET SUBSET (Names \X Files)]
    BY <2>1, GetFileTyped DEF Looked, TypeOK
  <2>3. QED
    BY <2>1, <2>2 DEF Looked, Asked, RemoveActiveWrite, Goto, TypeOK, Moving
<1>3. ASSUME NEW m \in Moves, ResolveNothing(m) PROVE TypeOK'
  <2>1. cached' \in [Dirs -> SUBSET SUBSET (Names \X Files)]
    BY <1>3, GetFileTyped DEF ResolveNothing, Looked, TypeOK
  <2>2. QED
    BY <1>3, <2>1 DEF ResolveNothing, Looked, Goto, TypeOK, Moving
<1>4. ASSUME NEW m \in Moves, Again(m) PROVE TypeOK'
  <2>1. CASE /\ attempt[m] < MaxAttempts
             /\ \E s \in SUBSET Files :
                  /\ GetFile(Dropped({from[m][1]}), from[m], s)
                  /\ \/ \E f \in s : got' = [got EXCEPT ![m] = {f}] /\ Goto(m, "parent")
                     \/ s = {} /\ UNCHANGED <<got, pc>>
             /\ attempt' = [attempt EXCEPT ![m] = @ + 1]
             /\ UNCHANGED active_writes
    <3>1. cached' \in [Dirs -> SUBSET SUBSET (Names \X Files)]
      BY <2>1, GetFileTyped, DroppedTyped DEF TypeOK
    <3>2. attempt' \in [Moves -> 0 .. MaxAttempts]
      <4>1. attempt \in [Moves -> 0 .. MaxAttempts]
        BY DEF TypeOK
      <4>2. QED
        BY <2>1, <4>1 DEF MaxAttempts
    <3>3. /\ got' \in [Moves -> SUBSET Files]
          /\ pc' = [pc EXCEPT ![m] = "parent"] \/ pc' = pc
      BY <2>1 DEF Goto, TypeOK
    <3>4. QED
      BY <1>4, <2>1, <3>1, <3>2, <3>3 DEF Again, TypeOK, Moving
  <2>2. CASE /\ RemoveActiveWrite(from[m]) /\ Goto(m, "overlay")
             /\ UNCHANGED <<cached, got, attempt>>
    BY <1>4, <2>2 DEF Again, RemoveActiveWrite, Goto, TypeOK, Moving
  <2>3. QED
    BY <1>4, <2>1, <2>2 DEF Again
<1>5. ASSUME NEW m \in Moves, OverlayMove(m) PROVE TypeOK'
  BY <1>5 DEF OverlayMove, RegisterActiveWrite, Goto, TypeOK, Moving
<1>6. ASSUME NEW m \in Moves, FindParent(m) PROVE TypeOK'
  <2>1. /\ pending_renames' \in [Files -> SUBSET Paths]
        /\ wanted' \in [Files -> SUBSET Paths] /\ disturbed' \subseteq Files
    BY <1>6, NoteTyped DEF FindParent, TypeOK
  <2>2. /\ from' \in [Moves -> Paths] /\ to' \in [Moves -> Paths]
        /\ got' \in [Moves -> SUBSET Files] /\ attempt' \in [Moves -> 0 .. MaxAttempts]
    BY <1>6, ForgetTyped DEF FindParent, TypeOK
  <2>3. pc' = [pc EXCEPT ![m] = "over"] \/ pc' = [pc EXCEPT ![m] = "move"]
    BY <1>6 DEF FindParent, Goto
  <2>4. QED
    BY <1>6, <2>1, <2>2, <2>3 DEF FindParent, TypeOK, Moving
<1>7. ASSUME NEW m \in Moves, CallMove(m) PROVE TypeOK'
  <2>1. at' \in [Files -> SUBSET Paths] /\ disturbed' \subseteq Files
    BY <1>7, CallsTyped DEF CallMove, TypeOK
  <2>2. QED
    BY <1>7, <2>1 DEF CallMove, Goto, TypeOK, Moving
<1>8. ASSUME NEW m \in Moves, CallRename(m) PROVE TypeOK'
  <2>1. at' \in [Files -> SUBSET Paths] /\ disturbed' \subseteq Files
    BY <1>8, CallsTyped DEF CallRename, TypeOK
  <2>2. QED
    BY <1>8, <2>1 DEF CallRename, Goto, TypeOK, Moving
<1>9. ASSUME NEW m \in Moves, Invalidate(m) PROVE TypeOK'
  BY <1>9, ForgetTyped, DroppedTyped DEF Invalidate, Goto, TypeOK
<1>10. ASSUME NEW f \in Files, Probe(f) \/ Open(f) \/ Flush(f) \/ TaskFails(f) PROVE TypeOK'
  <2>0. Home[f] \in Paths
    BY RenameAssumption
  <2>1. CASE Probe(f)
    <3>1. active_writes' \in [Paths -> SUBSET (Files \cup {NoFid})]
      BY <2>1, RenameAssumption DEF Probe, RegisterActiveWrite, TypeOK
    <3>2. QED
      BY <2>1, <3>1 DEF Probe, TypeOK
  <2>2. CASE Open(f)
    <3>1. cached' \in [Dirs -> SUBSET SUBSET (Names \X Files)]
      BY <2>0, <2>2, GetFileTyped DEF Open, TypeOK
    <3>2. old' \in [Files -> SUBSET Files] /\ disturbed' \subseteq Files
      BY <2>2 DEF Open, Adopt, TypeOK
    <3>3. QED
      BY <2>2, <3>1, <3>2 DEF Open, TaskGoto, TypeOK
  <2>3. CASE Flush(f)
    <3>1. cached' \in [Dirs -> SUBSET SUBSET (Names \X Files)]
      BY <2>0, <2>3, GetFileTyped, DroppedTyped DEF Flush, TypeOK
    <3>2. old' \in [Files -> SUBSET Files] /\ disturbed' \subseteq Files
      BY <2>3 DEF Flush, Adopt, TypeOK
    <3>3. active_writes' \in [Paths -> SUBSET (Files \cup {NoFid})]
      BY <2>3 DEF Flush, RemoveActiveWrite, TypeOK
    <3>4. QED
      BY <2>3, <3>1, <3>2, <3>3 DEF Flush, TaskGoto, TypeOK
  <2>4. CASE TaskFails(f)
    BY <2>4 DEF TaskFails, Disown, TaskGoto, TypeOK
  <2>5. QED
    BY <1>10, <2>1, <2>2, <2>3, <2>4
<1>11. ASSUME NEW f \in Files, EarlyFinish(f) \/ Finish(f) PROVE TypeOK'
  <2>1. Home[f] \in Paths
    BY RenameAssumption
  <2>2. at' \in [Files -> SUBSET Paths] /\ wanted' \in [Files -> SUBSET Paths]
    <3>1. Appears(f)
      BY <1>11 DEF EarlyFinish, Finish
    <3>2. QED
      BY <2>1, <3>1 DEF Appears, TypeOK
  <2>3. /\ active_writes' \in [Paths -> SUBSET (Files \cup {NoFid})]
        /\ cached' \in [Dirs -> SUBSET SUBSET (Names \X Files)]
        /\ old' \in [Files -> SUBSET Files]
    <3>1. CASE EarlyFinish(f)
      <4>1. active_writes' \in [Paths -> SUBSET (Files \cup {NoFid})]
        BY <2>1, <3>1 DEF EarlyFinish, RegisterActiveWrite, TypeOK
      <4>2. cached' \in [Dirs -> SUBSET SUBSET (Names \X Files)]
        BY <3>1, DroppedTyped DEF EarlyFinish
      <4>3. old' \in [Files -> SUBSET Files]
        BY <3>1 DEF EarlyFinish, Disown, TypeOK
      <4>4. QED
        BY <4>1, <4>2, <4>3
    <3>2. CASE Finish(f)
      BY <3>2 DEF Finish, TypeOK
    <3>3. QED
      BY <1>11, <3>1, <3>2
  <2>4. \E t \in {"over", "confirmed", "instant", "kept"} : task' = [task EXCEPT ![f] = t]
    BY <1>11 DEF EarlyFinish, Finish, TaskGoto
  <2>5. QED
    BY <1>11, <2>2, <2>3, <2>4 DEF EarlyFinish, Finish, TypeOK
<1>20. ASSUME NEW f \in Files, RemoveOld(f) PROVE TypeOK'
  <2>1. at' \in [Files -> SUBSET Paths] /\ wanted' \in [Files -> SUBSET Paths]
    BY <1>20 DEF RemoveOld, TypeOK
  <2>2. old' \in [Files -> SUBSET Files]
    BY <1>20 DEF RemoveOld, Disown, TypeOK
  <2>3. \E t \in {"removed", "register", "registerOld"} : task' = [task EXCEPT ![f] = t]
    BY <1>20 DEF RemoveOld, TaskGoto
  <2>4. QED
    BY <1>20, <2>1, <2>2, <2>3 DEF RemoveOld, TypeOK
<1>21. ASSUME NEW f \in Files, RegisterOld(f) PROVE TypeOK'
  <2>1. active_writes' \in [Paths -> SUBSET (Files \cup {NoFid})]
    <3>1. (IF old[f] = {} THEN {NoFid} ELSE old[f]) \in SUBSET (Files \cup {NoFid})
      BY DEF TypeOK
    <3>2. QED
      BY <1>21, <3>1 DEF RegisterOld, TypeOK
  <2>2. old' \in [Files -> SUBSET Files] /\ disturbed' \subseteq Files
    BY <1>21 DEF RegisterOld, Disown, TypeOK
  <2>3. cached' \in [Dirs -> SUBSET SUBSET (Names \X Files)]
    BY <1>21, DroppedTyped DEF RegisterOld
  <2>4. task' = [task EXCEPT ![f] = "over"]
    BY <1>21 DEF RegisterOld, TaskGoto
  <2>5. UNCHANGED <<cloud, pending_renames, target, move, wanted>>
    BY <1>21 DEF RegisterOld
  <2>6. QED
    BY <2>1, <2>2, <2>3, <2>4, <2>5 DEF TypeOK
<1>12. ASSUME NEW f \in Files, TakePending(f) PROVE TypeOK'
  <2>1. target' \in [Files -> Paths] /\ pending_renames' \in [Files -> SUBSET Paths]
    <3>1. \/ UNCHANGED target
          \/ \E p \in pending_renames[f] : target' = [target EXCEPT ![f] = p]
      BY <1>12 DEF TakePending
    <3>2. \A p \in pending_renames[f] : p \in Paths
      BY DEF TypeOK
    <3>3. target' \in [Files -> Paths]
      BY <3>1, <3>2 DEF TypeOK
    <3>4. pending_renames' \in [Files -> SUBSET Paths]
      BY <1>12 DEF TakePending, TypeOK
    <3>5. QED
      BY <3>3, <3>4
  <2>2. \E t \in Replaying \cup {"register"} : task' = [task EXCEPT ![f] = t]
    BY <1>12 DEF TakePending, AfterMove, TaskGoto, Replaying
  <2>3. QED
    BY <1>12, <2>1, <2>2 DEF TakePending, Replaying, TypeOK
<1>13. ASSUME NEW f \in Files, ReplayMove(f) \/ ReplayName(f) PROVE TypeOK'
  <2>1. at' \in [Files -> SUBSET Paths]
    BY <1>13, CallsTyped DEF ReplayMove, ReplayName, TypeOK
  <2>2. QED
    BY <1>13, <2>1 DEF ReplayMove, ReplayName, AfterMove, TaskGoto, TypeOK
<1>14. ASSUME NEW f \in Files, Register(f) PROVE TypeOK'
  BY <1>14, DroppedTyped DEF Register, RegisterActiveWrite, TaskGoto, TypeOK
<1>15. ASSUME NEW f \in Files, CatchUp(f) PROVE TypeOK'
  BY <1>15 DEF CatchUp, TypeOK
<1>16. ASSUME NEW p \in Paths, EntryExpires(p) PROVE TypeOK'
  BY <1>16 DEF EntryExpires, RemoveActiveWrite, TypeOK
<1>17. ASSUME NEW d \in Dirs, ListingExpires(d) PROVE TypeOK'
  BY <1>17, DroppedTyped DEF ListingExpires, TypeOK
<1>18. CASE Restart
  <2>1. task' \in [Files -> {"none", "over"}] /\ old' \in [Files -> SUBSET Files]
    BY <1>18 DEF Restart
  <2>2. pc' \in [Moves -> {"idle", "over"}]
    BY <1>18 DEF Restart
  <2>3. /\ active_writes' \in [Paths -> SUBSET (Files \cup {NoFid})]
        /\ pending_renames' \in [Files -> SUBSET Paths] /\ disturbed' \subseteq Files
    BY <1>18 DEF Restart, TypeOK
  <2>4. /\ from' \in [Moves -> Paths] /\ to' \in [Moves -> Paths]
        /\ got' \in [Moves -> SUBSET Files] /\ attempt' \in [Moves -> 0 .. MaxAttempts]
    BY <1>18, ForgetTyped DEF Restart
  <2>5. QED
    BY <1>18, <2>1, <2>2, <2>3, <2>4 DEF Restart, TypeOK
<1>19. QED
  BY <1>1, <1>2, <1>3, <1>4, <1>5, <1>6, <1>7, <1>8, <1>9, <1>10, <1>11, <1>12, <1>13,
     <1>14, <1>15, <1>16, <1>17, <1>18, <1>20, <1>21 DEF Next, MoveStep, TaskStep

-----------------------------------------------------------------------------
\* One lemma per part of the invariant.

\* No answer of the list API and no cached one names a file before its time.
UnlistedIn(l) == \A f \in Files, n \in Names : task[f] \in Early => <<n, f>> \notin l

LEMMA NeverFound ==
  ASSUME TypeOK, UnbornUnseen, NEW cache \in [Dirs -> SUBSET SUBSET (Names \X Files)],
         \A d \in Dirs : cache[d] \subseteq cached[d],
         NEW p \in Paths, NEW s, GetFile(cache, p, s)
  PROVE  /\ \A d \in Dirs : \A l \in cached'[d] : UnlistedIn(l)
         /\ \A f \in s : f \in Files /\ task[f] \notin Early
<1>1. p[1] \in Dirs /\ p[2] \in Names
  BY DEF Paths
<1>2. UnlistedIn(Listing(p[1]))
  <2> SUFFICES ASSUME NEW f \in Files, NEW n \in Names, task[f] \in Early,
                      <<n, f>> \in Listing(p[1])
               PROVE  FALSE
    BY DEF UnlistedIn
  <2>1. shown[f] = {<<p[1], n>>}
    BY DEF Listing
  <2>2. shown[f] = {}
    BY DEF UnbornUnseen
  <2>3. QED
    BY <2>1, <2>2
<1>3. \A d \in Dirs : \A l \in cache[d] : UnlistedIn(l)
  BY DEF UnlistedIn, UnbornUnseen
<1>4. \A l : UnlistedIn(l) => \A f \in NamedIn(l, p) : f \in Files /\ task[f] \notin Early
  BY <1>1 DEF UnlistedIn, NamedIn
<1>5. QED
  BY <1>1, <1>2, <1>3, <1>4 DEF GetFile

LEMMA DropsOnly ==
  ASSUME TypeOK, NEW ds
  PROVE  /\ Dropped(ds) \in [Dirs -> SUBSET SUBSET (Names \X Files)]
         /\ \A d \in Dirs : Dropped(ds)[d] \subseteq cached[d]
  BY DEF Dropped, TypeOK

\* What keeps UnbornUnseen: no file becomes early, and whoever is early has been
\* left alone.
LEMMA StaysUnseen ==
  ASSUME TypeOK, UnbornUnseen,
         \A f \in Files : task'[f] \in Early \cup Ending =>
             task[f] \in Early \cup Ending /\ target'[f] = target[f],
         \A f \in Files : task'[f] \in Early =>
             /\ task[f] \in Early
             /\ at'[f] = {} /\ shown'[f] = {} /\ pending_renames'[f] = {}
             /\ \A m \in Moves : f \notin got'[m],
         \A d \in Dirs : \A l \in cached'[d] : UnlistedIn(l)
  PROVE  UnbornUnseen'
  BY DEF UnbornUnseen, UnlistedIn

LEMMA UnseenStep ==
  ASSUME TypeOK, UnbornUnseen, Next
  PROVE  UnbornUnseen'
<1> USE DEF cloud, upload, move
<1>0. \A d \in Dirs : \A l \in cached[d] : UnlistedIn(l)
  BY DEF UnlistedIn, UnbornUnseen
<1>D. \A ds : \A d \in Dirs : \A l \in Dropped(ds)[d] : UnlistedIn(l)
  BY <1>0, DropsOnly
<1>1. ASSUME NEW m \in Moves, ResolveFile(m) PROVE UnbornUnseen'
  <2>1. PICK b \in Paths, a \in Paths, s \in SUBSET Files :
              /\ Looked(m, a, b, s)
              /\ \E f \in s :
                   /\ got' = [got EXCEPT ![m] = {f}]
                   /\ \/ NotePending(m, f, a, b) \/ UNCHANGED pending_renames
    BY <1>1 DEF ResolveFile, Free
  <2>2. /\ \A d \in Dirs : \A l \in cached'[d] : UnlistedIn(l)
        /\ \A f \in s : f \in Files /\ task[f] \notin Early
    BY <2>1, NeverFound DEF Looked, TypeOK
  <2>3. \A f \in Files : task[f] \in Early =>
           pending_renames'[f] = pending_renames[f] /\ \A k \in Moves : f \notin got'[k]
    BY <2>1, <2>2 DEF NotePending, TypeOK, UnbornUnseen
  <2>4. UNCHANGED <<cloud, upload>>
    BY <2>1 DEF Looked
  <2>5. QED
    BY <2>2, <2>3, <2>4, StaysUnseen DEF UnbornUnseen
<1>2. ASSUME NEW m \in Moves, ResolveEntry(m) \/ ResolveNothing(m) PROVE UnbornUnseen'
  <2>1. PICK b \in Paths, a \in Paths : Looked(m, a, b, {})
    BY <1>2 DEF ResolveEntry, ResolveNothing, Free
  <2>2. UNCHANGED <<got, pending_renames>>
    BY <1>2 DEF ResolveEntry, ResolveNothing
  <2>3. \A d \in Dirs : \A l \in cached'[d] : UnlistedIn(l)
    BY <2>1, NeverFound DEF Looked, TypeOK
  <2>4. UNCHANGED <<cloud, upload>>
    BY <2>1 DEF Looked
  <2>5. QED
    BY <2>2, <2>3, <2>4, StaysUnseen DEF UnbornUnseen
<1>3. ASSUME NEW m \in Moves, Again(m) PROVE UnbornUnseen'
  <2>1. UNCHANGED <<cloud, pending_renames, upload>>
    BY <1>3 DEF Again
  <2>2. CASE \E s \in SUBSET Files :
               /\ GetFile(Dropped({from[m][1]}), from[m], s)
               /\ \/ \E f \in s : got' = [got EXCEPT ![m] = {f}]
                  \/ UNCHANGED got
    <3>1. PICK s \in SUBSET Files :
               /\ GetFile(Dropped({from[m][1]}), from[m], s)
               /\ \/ \E f \in s : got' = [got EXCEPT ![m] = {f}]
                  \/ UNCHANGED got
      BY <2>2
    <3>2. from[m] \in Paths
      BY DEF TypeOK
    <3> DEFINE cache == Dropped({from[m][1]})
    <3>3. /\ cache \in [Dirs -> SUBSET SUBSET (Names \X Files)]
          /\ \A d \in Dirs : cache[d] \subseteq cached[d]
      BY DropsOnly
    <3>4. GetFile(cache, from[m], s)
      BY <3>1
    <3> HIDE DEF cache
    <3>5. /\ \A d \in Dirs : \A l \in cached'[d] : UnlistedIn(l)
          /\ \A f \in s : f \in Files /\ task[f] \notin Early
      BY <3>2, <3>3, <3>4, NeverFound
    <3>6. \A f \in Files : task[f] \in Early => \A k \in Moves : f \notin got'[k]
      <4>1. \A k \in Moves : got'[k] = got[k] \/ \E g \in s : got'[k] = {g}
        BY <3>1 DEF TypeOK
      <4>2. \A f \in Files : task[f] \in Early => \A k \in Moves : f \notin got[k]
        BY DEF UnbornUnseen
      <4>3. QED
        BY <3>5, <4>1, <4>2
    <3>7. QED
      BY <2>1, <3>5, <3>6, StaysUnseen DEF UnbornUnseen
  <2>3. CASE UNCHANGED <<cached, got>>
    BY <1>0, <2>1, <2>3, StaysUnseen DEF UnbornUnseen
  <2>4. QED
    BY <1>3, <2>2, <2>3 DEF Again
<1>4. ASSUME NEW m \in Moves, OverlayMove(m) PROVE UnbornUnseen'
  BY <1>0, <1>4, StaysUnseen DEF OverlayMove, UnbornUnseen
<1>5. ASSUME NEW m \in Moves, FindParent(m) PROVE UnbornUnseen'
  <2>1. \A f \in Files : task[f] \in Early =>
           pending_renames'[f] = pending_renames[f] /\ \A k \in Moves : f \notin got'[k]
    BY <1>5 DEF FindParent, Forget, NotePending, TypeOK, UnbornUnseen
  <2>2. QED
    BY <1>0, <1>5, <2>1, StaysUnseen DEF FindParent, UnbornUnseen
<1>6. ASSUME NEW m \in Moves, CallMove(m) \/ CallRename(m) PROVE UnbornUnseen'
  <2>1. \A f \in Files : task[f] \in Early => at'[f] = at[f]
    BY <1>6 DEF CallMove, CallRename, MoveFile, RenameFile, TypeOK, UnbornUnseen
  <2>2. QED
    BY <1>0, <1>6, <2>1, StaysUnseen DEF CallMove, CallRename, UnbornUnseen
<1>7. ASSUME NEW m \in Moves, Invalidate(m) PROVE UnbornUnseen'
  <2>1. \A f \in Files : task[f] \in Early => \A k \in Moves : f \notin got'[k]
    BY <1>7 DEF Invalidate, Forget, UnbornUnseen
  <2>2. QED
    BY <1>D, <1>7, <2>1, StaysUnseen DEF Invalidate, UnbornUnseen
<1>8. ASSUME NEW f \in Files, Probe(f) PROVE UnbornUnseen'
  BY <1>0, <1>8, StaysUnseen DEF Probe, UnbornUnseen
<1>9. ASSUME NEW f \in Files, Open(f) \/ Flush(f) \/ TaskFails(f) PROVE UnbornUnseen'
  <2>1. \A g \in Files : \/ task'[g] = task[g]
                        \/ (g = f /\ task[f] \in Early /\ task'[f] \in Early \cup {"over"})
    BY <1>9 DEF Open, Flush, TaskFails, TaskGoto, TypeOK, Early
  <2>2. UNCHANGED <<cloud, pending_renames, target, got>>
    BY <1>9 DEF Open, Flush, TaskFails
  <2>3. \A d \in Dirs : \A l \in cached'[d] : UnlistedIn(l)
    <3>0. Home[f] \in Paths
      BY RenameAssumption
    <3>1. CASE Open(f)
      BY <3>0, <3>1, NeverFound DEF Open, TypeOK
    <3>2. CASE Flush(f)
      BY <1>0, <3>0, <3>2, DropsOnly, NeverFound DEF Flush, TypeOK
    <3>3. CASE TaskFails(f)
      BY <1>0, <3>3 DEF TaskFails
    <3>4. QED
      BY <1>9, <3>1, <3>2, <3>3
  <2>4. QED
    BY <2>1, <2>2, <2>3, StaysUnseen DEF UnbornUnseen, Early, Ending
<1>10. ASSUME NEW f \in Files, EarlyFinish(f) \/ Finish(f) PROVE UnbornUnseen'
  <2>1. /\ \A g \in Files \ {f} : task'[g] = task[g] /\ at'[g] = at[g]
        /\ task'[f] \notin Early /\ task[f] \in Early
    BY <1>10 DEF EarlyFinish, Finish, Appears, TaskGoto, TypeOK, Early
  <2>2. \A d \in Dirs : \A l \in cached'[d] : UnlistedIn(l)
    BY <1>0, <1>D, <1>10 DEF EarlyFinish, Finish
  <2>3. UNCHANGED <<shown, pending_renames, target, got>>
    BY <1>10 DEF EarlyFinish, Finish
  <2>4. QED
    BY <2>1, <2>2, <2>3, StaysUnseen DEF UnbornUnseen
<1>20. ASSUME NEW f \in Files, RemoveOld(f) PROVE UnbornUnseen'
  <2>1. /\ \A g \in Files \ {f} : task'[g] = task[g]
        /\ task'[f] \notin Early /\ task[f] \in Ending
    BY <1>20 DEF RemoveOld, TaskGoto, TypeOK, Early, Ending
  <2>2. \A g \in Files : at'[g] \in {at[g], {}}
    BY <1>20 DEF RemoveOld, TypeOK
  <2>3. UNCHANGED <<shown, cached, pending_renames, target, got>>
    BY <1>20 DEF RemoveOld
  <2>4. QED
    BY <1>0, <2>1, <2>2, <2>3, StaysUnseen DEF UnbornUnseen
<1>21. ASSUME NEW f \in Files, RegisterOld(f) PROVE UnbornUnseen'
  <2>1. /\ \A g \in Files \ {f} : task'[g] = task[g]
        /\ task'[f] \notin Early \cup Ending
    BY <1>21 DEF RegisterOld, TaskGoto, TypeOK, Early, Ending
  <2>2. QED
    BY <1>D, <1>21, <2>1, StaysUnseen DEF RegisterOld, UnbornUnseen
<1>11. ASSUME NEW f \in Files, TakePending(f) PROVE UnbornUnseen'
  <2>1. /\ \A g \in Files \ {f} : task'[g] = task[g] /\ target'[g] = target[g]
                                  /\ pending_renames'[g] = pending_renames[g]
        /\ task'[f] \notin Early \cup Ending
    BY <1>11 DEF TakePending, AfterMove, TaskGoto, TypeOK, Early, Ending
  <2>2. QED
    BY <1>0, <1>11, <2>1, StaysUnseen DEF TakePending, UnbornUnseen
<1>12. ASSUME NEW f \in Files, ReplayMove(f) \/ ReplayName(f) PROVE UnbornUnseen'
  <2>1. /\ \A g \in Files \ {f} : task'[g] = task[g] /\ at'[g] = at[g]
        /\ task'[f] \notin Early \cup Ending
    BY <1>12 DEF ReplayMove, ReplayName, MoveFile, RenameFile, AfterMove, TaskGoto, TypeOK,
       Early, Ending
  <2>2. QED
    BY <1>0, <1>12, <2>1, StaysUnseen DEF ReplayMove, ReplayName, UnbornUnseen
<1>13. ASSUME NEW f \in Files, Register(f) PROVE UnbornUnseen'
  <2>1. /\ \A g \in Files \ {f} : task'[g] = task[g]
        /\ task'[f] \notin Early \cup Ending
    BY <1>13 DEF Register, TaskGoto, TypeOK, Early, Ending
  <2>2. QED
    BY <1>D, <1>13, <2>1, StaysUnseen DEF Register, UnbornUnseen
<1>14. ASSUME NEW f \in Files, CatchUp(f) PROVE UnbornUnseen'
  <2>1. \A g \in Files : task[g] \in Early => shown'[g] = {}
    BY <1>14 DEF CatchUp, TypeOK, UnbornUnseen
  <2>2. QED
    BY <1>0, <1>14, <2>1, StaysUnseen DEF CatchUp, UnbornUnseen
<1>15. ASSUME NEW p \in Paths, EntryExpires(p) PROVE UnbornUnseen'
  BY <1>0, <1>15, StaysUnseen DEF EntryExpires, UnbornUnseen
<1>16. ASSUME NEW d \in Dirs, ListingExpires(d) PROVE UnbornUnseen'
  BY <1>D, <1>16, StaysUnseen DEF ListingExpires, UnbornUnseen
<1>17. CASE Restart
  <2>1. \A g \in Files : task'[g] \in Early \cup Ending => task[g] = "none"
    BY <1>17 DEF Restart, Early, Ending
  <2>2. /\ \A f \in Files : pending_renames'[f] = {}
        /\ \A f \in Files, m \in Moves : f \notin got[m] => f \notin got'[m]
    BY <1>17 DEF Restart, Forget
  <2>3. QED
    BY <1>0, <1>17, <2>1, <2>2, StaysUnseen DEF Restart, UnbornUnseen, Early
<1>18. QED
  BY <1>1, <1>2, <1>3, <1>4, <1>5, <1>6, <1>7, <1>8, <1>9, <1>10, <1>11, <1>12, <1>13,
     <1>14, <1>15, <1>16, <1>17, <1>20, <1>21 DEF Next, MoveStep, TaskStep

LEMMA OneInHandStep ==
  ASSUME TypeOK, OneInHand, Next
  PROVE  OneInHand'
<1> USE DEF cloud, upload, move
<1>1. ASSUME NEW m \in Moves, MoveStep(m) PROVE OneInHand'
  <2>1. CASE ResolveFile(m)
    <3>1. PICK f \in Files :
                 /\ got' = [got EXCEPT ![m] = {f}]
                 /\ Goto(m, "rename") \/ Goto(m, "parent")
      BY <2>1 DEF ResolveFile, Free
    <3>2. /\ got'[m] = {f} /\ pc'[m] \in {"rename", "parent"}
          /\ \A k \in Moves \ {m} : UNCHANGED <<pc[k], got[k]>>
      BY <3>1 DEF Goto, TypeOK
    <3>3. QED
      BY <3>2 DEF OneInHand
  <2>2. CASE ResolveEntry(m) \/ ResolveNothing(m)
    <3>1. UNCHANGED got /\ \E c : Goto(m, c)
      BY <2>2 DEF ResolveEntry, ResolveNothing
    <3>2. pc[m] = "idle" /\ \A k \in Moves \ {m} : UNCHANGED pc[k]
      BY <2>2, <3>1 DEF ResolveEntry, ResolveNothing, Goto, TypeOK
    <3>3. QED
      BY <3>1, <3>2 DEF OneInHand
  <2>3. CASE Again(m)
    <3>1. \/ UNCHANGED <<got, pc>>
          \/ UNCHANGED got /\ pc' = [pc EXCEPT ![m] = "overlay"]
          \/ \E f \in Files : got' = [got EXCEPT ![m] = {f}] /\ pc' = [pc EXCEPT ![m] = "parent"]
      BY <2>3 DEF Again, Goto
    <3>2. pc[m] = "again"
      BY <2>3 DEF Again
    <3>3. QED
      BY <3>1, <3>2 DEF TypeOK, OneInHand
  <2>4. CASE FindParent(m)
    BY <2>4 DEF FindParent, Forget, Goto, TypeOK, OneInHand
  <2>5. CASE CallMove(m) \/ CallRename(m) \/ OverlayMove(m)
    BY <2>5 DEF CallMove, CallRename, OverlayMove, Goto, TypeOK, OneInHand
  <2>6. CASE Invalidate(m)
    BY <2>6 DEF Invalidate, Forget, Goto, TypeOK, OneInHand
  <2>7. QED
    BY <1>1, <2>1, <2>2, <2>3, <2>4, <2>5, <2>6 DEF MoveStep
<1>2. ASSUME NEW f \in Files, Probe(f) \/ Open(f) \/ TaskStep(f) \/ CatchUp(f)
      PROVE  OneInHand'
  BY <1>2 DEF Probe, Open, TaskStep, Flush, TaskFails, EarlyFinish, Finish, RemoveOld,
     TakePending, ReplayMove, ReplayName, Register, RegisterOld, CatchUp, OneInHand
<1>3. ASSUME NEW p \in Paths, EntryExpires(p) PROVE OneInHand'
  BY <1>3 DEF EntryExpires, OneInHand
<1>4. ASSUME NEW d \in Dirs, ListingExpires(d) PROVE OneInHand'
  BY <1>4 DEF ListingExpires, OneInHand
<1>5. CASE Restart
  BY <1>5 DEF Restart, Forget, OneInHand
<1>6. QED
  BY <1>1, <1>2, <1>3, <1>4, <1>5 DEF Next

\* A PUT replaces a file it has found, so not one the cloud does not have yet.
LEMMA AdoptsFound ==
  ASSUME TypeOK, UnbornUnseen, UnbornUnnamed, NEW f \in Files, Open(f) \/ Flush(f)
  PROVE  \/ UNCHANGED <<old, disturbed>>
         \/ \E s \in SUBSET Files : Adopt(f, s) /\ \A g \in s : task[g] \notin Early
<1>0. Home[f] \in Paths
  BY RenameAssumption
<1>1. CASE Open(f)
  <2>1. PICK s \in SUBSET Files :
               /\ GetFile(cached, Home[f], s)
               /\ (\E g \in s : Adopt(f, {g}))
                    \/ (s = {} /\ Adopt(f, active_writes[Home[f]] \cap Files))
    BY <1>1 DEF Open
  <2>2. \A g \in s : g \in Files /\ task[g] \notin Early
    <3>1. cached \in [Dirs -> SUBSET SUBSET (Names \X Files)]
          /\ \A d \in Dirs : cached[d] \subseteq cached[d]
      BY DEF TypeOK
    <3>2. QED
      BY <1>0, <2>1, <3>1, NeverFound
  <2>3. CASE \E g \in s : Adopt(f, {g})
    <3>1. PICK g \in s : Adopt(f, {g})
      BY <2>3
    <3>2. {g} \in SUBSET Files /\ \A h \in {g} : task[h] \notin Early
      BY <2>2
    <3>3. QED
      BY <3>1, <3>2
  <2>4. CASE Adopt(f, active_writes[Home[f]] \cap Files)
    <3>1. \A g \in active_writes[Home[f]] \cap Files : task[g] \notin Early
      BY <1>0 DEF UnbornUnnamed
    <3>2. active_writes[Home[f]] \cap Files \in SUBSET Files
      OBVIOUS
    <3>3. QED
      BY <2>4, <3>1, <3>2
  <2>5. QED
    BY <2>1, <2>3, <2>4
<1>2. CASE Flush(f)
  <2>1. CASE \E s \in SUBSET Files :
               /\ GetFile(Dropped({Home[f][1]}), Home[f], s)
               /\ (\E g \in s : Adopt(f, {g})) \/ (s = {} /\ Adopt(f, {}))
    <3>1. PICK s \in SUBSET Files :
               /\ GetFile(Dropped({Home[f][1]}), Home[f], s)
               /\ (\E g \in s : Adopt(f, {g})) \/ (s = {} /\ Adopt(f, {}))
      BY <2>1
    <3>2. \A g \in s : g \in Files /\ task[g] \notin Early
      BY <1>0, <3>1, DropsOnly, NeverFound
    <3>3. CASE \E g \in s : Adopt(f, {g})
      <4>1. PICK g \in s : Adopt(f, {g})
        BY <3>3
      <4>2. {g} \in SUBSET Files /\ \A h \in {g} : task[h] \notin Early
        BY <3>2
      <4>3. QED
        BY <4>1, <4>2
    <3>4. CASE Adopt(f, {})
      BY <3>4
    <3>5. QED
      BY <3>1, <3>3, <3>4
  <2>2. QED
    BY <1>2, <2>1 DEF Flush
<1>3. QED
  BY <1>1, <1>2

\* A MOVE puts no file into the overlay, and touches no upload.
LEMMA MovesNameNothing ==
  ASSUME TypeOK, NEW m \in Moves, MoveStep(m)
  PROVE  /\ UNCHANGED upload /\ disturbed \subseteq disturbed'
         /\ \A p \in Paths : active_writes'[p] \cap Files \subseteq active_writes[p]
<1> USE DEF cloud, upload, move
<1>1. UNCHANGED upload
  BY DEF MoveStep, ResolveFile, ResolveEntry, ResolveNothing, Looked, Again,
     OverlayMove, FindParent, CallMove, CallRename, Invalidate
<1>2. disturbed \subseteq disturbed'
  BY DEF MoveStep, ResolveFile, NotePending, ResolveEntry, ResolveNothing, Again,
     OverlayMove, FindParent, CallMove, CallRename, Invalidate
<1>3. \/ UNCHANGED active_writes
      \/ \E p : RemoveActiveWrite(p)
      \/ RegisterActiveWrite(to[m], NoFid)
  BY DEF MoveStep, ResolveFile, ResolveEntry, ResolveNothing, Again,
     OverlayMove, FindParent, CallMove, CallRename, Invalidate
<1>4. \A p \in Paths : active_writes'[p] \cap Files \subseteq active_writes[p]
  <2>1. CASE \E p : RemoveActiveWrite(p)
    BY <2>1 DEF RemoveActiveWrite, TypeOK
  <2>2. CASE RegisterActiveWrite(to[m], NoFid)
    BY <2>2, RenameAssumption DEF RegisterActiveWrite, TypeOK
  <2>3. QED
    BY <1>3, <2>1, <2>2
<1>5. QED
  BY <1>1, <1>2, <1>4

\* The task of one file changes, and goes from stage to stage.
LEMMA OneTask ==
  ASSUME TypeOK, NEW f \in Files, Probe(f) \/ Open(f) \/ TaskStep(f)
  PROVE  /\ UNCHANGED <<move, disturbed>> \/ Open(f) \/ Flush(f) \/ RegisterOld(f)
         /\ UNCHANGED move
         /\ \A g \in Files \ {f} : UNCHANGED <<task[g], target[g], old[g], pending_renames[g]>>
         /\ task[f] # "over"
         /\ task'[f] \in Early => task[f] \in Early
         /\ task'[f] \in Early \/ UNCHANGED old[f] \/ old'[f] = {}
<1> USE DEF move, upload
<1>1. /\ UNCHANGED <<move, disturbed>> \/ Open(f) \/ Flush(f) \/ RegisterOld(f)
      /\ UNCHANGED move
  BY DEF Probe, Open, TaskStep, Flush, TaskFails, EarlyFinish, Finish, RemoveOld,
     TakePending, ReplayMove, ReplayName, Register, RegisterOld
<1>2. /\ task[f] # "over"
      /\ UNCHANGED task \/ \E t : TaskGoto(f, t)
  BY DEF Probe, Open, TaskStep, Flush, TaskFails, EarlyFinish, Finish, RemoveOld,
     TakePending, ReplayMove, ReplayName, Register, RegisterOld
<1>3. UNCHANGED old \/ \E s : Adopt(f, s) \/ Disown(f)
  BY DEF Probe, Open, TaskStep, Flush, TaskFails, EarlyFinish, Finish, RemoveOld,
     TakePending, ReplayMove, ReplayName, Register, RegisterOld
<1>4. \A g \in Files \ {f} : UNCHANGED <<target[g], pending_renames[g]>>
  BY DEF Probe, Open, TaskStep, Flush, TaskFails, EarlyFinish, Finish, RemoveOld,
     TakePending, ReplayMove, ReplayName, Register, RegisterOld, TypeOK
<1>5. task'[f] \in Early => task[f] \in Early
  BY DEF Probe, Open, TaskStep, Flush, TaskFails, EarlyFinish, Finish, RemoveOld,
     TakePending, ReplayMove, ReplayName, Register, RegisterOld, AfterMove, TaskGoto,
     TypeOK, Early
<1>6. CASE Open(f) \/ Flush(f)
  <2>1. task'[f] \in Early
    BY <1>6 DEF Open, Flush, TaskGoto, TypeOK, Early
  <2>2. \A g \in Files \ {f} : UNCHANGED <<task[g], old[g]>>
    BY <1>2, <1>3 DEF Adopt, Disown, TaskGoto, TypeOK
  <2>3. QED
    BY <1>1, <1>2, <1>4, <1>5, <2>1, <2>2
<1>7. CASE ~Open(f) /\ ~Flush(f)
  <2>1. UNCHANGED old \/ Disown(f)
    BY <1>7 DEF Probe, TaskStep, TaskFails, EarlyFinish, Finish, RemoveOld,
       TakePending, ReplayMove, ReplayName, Register, RegisterOld
  <2>2. \A g \in Files \ {f} : UNCHANGED <<task[g], old[g]>>
    BY <1>2, <2>1 DEF Disown, TaskGoto, TypeOK
  <2>3. UNCHANGED old[f] \/ old'[f] = {}
    BY <2>1 DEF Disown, TypeOK
  <2>4. QED
    BY <1>1, <1>2, <1>4, <1>5, <2>2, <2>3
<1>8. QED
  BY <1>6, <1>7

\* What keeps UnbornUnnamed.
LEMMA StaysUnnamed ==
  ASSUME UnbornUnnamed,
         \A f \in Files : task'[f] \in Early =>
             /\ task[f] \in Early
             /\ \A h \in Files : f \in old'[h] => f \in old[h]
             /\ \A p \in Paths : f \in active_writes'[p] => f \in active_writes[p]
  PROVE  UnbornUnnamed'
  BY DEF UnbornUnnamed

LEMMA UnnamedStep ==
  ASSUME TypeOK, UnbornUnseen, UnbornUnnamed, Next
  PROVE  UnbornUnnamed'
<1> USE DEF cloud, upload, move
<1>N. NoFid \notin Files
  BY RenameAssumption
<1>1. ASSUME NEW m \in Moves, MoveStep(m) PROVE UnbornUnnamed'
  BY <1>1, MovesNameNothing, StaysUnnamed
<1>2. ASSUME NEW f \in Files, Probe(f) PROVE UnbornUnnamed'
  <2>1. \A p \in Paths : active_writes'[p] \cap Files \subseteq active_writes[p]
    BY <1>N, <1>2 DEF Probe, RegisterActiveWrite, TypeOK
  <2>2. UNCHANGED upload
    BY <1>2 DEF Probe
  <2>3. QED
    BY <2>1, <2>2, StaysUnnamed
<1>3. ASSUME NEW f \in Files, Open(f) \/ Flush(f) PROVE UnbornUnnamed'
  <2>1. \A g \in Files : task'[g] \in Early => task[g] \in Early
    BY <1>3, OneTask DEF TaskStep
  <2>2. \A g \in Files, h \in Files : task[g] \in Early /\ g \in old'[h] => g \in old[h]
    BY <1>3, AdoptsFound DEF Adopt, TypeOK
  <2>3. \A p \in Paths : active_writes'[p] \subseteq active_writes[p]
    BY <1>3 DEF Open, Flush, RemoveActiveWrite, TypeOK
  <2>4. QED
    BY <2>1, <2>2, <2>3, StaysUnnamed
<1>4. ASSUME NEW f \in Files,
             \/ TaskFails(f) \/ Finish(f) \/ EarlyFinish(f) \/ RemoveOld(f) \/ TakePending(f)
             \/ ReplayMove(f) \/ ReplayName(f) \/ Register(f) \/ RegisterOld(f)
      PROVE  UnbornUnnamed'
  <2>1. \A g \in Files : task'[g] \in Early => g # f /\ task[g] \in Early
    BY <1>4 DEF TaskFails, EarlyFinish, Finish, RemoveOld, TakePending, ReplayMove,
       ReplayName, Register, RegisterOld, AfterMove, TaskGoto, TypeOK, Early
  <2>2. \A h \in Files : old'[h] \subseteq old[h]
    BY <1>4 DEF TaskFails, EarlyFinish, Finish, RemoveOld, TakePending, ReplayMove,
       ReplayName, Register, RegisterOld, Disown, TypeOK
  <2>3. \A p \in Paths :
          active_writes'[p] \cap Files \subseteq active_writes[p] \cup {f} \cup old[f]
    BY <1>4, <1>N DEF TaskFails, EarlyFinish, Finish, RemoveOld, TakePending, ReplayMove,
       ReplayName, Register, RegisterOld, RegisterActiveWrite, TypeOK
  <2>4. \A g \in old[f] : task[g] \notin Early
    BY DEF UnbornUnnamed, TypeOK
  <2>5. \A g \in Files : task'[g] \in Early =>
          \A p \in Paths : g \in active_writes'[p] => g \in active_writes[p]
    BY <2>1, <2>3, <2>4
  <2>6. QED
    BY <2>1, <2>2, <2>5, StaysUnnamed
<1>5. ASSUME \/ \E f \in Files : CatchUp(f)
             \/ \E p \in Paths : EntryExpires(p)
             \/ \E d \in Dirs : ListingExpires(d)
      PROVE  UnbornUnnamed'
  <2>1. \A p \in Paths : active_writes'[p] \subseteq active_writes[p]
    BY <1>5 DEF CatchUp, EntryExpires, ListingExpires, RemoveActiveWrite, TypeOK
  <2>2. UNCHANGED upload
    BY <1>5 DEF CatchUp, EntryExpires, ListingExpires
  <2>3. QED
    BY <2>1, <2>2, StaysUnnamed
<1>6. CASE Restart
  BY <1>6 DEF Restart, UnbornUnnamed
<1>7. QED
  BY <1>1, <1>2, <1>3, <1>4, <1>5, <1>6 DEF Next, TaskStep

\* What keeps NotesLast.
LEMMA StaysNoted ==
  ASSUME NotesLast, disturbed \subseteq disturbed',
         \A f \in Files \ disturbed' :
             /\ UNCHANGED <<target[f], pending_renames[f]>>
             /\ UNCHANGED wanted[f] \/ task'[f] = "over"
             /\ task'[f] \in {task[f], "over"} \/ (task[f] \in Early /\ task'[f] \in Early)
  PROVE  NotesLast'
  BY DEF NotesLast, Ending, InHand, Replaying, Early

\* What a MOVE notes keeps NotesLast.
LEMMA NoteIsLast ==
  ASSUME TypeOK, NotesLast, NEW m, NEW f \in Files, NEW a, NEW b, NotePending(m, f, a, b),
         UNCHANGED upload
  PROVE  NotesLast'
<1> SUFFICES ASSUME NEW g \in Files \ disturbed'
             PROVE  /\ \A p \in pending_renames'[g] : wanted'[g] = {p} \/ task'[g] = "over"
                    /\ task'[g] \in Ending /\ pending_renames'[g] = {} =>
                         wanted'[g] = {Home[g]}
                    /\ task'[g] \in InHand /\ pending_renames'[g] = {} =>
                         wanted'[g] = {target'[g]}
  BY DEF NotesLast
<1>1. task' = task /\ target' = target
  BY DEF upload
<1>2. CASE g = f
  <2>1. pending_renames'[g] = {b} /\ wanted'[g] = {b}
    BY <1>2 DEF NotePending, TypeOK
  <2>2. QED
    BY <2>1
<1>3. CASE g # f
  <2>1. UNCHANGED <<pending_renames[g], wanted[g]>> /\ g \notin disturbed
    BY <1>3 DEF NotePending, TypeOK
  <2>2. QED
    BY <1>1, <2>1 DEF NotesLast
<1>4. QED
  BY <1>2, <1>3

LEMMA NotesStep ==
  ASSUME TypeOK, UnbornUnseen, NotesLast, Replaces, Next
  PROVE  NotesLast'
<1> USE DEF cloud, upload, move
<1>1. ASSUME NEW m \in Moves, MoveStep(m) PROVE NotesLast'
  <2>0. UNCHANGED upload /\ disturbed \subseteq disturbed'
    BY <1>1, MovesNameNothing
  <2>1. \/ UNCHANGED <<pending_renames, wanted>>
        \/ \E a, b \in Paths, f \in Files : NotePending(m, f, a, b)
    <3>1. CASE ResolveFile(m)
      <4>1. PICK b \in Paths, a \in Paths, s \in SUBSET Files :
               \E f \in s : \/ NotePending(m, f, a, b)
                            \/ UNCHANGED <<pending_renames, wanted, disturbed>>
        BY <3>1 DEF ResolveFile, Free
      <4>2. QED
        BY <4>1
    <3>2. CASE FindParent(m)
      BY <3>2 DEF FindParent, TypeOK
    <3>3. QED
      BY <1>1, <3>1, <3>2 DEF MoveStep, ResolveEntry, ResolveNothing, Again,
         OverlayMove, CallMove, CallRename, Invalidate
  <2>2. CASE UNCHANGED <<pending_renames, wanted>>
    BY <2>0, <2>2 DEF NotesLast
  <2>3. QED
    BY <2>0, <2>1, <2>2, NoteIsLast
<1>2. ASSUME NEW f \in Files, Probe(f) \/ Open(f) \/ Flush(f) \/ TaskFails(f)
      PROVE  NotesLast'
  <2>1. /\ UNCHANGED <<target, pending_renames, wanted>>
        /\ disturbed \subseteq disturbed'
    BY <1>2 DEF Probe, Open, Flush, Adopt, TaskFails
  <2>2. \A g \in Files :
          task'[g] \in {task[g], "over"} \/ (task[g] \in Early /\ task'[g] \in Early)
    BY <1>2 DEF Probe, Open, Flush, TaskFails, TaskGoto, TypeOK, Early
  <2>3. QED
    BY <2>1, <2>2, StaysNoted
<1>3. ASSUME NEW f \in Files, EarlyFinish(f) \/ Finish(f) PROVE NotesLast'
  <2>1. pending_renames[f] = {} /\ UNCHANGED <<pending_renames, target, disturbed>>
    BY <1>3 DEF EarlyFinish, Finish, UnbornUnseen, Early
  <2>2. /\ wanted' = [wanted EXCEPT ![f] = {Home[f]}]
        /\ \E t \in {"over", "confirmed", "instant", "kept"} : task' = [task EXCEPT ![f] = t]
    BY <1>3 DEF EarlyFinish, Finish, Appears, TaskGoto
  <2>3. QED
    BY <2>1, <2>2 DEF NotesLast, TypeOK, InHand, Replaying
<1>4. ASSUME NEW f \in Files, RemoveOld(f) PROVE NotesLast'
  <2>1. PICK gone \in SUBSET old[f] :
               wanted' = [g \in Files |-> IF g \in gone THEN wanted[g] \ {Home[f]}
                                                      ELSE wanted[g]]
    <3>1. {} \in SUBSET old[f] /\ old[f] \ {f} \in SUBSET old[f]
      OBVIOUS
    <3>2. QED
      BY <1>4, <3>1 DEF RemoveOld
  <2>2. /\ task[f] \in Ending /\ (task[f] \in Ending => target[f] = Home[f])
        /\ UNCHANGED <<target, pending_renames, disturbed>>
    BY <1>4 DEF RemoveOld, UnbornUnseen, Ending
  <2>3. ASSUME NEW g \in Files \ disturbed, g # f
        PROVE  /\ UNCHANGED wanted[g] \/ task'[g] = "over"
               /\ task'[g] = task[g]
    <3>1. task'[g] = task[g]
      BY <1>4, <2>3 DEF RemoveOld, TaskGoto, TypeOK
    <3>2. g \in gone => task[g] = "over"
      BY <2>1, <2>3 DEF Replaces, Replaced
    <3>3. QED
      BY <2>1, <3>1, <3>2
  <2>4. ASSUME f \notin disturbed PROVE UNCHANGED wanted[f]
    <3>1. f \notin gone
      BY <2>1, <2>2, <2>4 DEF Replaces, Replaced, Ending
    <3>2. QED
      BY <2>1, <3>1
  <2>5. task'[f] \in {"removed", "register", "registerOld"}
    BY <1>4 DEF RemoveOld, TaskGoto, TypeOK
  <2>6. QED
    BY <2>2, <2>3, <2>4, <2>5 DEF NotesLast, Ending, InHand, Replaying
<1>5. ASSUME NEW f \in Files, TakePending(f) PROVE NotesLast'
  <2>1. target[f] = Home[f] /\ task[f] \in Ending
    BY <1>5 DEF TakePending, UnbornUnseen, Ending
  <2>2. ASSUME f \notin disturbed PROVE wanted[f] = {target'[f]}
    <3>1. /\ \A p \in pending_renames[f] : wanted[f] = {p}
          /\ pending_renames[f] = {} => wanted[f] = {Home[f]}
      BY <2>1, <2>2 DEF NotesLast, Ending
    <3>2. \/ pending_renames[f] = {} /\ UNCHANGED target
          \/ \E p \in pending_renames[f] : target' = [target EXCEPT ![f] = p]
      BY <1>5 DEF TakePending
    <3>3. QED
      BY <2>1, <3>1, <3>2 DEF TypeOK
  <2>3. task'[f] \in InHand
    BY <1>5 DEF TakePending, AfterMove, TaskGoto, TypeOK, InHand, Replaying
  <2>4. \A g \in Files \ {f} : UNCHANGED <<task[g], target[g], pending_renames[g]>>
    BY <1>5 DEF TakePending, TaskGoto, TypeOK
  <2>5. UNCHANGED <<wanted, disturbed>> /\ pending_renames'[f] = {}
    BY <1>5 DEF TakePending, TypeOK
  <2>6. QED
    BY <2>2, <2>3, <2>4, <2>5 DEF NotesLast, InHand, Replaying, Ending
<1>6. ASSUME NEW f \in Files,
             ReplayMove(f) \/ ReplayName(f) \/ Register(f) \/ RegisterOld(f)
      PROVE  NotesLast'
  <2>1. /\ UNCHANGED <<target, pending_renames, wanted>>
        /\ disturbed \subseteq disturbed'
    BY <1>6 DEF ReplayMove, ReplayName, Register, RegisterOld
  <2>2. /\ task'[f] = "over" \/ (task[f] \in InHand /\ task'[f] \in InHand)
        /\ \A g \in Files \ {f} : task'[g] = task[g]
    <3>1. \E t : task' = [task EXCEPT ![f] = t] /\ (t = "over" \/ t \in InHand)
      BY <1>6 DEF ReplayMove, ReplayName, Register, RegisterOld, AfterMove, TaskGoto,
         InHand, Replaying
    <3>2. task[f] \in InHand \/ RegisterOld(f)
      BY <1>6 DEF ReplayMove, ReplayName, Register, InHand, Replaying
    <3>3. RegisterOld(f) => task'[f] = "over"
      BY DEF RegisterOld, TaskGoto, TypeOK
    <3>4. QED
      BY <3>1, <3>2, <3>3 DEF TypeOK
  <2>3. QED
    BY <2>1, <2>2 DEF NotesLast, InHand, Replaying, Ending
<1>7. ASSUME \/ \E f \in Files : CatchUp(f)
             \/ \E p \in Paths : EntryExpires(p)
             \/ \E d \in Dirs : ListingExpires(d)
      PROVE  NotesLast'
  BY <1>7 DEF CatchUp, EntryExpires, ListingExpires, NotesLast
<1>8. CASE Restart
  <2>1. \A f \in Files : task'[f] \in {"none", "over"} /\ pending_renames'[f] = {}
    BY <1>8 DEF Restart
  <2>2. QED
    BY <2>1 DEF NotesLast, InHand, Replaying, Ending
<1>9. QED
  BY <1>1, <1>2, <1>3, <1>4, <1>5, <1>6, <1>7, <1>8 DEF Next, TaskStep

\* What keeps RegistersLast: nothing is registered, no task starts again, and a file
\* is wanted elsewhere only with a note.
LEMMA StaysRegistered ==
  ASSUME RegistersLast, disturbed \subseteq disturbed',
         \A f \in Files \ disturbed', p \in Paths :
             f \in active_writes'[p] =>
                 /\ f \in active_writes[p]
                 /\ task[f] = "over" => task'[f] = "over"
                 /\ \/ UNCHANGED <<wanted[f], pending_renames[f]>>
                    \/ pending_renames'[f] # {}
                    \/ task[f] # "over"
  PROVE  RegistersLast'
  BY DEF RegistersLast

LEMMA RegistersStep ==
  ASSUME TypeOK, NotesLast, RegistersLast, Replaces, Next
  PROVE  RegistersLast'
<1> USE DEF cloud, upload, move
<1>N. NoFid \notin Files
  BY RenameAssumption
<1>1. ASSUME NEW m \in Moves, MoveStep(m) PROVE RegistersLast'
  <2>1. /\ UNCHANGED task /\ disturbed \subseteq disturbed'
        /\ \A p \in Paths : active_writes'[p] \cap Files \subseteq active_writes[p]
    BY <1>1, MovesNameNothing
  <2>2. \A f \in Files : UNCHANGED <<wanted[f], pending_renames[f]>> \/ pending_renames'[f] # {}
    <3>1. \/ UNCHANGED <<wanted, pending_renames>>
          \/ \E a, b : \E f \in Files : NotePending(m, f, a, b)
      <4>1. CASE ResolveFile(m)
        BY <4>1 DEF ResolveFile
      <4>2. CASE FindParent(m)
        BY <4>2 DEF FindParent, TypeOK
      <4>3. QED
        BY <1>1, <4>1, <4>2 DEF MoveStep, ResolveEntry, ResolveNothing, Again,
           OverlayMove, CallMove, CallRename, Invalidate
    <3>2. ASSUME NEW a, NEW b, NEW g \in Files, NotePending(m, g, a, b), NEW f \in Files
          PROVE  UNCHANGED <<wanted[f], pending_renames[f]>> \/ pending_renames'[f] # {}
      <4>1. /\ pending_renames' = [pending_renames EXCEPT ![g] = {b}]
            /\ wanted' = [wanted EXCEPT ![g] = {b}]
        BY <3>2 DEF NotePending
      <4>2. QED
        BY <4>1 DEF TypeOK
    <3>3. QED
      BY <3>1, <3>2
  <2>3. QED
    BY <2>1, <2>2, StaysRegistered
<1>2. ASSUME NEW f \in Files,
             \/ Probe(f) \/ Open(f) \/ Flush(f) \/ TaskFails(f) \/ Finish(f)
             \/ TakePending(f) \/ ReplayMove(f) \/ ReplayName(f)
      PROVE  RegistersLast'
  <2>1. \A p \in Paths : active_writes'[p] \cap Files \subseteq active_writes[p]
    BY <1>2, <1>N DEF Probe, Open, Flush, TaskFails, Finish, TakePending, ReplayMove,
       ReplayName, RegisterActiveWrite, RemoveActiveWrite, TypeOK
  <2>2. /\ task[f] # "over" /\ disturbed \subseteq disturbed'
        /\ \A g \in Files \ {f} : UNCHANGED <<task[g], pending_renames[g]>>
    <3>1. Probe(f) \/ Open(f) \/ TaskStep(f)
      BY <1>2 DEF TaskStep
    <3>2. QED
      BY <1>2, <3>1, OneTask DEF Open, Flush, Adopt, RegisterOld
  <2>3. \A g \in Files \ {f} : UNCHANGED wanted[g]
    BY <1>2 DEF Probe, Open, Flush, TaskFails, Finish, Appears, TakePending, ReplayMove,
       ReplayName, TypeOK
  <2>4. QED
    BY <2>1, <2>2, <2>3, StaysRegistered
<1>3. ASSUME NEW f \in Files, EarlyFinish(f) \/ Register(f) PROVE RegistersLast'
  <2>1. PICK q \in Paths :
               /\ active_writes' = [active_writes EXCEPT ![q] = {f}]
               /\ f \in disturbed \/ wanted'[f] = {q} \/ pending_renames'[f] # {}
    <3>1. CASE EarlyFinish(f)
      <4>1. Home[f] \in Paths
        BY RenameAssumption
      <4>2. wanted'[f] = {Home[f]}
        BY <3>1 DEF EarlyFinish, Appears, TypeOK
      <4>3. QED
        BY <3>1, <4>1, <4>2 DEF EarlyFinish, RegisterActiveWrite
    <3>2. CASE Register(f)
      <4>1. target[f] \in Paths
        BY DEF TypeOK
      <4>2. f \in disturbed \/ wanted[f] = {target[f]} \/ pending_renames[f] # {}
        BY <3>2 DEF Register, NotesLast, InHand
      <4>3. QED
        BY <3>2, <4>1, <4>2 DEF Register, RegisterActiveWrite
    <3>3. QED
      BY <1>3, <3>1, <3>2
  <2>2. /\ task'[f] = "over" /\ task[f] # "over" /\ UNCHANGED disturbed
        /\ \A g \in Files \ {f} : task'[g] = task[g]
    BY <1>3 DEF EarlyFinish, Register, TaskGoto, TypeOK
  <2>3. \A g \in Files \ {f} : UNCHANGED <<wanted[g], pending_renames[g]>>
    BY <1>3 DEF EarlyFinish, Register, Appears, TypeOK
  <2>4. \A p \in Paths : /\ f \notin disturbed /\ f \in active_writes'[p] => p = q
                         /\ active_writes'[p] \subseteq active_writes[p] \cup {f}
    BY <2>1, <2>2 DEF RegistersLast, TypeOK
  <2>5. QED
    BY <2>1, <2>2, <2>3, <2>4 DEF RegistersLast
<1>4. ASSUME NEW f \in Files, RemoveOld(f) PROVE RegistersLast'
  <2>1. PICK gone \in SUBSET old[f] :
               wanted' = [g \in Files |-> IF g \in gone THEN wanted[g] \ {Home[f]}
                                                      ELSE wanted[g]]
    <3>1. {} \in SUBSET old[f] /\ old[f] \ {f} \in SUBSET old[f]
      OBVIOUS
    <3>2. QED
      BY <1>4, <3>1 DEF RemoveOld
  <2>2. /\ UNCHANGED <<active_writes, pending_renames, disturbed>>
        /\ task[f] # "opened" /\ task[f] # "over"
        /\ \A g \in Files \ {f} : UNCHANGED task[g]
    BY <1>4 DEF RemoveOld, TaskGoto, TypeOK
  <2>3. ASSUME NEW g \in Files \ disturbed, NEW p \in Paths, g \in active_writes[p], g \in gone
        PROVE  pending_renames[g] # {}
    <3>1. wanted[g] \subseteq {Home[f]} /\ g \notin active_writes[Home[f]]
      BY <2>1, <2>2, <2>3 DEF Replaces, Replaced
    <3>2. wanted[g] # {p}
      BY <2>3, <3>1
    <3>3. QED
      BY <2>3, <3>2 DEF RegistersLast
  <2>4. QED
    BY <2>1, <2>2, <2>3, StaysRegistered
<1>5. ASSUME NEW f \in Files, RegisterOld(f) PROVE RegistersLast'
  <2>1. \A p \in Paths : active_writes'[p] \cap Files \subseteq active_writes[p] \cup old[f]
    BY <1>5, <1>N DEF RegisterOld, TypeOK
  <2>2. /\ UNCHANGED <<wanted, pending_renames>> /\ disturbed' = disturbed \cup old[f]
        /\ \A g \in Files : UNCHANGED task[g] \/ task'[g] = "over"
    BY <1>5 DEF RegisterOld, TaskGoto, TypeOK
  <2>3. QED
    BY <2>1, <2>2, StaysRegistered
<1>6. ASSUME \/ \E f \in Files : CatchUp(f)
             \/ \E p \in Paths : EntryExpires(p)
             \/ \E d \in Dirs : ListingExpires(d)
      PROVE  RegistersLast'
  <2>1. \A p \in Paths : active_writes'[p] \subseteq active_writes[p]
    BY <1>6 DEF CatchUp, EntryExpires, ListingExpires, RemoveActiveWrite, TypeOK
  <2>2. UNCHANGED <<task, wanted, pending_renames, disturbed>>
    BY <1>6 DEF CatchUp, EntryExpires, ListingExpires
  <2>3. QED
    BY <2>1, <2>2, StaysRegistered
<1>7. CASE Restart
  BY <1>7 DEF Restart, RegistersLast
<1>8. QED
  BY <1>1, <1>2, <1>3, <1>4, <1>5, <1>6, <1>7 DEF Next, TaskStep

\* What keeps Replaced: nothing new is replaced, and what is has not been touched.
LEMMA StaysReplaced ==
  ASSUME NEW f \in Files, NEW g \in old[f] \ disturbed, Replaced(f, g),
         task'[g] = "over", \A m \in Moves : Holds(m, g)' => Holds(m, g),
         wanted'[g] \subseteq wanted[g],
         task'[f] # "opened" =>
             /\ g \in active_writes'[Home[f]] => g \in active_writes[Home[f]]
             /\ task[f] # "opened" \/ g \notin active_writes'[Home[f]]
  PROVE  Replaced(f, g)'
  BY DEF Replaced

\* A PUT or its task leaves alone what the others replace.
LEMMA UploadReplaces ==
  ASSUME RInv, NEW f \in Files, Probe(f) \/ Open(f) \/ TaskStep(f)
  PROVE  Replaces'
<1> USE DEF RInv
<1>H. Home \in [Files -> Paths] /\ NoFid \notin Files
  BY RenameAssumption
<1>1. /\ UNCHANGED move /\ disturbed \subseteq disturbed' /\ task[f] # "over"
      /\ \A h \in Files \ {f} : UNCHANGED <<task[h], old[h]>>
      /\ task'[f] \in Early \/ UNCHANGED old[f] \/ old'[f] = {}
  BY OneTask DEF Open, Flush, Adopt, RegisterOld
<1>2. \A m \in Moves, g \in Files : Holds(m, g)' <=> Holds(m, g)
  BY <1>1 DEF Holds, move
<1>3. \A g \in Files : g # f => wanted'[g] \subseteq wanted[g]
  BY DEF Probe, Open, TaskStep, Flush, TaskFails, EarlyFinish, Finish, Appears, RemoveOld,
     TakePending, ReplayMove, ReplayName, Register, RegisterOld, TypeOK
<1>4. \A p \in Paths, g \in Files \ disturbed' :
        g # f /\ g \in active_writes'[p] => g \in active_writes[p]
  BY <1>H DEF Probe, Open, TaskStep, Flush, TaskFails, EarlyFinish, Finish, RemoveOld,
     TakePending, ReplayMove, ReplayName, Register, RegisterOld,
     RegisterActiveWrite, RemoveActiveWrite, TypeOK
<1>5. ASSUME NEW h \in Files, NEW g \in old'[h] \ disturbed', g \in old[h],
             \/ h # f
             \/ task[f] # "opened"
             \/ UNCHANGED task[f]
             \/ g \notin active_writes'[Home[f]]
      PROVE  Replaced(h, g)'
  <2>1. g \in old[h] \ disturbed /\ Replaced(h, g) /\ g \in Files
    BY <1>1, <1>5 DEF Replaces, TypeOK
  <2>2. g # f
    BY <1>1, <2>1 DEF Replaced
  <2>3. task'[g] = "over"
    BY <1>1, <2>1, <2>2 DEF Replaced
  <2>4. Home[h] \in Paths /\ wanted'[g] \subseteq wanted[g]
    BY <1>3, <1>H, <2>1, <2>2
  <2>5. /\ g \in active_writes'[Home[h]] => g \in active_writes[Home[h]]
        /\ task'[h] = "opened" \/ task[h] # "opened" \/ g \notin active_writes'[Home[h]]
    BY <1>1, <1>4, <1>5, <2>1, <2>2, <2>4
  <2>6. QED
    BY <1>2, <2>1, <2>3, <2>4, <2>5, StaysReplaced
<1>6. ASSUME NEW s \in SUBSET Files, Adopt(f, s), NEW g \in s \ disturbed',
             UNCHANGED wanted,
             task'[f] = "opened" \/ active_writes'[Home[f]] = {}
      PROVE  Replaced(f, g)'
  <2>1. /\ at[g] = {Home[f]} /\ task[g] = "over" /\ \A m \in Moves : ~Holds(m, g)
        /\ g \in Files \ disturbed
    BY <1>6 DEF Adopt
  <2>2. wanted'[g] = {Home[f]}
    BY <1>6, <2>1 DEF Tracks, Tracked
  <2>3. task'[g] = "over" /\ \A m \in Moves : ~Holds(m, g)'
    BY <1>1, <1>2, <2>1
  <2>4. QED
    BY <1>6, <2>2, <2>3 DEF Replaced
<1>7. ASSUME NEW g \in old'[f] \ disturbed' PROVE Replaced(f, g)'
  <2>1. CASE Open(f)
    <3>1. PICK s \in SUBSET Files : Adopt(f, s)
      <4>1. PICK s \in SUBSET Files : (\E g1 \in s : Adopt(f, {g1}))
                                  \/ Adopt(f, active_writes[Home[f]] \cap Files)
        BY <2>1 DEF Open
      <4>2. \A g1 \in s : {g1} \in SUBSET Files
        OBVIOUS
      <4>3. active_writes[Home[f]] \cap Files \in SUBSET Files
        OBVIOUS
      <4>4. QED
        BY <4>1, <4>2, <4>3
    <3>2. task'[f] = "opened" /\ UNCHANGED wanted
      BY <2>1 DEF Open, TaskGoto, TypeOK
    <3>3. old'[f] = s
      BY <3>1 DEF Adopt, TypeOK
    <3>4. QED
      BY <1>6, <1>7, <3>1, <3>2, <3>3
  <2>2. CASE Flush(f)
    <3>1. active_writes'[Home[f]] = {} /\ UNCHANGED wanted
      BY <1>H, <2>2 DEF Flush, RemoveActiveWrite, TypeOK
    <3>2. CASE UNCHANGED <<cached, old, disturbed>>
      BY <1>5, <1>7, <3>1, <3>2
    <3>3. CASE \E s \in SUBSET Files : Adopt(f, s)
      <4>1. PICK s \in SUBSET Files : Adopt(f, s)
        BY <3>3
      <4>2. old'[f] = s
        BY <4>1 DEF Adopt, TypeOK
      <4>3. QED
        BY <1>6, <1>7, <3>1, <4>1, <4>2
    <3>4. \/ UNCHANGED <<cached, old, disturbed>>
          \/ \E s \in SUBSET Files : Adopt(f, s)
      <4>1. \/ UNCHANGED <<cached, old, disturbed>>
            \/ \E s \in SUBSET Files : (\E g1 \in s : Adopt(f, {g1})) \/ Adopt(f, {})
        BY <2>2 DEF Flush
      <4>2. \A s \in SUBSET Files : \A g1 \in s : {g1} \in SUBSET Files
        OBVIOUS
      <4>3. QED
        BY <4>1, <4>2
    <3>5. QED
      BY <3>2, <3>3, <3>4
  <2>3. CASE TaskFails(f) \/ EarlyFinish(f) \/ RegisterOld(f)
    <3>1. old'[f] = {}
      BY <2>3 DEF TaskFails, EarlyFinish, RegisterOld, Disown, TypeOK
    <3>2. QED
      BY <1>7, <3>1
  <2>4. CASE Probe(f) \/ Finish(f) \/ RemoveOld(f) \/ TakePending(f) \/ ReplayMove(f)
             \/ ReplayName(f) \/ Register(f)
    <3>1. old'[f] \subseteq old[f]
      BY <2>4 DEF Probe, Finish, RemoveOld, TakePending, ReplayMove, ReplayName, Register,
         Disown, upload, TypeOK
    <3>2. task[f] # "opened"
      BY <2>4 DEF Probe, Finish, RemoveOld, TakePending, ReplayMove, ReplayName, Register
    <3>3. QED
      BY <1>5, <1>7, <3>1, <3>2
  <2>5. QED
    BY <2>1, <2>2, <2>3, <2>4 DEF TaskStep
<1>8. ASSUME NEW h \in Files, NEW g \in old'[h] \ disturbed', h # f PROVE Replaced(h, g)'
  <2>1. g \in old[h]
    BY <1>1, <1>8
  <2>2. QED
    BY <1>5, <1>8, <2>1
<1>9. QED
  BY <1>7, <1>8 DEF Replaces

\* A MOVE that takes what an upload is to replace has disturbed it.
LEMMA MoveReplaces ==
  ASSUME RInv, NEW m \in Moves, MoveStep(m)
  PROVE  Replaces'
<1> USE DEF cloud, upload, move, RInv
<1>1. /\ UNCHANGED upload /\ disturbed \subseteq disturbed'
      /\ \A p \in Paths : active_writes'[p] \cap Files \subseteq active_writes[p]
  BY MovesNameNothing
<1>2. \A g \in Files \ disturbed' : (\E h \in Files : g \in old[h]) =>
        /\ wanted'[g] = wanted[g]
        /\ \A k \in Moves : Holds(k, g)' => Holds(k, g)
  <2>1. CASE ResolveFile(m)
    <3>1. PICK b \in Paths, a \in Paths, s \in SUBSET Files :
            \E f \in s :
               /\ got' = [got EXCEPT ![m] = {f}]
               /\ \/ NotePending(m, f, a, b) /\ Goto(m, "rename")
                  \/ Goto(m, "parent") /\ UNCHANGED wanted
      BY <2>1 DEF ResolveFile, Free
    <3>2. PICK f \in s :
               /\ got' = [got EXCEPT ![m] = {f}]
               /\ \/ NotePending(m, f, a, b) /\ Goto(m, "rename")
                  \/ Goto(m, "parent") /\ UNCHANGED wanted
      BY <3>1
    <3>3. \A k \in Moves \ {m} : UNCHANGED <<pc[k], got[k]>>
      BY <3>2 DEF Goto, TypeOK
    <3>4. CASE NotePending(m, f, a, b) /\ Goto(m, "rename")
      <4>1. \A g \in Files \ {f} : wanted'[g] = wanted[g] /\ g \notin got'[m]
        BY <3>2, <3>4 DEF NotePending, TypeOK
      <4>2. f \in disturbed' \/ \A h \in Files : f \notin old[h]
        BY <3>4 DEF NotePending
      <4>3. QED
        BY <3>3, <4>1, <4>2 DEF Holds
    <3>5. CASE Goto(m, "parent") /\ UNCHANGED wanted
      <4>1. pc'[m] \notin Moving
        BY <3>5 DEF Goto, TypeOK, Moving
      <4>2. QED
        BY <3>3, <3>5, <4>1 DEF Holds
    <3>6. QED
      BY <3>2, <3>4, <3>5
  <2>2. CASE FindParent(m)
    <3>1. CASE Goto(m, "over") /\ Forget({m}) /\ UNCHANGED <<pending_renames, wanted, disturbed>>
      <4>1. pc'[m] \notin Moving /\ \A k \in Moves \ {m} : UNCHANGED <<pc[k], got[k]>>
        BY <3>1 DEF Goto, Forget, TypeOK, Moving
      <4>2. QED
        BY <3>1, <4>1 DEF Holds
    <3>2. CASE /\ \E f \in got[m] : NotePending(m, f, from[m], to[m])
               /\ Goto(m, "move") /\ UNCHANGED <<from, to, got, attempt>>
      <4>1. PICK f \in got[m] : NotePending(m, f, from[m], to[m])
        BY <3>2
      <4>2. \A g \in Files \ {f} : wanted'[g] = wanted[g] /\ g \notin got'[m]
        BY <3>2, <4>1 DEF NotePending, TypeOK, OneInHand
      <4>3. f \in disturbed' \/ \A h \in Files : f \notin old[h]
        BY <4>1 DEF NotePending
      <4>4. \A k \in Moves \ {m} : UNCHANGED <<pc[k], got[k]>>
        BY <3>2 DEF Goto
      <4>5. QED
        BY <4>2, <4>3, <4>4 DEF Holds
    <3>3. QED
      BY <2>2, <3>1, <3>2 DEF FindParent
  <2>3. CASE CallMove(m) \/ CallRename(m)
    <3>1. UNCHANGED <<wanted, got>> /\ pc[m] \in Moving /\ \A k \in Moves \ {m} : UNCHANGED pc[k]
      BY <2>3 DEF CallMove, CallRename, Goto, Moving, TypeOK
    <3>2. QED
      BY <3>1 DEF Holds
  <2>4. CASE ResolveEntry(m) \/ ResolveNothing(m) \/ Again(m)
    <3>1. UNCHANGED wanted /\ pc'[m] \notin Moving
          /\ \A k \in Moves \ {m} : UNCHANGED <<pc[k], got[k]>>
      BY <2>4 DEF ResolveEntry, ResolveNothing, Again, Goto, Moving, TypeOK
    <3>2. QED
      BY <3>1 DEF Holds
  <2>5. CASE OverlayMove(m) \/ Invalidate(m)
    <3>1. /\ UNCHANGED wanted /\ got'[m] = {}
          /\ \A k \in Moves \ {m} : UNCHANGED <<pc[k], got[k]>>
      BY <2>5 DEF OverlayMove, Invalidate, Goto, Forget, OneInHand, TypeOK
    <3>2. QED
      BY <3>1 DEF Holds
  <2>6. QED
    BY <2>1, <2>2, <2>3, <2>4, <2>5 DEF MoveStep
<1>3. ASSUME NEW h \in Files, NEW g \in old'[h] \ disturbed' PROVE Replaced(h, g)'
  <2>1. g \in old[h] \ disturbed /\ Replaced(h, g) /\ g \in Files
    BY <1>1 DEF Replaces, TypeOK
  <2>2. Home[h] \in Paths
    BY RenameAssumption
  <2>3. task'[g] = "over" /\ task'[h] = task[h]
    BY <1>1, <2>1 DEF Replaced
  <2>4. QED
    BY <1>1, <1>2, <1>3, <2>1, <2>2, <2>3, StaysReplaced
<1>4. QED
  BY <1>3 DEF Replaces

LEMMA ReplacesStep ==
  ASSUME RInv, Next
  PROVE  Replaces'
<1>1. CASE \E f \in Files : Probe(f) \/ Open(f) \/ TaskStep(f)
  BY <1>1, UploadReplaces
<1>2. CASE \E m \in Moves : MoveStep(m)
  BY <1>2, MoveReplaces
<1>3. ASSUME \/ \E f \in Files : CatchUp(f)
             \/ \E p \in Paths : EntryExpires(p)
             \/ \E d \in Dirs : ListingExpires(d)
      PROVE  Replaces'
  <2>1. \A p \in Paths : active_writes'[p] \subseteq active_writes[p]
    BY <1>3 DEF CatchUp, EntryExpires, ListingExpires, RemoveActiveWrite, RInv, TypeOK
  <2>2. UNCHANGED <<upload, move, wanted, disturbed>>
    BY <1>3 DEF CatchUp, EntryExpires, ListingExpires
  <2>3. \A f \in Files : Home[f] \in Paths
    BY RenameAssumption
  <2>4. QED
    BY <2>1, <2>2, <2>3 DEF RInv, Replaces, Replaced, Holds, upload, move
<1>4. CASE Restart
  BY <1>4 DEF Restart, Replaces
<1>5. QED
  BY <1>1, <1>2, <1>3, <1>4 DEF Next

-----------------------------------------------------------------------------
\* Where a file is.

\* Who holds f keeps it where it is, and the task of f does not begin to repeat.
LEMMA StaysTracked ==
  ASSUME NEW f \in Files, Tracked(f),
         UNCHANGED <<at[f], wanted[f]>>,
         task'[f] \in Replaying => task[f] \in Replaying /\ target'[f] = target[f],
         \A m \in Moves : /\ Holds(m, f)' <=> Holds(m, f)
                          /\ Holds(m, f) => UNCHANGED <<pc[m], from[m], to[m]>>
  PROVE  Tracked(f)'
  BY DEF Tracked, Underway

\* A MOVE that notes itself is the only one of its file, which it finds at its source.
LEMMA NotedTracked ==
  ASSUME TypeOK, Tracks, NEW m \in Moves, NEW f \in Files, NEW a \in Paths, NEW b \in Paths,
         NotePending(m, f, a, b), UNCHANGED <<at, upload>>,
         from'[m] = a, to'[m] = b, got'[m] = {f}, pc[m] \notin Moving,
         \/ pc' = [pc EXCEPT ![m] = "rename"] /\ a[1] = b[1]
         \/ pc' = [pc EXCEPT ![m] = "move"],
         \A k \in Moves \ {m} : UNCHANGED <<from[k], to[k], got[k]>>
  PROVE  Tracks'
<1> USE DEF upload
<1>1. \A k \in Moves \ {m}, g \in Files : Holds(k, g)' <=> Holds(k, g)
  BY DEF Holds, TypeOK
<1>2. disturbed \subseteq disturbed'
  BY DEF NotePending
<1>3. ASSUME NEW g \in Files \ disturbed', g # f PROVE Tracked(g)'
  <2>1. ~Holds(m, g) /\ ~Holds(m, g)'
    BY <1>3 DEF Holds
  <2>2. \A k \in Moves : Holds(k, g) => UNCHANGED <<pc[k], from[k], to[k]>>
    BY <2>1 DEF TypeOK
  <2>3. UNCHANGED wanted[g]
    BY <1>3 DEF NotePending, TypeOK
  <2>4. Tracked(g)
    BY <1>2, <1>3 DEF Tracks
  <2>5. QED
    BY <1>1, <1>3, <2>1, <2>2, <2>3, <2>4, StaysTracked
<1>4. ASSUME f \notin disturbed' PROVE Tracked(f)'
  <2>1. at[f] = {a} /\ task[f] \notin Replaying /\ \A k \in Moves \ {m} : ~Holds(k, f)
    BY <1>4 DEF NotePending
  <2>2. Holds(m, f)' /\ \A k \in Moves \ {m} : ~Holds(k, f)'
    BY <1>1, <2>1 DEF Holds, Moving, TypeOK
  <2>3. Underway(m, f)'
    <3>1. wanted'[f] = {b}
      BY DEF NotePending, TypeOK
    <3>2. a[1] \in Dirs /\ a[2] \in Names /\ a = <<a[1], a[2]>>
      BY DEF Paths
    <3>3. at'[f] = {<<a[1], a[2]>>}
      BY <2>1, <3>2
    <3>4. pc'[m] # "invalidate" /\ (a[1] = b[1] \/ pc'[m] = "move")
      BY DEF TypeOK
    <3>5. QED
      BY <3>1, <3>2, <3>3, <3>4 DEF Underway
  <2>4. task'[f] \notin Replaying
    BY <2>1
  <2>5. QED
    BY <2>2, <2>3, <2>4 DEF Tracked
<1>5. QED
  BY <1>3, <1>4 DEF Tracks

\* What the cloud's calls do to a file at <<d, n>>.
LEMMA MoveFileMoves ==
  ASSUME TypeOK, NEW f \in Files, NEW e, MoveFile(f, e)
  PROVE  \A d, n : at[f] = {<<d, n>>} => at'[f] = {<<e, n>>}
<1>1. at'[f] = {<<e, p[2]>> : p \in at[f]}
  BY DEF MoveFile, TypeOK
<1>2. \A d, n : {<<e, p[2]>> : p \in {<<d, n>>}} = {<<e, n>>}
  OBVIOUS
<1>3. QED
  BY <1>1, <1>2

LEMMA RenameFileRenames ==
  ASSUME TypeOK, NEW f \in Files, NEW e, RenameFile(f, e)
  PROVE  \A d, n : at[f] = {<<d, n>>} => at'[f] = {<<d, e>>}
<1>1. at'[f] = {<<p[1], e>> : p \in at[f]}
  BY DEF RenameFile, TypeOK
<1>2. \A d, n : {<<p[1], e>> : p \in {<<d, n>>}} = {<<d, e>>}
  OBVIOUS
<1>3. QED
  BY <1>1, <1>2

\* A MOVE that does not call the cloud has no file that is under way.
LEMMA MoveTracks ==
  ASSUME RInv, NEW m \in Moves,
         ResolveFile(m) \/ ResolveEntry(m) \/ ResolveNothing(m) \/ Again(m)
           \/ OverlayMove(m) \/ FindParent(m)
  PROVE  Tracks'
<1> USE DEF cloud, upload, move, RInv
<1>1. UNCHANGED <<at, upload>> /\ \A f \in Files : ~Holds(m, f)
  BY DEF ResolveFile, ResolveEntry, ResolveNothing, Looked, Again, OverlayMove, FindParent,
     Holds, Moving, OneInHand
<1>2. \A k \in Moves \ {m} : UNCHANGED <<pc[k], from[k], to[k], got[k]>>
  <2>1. CASE ResolveFile(m) \/ ResolveEntry(m) \/ ResolveNothing(m)
    BY <2>1 DEF ResolveFile, ResolveEntry, ResolveNothing, Asked, Goto, TypeOK
  <2>2. CASE Again(m)
    BY <2>2 DEF Again, Goto, TypeOK
  <2>3. CASE OverlayMove(m) \/ FindParent(m)
    BY <2>3 DEF OverlayMove, FindParent, Forget, Goto, TypeOK
  <2>4. QED
    BY <2>1, <2>2, <2>3
<1>3. \A k \in Moves \ {m}, f \in Files : Holds(k, f)' <=> Holds(k, f)
  BY <1>2 DEF Holds
<1>4. CASE /\ UNCHANGED <<wanted, disturbed>>
           /\ pc'[m] \notin Moving \/ got'[m] = {}
  <2>1. \A f \in Files : ~Holds(m, f)'
    BY <1>4 DEF Holds
  <2>2. \A f \in Files : Tracked(f) => Tracked(f)'
    BY <1>1, <1>2, <1>3, <1>4, <2>1, StaysTracked
  <2>3. QED
    BY <1>4, <2>2 DEF Tracks
<1>5. CASE ResolveFile(m)
  <2>1. PICK b \in Paths, a \in Paths, f \in Files :
              /\ Asked(m, a, b)
              /\ got' = [got EXCEPT ![m] = {f}]
              /\ \/ a[1] = b[1] /\ NotePending(m, f, a, b) /\ Goto(m, "rename")
                 \/ Goto(m, "parent") /\ UNCHANGED <<wanted, disturbed>>
    BY <1>5 DEF ResolveFile, Free
  <2>2. pc[m] \notin Moving
    BY <1>5 DEF ResolveFile, Moving
  <2>3. from'[m] = a /\ to'[m] = b /\ got'[m] = {f}
    BY <2>1 DEF Asked, TypeOK
  <2>4. CASE Goto(m, "parent") /\ UNCHANGED <<wanted, disturbed>>
    BY <1>4, <2>4 DEF Goto, TypeOK, Moving
  <2>5. CASE a[1] = b[1] /\ NotePending(m, f, a, b) /\ Goto(m, "rename")
    <3>1. pc' = [pc EXCEPT ![m] = "rename"] /\ a[1] = b[1] /\ NotePending(m, f, a, b)
      BY <2>5 DEF Goto
    <3>2. UNCHANGED <<at, upload>> /\ (\A k \in Moves \ {m} : UNCHANGED <<from[k], to[k], got[k]>>)
      BY <1>1, <1>2
    <3>3. QED
      BY <2>2, <2>3, <3>1, <3>2, NotedTracked
  <2>6. QED
    BY <2>1, <2>4, <2>5
<1>6. CASE FindParent(m)
  <2>1. CASE UNCHANGED wanted /\ UNCHANGED disturbed /\ Goto(m, "over")
    BY <1>4, <2>1 DEF Goto, TypeOK, Moving
  <2>2. CASE /\ \E f \in got[m] : NotePending(m, f, from[m], to[m])
             /\ Goto(m, "move") /\ UNCHANGED <<from, to, got, attempt>>
    <3>1. PICK f \in got[m] : NotePending(m, f, from[m], to[m])
      BY <2>2
    <3>2. f \in Files /\ got'[m] = {f} /\ from[m] \in Paths /\ to[m] \in Paths
      BY <2>2 DEF TypeOK, OneInHand
    <3>3. pc[m] \notin Moving
      BY <1>6 DEF FindParent, Moving
    <3>4. from'[m] = from[m] /\ to'[m] = to[m] /\ pc' = [pc EXCEPT ![m] = "move"]
      BY <2>2 DEF Goto
    <3>5. QED
      BY <1>1, <1>2, <3>1, <3>2, <3>3, <3>4, NotedTracked
  <2>3. QED
    BY <1>6, <2>1, <2>2 DEF FindParent
<1>7. CASE ResolveEntry(m) \/ ResolveNothing(m) \/ Again(m)
  <2>1. UNCHANGED <<wanted, disturbed>>
    BY <1>7 DEF ResolveEntry, ResolveNothing, Again
  <2>2. pc'[m] \notin Moving
    BY <1>7 DEF ResolveEntry, ResolveNothing, Again, Goto, TypeOK, Moving
  <2>3. QED
    BY <1>4, <2>1, <2>2
<1>8. CASE OverlayMove(m)
  BY <1>4, <1>8 DEF OverlayMove, OneInHand
<1>9. QED
  BY <1>5, <1>6, <1>7, <1>8

\* A call brings the file to the directory, or under the name, its MOVE wants.
LEMMA CallTracks ==
  ASSUME RInv, NEW m \in Moves, CallMove(m) \/ CallRename(m)
  PROVE  Tracks'
<1> USE DEF cloud, upload, move, RInv
<1>1. PICK f \in Files :
            /\ f \in got[m] /\ disturbed' \in {disturbed, disturbed \cup {f}}
            /\ UNCHANGED disturbed =>
                 \/ /\ pc[m] = "move" /\ MoveFile(f, to[m][1])
                    /\ Goto(m, IF from[m][2] # to[m][2] THEN "rename" ELSE "invalidate")
                 \/ /\ pc[m] = "rename" /\ RenameFile(f, to[m][2]) /\ Goto(m, "invalidate")
                 \/ f \in disturbed
            /\ \A g \in Files \ {f} : UNCHANGED at[g]
  BY DEF CallMove, CallRename, MoveFile, RenameFile, TypeOK
<1>2. /\ UNCHANGED <<wanted, upload, from, to, got>>
      /\ \A k \in Moves \ {m} : UNCHANGED pc[k]
      /\ pc[m] \in Moving /\ pc'[m] \in Moving
  BY DEF CallMove, CallRename, Goto, Moving, TypeOK
<1>3. Holds(m, f) /\ \A g \in Files \ {f} : ~Holds(m, g)
  BY <1>1, <1>2 DEF Holds, OneInHand, TypeOK
<1>4. \A k \in Moves, g \in Files : Holds(k, g)' <=> Holds(k, g)
  BY <1>2 DEF Holds
<1>5. ASSUME NEW g \in Files \ disturbed', g # f PROVE Tracked(g)'
  <2>1. Tracked(g)
    BY <1>1, <1>5 DEF Tracks
  <2>2. \A k \in Moves : Holds(k, g) => UNCHANGED <<pc[k], from[k], to[k]>>
    BY <1>2, <1>3, <1>5
  <2>3. QED
    BY <1>1, <1>2, <1>4, <1>5, <2>1, <2>2, StaysTracked
<1>6. ASSUME f \notin disturbed' PROVE Tracked(f)'
  <2>1. Tracked(f) /\ Underway(m, f)
    BY <1>1, <1>3, <1>6 DEF Tracks, Tracked
  <2>2. PICK d \in Dirs, n \in Names :
               /\ at[f] = {<<d, n>>}
               /\ d = to[m][1] \/ pc[m] = "move"
               /\ n \in {from[m][2], to[m][2]}
    BY <2>1 DEF Underway
  <2>3. to[m][1] \in Dirs /\ to[m][2] \in Names
    BY DEF TypeOK, Paths
  <2>4. Underway(m, f)'
    <3>1. CASE /\ pc[m] = "move" /\ MoveFile(f, to[m][1])
               /\ Goto(m, IF from[m][2] # to[m][2] THEN "rename" ELSE "invalidate")
      <4>1. at'[f] = {<<to[m][1], n>>}
        <5>1. \A x, y : at[f] = {<<x, y>>} => at'[f] = {<<to[m][1], y>>}
          BY <3>1, MoveFileMoves
        <5>2. QED
          BY <2>2, <5>1
      <4>2. pc'[m] = "invalidate" => from[m][2] = to[m][2]
        BY <3>1 DEF Goto, TypeOK
      <4>3. QED
        BY <1>2, <2>1, <2>2, <2>3, <4>1, <4>2 DEF Underway
    <3>2. CASE pc[m] = "rename" /\ RenameFile(f, to[m][2])
      <4>1. at'[f] = {<<d, to[m][2]>>} /\ d = to[m][1]
        <5>1. \A x, y : at[f] = {<<x, y>>} => at'[f] = {<<x, to[m][2]>>}
          BY <3>2, RenameFileRenames
        <5>2. QED
          BY <2>2, <3>2, <5>1
      <4>2. QED
        BY <1>2, <2>1, <2>3, <4>1 DEF Underway
    <3>3. QED
      BY <1>1, <1>6, <3>1, <3>2
  <2>5. QED
    BY <1>2, <1>3, <1>4, <2>1, <2>4 DEF Tracked
<1>7. QED
  BY <1>5, <1>6 DEF Tracks

\* The MOVE is answered when its file is where it is wanted.
LEMMA AnswerTracks ==
  ASSUME RInv, NEW m \in Moves, Invalidate(m)
  PROVE  Tracks'
<1> USE DEF cloud, upload, move, RInv
<1>1. /\ UNCHANGED <<at, wanted, disturbed, upload>> /\ pc'[m] \notin Moving
      /\ \A k \in Moves \ {m} : UNCHANGED <<pc[k], from[k], to[k], got[k]>>
      /\ pc[m] = "invalidate"
  BY DEF Invalidate, Goto, Forget, Moving, TypeOK
<1>2. /\ \A k \in Moves \ {m}, f \in Files : Holds(k, f)' <=> Holds(k, f)
      /\ \A f \in Files : ~Holds(m, f)'
  BY <1>1 DEF Holds
<1>3. ASSUME NEW f \in Files \ disturbed PROVE Tracked(f)'
  <2>1. Tracked(f)
    BY DEF Tracks
  <2>2. CASE ~Holds(m, f)
    BY <1>1, <1>2, <2>1, <2>2, StaysTracked
  <2>3. CASE Holds(m, f)
    <3>1. at[f] = {<<to[m][1], to[m][2]>>} /\ wanted[f] = {to[m]}
      BY <1>1, <2>1, <2>3 DEF Tracked, Underway
    <3>2. to[m] = <<to[m][1], to[m][2]>>
      BY DEF TypeOK, Paths
    <3>3. \A k \in Moves : ~Holds(k, f)'
      BY <1>2, <2>1, <2>3 DEF Tracked
    <3>4. QED
      BY <1>1, <2>1, <3>1, <3>2, <3>3 DEF Tracked
  <2>4. QED
    BY <2>2, <2>3
<1>4. QED
  BY <1>1, <1>3 DEF Tracks

\* An upload removes only what it replaces, which nobody else is busy with.
LEMMA ReplaceTracks ==
  ASSUME RInv, NEW f \in Files, Open(f) \/ Flush(f) \/ RemoveOld(f) \/ RegisterOld(f)
  PROVE  Tracks'
<1> USE DEF cloud, upload, move, RInv
<1>1. UNCHANGED <<move, target>> /\ disturbed \subseteq disturbed'
  BY DEF Open, Flush, RemoveOld, RegisterOld, Adopt
<1>2. \A m \in Moves, g \in Files : Holds(m, g)' <=> Holds(m, g)
  BY <1>1 DEF Holds
<1>3. \A g \in Files : task'[g] \in Replaying => task'[g] = task[g]
  BY DEF Open, Flush, RemoveOld, RegisterOld, TaskGoto, TypeOK, Replaying
<1>4. ASSUME NEW g \in Files \ disturbed, UNCHANGED <<at[g], wanted[g]>> PROVE Tracked(g)'
  <2>1. Tracked(g)
    BY DEF Tracks
  <2>2. \A m \in Moves : UNCHANGED <<pc[m], from[m], to[m]>>
    BY <1>1
  <2>3. QED
    BY <1>1, <1>2, <1>3, <1>4, <2>1, <2>2, StaysTracked
<1>5. CASE Open(f) \/ Flush(f) \/ RegisterOld(f)
  <2>1. UNCHANGED <<at, wanted>>
    BY <1>5 DEF Open, Flush, RegisterOld
  <2>2. QED
    BY <1>1, <1>4, <2>1 DEF Tracks
<1>6. CASE RemoveOld(f)
  <2>1. PICK gone \in SUBSET old[f] :
               /\ at' = [g \in Files |-> IF g \in gone THEN {} ELSE at[g]]
               /\ wanted' = [g \in Files |-> IF g \in gone THEN wanted[g] \ {Home[f]}
                                                         ELSE wanted[g]]
    <3>1. {} \in SUBSET old[f] /\ old[f] \ {f} \in SUBSET old[f]
      OBVIOUS
    <3>2. QED
      BY <1>6, <3>1 DEF RemoveOld
  <2>2. disturbed' = disturbed
    BY <1>6 DEF RemoveOld
  <2>3. ASSUME NEW g \in Files \ disturbed, g \in gone PROVE Tracked(g)'
    <3>1. task[g] = "over" /\ \A m \in Moves : ~Holds(m, g)
      BY <2>3 DEF Replaces, Replaced
    <3>2. at'[g] = {} /\ wanted'[g] = {}
      BY <2>1, <2>3 DEF Replaces, Replaced
    <3>3. task'[g] \notin Replaying
      BY <1>3, <3>1 DEF Replaying
    <3>4. \A m \in Moves : ~Holds(m, g)'
      BY <1>2, <3>1
    <3>5. QED
      BY <3>2, <3>3, <3>4 DEF Tracked
  <2>4. ASSUME NEW g \in Files \ disturbed, g \notin gone PROVE Tracked(g)'
    <3>1. UNCHANGED <<at[g], wanted[g]>>
      BY <2>1, <2>4 DEF TypeOK
    <3>2. QED
      BY <1>4, <3>1
  <2>5. QED
    BY <2>2, <2>3, <2>4 DEF Tracks
<1>7. QED
  BY <1>5, <1>6

\* The upload task repeats the MOVE it found noted, which is the last one of its file.
LEMMA TaskTracks ==
  ASSUME RInv, NEW f \in Files,
         \/ Probe(f) \/ TaskFails(f) \/ EarlyFinish(f) \/ Finish(f) \/ TakePending(f)
         \/ ReplayMove(f) \/ ReplayName(f) \/ Register(f) \/ CatchUp(f)
  PROVE  Tracks'
<1> USE DEF cloud, upload, move, RInv
<1>1. UNCHANGED <<move, disturbed>>
  BY DEF Probe, TaskFails, EarlyFinish, Finish, TakePending,
     ReplayMove, ReplayName, Register, CatchUp
<1>2. \A m \in Moves, g \in Files :
        /\ Holds(m, g)' <=> Holds(m, g) /\ UNCHANGED <<pc[m], from[m], to[m]>>
        /\ UNCHANGED <<pc[m], from[m], to[m]>>
  BY <1>1 DEF Holds
<1>3. \A g \in Files \ {f} : UNCHANGED <<at[g], wanted[g], task[g], target[g]>>
  BY DEF Probe, TaskFails, EarlyFinish, Finish, Appears, TakePending,
     ReplayMove, ReplayName, Register, CatchUp, TaskGoto, MoveFile, RenameFile, TypeOK
<1>4. ASSUME NEW g \in Files \ disturbed, g # f PROVE Tracked(g)'
  <2>1. Tracked(g)
    BY DEF Tracks
  <2>2. QED
    BY <1>2, <1>3, <1>4, <2>1, StaysTracked
<1>5. ASSUME f \notin disturbed PROVE Tracked(f)'
  <2>1. Tracked(f)
    BY <1>5 DEF Tracks
  <2>2. CASE Probe(f) \/ TaskFails(f) \/ Register(f) \/ CatchUp(f)
    <3>1. UNCHANGED <<at[f], wanted[f]>> /\ (task'[f] \in Replaying => UNCHANGED <<task[f], target[f]>>)
      BY <2>2 DEF Probe, TaskFails, Register, CatchUp, TaskGoto, TypeOK, Replaying
    <3>2. QED
      BY <1>2, <2>1, <3>1, StaysTracked
  <2>3. CASE EarlyFinish(f) \/ Finish(f)
    <3>1. \A m \in Moves : ~Holds(m, f)
      BY <2>3 DEF EarlyFinish, Finish, UnbornUnseen, Early, Holds
    <3>2. at'[f] = wanted'[f] /\ task'[f] \notin Replaying
      <4>1. /\ Appears(f)
            /\ \E t \in {"over", "confirmed", "instant", "kept"} : TaskGoto(f, t)
        BY <2>3 DEF EarlyFinish, Finish
      <4>2. at'[f] = wanted'[f]
        BY <4>1 DEF Appears, TypeOK
      <4>3. task'[f] \in {"over", "confirmed", "instant", "kept"}
        BY <4>1 DEF TaskGoto, TypeOK
      <4>4. QED
        BY <4>2, <4>3 DEF Replaying
    <3>3. \A m \in Moves : ~Holds(m, f)'
      BY <1>2, <3>1
    <3>4. QED
      BY <3>2, <3>3 DEF Tracked
  <2>4. CASE TakePending(f)
    <3>1. UNCHANGED <<at, wanted>>
      BY <2>4 DEF TakePending
    <3>2. task'[f] \in Replaying => wanted[f] = {target'[f]}
      BY <1>5, <2>4 DEF TakePending, TaskGoto, NotesLast, TypeOK, Replaying
    <3>3. QED
      BY <1>1, <2>1, <3>1, <3>2 DEF Tracked, Holds, Underway
  <2>5. CASE ReplayMove(f) \/ ReplayName(f)
    <3>1. wanted[f] = {target[f]} /\ UNCHANGED <<wanted, target>>
      BY <2>1, <2>5 DEF ReplayMove, ReplayName, Tracked, Replaying
    <3>2. target[f] \in Paths /\ target[f] = <<target[f][1], target[f][2]>>
          /\ target[f][1] \in Dirs /\ target[f][2] \in Names
      BY DEF TypeOK, Paths
    <3>3. UNCHANGED at \/ MoveFile(f, target[f][1]) \/ RenameFile(f, target[f][2])
      BY <2>5 DEF ReplayMove, ReplayName
    <3>4. ASSUME \A m \in Moves : ~Holds(m, f) PROVE at'[f] = wanted'[f]
      <4>1. at[f] = {<<target[f][1], target[f][2]>>}
        BY <2>1, <3>1, <3>2, <3>4 DEF Tracked
      <4>2. CASE MoveFile(f, target[f][1])
        <5>1. \A d, n : at[f] = {<<d, n>>} => at'[f] = {<<target[f][1], n>>}
          BY <4>2, MoveFileMoves
        <5>2. QED
          BY <3>1, <3>2, <4>1, <5>1
      <4>3. CASE RenameFile(f, target[f][2])
        <5>1. \A d, n : at[f] = {<<d, n>>} => at'[f] = {<<d, target[f][2]>>}
          BY <4>3, RenameFileRenames
        <5>2. QED
          BY <3>1, <3>2, <4>1, <5>1
      <4>4. CASE UNCHANGED at
        BY <2>1, <3>1, <3>4, <4>4 DEF Tracked
      <4>5. QED
        BY <3>3, <4>2, <4>3, <4>4
    <3>5. ASSUME NEW m \in Moves, Holds(m, f) PROVE Underway(m, f)'
      <4>1. PICK d \in Dirs, n \in Names :
                   /\ at[f] = {<<d, n>>}
                   /\ d = to[m][1] \/ pc[m] = "move"
                   /\ n \in {from[m][2], to[m][2]} /\ (pc[m] = "invalidate" => n = to[m][2])
        BY <2>1, <3>5 DEF Tracked, Underway
      <4>2. wanted[f] = {to[m]} /\ to[m] = target[f]
        BY <2>1, <3>1, <3>5 DEF Tracked, Underway
      <4>3. at'[f] \in {{<<d, n>>}, {<<to[m][1], n>>}, {<<d, to[m][2]>>}}
        <5>1. CASE MoveFile(f, target[f][1])
          <6>1. \A x, y : at[f] = {<<x, y>>} => at'[f] = {<<target[f][1], y>>}
            BY <5>1, MoveFileMoves
          <6>2. QED
            BY <4>1, <4>2, <6>1
        <5>2. CASE RenameFile(f, target[f][2])
          <6>1. \A x, y : at[f] = {<<x, y>>} => at'[f] = {<<x, target[f][2]>>}
            BY <5>2, RenameFileRenames
          <6>2. QED
            BY <4>1, <4>2, <6>1
        <5>3. QED
          BY <3>3, <4>1, <5>1, <5>2
      <4>4. to[m][1] \in Dirs /\ to[m][2] \in Names
        BY <3>2, <4>2
      <4>5. wanted'[f] = {to'[m]} /\ UNCHANGED <<pc, from, to>>
        BY <1>1, <3>1, <4>2
      <4>6. QED
        BY <4>1, <4>3, <4>4, <4>5 DEF Underway
    <3>6. \A m \in Moves : Holds(m, f)' <=> Holds(m, f)
      BY <1>1 DEF Holds
    <3>7. QED
      BY <2>1, <3>1, <3>4, <3>5, <3>6 DEF Tracked
  <2>6. QED
    BY <2>2, <2>3, <2>4, <2>5
<1>6. QED
  BY <1>1, <1>4, <1>5 DEF Tracks

LEMMA TracksStep ==
  ASSUME RInv, Next
  PROVE  Tracks'
<1>1. CASE \E m \in Moves : MoveStep(m)
  BY <1>1, MoveTracks, CallTracks, AnswerTracks DEF MoveStep
<1>2. CASE \E f \in Files : Probe(f) \/ Open(f) \/ TaskStep(f) \/ CatchUp(f)
  BY <1>2, TaskTracks, ReplaceTracks DEF TaskStep
<1>3. CASE (\E p \in Paths : EntryExpires(p)) \/ \E d \in Dirs : ListingExpires(d)
  <2>1. UNCHANGED <<at, wanted, disturbed, upload, move>>
    BY <1>3 DEF EntryExpires, ListingExpires, cloud
  <2>2. QED
    BY <2>1 DEF RInv, Tracks, Tracked, Underway, Holds, upload, move
<1>4. CASE Restart
  <2>1. \A m \in Moves : pc'[m] \notin Moving
    BY <1>4 DEF Restart, Moving
  <2>2. \A f \in Files : task'[f] \notin Replaying
    BY <1>4 DEF Restart, Replaying
  <2>3. \A f \in Files \ disturbed' : f \notin disturbed /\ \A m \in Moves : ~Holds(m, f)
    BY <1>4 DEF Restart
  <2>4. UNCHANGED <<at, wanted>>
    BY <1>4 DEF Restart, cloud
  <2>5. \A f \in Files \ disturbed' : at'[f] = wanted'[f]
    BY <2>3, <2>4 DEF RInv, Tracks, Tracked
  <2>6. \A m \in Moves, f \in Files : ~Holds(m, f)'
    BY <2>1 DEF Holds
  <2>7. QED
    BY <2>2, <2>5, <2>6 DEF Tracks, Tracked
<1>5. QED
  BY <1>1, <1>2, <1>3, <1>4 DEF Next

-----------------------------------------------------------------------------
\* What it shows.

\* The invariant, which every step keeps.
THEOREM RenameInvariant == Spec => []RInv
<1>1. Init => RInv
  <2> SUFFICES ASSUME Init PROVE RInv
    OBVIOUS
  <2>1. TypeOK
    <3>1. Nowhere \in Paths
      BY RenameAssumption DEF Nowhere
    <3>2. 0 \in 0 .. MaxAttempts
      BY DEF MaxAttempts
    <3>3. at \in [Files -> SUBSET Paths]
      BY RenameAssumption DEF Init
    <3>4. /\ from \in [Moves -> Paths] /\ to \in [Moves -> Paths]
          /\ attempt \in [Moves -> 0 .. MaxAttempts]
      BY <3>1, <3>2 DEF Init
    <3>5. QED
      BY <3>3, <3>4, RenameAssumption DEF Init, TypeOK
  <2>2. UnbornUnseen /\ UnbornUnnamed
    BY DEF Init, UnbornUnseen, UnbornUnnamed, Early, Ending
  <2>3. OneInHand
    BY DEF Init, OneInHand
  <2>4. Tracks
    BY DEF Init, Tracks, Tracked, Holds, Replaying
  <2>5. NotesLast
    BY DEF Init, NotesLast, InHand, Ending, Replaying
  <2>6. RegistersLast /\ Replaces
    BY DEF Init, RegistersLast, Replaces
  <2>7. QED
    BY <2>1, <2>2, <2>3, <2>4, <2>5, <2>6 DEF RInv
<1>2. RInv /\ [Next]_vars => RInv'
  <2>1. CASE UNCHANGED vars
    <3>1. RInv => Tracks'
      BY <2>1 DEF vars, cloud, upload, move, RInv, Tracks, Tracked, Underway, Holds
    <3>2. RInv => TypeOK'
      BY <2>1 DEF vars, cloud, upload, move, RInv, TypeOK
    <3>3. RInv => UnbornUnseen' /\ UnbornUnnamed' /\ OneInHand'
      BY <2>1 DEF vars, cloud, upload, move, RInv, UnbornUnseen, UnbornUnnamed, OneInHand
    <3>4. RInv => NotesLast' /\ RegistersLast' /\ Replaces'
      BY <2>1 DEF vars, cloud, upload, move, RInv, NotesLast, RegistersLast, Replaces,
         Replaced, Holds
    <3>5. QED
      BY <3>1, <3>2, <3>3, <3>4 DEF RInv
  <2>2. ASSUME RInv, Next PROVE RInv'
    BY <2>2, TypesStep, UnseenStep, UnnamedStep, OneInHandStep, TracksStep, NotesStep,
       RegistersStep, ReplacesStep DEF RInv
  <2>3. QED
    BY <2>1, <2>2
<1>3. QED
  BY <1>1, <1>2, PTL DEF Spec

\* Type correctness, for every set of paths, files and requests.
THEOREM RenameTypeCorrect == Spec => []TypeOK
<1>1. RInv => TypeOK
  BY DEF RInv
<1>2. QED
  BY <1>1, RenameInvariant, PTL

\* However MOVE requests, upload tasks and restarts interleave, a file nothing has
\* disturbed ends where its last MOVE wants it, and goes only when a PUT replaces it.
THEOREM MovesSettle == Spec => []SettlesWhereMoved
<1>1. RInv => SettlesWhereMoved
  BY DEF RInv, Tracks, Tracked, SettlesWhereMoved, Settled
<1>2. QED
  BY <1>1, RenameInvariant, PTL

\* An overlay entry with a fid is where its file is, or the MOVE that came after
\* its registration has left a note.
THEOREM OverlayIsTrue == Spec => []OverlayTrueUnlessMoved
<1>1. RInv => OverlayTrueUnlessMoved
  BY DEF RInv, Tracks, Tracked, RegistersLast, OverlayTrueUnlessMoved, Settled
<1>2. QED
  BY <1>1, RenameInvariant, PTL

=============================================================================
