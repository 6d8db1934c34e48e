---------------------------- MODULE UploadProofs ----------------------------
(***************************************************************************)
(* Proofs about Upload for every number of PUTs, every set of bodies and   *)
(* every setting of the constants: type correctness, that no interleaving  *)
(* or failure loses the newest confirmed file, that folding always leaves  *)
(* an heir, and, when uploads are awaited and nothing aborts, that uploads *)
(* to the path are serialized and acknowledged content is durable.         *)
(***************************************************************************)
EXTENDS Upload, TLAPS

USE DEF handleVars, cloudVars, deleteVars, NoFid

LEMMA ListingType ==
  ASSUME TypeOK
  PROVE  /\ Listing \in SUBSET Nat
         /\ \A L \in ParentListing : L \in SUBSET Nat
         /\ \A L \in SUBSET Nat : FirstMatch(L) \in SUBSET Nat
  BY DEF TypeOK, Listing, ParentListing, FirstMatch

THEOREM TypeCorrect == Spec => []TypeOK
<1>1. Init => TypeOK
  BY NatAssumption DEF Init, TypeOK, PutPc, TaskPc, Entry
<1>2. TypeOK /\ [Next]_vars => TypeOK'
  <2> SUFFICES ASSUME TypeOK, [Next]_vars PROVE TypeOK'
    OBVIOUS
  <2> USE ListingType DEF TypeOK, PutPc, InFlush, Answered, TaskPc, Running,
      Goto, Leave, TaskGoto, Entry, RemoveUploading, RegisterActiveWrite,
      AfterFlush, PrepareForUpload, CloudFinishes, RemoveReplaced, Replaced
  <2>1. ASSUME NEW p \in Puts, Lookup(p) PROVE TypeOK'
    BY <2>1 DEF Lookup
  <2>2. ASSUME NEW p \in Puts, Open(p) PROVE TypeOK'
    BY <2>2 DEF Open
  <2>3. ASSUME NEW p \in Puts, WriteBuf(p) PROVE TypeOK'
    BY <2>3 DEF WriteBuf
  <2>4. ASSUME NEW p \in Puts, Flush(p) PROVE TypeOK'
    BY <2>4 DEF Flush
  <2>5. ASSUME NEW p \in Puts, Fold(p) PROVE TypeOK'
    BY <2>5 DEF Fold
  <2>6. ASSUME NEW p \in Puts, Acquire(p) PROVE TypeOK'
    BY <2>6 DEF Acquire
  <2>7. ASSUME NEW p \in Puts, Probe(p) PROVE TypeOK'
    BY <2>7 DEF Probe
  <2>8. ASSUME NEW p \in Puts, CaptureOld(p) PROVE TypeOK'
    <3>1. \A f \in FirstMatch(Listing) : f \in Nat
      BY ListingType
    <3>2. fid' \in [Puts -> Nat] /\ old' \in [Puts -> Nat]
      BY <2>8, <3>1 DEF CaptureOld
    <3>3. dir_cache' \in SUBSET SUBSET Nat
      BY <2>8, ListingType DEF CaptureOld
    <3>4. QED
      BY <2>8, <3>2, <3>3 DEF CaptureOld
  <2>9. ASSUME NEW p \in Puts, ClearPlaceholder(p) PROVE TypeOK'
    BY <2>9 DEF ClearPlaceholder
  <2>10. ASSUME NEW p \in Puts, Md5Same(p) PROVE TypeOK'
    BY <2>10 DEF Md5Same
  <2>11. ASSUME NEW p \in Puts, Md5Differs(p) PROVE TypeOK'
    BY <2>11 DEF Md5Differs
  <2>12. ASSUME NEW p \in Puts, PreFails(p) PROVE TypeOK'
    BY <2>12 DEF PreFails
  <2>13. ASSUME NEW p \in Puts, PreInstant(p) PROVE TypeOK'
    <3>1. nextFid \in Nat /\ nextFid + 1 \in Nat
      OBVIOUS
    <3>2. /\ cloudLive' \in SUBSET Nat
          /\ finished' \in SUBSET Nat
      BY <2>13, <3>1 DEF PreInstant
    <3>3. nextFid' \in Nat /\ new' \in [Puts -> Nat]
      BY <2>13, <3>1 DEF PreInstant
    <3>4. QED
      BY <2>13, <3>2, <3>3 DEF PreInstant
  <2>14. ASSUME NEW p \in Puts, PreStarts(p) PROVE TypeOK'
    BY <2>14 DEF PreStarts
  <2>15. ASSUME NEW p \in Puts, HashFails(p) PROVE TypeOK'
    BY <2>15 DEF HashFails
  <2>16. ASSUME NEW p \in Puts, HashInstant(p) PROVE TypeOK'
    <3>1. new[p] \in Nat
      OBVIOUS
    <3>2. /\ cloudLive' \in SUBSET Nat
          /\ cloudPending' \in SUBSET Nat
          /\ finished' \in SUBSET Nat
      BY <2>16, <3>1 DEF HashInstant
    <3>3. QED
      BY <2>16, <3>2 DEF HashInstant
  <2>17. ASSUME NEW p \in Puts, InstantRemovesOld(p) PROVE TypeOK'
    BY <2>17 DEF InstantRemovesOld
  <2>18. ASSUME NEW p \in Puts, InstantAnswers(p) PROVE TypeOK'
    BY <2>18 DEF InstantAnswers
  <2>19. ASSUME NEW p \in Puts, Spawn(p) PROVE TypeOK'
    BY <2>19 DEF Spawn
  <2>20. ASSUME NEW p \in Puts, TaskReports(p) PROVE TypeOK'
    BY <2>20 DEF TaskReports
  <2>21. ASSUME NEW p \in Puts, WaitTimesOut(p) PROVE TypeOK'
    BY <2>21 DEF WaitTimesOut
  <2>22. ASSUME NEW p \in Puts, CleanUp(p) PROVE TypeOK'
    BY <2>22 DEF CleanUp
  <2>23. ASSUME NEW p \in Puts, Abort(p) PROVE TypeOK'
    BY <2>23 DEF Abort
  <2>24. ASSUME NEW p \in Puts, ChunksDone(p) PROVE TypeOK'
    BY <2>24 DEF ChunksDone
  <2>25. ASSUME NEW p \in Puts, TaskDies(p) PROVE TypeOK'
    BY <2>25 DEF TaskDies
  <2>26. ASSUME NEW p \in Puts, EarlyFinish(p) PROVE TypeOK'
    <3>1. new[p] \in Nat
      OBVIOUS
    <3>2. /\ cloudLive' \in SUBSET Nat
          /\ cloudPending' \in SUBSET Nat
          /\ finished' \in SUBSET Nat
      BY <2>26, <3>1 DEF EarlyFinish
    <3>3. QED
      BY <2>26, <3>2 DEF EarlyFinish
  <2>27. ASSUME NEW p \in Puts, Commit(p) PROVE TypeOK'
    BY <2>27 DEF Commit
  <2>28. ASSUME NEW p \in Puts, Finish(p) PROVE TypeOK'
    <3>1. new[p] \in Nat
      OBVIOUS
    <3>2. /\ cloudLive' \in SUBSET Nat
          /\ cloudPending' \in SUBSET Nat
          /\ finished' \in SUBSET Nat
      BY <2>28, <3>1 DEF Finish
    <3>3. QED
      BY <2>28, <3>2 DEF Finish
  <2>29. ASSUME NEW p \in Puts, FinishFails(p) PROVE TypeOK'
    <3>1. new[p] \in Nat
      OBVIOUS
    <3>2. /\ cloudLive' \in SUBSET Nat
          /\ cloudPending' \in SUBSET Nat
          /\ finished' \in SUBSET Nat
      BY <2>29, <3>1 DEF FinishFails
    <3>3. QED
      BY <2>29, <3>2 DEF FinishFails
  <2>30. ASSUME NEW p \in Puts, RemoveOrphan(p) PROVE TypeOK'
    BY <2>30 DEF RemoveOrphan
  <2>31. ASSUME NEW p \in Puts, RemoveOld(p) PROVE TypeOK'
    BY <2>31 DEF RemoveOld
  <2>32. ASSUME NEW p \in Puts, Publish(p) PROVE TypeOK'
    BY <2>32 DEF Publish
  <2>33. CASE DeleteLookup
    BY <2>33 DEF DeleteLookup
  <2>34. CASE DeleteRemoves
    <3>1. /\ cloudLive' \in SUBSET Nat
          /\ cloudPending' \in SUBSET Nat
          /\ erased' \in SUBSET Nat
          /\ deleting' \in SUBSET Nat
      BY <2>34 DEF DeleteRemoves
    <3>2. active_writes' \in SUBSET Entry
      BY <2>34 DEF DeleteRemoves
    <3>3. uploading' \in Nat
      BY <2>34 DEF DeleteRemoves
    <3>4. dir_cache' \in SUBSET SUBSET Nat
      BY <2>34 DEF DeleteRemoves
    <3>5. QED
      BY <2>34, <3>1, <3>2, <3>3, <3>4 DEF DeleteRemoves
  <2>35. CASE DeletePlaceholder
    BY <2>35 DEF DeletePlaceholder
  <2>36. CASE EntryAges
    BY <2>36 DEF EntryAges
  <2>37. CASE EntryPurged
    BY <2>37 DEF EntryPurged
  <2>38. CASE ListingDropped
    BY <2>38 DEF ListingDropped
  <2>39. CASE ListingCatchesUp
    BY <2>39 DEF ListingCatchesUp
  <2>40. CASE UNCHANGED vars
    BY <2>40 DEF vars
  <2>41. QED
    BY <2>1, <2>2, <2>3, <2>4, <2>5, <2>6, <2>7, <2>8, <2>9, <2>10,
       <2>11, <2>12, <2>13, <2>14, <2>15, <2>16, <2>17, <2>18, <2>19,
       <2>20, <2>21, <2>22, <2>23, <2>24, <2>25, <2>26, <2>27, <2>28,
       <2>29, <2>30, <2>31, <2>32, <2>33, <2>34, <2>35, <2>36, <2>37,
       <2>38, <2>39, <2>40
       DEF Next, Handler, Client, UploadTask, Environment
<1>3. QED
  BY <1>1, <1>2, PTL DEF Spec

-----------------------------------------------------------------------------
\* The parts of the inductive invariant.

\* Every fid anywhere in the state is one the cloud has handed out.
FidsBelowNext ==
  /\ nextFid > NoFid
  /\ \A p \in Puts : fid[p] < nextFid /\ old[p] < nextFid /\ new[p] < nextFid
  /\ \A e \in active_writes : e.fid < nextFid
  /\ \A L \in dir_cache : \A f \in L : f < nextFid
  /\ \A f \in cloudLive : f < nextFid
  /\ \A f \in cloudPending : f < nextFid
  /\ \A f \in cloudListed : f < nextFid
  /\ \A f \in finished : f < nextFid

\* A task exists only once its handler has reached the wait.
TaskAfterHandler ==
  \A p \in Puts : task[p] # "none" =>
    pc[p] \in {"waiting", "cleanup", "ok", "early", "failed", "gone"}

\* The handler is inside do_flush only while it holds the path's lock.
LockHeld == \A p \in Puts : pc[p] \in InFlush => write_lock = {p}

\* ... and whoever holds the lock is inside do_flush: no way out of it keeps the lock.
LockNotLeaked == \A p \in Puts : p \in write_lock => pc[p] \in InFlush

\* new[p] is a fid that up_pre handed out to p alone.
OwnsNew(p) == pc[p] = "hash" \/ task[p] # "none"

\* ... and whose upload the cloud has not confirmed.
Unconfirmed(p) ==
  pc[p] = "hash" \/ task[p] \in {"chunks", "commit", "finish", "orphan"}

NewIsOwn ==
  \A p, q \in Puts : OwnsNew(p) /\ OwnsNew(q) /\ p # q => new[p] # new[q]

UnconfirmedNotFinished ==
  \A p \in Puts : Unconfirmed(p) => new[p] \notin finished

\* An upload replaces an older file, and only once it is confirmed itself.
OldBelowNew ==
  \A p \in Puts :
    OwnsNew(p) \/ pc[p] \in {"instant", "afterInstant"} => old[p] <= new[p]

ConfirmedBeforeRemoval ==
  \A p \in Puts :
    /\ pc[p] = "instant" => new[p] \in finished \/ new[p] = old[p]
    /\ task[p] \in {"removeOld", "publish", "done"} => new[p] \in finished

\* Every confirmed file is in the cloud, was removed by a DELETE, or is
\* superseded by a newer confirmed file.
FinishedKept ==
  \A f \in finished :
    f \in cloudLive \cup erased \/ \E g \in finished : g > f

\* No fid is used before the cloud has handed it out.
THEOREM FidsIssued == Spec => []FidsBelowNext
<1>1. Init => FidsBelowNext
  BY DEF Init, FidsBelowNext, InFlush, Running
<1>2. TypeOK /\ FidsBelowNext /\ [Next]_vars => FidsBelowNext'
  <2> SUFFICES ASSUME TypeOK, FidsBelowNext, [Next]_vars PROVE FidsBelowNext'
    OBVIOUS
  <2> USE DEF FidsBelowNext, TypeOK, Entry, PutPc, InFlush, Answered,
      TaskPc, Running, Goto, Leave, TaskGoto, RemoveUploading,
      RegisterActiveWrite, AfterFlush, PrepareForUpload, CloudFinishes,
      RemoveReplaced, Replaced, Listing, ParentListing, FirstMatch
  <2>1. ASSUME NEW p \in Puts, Lookup(p) PROVE FidsBelowNext'
    BY <2>1 DEF Lookup
  <2>2. ASSUME NEW p \in Puts, Open(p) PROVE FidsBelowNext'
    BY <2>2 DEF Open
  <2>3. ASSUME NEW p \in Puts, WriteBuf(p) PROVE FidsBelowNext'
    BY <2>3 DEF WriteBuf
  <2>4. ASSUME NEW p \in Puts, Flush(p) PROVE FidsBelowNext'
    BY <2>4 DEF Flush
  <2>5. ASSUME NEW p \in Puts, Fold(p) PROVE FidsBelowNext'
    BY <2>5 DEF Fold
  <2>6. ASSUME NEW p \in Puts, Acquire(p) PROVE FidsBelowNext'
    BY <2>6 DEF Acquire
  <2>7. ASSUME NEW p \in Puts, Probe(p) PROVE FidsBelowNext'
    BY <2>7 DEF Probe
  <2>8. ASSUME NEW p \in Puts, CaptureOld(p) PROVE FidsBelowNext'
    <3>1. \A f \in Listing : f < nextFid
      BY DEF Listing
    <3>2. \A f \in FirstMatch(Listing) : f < nextFid /\ f \in Nat
      BY <3>1, ListingType DEF FirstMatch
    <3>3. \A q \in Puts : fid'[q] < nextFid /\ old'[q] < nextFid
      BY <2>8, <3>2 DEF CaptureOld
    <3>4. \A L \in dir_cache' : \A f \in L : f < nextFid
      <4>1. dir_cache' = dir_cache \/ dir_cache' = {Listing}
        BY <2>8 DEF CaptureOld
      <4>2. QED
        BY <3>1, <4>1
    <3>5. /\ nextFid' = nextFid /\ new' = new
          /\ UNCHANGED <<active_writes, cloudLive, cloudPending,
              cloudListed, finished>>
      BY <2>8 DEF CaptureOld
    <3>6. QED
      BY <3>3, <3>4, <3>5
  <2>9. ASSUME NEW p \in Puts, ClearPlaceholder(p) PROVE FidsBelowNext'
    BY <2>9 DEF ClearPlaceholder
  <2>10. ASSUME NEW p \in Puts, Md5Same(p) PROVE FidsBelowNext'
    BY <2>10 DEF Md5Same
  <2>11. ASSUME NEW p \in Puts, Md5Differs(p) PROVE FidsBelowNext'
    BY <2>11 DEF Md5Differs
  <2>12. ASSUME NEW p \in Puts, PreFails(p) PROVE FidsBelowNext'
    BY <2>12 DEF PreFails
  <2>13. ASSUME NEW p \in Puts, PreInstant(p) PROVE FidsBelowNext'
    <3>1. nextFid <= nextFid'
      BY <2>13 DEF PreInstant
    <3>2. \A q \in Puts : new'[q] < nextFid'
      BY <2>13 DEF PreInstant
    <3>3. /\ \A f \in cloudLive' : f < nextFid'
          /\ \A f \in finished' : f < nextFid'
      <4>1. /\ cloudLive' \subseteq cloudLive \cup {nextFid, old[p]}
            /\ finished' \subseteq finished \cup {nextFid}
            /\ nextFid' = nextFid + 1 \/ UNCHANGED <<nextFid, cloudLive,
                finished>>
        BY <2>13 DEF PreInstant
      <4>2. QED
        BY <4>1
    <3>4. UNCHANGED <<fid, old, active_writes, dir_cache, cloudPending,
        cloudListed>>
      BY <2>13 DEF PreInstant
    <3>5. nextFid' \in Nat
      BY <2>13 DEF PreInstant
    <3>6. QED
      BY <3>1, <3>2, <3>3, <3>4, <3>5
  <2>14. ASSUME NEW p \in Puts, PreStarts(p) PROVE FidsBelowNext'
    BY <2>14 DEF PreStarts
  <2>15. ASSUME NEW p \in Puts, HashFails(p) PROVE FidsBelowNext'
    BY <2>15 DEF HashFails
  <2>16. ASSUME NEW p \in Puts, HashInstant(p) PROVE FidsBelowNext'
    BY <2>16 DEF HashInstant
  <2>17. ASSUME NEW p \in Puts, InstantRemovesOld(p) PROVE FidsBelowNext'
    BY <2>17 DEF InstantRemovesOld
  <2>18. ASSUME NEW p \in Puts, InstantAnswers(p) PROVE FidsBelowNext'
    BY <2>18 DEF InstantAnswers
  <2>19. ASSUME NEW p \in Puts, Spawn(p) PROVE FidsBelowNext'
    BY <2>19 DEF Spawn
  <2>20. ASSUME NEW p \in Puts, TaskReports(p) PROVE FidsBelowNext'
    BY <2>20 DEF TaskReports
  <2>21. ASSUME NEW p \in Puts, WaitTimesOut(p) PROVE FidsBelowNext'
    BY <2>21 DEF WaitTimesOut
  <2>22. ASSUME NEW p \in Puts, CleanUp(p) PROVE FidsBelowNext'
    BY <2>22 DEF CleanUp
  <2>23. ASSUME NEW p \in Puts, Abort(p) PROVE FidsBelowNext'
    BY <2>23 DEF Abort
  <2>24. ASSUME NEW p \in Puts, ChunksDone(p) PROVE FidsBelowNext'
    BY <2>24 DEF ChunksDone
  <2>25. ASSUME NEW p \in Puts, TaskDies(p) PROVE FidsBelowNext'
    BY <2>25 DEF TaskDies
  <2>26. ASSUME NEW p \in Puts, EarlyFinish(p) PROVE FidsBelowNext'
    BY <2>26 DEF EarlyFinish
  <2>27. ASSUME NEW p \in Puts, Commit(p) PROVE FidsBelowNext'
    BY <2>27 DEF Commit
  <2>28. ASSUME NEW p \in Puts, Finish(p) PROVE FidsBelowNext'
    BY <2>28 DEF Finish
  <2>29. ASSUME NEW p \in Puts, FinishFails(p) PROVE FidsBelowNext'
    <3>1. \A f \in cloudLive' \cup cloudPending' : f < nextFid
      <4>1. cloudLive' \subseteq cloudLive \cup {new[p]}
        BY <2>29 DEF FinishFails
      <4>2. cloudPending' \subseteq cloudPending
        BY <2>29 DEF FinishFails
      <4>3. QED
        BY <4>1, <4>2
    <3>2. UNCHANGED <<fid, old, new, nextFid, active_writes, dir_cache,
        cloudListed, finished>>
      BY <2>29 DEF FinishFails
    <3>3. QED
      BY <3>1, <3>2
  <2>30. ASSUME NEW p \in Puts, RemoveOrphan(p) PROVE FidsBelowNext'
    BY <2>30 DEF RemoveOrphan
  <2>31. ASSUME NEW p \in Puts, RemoveOld(p) PROVE FidsBelowNext'
    BY <2>31 DEF RemoveOld
  <2>32. ASSUME NEW p \in Puts, Publish(p) PROVE FidsBelowNext'
    BY <2>32 DEF Publish
  <2>33. CASE DeleteLookup
    BY <2>33 DEF DeleteLookup
  <2>34. CASE DeleteRemoves
    BY <2>34 DEF DeleteRemoves
  <2>35. CASE DeletePlaceholder
    BY <2>35 DEF DeletePlaceholder
  <2>36. CASE EntryAges
    BY <2>36 DEF EntryAges
  <2>37. CASE EntryPurged
    BY <2>37 DEF EntryPurged
  <2>38. CASE ListingDropped
    BY <2>38 DEF ListingDropped
  <2>39. CASE ListingCatchesUp
    BY <2>39 DEF ListingCatchesUp
  <2>40. CASE UNCHANGED vars
    BY <2>40 DEF vars
  <2>41. QED
    BY <2>1, <2>2, <2>3, <2>4, <2>5, <2>6, <2>7, <2>8, <2>9, <2>10,
       <2>11, <2>12, <2>13, <2>14, <2>15, <2>16, <2>17, <2>18, <2>19,
       <2>20, <2>21, <2>22, <2>23, <2>24, <2>25, <2>26, <2>27, <2>28,
       <2>29, <2>30, <2>31, <2>32, <2>33, <2>34, <2>35, <2>36, <2>37,
       <2>38, <2>39, <2>40
       DEF Next, Handler, Client, UploadTask, Environment
<1>3. QED
  BY <1>1, <1>2, TypeCorrect, PTL DEF Spec

\* The upload task runs only after the handler spawned it.
THEOREM TaskFollowsHandler == Spec => []TaskAfterHandler
<1>1. Init => TaskAfterHandler
  BY DEF Init, TaskAfterHandler, Running
<1>2. TypeOK /\ TaskAfterHandler /\ [Next]_vars => TaskAfterHandler'
  <2> SUFFICES ASSUME TypeOK, TaskAfterHandler, [Next]_vars PROVE
      TaskAfterHandler'
    OBVIOUS
  <2> USE DEF TaskAfterHandler, TypeOK, Answered, Running, Goto, Leave,
      TaskGoto
  <2>1. ASSUME NEW p \in Puts, Lookup(p) PROVE TaskAfterHandler'
    BY <2>1 DEF Lookup
  <2>2. ASSUME NEW p \in Puts, Open(p) PROVE TaskAfterHandler'
    BY <2>2 DEF Open
  <2>3. ASSUME NEW p \in Puts, WriteBuf(p) PROVE TaskAfterHandler'
    BY <2>3 DEF WriteBuf
  <2>4. ASSUME NEW p \in Puts, Flush(p) PROVE TaskAfterHandler'
    BY <2>4 DEF Flush
  <2>5. ASSUME NEW p \in Puts, Fold(p) PROVE TaskAfterHandler'
    BY <2>5 DEF Fold
  <2>6. ASSUME NEW p \in Puts, Acquire(p) PROVE TaskAfterHandler'
    BY <2>6 DEF Acquire
  <2>7. ASSUME NEW p \in Puts, Probe(p) PROVE TaskAfterHandler'
    BY <2>7 DEF Probe
  <2>8. ASSUME NEW p \in Puts, CaptureOld(p) PROVE TaskAfterHandler'
    BY <2>8 DEF CaptureOld
  <2>9. ASSUME NEW p \in Puts, ClearPlaceholder(p) PROVE TaskAfterHandler'
    BY <2>9 DEF ClearPlaceholder
  <2>10. ASSUME NEW p \in Puts, Md5Same(p) PROVE TaskAfterHandler'
    BY <2>10 DEF Md5Same
  <2>11. ASSUME NEW p \in Puts, Md5Differs(p) PROVE TaskAfterHandler'
    BY <2>11 DEF Md5Differs
  <2>12. ASSUME NEW p \in Puts, PreFails(p) PROVE TaskAfterHandler'
    BY <2>12 DEF PreFails
  <2>13. ASSUME NEW p \in Puts, PreInstant(p) PROVE TaskAfterHandler'
    BY <2>13 DEF PreInstant
  <2>14. ASSUME NEW p \in Puts, PreStarts(p) PROVE TaskAfterHandler'
    BY <2>14 DEF PreStarts
  <2>15. ASSUME NEW p \in Puts, HashFails(p) PROVE TaskAfterHandler'
    BY <2>15 DEF HashFails
  <2>16. ASSUME NEW p \in Puts, HashInstant(p) PROVE TaskAfterHandler'
    BY <2>16 DEF HashInstant
  <2>17. ASSUME NEW p \in Puts, InstantRemovesOld(p) PROVE TaskAfterHandler'
    BY <2>17 DEF InstantRemovesOld
  <2>18. ASSUME NEW p \in Puts, InstantAnswers(p) PROVE TaskAfterHandler'
    BY <2>18 DEF InstantAnswers
  <2>19. ASSUME NEW p \in Puts, Spawn(p) PROVE TaskAfterHandler'
    BY <2>19 DEF Spawn
  <2>20. ASSUME NEW p \in Puts, TaskReports(p) PROVE TaskAfterHandler'
    BY <2>20 DEF TaskReports
  <2>21. ASSUME NEW p \in Puts, WaitTimesOut(p) PROVE TaskAfterHandler'
    BY <2>21 DEF WaitTimesOut
  <2>22. ASSUME NEW p \in Puts, CleanUp(p) PROVE TaskAfterHandler'
    BY <2>22 DEF CleanUp
  <2>23. ASSUME NEW p \in Puts, Abort(p) PROVE TaskAfterHandler'
    BY <2>23 DEF Abort
  <2>24. ASSUME NEW p \in Puts, ChunksDone(p) PROVE TaskAfterHandler'
    BY <2>24 DEF ChunksDone
  <2>25. ASSUME NEW p \in Puts, TaskDies(p) PROVE TaskAfterHandler'
    BY <2>25 DEF TaskDies
  <2>26. ASSUME NEW p \in Puts, EarlyFinish(p) PROVE TaskAfterHandler'
    BY <2>26 DEF EarlyFinish
  <2>27. ASSUME NEW p \in Puts, Commit(p) PROVE TaskAfterHandler'
    BY <2>27 DEF Commit
  <2>28. ASSUME NEW p \in Puts, Finish(p) PROVE TaskAfterHandler'
    BY <2>28 DEF Finish
  <2>29. ASSUME NEW p \in Puts, FinishFails(p) PROVE TaskAfterHandler'
    BY <2>29 DEF FinishFails
  <2>30. ASSUME NEW p \in Puts, RemoveOrphan(p) PROVE TaskAfterHandler'
    BY <2>30 DEF RemoveOrphan
  <2>31. ASSUME NEW p \in Puts, RemoveOld(p) PROVE TaskAfterHandler'
    BY <2>31 DEF RemoveOld
  <2>32. ASSUME NEW p \in Puts, Publish(p) PROVE TaskAfterHandler'
    BY <2>32 DEF Publish
  <2>33. CASE DeleteLookup
    BY <2>33 DEF DeleteLookup
  <2>34. CASE DeleteRemoves
    BY <2>34 DEF DeleteRemoves
  <2>35. CASE DeletePlaceholder
    BY <2>35 DEF DeletePlaceholder
  <2>36. CASE EntryAges
    BY <2>36 DEF EntryAges
  <2>37. CASE EntryPurged
    BY <2>37 DEF EntryPurged
  <2>38. CASE ListingDropped
    BY <2>38 DEF ListingDropped
  <2>39. CASE ListingCatchesUp
    BY <2>39 DEF ListingCatchesUp
  <2>40. CASE UNCHANGED vars
    BY <2>40 DEF vars
  <2>41. QED
    BY <2>1, <2>2, <2>3, <2>4, <2>5, <2>6, <2>7, <2>8, <2>9, <2>10,
       <2>11, <2>12, <2>13, <2>14, <2>15, <2>16, <2>17, <2>18, <2>19,
       <2>20, <2>21, <2>22, <2>23, <2>24, <2>25, <2>26, <2>27, <2>28,
       <2>29, <2>30, <2>31, <2>32, <2>33, <2>34, <2>35, <2>36, <2>37,
       <2>38, <2>39, <2>40
       DEF Next, Handler, Client, UploadTask, Environment
<1>3. QED
  BY <1>1, <1>2, TypeCorrect, PTL DEF Spec

\* do_flush runs under the path's lock, so in one handler at a time.
THEOREM LockExclusive == Spec => []LockHeld
<1>1. Init => LockHeld
  BY DEF Init, LockHeld, InFlush
<1>2. TypeOK /\ LockHeld /\ [Next]_vars => LockHeld'
  <2> SUFFICES ASSUME TypeOK, LockHeld, [Next]_vars PROVE LockHeld'
    OBVIOUS
  <2> USE DEF LockHeld, TypeOK, InFlush, Answered, Running, Goto, Leave,
      TaskGoto
  <2>1. ASSUME NEW p \in Puts, Lookup(p) PROVE LockHeld'
    BY <2>1 DEF Lookup
  <2>2. ASSUME NEW p \in Puts, Open(p) PROVE LockHeld'
    BY <2>2 DEF Open
  <2>3. ASSUME NEW p \in Puts, WriteBuf(p) PROVE LockHeld'
    BY <2>3 DEF WriteBuf
  <2>4. ASSUME NEW p \in Puts, Flush(p) PROVE LockHeld'
    BY <2>4 DEF Flush
  <2>5. ASSUME NEW p \in Puts, Fold(p) PROVE LockHeld'
    BY <2>5 DEF Fold
  <2>6. ASSUME NEW p \in Puts, Acquire(p) PROVE LockHeld'
    BY <2>6 DEF Acquire
  <2>7. ASSUME NEW p \in Puts, Probe(p) PROVE LockHeld'
    BY <2>7 DEF Probe
  <2>8. ASSUME NEW p \in Puts, CaptureOld(p) PROVE LockHeld'
    BY <2>8 DEF CaptureOld
  <2>9. ASSUME NEW p \in Puts, ClearPlaceholder(p) PROVE LockHeld'
    BY <2>9 DEF ClearPlaceholder
  <2>10. ASSUME NEW p \in Puts, Md5Same(p) PROVE LockHeld'
    BY <2>10 DEF Md5Same
  <2>11. ASSUME NEW p \in Puts, Md5Differs(p) PROVE LockHeld'
    BY <2>11 DEF Md5Differs
  <2>12. ASSUME NEW p \in Puts, PreFails(p) PROVE LockHeld'
    BY <2>12 DEF PreFails
  <2>13. ASSUME NEW p \in Puts, PreInstant(p) PROVE LockHeld'
    BY <2>13 DEF PreInstant
  <2>14. ASSUME NEW p \in Puts, PreStarts(p) PROVE LockHeld'
    BY <2>14 DEF PreStarts
  <2>15. ASSUME NEW p \in Puts, HashFails(p) PROVE LockHeld'
    BY <2>15 DEF HashFails
  <2>16. ASSUME NEW p \in Puts, HashInstant(p) PROVE LockHeld'
    BY <2>16 DEF HashInstant
  <2>17. ASSUME NEW p \in Puts, InstantRemovesOld(p) PROVE LockHeld'
    BY <2>17 DEF InstantRemovesOld
  <2>18. ASSUME NEW p \in Puts, InstantAnswers(p) PROVE LockHeld'
    BY <2>18 DEF InstantAnswers
  <2>19. ASSUME NEW p \in Puts, Spawn(p) PROVE LockHeld'
    BY <2>19 DEF Spawn
  <2>20. ASSUME NEW p \in Puts, TaskReports(p) PROVE LockHeld'
    BY <2>20 DEF TaskReports
  <2>21. ASSUME NEW p \in Puts, WaitTimesOut(p) PROVE LockHeld'
    BY <2>21 DEF WaitTimesOut
  <2>22. ASSUME NEW p \in Puts, CleanUp(p) PROVE LockHeld'
    BY <2>22 DEF CleanUp
  <2>23. ASSUME NEW p \in Puts, Abort(p) PROVE LockHeld'
    BY <2>23 DEF Abort
  <2>24. ASSUME NEW p \in Puts, ChunksDone(p) PROVE LockHeld'
    BY <2>24 DEF ChunksDone
  <2>25. ASSUME NEW p \in Puts, TaskDies(p) PROVE LockHeld'
    BY <2>25 DEF TaskDies
  <2>26. ASSUME NEW p \in Puts, EarlyFinish(p) PROVE LockHeld'
    BY <2>26 DEF EarlyFinish
  <2>27. ASSUME NEW p \in Puts, Commit(p) PROVE LockHeld'
    BY <2>27 DEF Commit
  <2>28. ASSUME NEW p \in Puts, Finish(p) PROVE LockHeld'
    BY <2>28 DEF Finish
  <2>29. ASSUME NEW p \in Puts, FinishFails(p) PROVE LockHeld'
    BY <2>29 DEF FinishFails
  <2>30. ASSUME NEW p \in Puts, RemoveOrphan(p) PROVE LockHeld'
    BY <2>30 DEF RemoveOrphan
  <2>31. ASSUME NEW p \in Puts, RemoveOld(p) PROVE LockHeld'
    BY <2>31 DEF RemoveOld
  <2>32. ASSUME NEW p \in Puts, Publish(p) PROVE LockHeld'
    BY <2>32 DEF Publish
  <2>33. CASE DeleteLookup
    BY <2>33 DEF DeleteLookup
  <2>34. CASE DeleteRemoves
    BY <2>34 DEF DeleteRemoves
  <2>35. CASE DeletePlaceholder
    BY <2>35 DEF DeletePlaceholder
  <2>36. CASE EntryAges
    BY <2>36 DEF EntryAges
  <2>37. CASE EntryPurged
    BY <2>37 DEF EntryPurged
  <2>38. CASE ListingDropped
    BY <2>38 DEF ListingDropped
  <2>39. CASE ListingCatchesUp
    BY <2>39 DEF ListingCatchesUp
  <2>40. CASE UNCHANGED vars
    BY <2>40 DEF vars
  <2>41. QED
    BY <2>1, <2>2, <2>3, <2>4, <2>5, <2>6, <2>7, <2>8, <2>9, <2>10,
       <2>11, <2>12, <2>13, <2>14, <2>15, <2>16, <2>17, <2>18, <2>19,
       <2>20, <2>21, <2>22, <2>23, <2>24, <2>25, <2>26, <2>27, <2>28,
       <2>29, <2>30, <2>31, <2>32, <2>33, <2>34, <2>35, <2>36, <2>37,
       <2>38, <2>39, <2>40
       DEF Next, Handler, Client, UploadTask, Environment
<1>3. QED
  BY <1>1, <1>2, TypeCorrect, PTL DEF Spec

\* No handler leaves do_flush with the lock, on whichever way it leaves: answers,
\* errors, the timeout of the wait, a dropped connection.  Whoever waits in the queue
\* waits for one that is still at work.
THEOREM LockIsReleased == Spec => []LockNotLeaked
<1>1. Init => LockNotLeaked
  BY DEF Init, LockNotLeaked, InFlush
<1>2. TypeOK /\ LockNotLeaked /\ [Next]_vars => LockNotLeaked'
  <2> SUFFICES ASSUME TypeOK, LockNotLeaked, [Next]_vars PROVE LockNotLeaked'
    OBVIOUS
  <2> USE DEF LockNotLeaked, TypeOK, InFlush, Answered, Running, Goto, Leave,
      TaskGoto
  <2>1. ASSUME NEW p \in Puts, Lookup(p) PROVE LockNotLeaked'
    BY <2>1 DEF Lookup
  <2>2. ASSUME NEW p \in Puts, Open(p) PROVE LockNotLeaked'
    BY <2>2 DEF Open
  <2>3. ASSUME NEW p \in Puts, WriteBuf(p) PROVE LockNotLeaked'
    BY <2>3 DEF WriteBuf
  <2>4. ASSUME NEW p \in Puts, Flush(p) PROVE LockNotLeaked'
    BY <2>4 DEF Flush
  <2>5. ASSUME NEW p \in Puts, Fold(p) PROVE LockNotLeaked'
    BY <2>5 DEF Fold
  <2>6. ASSUME NEW p \in Puts, Acquire(p) PROVE LockNotLeaked'
    BY <2>6 DEF Acquire
  <2>7. ASSUME NEW p \in Puts, Probe(p) PROVE LockNotLeaked'
    BY <2>7 DEF Probe
  <2>8. ASSUME NEW p \in Puts, CaptureOld(p) PROVE LockNotLeaked'
    BY <2>8 DEF CaptureOld
  <2>9. ASSUME NEW p \in Puts, ClearPlaceholder(p) PROVE LockNotLeaked'
    BY <2>9 DEF ClearPlaceholder
  <2>10. ASSUME NEW p \in Puts, Md5Same(p) PROVE LockNotLeaked'
    BY <2>10 DEF Md5Same
  <2>11. ASSUME NEW p \in Puts, Md5Differs(p) PROVE LockNotLeaked'
    BY <2>11 DEF Md5Differs
  <2>12. ASSUME NEW p \in Puts, PreFails(p) PROVE LockNotLeaked'
    BY <2>12 DEF PreFails
  <2>13. ASSUME NEW p \in Puts, PreInstant(p) PROVE LockNotLeaked'
    BY <2>13 DEF PreInstant
  <2>14. ASSUME NEW p \in Puts, PreStarts(p) PROVE LockNotLeaked'
    BY <2>14 DEF PreStarts
  <2>15. ASSUME NEW p \in Puts, HashFails(p) PROVE LockNotLeaked'
    BY <2>15 DEF HashFails
  <2>16. ASSUME NEW p \in Puts, HashInstant(p) PROVE LockNotLeaked'
    BY <2>16 DEF HashInstant
  <2>17. ASSUME NEW p \in Puts, InstantRemovesOld(p) PROVE LockNotLeaked'
    BY <2>17 DEF InstantRemovesOld
  <2>18. ASSUME NEW p \in Puts, InstantAnswers(p) PROVE LockNotLeaked'
    BY <2>18 DEF InstantAnswers
  <2>19. ASSUME NEW p \in Puts, Spawn(p) PROVE LockNotLeaked'
    BY <2>19 DEF Spawn
  <2>20. ASSUME NEW p \in Puts, TaskReports(p) PROVE LockNotLeaked'
    BY <2>20 DEF TaskReports
  <2>21. ASSUME NEW p \in Puts, WaitTimesOut(p) PROVE LockNotLeaked'
    BY <2>21 DEF WaitTimesOut
  <2>22. ASSUME NEW p \in Puts, CleanUp(p) PROVE LockNotLeaked'
    BY <2>22 DEF CleanUp
  <2>23. ASSUME NEW p \in Puts, Abort(p) PROVE LockNotLeaked'
    BY <2>23 DEF Abort
  <2>24. ASSUME NEW p \in Puts, ChunksDone(p) PROVE LockNotLeaked'
    BY <2>24 DEF ChunksDone
  <2>25. ASSUME NEW p \in Puts, TaskDies(p) PROVE LockNotLeaked'
    BY <2>25 DEF TaskDies
  <2>26. ASSUME NEW p \in Puts, EarlyFinish(p) PROVE LockNotLeaked'
    BY <2>26 DEF EarlyFinish
  <2>27. ASSUME NEW p \in Puts, Commit(p) PROVE LockNotLeaked'
    BY <2>27 DEF Commit
  <2>28. ASSUME NEW p \in Puts, Finish(p) PROVE LockNotLeaked'
    BY <2>28 DEF Finish
  <2>29. ASSUME NEW p \in Puts, FinishFails(p) PROVE LockNotLeaked'
    BY <2>29 DEF FinishFails
  <2>30. ASSUME NEW p \in Puts, RemoveOrphan(p) PROVE LockNotLeaked'
    BY <2>30 DEF RemoveOrphan
  <2>31. ASSUME NEW p \in Puts, RemoveOld(p) PROVE LockNotLeaked'
    BY <2>31 DEF RemoveOld
  <2>32. ASSUME NEW p \in Puts, Publish(p) PROVE LockNotLeaked'
    BY <2>32 DEF Publish
  <2>33. CASE DeleteLookup
    BY <2>33 DEF DeleteLookup
  <2>34. CASE DeleteRemoves
    BY <2>34 DEF DeleteRemoves
  <2>35. CASE DeletePlaceholder
    BY <2>35 DEF DeletePlaceholder
  <2>36. CASE EntryAges
    BY <2>36 DEF EntryAges
  <2>37. CASE EntryPurged
    BY <2>37 DEF EntryPurged
  <2>38. CASE ListingDropped
    BY <2>38 DEF ListingDropped
  <2>39. CASE ListingCatchesUp
    BY <2>39 DEF ListingCatchesUp
  <2>40. CASE UNCHANGED vars
    BY <2>40 DEF vars
  <2>41. QED
    BY <2>1, <2>2, <2>3, <2>4, <2>5, <2>6, <2>7, <2>8, <2>9, <2>10,
       <2>11, <2>12, <2>13, <2>14, <2>15, <2>16, <2>17, <2>18, <2>19,
       <2>20, <2>21, <2>22, <2>23, <2>24, <2>25, <2>26, <2>27, <2>28,
       <2>29, <2>30, <2>31, <2>32, <2>33, <2>34, <2>35, <2>36, <2>37,
       <2>38, <2>39, <2>40
       DEF Next, Handler, Client, UploadTask, Environment
<1>3. QED
  BY <1>1, <1>2, TypeCorrect, PTL DEF Spec

\* Two uploads never share the cloud file they write.
THEOREM FidsOwned == Spec => []NewIsOwn
<1>1. Init => NewIsOwn
  BY DEF Init, NewIsOwn, OwnsNew, Running
<1>2. TypeOK /\ FidsBelowNext /\ TaskAfterHandler /\ NewIsOwn /\ [Next]_vars
    => NewIsOwn'
  <2> SUFFICES ASSUME TypeOK, FidsBelowNext, TaskAfterHandler, NewIsOwn,
      [Next]_vars PROVE NewIsOwn'
    OBVIOUS
  <2> USE DEF NewIsOwn, OwnsNew, FidsBelowNext, TaskAfterHandler, TypeOK,
      Answered, Running, Goto, Leave, TaskGoto, CloudFinishes, RemoveReplaced,
      Replaced
  <2>1. ASSUME NEW p \in Puts, Lookup(p) PROVE NewIsOwn'
    BY <2>1 DEF Lookup
  <2>2. ASSUME NEW p \in Puts, Open(p) PROVE NewIsOwn'
    BY <2>2 DEF Open
  <2>3. ASSUME NEW p \in Puts, WriteBuf(p) PROVE NewIsOwn'
    BY <2>3 DEF WriteBuf
  <2>4. ASSUME NEW p \in Puts, Flush(p) PROVE NewIsOwn'
    BY <2>4 DEF Flush
  <2>5. ASSUME NEW p \in Puts, Fold(p) PROVE NewIsOwn'
    BY <2>5 DEF Fold
  <2>6. ASSUME NEW p \in Puts, Acquire(p) PROVE NewIsOwn'
    BY <2>6 DEF Acquire
  <2>7. ASSUME NEW p \in Puts, Probe(p) PROVE NewIsOwn'
    BY <2>7 DEF Probe
  <2>8. ASSUME NEW p \in Puts, CaptureOld(p) PROVE NewIsOwn'
    BY <2>8 DEF CaptureOld
  <2>9. ASSUME NEW p \in Puts, ClearPlaceholder(p) PROVE NewIsOwn'
    BY <2>9 DEF ClearPlaceholder
  <2>10. ASSUME NEW p \in Puts, Md5Same(p) PROVE NewIsOwn'
    BY <2>10 DEF Md5Same
  <2>11. ASSUME NEW p \in Puts, Md5Differs(p) PROVE NewIsOwn'
    BY <2>11 DEF Md5Differs
  <2>12. ASSUME NEW p \in Puts, PreFails(p) PROVE NewIsOwn'
    BY <2>12 DEF PreFails
  <2>13. ASSUME NEW p \in Puts, PreInstant(p) PROVE NewIsOwn'
    BY <2>13 DEF PreInstant
  <2>14. ASSUME NEW p \in Puts, PreStarts(p) PROVE NewIsOwn'
    BY <2>14 DEF PreStarts
  <2>15. ASSUME NEW p \in Puts, HashFails(p) PROVE NewIsOwn'
    BY <2>15 DEF HashFails
  <2>16. ASSUME NEW p \in Puts, HashInstant(p) PROVE NewIsOwn'
    BY <2>16 DEF HashInstant
  <2>17. ASSUME NEW p \in Puts, InstantRemovesOld(p) PROVE NewIsOwn'
    BY <2>17 DEF InstantRemovesOld
  <2>18. ASSUME NEW p \in Puts, InstantAnswers(p) PROVE NewIsOwn'
    BY <2>18 DEF InstantAnswers
  <2>19. ASSUME NEW p \in Puts, Spawn(p) PROVE NewIsOwn'
    BY <2>19 DEF Spawn
  <2>20. ASSUME NEW p \in Puts, TaskReports(p) PROVE NewIsOwn'
    BY <2>20 DEF TaskReports
  <2>21. ASSUME NEW p \in Puts, WaitTimesOut(p) PROVE NewIsOwn'
    BY <2>21 DEF WaitTimesOut
  <2>22. ASSUME NEW p \in Puts, CleanUp(p) PROVE NewIsOwn'
    BY <2>22 DEF CleanUp
  <2>23. ASSUME NEW p \in Puts, Abort(p) PROVE NewIsOwn'
    BY <2>23 DEF Abort
  <2>24. ASSUME NEW p \in Puts, ChunksDone(p) PROVE NewIsOwn'
    BY <2>24 DEF ChunksDone
  <2>25. ASSUME NEW p \in Puts, TaskDies(p) PROVE NewIsOwn'
    BY <2>25 DEF TaskDies
  <2>26. ASSUME NEW p \in Puts, EarlyFinish(p) PROVE NewIsOwn'
    BY <2>26 DEF EarlyFinish
  <2>27. ASSUME NEW p \in Puts, Commit(p) PROVE NewIsOwn'
    BY <2>27 DEF Commit
  <2>28. ASSUME NEW p \in Puts, Finish(p) PROVE NewIsOwn'
    BY <2>28 DEF Finish
  <2>29. ASSUME NEW p \in Puts, FinishFails(p) PROVE NewIsOwn'
    BY <2>29 DEF FinishFails
  <2>30. ASSUME NEW p \in Puts, RemoveOrphan(p) PROVE NewIsOwn'
    BY <2>30 DEF RemoveOrphan
  <2>31. ASSUME NEW p \in Puts, RemoveOld(p) PROVE NewIsOwn'
    BY <2>31 DEF RemoveOld
  <2>32. ASSUME NEW p \in Puts, Publish(p) PROVE NewIsOwn'
    BY <2>32 DEF Publish
  <2>33. CASE DeleteLookup
    BY <2>33 DEF DeleteLookup
  <2>34. CASE DeleteRemoves
    BY <2>34 DEF DeleteRemoves
  <2>35. CASE DeletePlaceholder
    BY <2>35 DEF DeletePlaceholder
  <2>36. CASE EntryAges
    BY <2>36 DEF EntryAges
  <2>37. CASE EntryPurged
    BY <2>37 DEF EntryPurged
  <2>38. CASE ListingDropped
    BY <2>38 DEF ListingDropped
  <2>39. CASE ListingCatchesUp
    BY <2>39 DEF ListingCatchesUp
  <2>40. CASE UNCHANGED vars
    BY <2>40 DEF vars
  <2>41. QED
    BY <2>1, <2>2, <2>3, <2>4, <2>5, <2>6, <2>7, <2>8, <2>9, <2>10,
       <2>11, <2>12, <2>13, <2>14, <2>15, <2>16, <2>17, <2>18, <2>19,
       <2>20, <2>21, <2>22, <2>23, <2>24, <2>25, <2>26, <2>27, <2>28,
       <2>29, <2>30, <2>31, <2>32, <2>33, <2>34, <2>35, <2>36, <2>37,
       <2>38, <2>39, <2>40
       DEF Next, Handler, Client, UploadTask, Environment
<1>3. QED
  BY <1>1, <1>2, TypeCorrect, FidsIssued, TaskFollowsHandler, PTL DEF Spec

\* The cleanup of a failed upload never removes a confirmed file.
THEOREM OrphansUnconfirmed == Spec => []UnconfirmedNotFinished
<1>1. Init => UnconfirmedNotFinished
  BY DEF Init, UnconfirmedNotFinished, Unconfirmed, OwnsNew, Running
<1>2. TypeOK /\ FidsBelowNext /\ TaskAfterHandler /\ NewIsOwn /\
    UnconfirmedNotFinished /\ [Next]_vars => UnconfirmedNotFinished'
  <2> SUFFICES ASSUME TypeOK, FidsBelowNext, TaskAfterHandler, NewIsOwn,
      UnconfirmedNotFinished, [Next]_vars PROVE UnconfirmedNotFinished'
    OBVIOUS
  <2> USE DEF UnconfirmedNotFinished, Unconfirmed, NewIsOwn, OwnsNew,
      FidsBelowNext, TaskAfterHandler, TypeOK, Answered, Running, Goto, Leave,
      TaskGoto, CloudFinishes, RemoveReplaced, Replaced
  <2>1. ASSUME NEW p \in Puts, Lookup(p) PROVE UnconfirmedNotFinished'
    BY <2>1 DEF Lookup
  <2>2. ASSUME NEW p \in Puts, Open(p) PROVE UnconfirmedNotFinished'
    BY <2>2 DEF Open
  <2>3. ASSUME NEW p \in Puts, WriteBuf(p) PROVE UnconfirmedNotFinished'
    BY <2>3 DEF WriteBuf
  <2>4. ASSUME NEW p \in Puts, Flush(p) PROVE UnconfirmedNotFinished'
    BY <2>4 DEF Flush
  <2>5. ASSUME NEW p \in Puts, Fold(p) PROVE UnconfirmedNotFinished'
    BY <2>5 DEF Fold
  <2>6. ASSUME NEW p \in Puts, Acquire(p) PROVE UnconfirmedNotFinished'
    BY <2>6 DEF Acquire
  <2>7. ASSUME NEW p \in Puts, Probe(p) PROVE UnconfirmedNotFinished'
    BY <2>7 DEF Probe
  <2>8. ASSUME NEW p \in Puts, CaptureOld(p) PROVE UnconfirmedNotFinished'
    BY <2>8 DEF CaptureOld
  <2>9. ASSUME NEW p \in Puts, ClearPlaceholder(p) PROVE
      UnconfirmedNotFinished'
    BY <2>9 DEF ClearPlaceholder
  <2>10. ASSUME NEW p \in Puts, Md5Same(p) PROVE UnconfirmedNotFinished'
    BY <2>10 DEF Md5Same
  <2>11. ASSUME NEW p \in Puts, Md5Differs(p) PROVE UnconfirmedNotFinished'
    BY <2>11 DEF Md5Differs
  <2>12. ASSUME NEW p \in Puts, PreFails(p) PROVE UnconfirmedNotFinished'
    BY <2>12 DEF PreFails
  <2>13. ASSUME NEW p \in Puts, PreInstant(p) PROVE UnconfirmedNotFinished'
    BY <2>13 DEF PreInstant
  <2>14. ASSUME NEW p \in Puts, PreStarts(p) PROVE UnconfirmedNotFinished'
    BY <2>14 DEF PreStarts
  <2>15. ASSUME NEW p \in Puts, HashFails(p) PROVE UnconfirmedNotFinished'
    BY <2>15 DEF HashFails
  <2>16. ASSUME NEW p \in Puts, HashInstant(p) PROVE UnconfirmedNotFinished'
    BY <2>16 DEF HashInstant
  <2>17. ASSUME NEW p \in Puts, InstantRemovesOld(p) PROVE
      UnconfirmedNotFinished'
    BY <2>17 DEF InstantRemovesOld
  <2>18. ASSUME NEW p \in Puts, InstantAnswers(p) PROVE UnconfirmedNotFinished'
    BY <2>18 DEF InstantAnswers
  <2>19. ASSUME NEW p \in Puts, Spawn(p) PROVE UnconfirmedNotFinished'
    BY <2>19 DEF Spawn
  <2>20. ASSUME NEW p \in Puts, TaskReports(p) PROVE UnconfirmedNotFinished'
    BY <2>20 DEF TaskReports
  <2>21. ASSUME NEW p \in Puts, WaitTimesOut(p) PROVE UnconfirmedNotFinished'
    BY <2>21 DEF WaitTimesOut
  <2>22. ASSUME NEW p \in Puts, CleanUp(p) PROVE UnconfirmedNotFinished'
    BY <2>22 DEF CleanUp
  <2>23. ASSUME NEW p \in Puts, Abort(p) PROVE UnconfirmedNotFinished'
    BY <2>23 DEF Abort
  <2>24. ASSUME NEW p \in Puts, ChunksDone(p) PROVE UnconfirmedNotFinished'
    BY <2>24 DEF ChunksDone
  <2>25. ASSUME NEW p \in Puts, TaskDies(p) PROVE UnconfirmedNotFinished'
    BY <2>25 DEF TaskDies
  <2>26. ASSUME NEW p \in Puts, EarlyFinish(p) PROVE UnconfirmedNotFinished'
    BY <2>26 DEF EarlyFinish
  <2>27. ASSUME NEW p \in Puts, Commit(p) PROVE UnconfirmedNotFinished'
    BY <2>27 DEF Commit
  <2>28. ASSUME NEW p \in Puts, Finish(p) PROVE UnconfirmedNotFinished'
    BY <2>28 DEF Finish
  <2>29. ASSUME NEW p \in Puts, FinishFails(p) PROVE UnconfirmedNotFinished'
    BY <2>29 DEF FinishFails
  <2>30. ASSUME NEW p \in Puts, RemoveOrphan(p) PROVE UnconfirmedNotFinished'
    BY <2>30 DEF RemoveOrphan
  <2>31. ASSUME NEW p \in Puts, RemoveOld(p) PROVE UnconfirmedNotFinished'
    BY <2>31 DEF RemoveOld
  <2>32. ASSUME NEW p \in Puts, Publish(p) PROVE UnconfirmedNotFinished'
    BY <2>32 DEF Publish
  <2>33. CASE DeleteLookup
    BY <2>33 DEF DeleteLookup
  <2>34. CASE DeleteRemoves
    BY <2>34 DEF DeleteRemoves
  <2>35. CASE DeletePlaceholder
    BY <2>35 DEF DeletePlaceholder
  <2>36. CASE EntryAges
    BY <2>36 DEF EntryAges
  <2>37. CASE EntryPurged
    BY <2>37 DEF EntryPurged
  <2>38. CASE ListingDropped
    BY <2>38 DEF ListingDropped
  <2>39. CASE ListingCatchesUp
    BY <2>39 DEF ListingCatchesUp
  <2>40. CASE UNCHANGED vars
    BY <2>40 DEF vars
  <2>41. QED
    BY <2>1, <2>2, <2>3, <2>4, <2>5, <2>6, <2>7, <2>8, <2>9, <2>10,
       <2>11, <2>12, <2>13, <2>14, <2>15, <2>16, <2>17, <2>18, <2>19,
       <2>20, <2>21, <2>22, <2>23, <2>24, <2>25, <2>26, <2>27, <2>28,
       <2>29, <2>30, <2>31, <2>32, <2>33, <2>34, <2>35, <2>36, <2>37,
       <2>38, <2>39, <2>40
       DEF Next, Handler, Client, UploadTask, Environment
<1>3. QED
  BY <1>1, <1>2, TypeCorrect, FidsIssued, TaskFollowsHandler, FidsOwned, PTL
      DEF Spec

\* An upload replaces an older file than its own.
THEOREM ReplacesOlder == Spec => []OldBelowNew
<1>1. Init => OldBelowNew
  BY DEF Init, OldBelowNew, OwnsNew, Running
<1>2. TypeOK /\ FidsBelowNext /\ TaskAfterHandler /\ OldBelowNew /\
    [Next]_vars => OldBelowNew'
  <2> SUFFICES ASSUME TypeOK, FidsBelowNext, TaskAfterHandler, OldBelowNew,
      [Next]_vars PROVE OldBelowNew'
    OBVIOUS
  <2> USE DEF OldBelowNew, OwnsNew, FidsBelowNext, TaskAfterHandler, TypeOK,
      Answered, Running, Goto, Leave, TaskGoto, CloudFinishes, RemoveReplaced,
      Replaced
  <2>1. ASSUME NEW p \in Puts, Lookup(p) PROVE OldBelowNew'
    BY <2>1 DEF Lookup
  <2>2. ASSUME NEW p \in Puts, Open(p) PROVE OldBelowNew'
    BY <2>2 DEF Open
  <2>3. ASSUME NEW p \in Puts, WriteBuf(p) PROVE OldBelowNew'
    BY <2>3 DEF WriteBuf
  <2>4. ASSUME NEW p \in Puts, Flush(p) PROVE OldBelowNew'
    BY <2>4 DEF Flush
  <2>5. ASSUME NEW p \in Puts, Fold(p) PROVE OldBelowNew'
    BY <2>5 DEF Fold
  <2>6. ASSUME NEW p \in Puts, Acquire(p) PROVE OldBelowNew'
    BY <2>6 DEF Acquire
  <2>7. ASSUME NEW p \in Puts, Probe(p) PROVE OldBelowNew'
    BY <2>7 DEF Probe
  <2>8. ASSUME NEW p \in Puts, CaptureOld(p) PROVE OldBelowNew'
    BY <2>8 DEF CaptureOld
  <2>9. ASSUME NEW p \in Puts, ClearPlaceholder(p) PROVE OldBelowNew'
    BY <2>9 DEF ClearPlaceholder
  <2>10. ASSUME NEW p \in Puts, Md5Same(p) PROVE OldBelowNew'
    BY <2>10 DEF Md5Same
  <2>11. ASSUME NEW p \in Puts, Md5Differs(p) PROVE OldBelowNew'
    BY <2>11 DEF Md5Differs
  <2>12. ASSUME NEW p \in Puts, PreFails(p) PROVE OldBelowNew'
    BY <2>12 DEF PreFails
  <2>13. ASSUME NEW p \in Puts, PreInstant(p) PROVE OldBelowNew'
    BY <2>13 DEF PreInstant
  <2>14. ASSUME NEW p \in Puts, PreStarts(p) PROVE OldBelowNew'
    BY <2>14 DEF PreStarts
  <2>15. ASSUME NEW p \in Puts, HashFails(p) PROVE OldBelowNew'
    BY <2>15 DEF HashFails
  <2>16. ASSUME NEW p \in Puts, HashInstant(p) PROVE OldBelowNew'
    BY <2>16 DEF HashInstant
  <2>17. ASSUME NEW p \in Puts, InstantRemovesOld(p) PROVE OldBelowNew'
    BY <2>17 DEF InstantRemovesOld
  <2>18. ASSUME NEW p \in Puts, InstantAnswers(p) PROVE OldBelowNew'
    BY <2>18 DEF InstantAnswers
  <2>19. ASSUME NEW p \in Puts, Spawn(p) PROVE OldBelowNew'
    BY <2>19 DEF Spawn
  <2>20. ASSUME NEW p \in Puts, TaskReports(p) PROVE OldBelowNew'
    BY <2>20 DEF TaskReports
  <2>21. ASSUME NEW p \in Puts, WaitTimesOut(p) PROVE OldBelowNew'
    BY <2>21 DEF WaitTimesOut
  <2>22. ASSUME NEW p \in Puts, CleanUp(p) PROVE OldBelowNew'
    BY <2>22 DEF CleanUp
  <2>23. ASSUME NEW p \in Puts, Abort(p) PROVE OldBelowNew'
    BY <2>23 DEF Abort
  <2>24. ASSUME NEW p \in Puts, ChunksDone(p) PROVE OldBelowNew'
    BY <2>24 DEF ChunksDone
  <2>25. ASSUME NEW p \in Puts, TaskDies(p) PROVE OldBelowNew'
    BY <2>25 DEF TaskDies
  <2>26. ASSUME NEW p \in Puts, EarlyFinish(p) PROVE OldBelowNew'
    BY <2>26 DEF EarlyFinish
  <2>27. ASSUME NEW p \in Puts, Commit(p) PROVE OldBelowNew'
    BY <2>27 DEF Commit
  <2>28. ASSUME NEW p \in Puts, Finish(p) PROVE OldBelowNew'
    BY <2>28 DEF Finish
  <2>29. ASSUME NEW p \in Puts, FinishFails(p) PROVE OldBelowNew'
    BY <2>29 DEF FinishFails
  <2>30. ASSUME NEW p \in Puts, RemoveOrphan(p) PROVE OldBelowNew'
    BY <2>30 DEF RemoveOrphan
  <2>31. ASSUME NEW p \in Puts, RemoveOld(p) PROVE OldBelowNew'
    BY <2>31 DEF RemoveOld
  <2>32. ASSUME NEW p \in Puts, Publish(p) PROVE OldBelowNew'
    BY <2>32 DEF Publish
  <2>33. CASE DeleteLookup
    BY <2>33 DEF DeleteLookup
  <2>34. CASE DeleteRemoves
    BY <2>34 DEF DeleteRemoves
  <2>35. CASE DeletePlaceholder
    BY <2>35 DEF DeletePlaceholder
  <2>36. CASE EntryAges
    BY <2>36 DEF EntryAges
  <2>37. CASE EntryPurged
    BY <2>37 DEF EntryPurged
  <2>38. CASE ListingDropped
    BY <2>38 DEF ListingDropped
  <2>39. CASE ListingCatchesUp
    BY <2>39 DEF ListingCatchesUp
  <2>40. CASE UNCHANGED vars
    BY <2>40 DEF vars
  <2>41. QED
    BY <2>1, <2>2, <2>3, <2>4, <2>5, <2>6, <2>7, <2>8, <2>9, <2>10,
       <2>11, <2>12, <2>13, <2>14, <2>15, <2>16, <2>17, <2>18, <2>19,
       <2>20, <2>21, <2>22, <2>23, <2>24, <2>25, <2>26, <2>27, <2>28,
       <2>29, <2>30, <2>31, <2>32, <2>33, <2>34, <2>35, <2>36, <2>37,
       <2>38, <2>39, <2>40
       DEF Next, Handler, Client, UploadTask, Environment
<1>3. QED
  BY <1>1, <1>2, TypeCorrect, FidsIssued, TaskFollowsHandler, PTL DEF Spec

\* The old file is removed only when the new one is confirmed.
THEOREM RemovesAfterConfirmation == Spec => []ConfirmedBeforeRemoval
<1>1. Init => ConfirmedBeforeRemoval
  BY DEF Init, ConfirmedBeforeRemoval, Running
<1>2. TypeOK /\ FidsBelowNext /\ TaskAfterHandler /\ ConfirmedBeforeRemoval /\
    [Next]_vars => ConfirmedBeforeRemoval'
  <2> SUFFICES ASSUME TypeOK, FidsBelowNext, TaskAfterHandler,
      ConfirmedBeforeRemoval, [Next]_vars PROVE ConfirmedBeforeRemoval'
    OBVIOUS
  <2> USE DEF ConfirmedBeforeRemoval, TaskAfterHandler, TypeOK, Answered,
      Running, Goto, Leave, TaskGoto, CloudFinishes, RemoveReplaced, Replaced
  <2>1. ASSUME NEW p \in Puts, Lookup(p) PROVE ConfirmedBeforeRemoval'
    BY <2>1 DEF Lookup
  <2>2. ASSUME NEW p \in Puts, Open(p) PROVE ConfirmedBeforeRemoval'
    BY <2>2 DEF Open
  <2>3. ASSUME NEW p \in Puts, WriteBuf(p) PROVE ConfirmedBeforeRemoval'
    BY <2>3 DEF WriteBuf
  <2>4. ASSUME NEW p \in Puts, Flush(p) PROVE ConfirmedBeforeRemoval'
    BY <2>4 DEF Flush
  <2>5. ASSUME NEW p \in Puts, Fold(p) PROVE ConfirmedBeforeRemoval'
    BY <2>5 DEF Fold
  <2>6. ASSUME NEW p \in Puts, Acquire(p) PROVE ConfirmedBeforeRemoval'
    BY <2>6 DEF Acquire
  <2>7. ASSUME NEW p \in Puts, Probe(p) PROVE ConfirmedBeforeRemoval'
    BY <2>7 DEF Probe
  <2>8. ASSUME NEW p \in Puts, CaptureOld(p) PROVE ConfirmedBeforeRemoval'
    BY <2>8 DEF CaptureOld
  <2>9. ASSUME NEW p \in Puts, ClearPlaceholder(p) PROVE
      ConfirmedBeforeRemoval'
    BY <2>9 DEF ClearPlaceholder
  <2>10. ASSUME NEW p \in Puts, Md5Same(p) PROVE ConfirmedBeforeRemoval'
    BY <2>10 DEF Md5Same
  <2>11. ASSUME NEW p \in Puts, Md5Differs(p) PROVE ConfirmedBeforeRemoval'
    BY <2>11 DEF Md5Differs
  <2>12. ASSUME NEW p \in Puts, PreFails(p) PROVE ConfirmedBeforeRemoval'
    BY <2>12 DEF PreFails
  <2>13. ASSUME NEW p \in Puts, PreInstant(p) PROVE ConfirmedBeforeRemoval'
    BY <2>13 DEF PreInstant
  <2>14. ASSUME NEW p \in Puts, PreStarts(p) PROVE ConfirmedBeforeRemoval'
    BY <2>14 DEF PreStarts
  <2>15. ASSUME NEW p \in Puts, HashFails(p) PROVE ConfirmedBeforeRemoval'
    BY <2>15 DEF HashFails
  <2>16. ASSUME NEW p \in Puts, HashInstant(p) PROVE ConfirmedBeforeRemoval'
    BY <2>16 DEF HashInstant
  <2>17. ASSUME NEW p \in Puts, InstantRemovesOld(p) PROVE
      ConfirmedBeforeRemoval'
    BY <2>17 DEF InstantRemovesOld
  <2>18. ASSUME NEW p \in Puts, InstantAnswers(p) PROVE ConfirmedBeforeRemoval'
    BY <2>18 DEF InstantAnswers
  <2>19. ASSUME NEW p \in Puts, Spawn(p) PROVE ConfirmedBeforeRemoval'
    BY <2>19 DEF Spawn
  <2>20. ASSUME NEW p \in Puts, TaskReports(p) PROVE ConfirmedBeforeRemoval'
    BY <2>20 DEF TaskReports
  <2>21. ASSUME NEW p \in Puts, WaitTimesOut(p) PROVE ConfirmedBeforeRemoval'
    BY <2>21 DEF WaitTimesOut
  <2>22. ASSUME NEW p \in Puts, CleanUp(p) PROVE ConfirmedBeforeRemoval'
    BY <2>22 DEF CleanUp
  <2>23. ASSUME NEW p \in Puts, Abort(p) PROVE ConfirmedBeforeRemoval'
    BY <2>23 DEF Abort
  <2>24. ASSUME NEW p \in Puts, ChunksDone(p) PROVE ConfirmedBeforeRemoval'
    BY <2>24 DEF ChunksDone
  <2>25. ASSUME NEW p \in Puts, TaskDies(p) PROVE ConfirmedBeforeRemoval'
    BY <2>25 DEF TaskDies
  <2>26. ASSUME NEW p \in Puts, EarlyFinish(p) PROVE ConfirmedBeforeRemoval'
    BY <2>26 DEF EarlyFinish
  <2>27. ASSUME NEW p \in Puts, Commit(p) PROVE ConfirmedBeforeRemoval'
    BY <2>27 DEF Commit
  <2>28. ASSUME NEW p \in Puts, Finish(p) PROVE ConfirmedBeforeRemoval'
    BY <2>28 DEF Finish
  <2>29. ASSUME NEW p \in Puts, FinishFails(p) PROVE ConfirmedBeforeRemoval'
    BY <2>29 DEF FinishFails
  <2>30. ASSUME NEW p \in Puts, RemoveOrphan(p) PROVE ConfirmedBeforeRemoval'
    BY <2>30 DEF RemoveOrphan
  <2>31. ASSUME NEW p \in Puts, RemoveOld(p) PROVE ConfirmedBeforeRemoval'
    BY <2>31 DEF RemoveOld
  <2>32. ASSUME NEW p \in Puts, Publish(p) PROVE ConfirmedBeforeRemoval'
    BY <2>32 DEF Publish
  <2>33. CASE DeleteLookup
    BY <2>33 DEF DeleteLookup
  <2>34. CASE DeleteRemoves
    BY <2>34 DEF DeleteRemoves
  <2>35. CASE DeletePlaceholder
    BY <2>35 DEF DeletePlaceholder
  <2>36. CASE EntryAges
    BY <2>36 DEF EntryAges
  <2>37. CASE EntryPurged
    BY <2>37 DEF EntryPurged
  <2>38. CASE ListingDropped
    BY <2>38 DEF ListingDropped
  <2>39. CASE ListingCatchesUp
    BY <2>39 DEF ListingCatchesUp
  <2>40. CASE UNCHANGED vars
    BY <2>40 DEF vars
  <2>41. QED
    BY <2>1, <2>2, <2>3, <2>4, <2>5, <2>6, <2>7, <2>8, <2>9, <2>10,
       <2>11, <2>12, <2>13, <2>14, <2>15, <2>16, <2>17, <2>18, <2>19,
       <2>20, <2>21, <2>22, <2>23, <2>24, <2>25, <2>26, <2>27, <2>28,
       <2>29, <2>30, <2>31, <2>32, <2>33, <2>34, <2>35, <2>36, <2>37,
       <2>38, <2>39, <2>40
       DEF Next, Handler, Client, UploadTask, Environment
<1>3. QED
  BY <1>1, <1>2, TypeCorrect, FidsIssued, TaskFollowsHandler, PTL DEF Spec

\* A confirmed file goes only by a DELETE or for a newer confirmed file.
THEOREM FinishedSuperseded == Spec => []FinishedKept
<1>1. Init => FinishedKept
  BY DEF Init, FinishedKept, Unconfirmed, OwnsNew, Running
<1>2. TypeOK /\ FidsBelowNext /\ UnconfirmedNotFinished /\ OldBelowNew /\
    ConfirmedBeforeRemoval /\ FinishedKept /\ [Next]_vars => FinishedKept'
  <2> SUFFICES ASSUME TypeOK, FidsBelowNext, UnconfirmedNotFinished,
      OldBelowNew, ConfirmedBeforeRemoval, FinishedKept, [Next]_vars PROVE
      FinishedKept'
    OBVIOUS
  <2> USE DEF FinishedKept, Unconfirmed, OwnsNew, UnconfirmedNotFinished,
      OldBelowNew, ConfirmedBeforeRemoval, FidsBelowNext, AfterFlush, TypeOK,
      Answered, Running, Goto, Leave, TaskGoto, CloudFinishes, RemoveReplaced,
      Replaced
  <2>1. ASSUME NEW p \in Puts, Lookup(p) PROVE FinishedKept'
    BY <2>1 DEF Lookup
  <2>2. ASSUME NEW p \in Puts, Open(p) PROVE FinishedKept'
    BY <2>2 DEF Open
  <2>3. ASSUME NEW p \in Puts, WriteBuf(p) PROVE FinishedKept'
    BY <2>3 DEF WriteBuf
  <2>4. ASSUME NEW p \in Puts, Flush(p) PROVE FinishedKept'
    BY <2>4 DEF Flush
  <2>5. ASSUME NEW p \in Puts, Fold(p) PROVE FinishedKept'
    BY <2>5 DEF Fold
  <2>6. ASSUME NEW p \in Puts, Acquire(p) PROVE FinishedKept'
    BY <2>6 DEF Acquire
  <2>7. ASSUME NEW p \in Puts, Probe(p) PROVE FinishedKept'
    BY <2>7 DEF Probe
  <2>8. ASSUME NEW p \in Puts, CaptureOld(p) PROVE FinishedKept'
    BY <2>8 DEF CaptureOld
  <2>9. ASSUME NEW p \in Puts, ClearPlaceholder(p) PROVE FinishedKept'
    BY <2>9 DEF ClearPlaceholder
  <2>10. ASSUME NEW p \in Puts, Md5Same(p) PROVE FinishedKept'
    BY <2>10 DEF Md5Same
  <2>11. ASSUME NEW p \in Puts, Md5Differs(p) PROVE FinishedKept'
    BY <2>11 DEF Md5Differs
  <2>12. ASSUME NEW p \in Puts, PreFails(p) PROVE FinishedKept'
    BY <2>12 DEF PreFails
  <2>13. ASSUME NEW p \in Puts, PreInstant(p) PROVE FinishedKept'
    BY <2>13 DEF PreInstant
  <2>14. ASSUME NEW p \in Puts, PreStarts(p) PROVE FinishedKept'
    BY <2>14 DEF PreStarts
  <2>15. ASSUME NEW p \in Puts, HashFails(p) PROVE FinishedKept'
    BY <2>15 DEF HashFails
  <2>16. ASSUME NEW p \in Puts, HashInstant(p) PROVE FinishedKept'
    BY <2>16 DEF HashInstant
  <2>17. ASSUME NEW p \in Puts, InstantRemovesOld(p) PROVE FinishedKept'
    BY <2>17 DEF InstantRemovesOld
  <2>18. ASSUME NEW p \in Puts, InstantAnswers(p) PROVE FinishedKept'
    BY <2>18 DEF InstantAnswers
  <2>19. ASSUME NEW p \in Puts, Spawn(p) PROVE FinishedKept'
    BY <2>19 DEF Spawn
  <2>20. ASSUME NEW p \in Puts, TaskReports(p) PROVE FinishedKept'
    BY <2>20 DEF TaskReports
  <2>21. ASSUME NEW p \in Puts, WaitTimesOut(p) PROVE FinishedKept'
    BY <2>21 DEF WaitTimesOut
  <2>22. ASSUME NEW p \in Puts, CleanUp(p) PROVE FinishedKept'
    BY <2>22 DEF CleanUp
  <2>23. ASSUME NEW p \in Puts, Abort(p) PROVE FinishedKept'
    BY <2>23 DEF Abort
  <2>24. ASSUME NEW p \in Puts, ChunksDone(p) PROVE FinishedKept'
    BY <2>24 DEF ChunksDone
  <2>25. ASSUME NEW p \in Puts, TaskDies(p) PROVE FinishedKept'
    BY <2>25 DEF TaskDies
  <2>26. ASSUME NEW p \in Puts, EarlyFinish(p) PROVE FinishedKept'
    BY <2>26 DEF EarlyFinish
  <2>27. ASSUME NEW p \in Puts, Commit(p) PROVE FinishedKept'
    BY <2>27 DEF Commit
  <2>28. ASSUME NEW p \in Puts, Finish(p) PROVE FinishedKept'
    BY <2>28 DEF Finish
  <2>29. ASSUME NEW p \in Puts, FinishFails(p) PROVE FinishedKept'
    BY <2>29 DEF FinishFails
  <2>30. ASSUME NEW p \in Puts, RemoveOrphan(p) PROVE FinishedKept'
    BY <2>30 DEF RemoveOrphan
  <2>31. ASSUME NEW p \in Puts, RemoveOld(p) PROVE FinishedKept'
    BY <2>31 DEF RemoveOld
  <2>32. ASSUME NEW p \in Puts, Publish(p) PROVE FinishedKept'
    BY <2>32 DEF Publish
  <2>33. CASE DeleteLookup
    BY <2>33 DEF DeleteLookup
  <2>34. CASE DeleteRemoves
    BY <2>34 DEF DeleteRemoves
  <2>35. CASE DeletePlaceholder
    BY <2>35 DEF DeletePlaceholder
  <2>36. CASE EntryAges
    BY <2>36 DEF EntryAges
  <2>37. CASE EntryPurged
    BY <2>37 DEF EntryPurged
  <2>38. CASE ListingDropped
    BY <2>38 DEF ListingDropped
  <2>39. CASE ListingCatchesUp
    BY <2>39 DEF ListingCatchesUp
  <2>40. CASE UNCHANGED vars
    BY <2>40 DEF vars
  <2>41. QED
    BY <2>1, <2>2, <2>3, <2>4, <2>5, <2>6, <2>7, <2>8, <2>9, <2>10,
       <2>11, <2>12, <2>13, <2>14, <2>15, <2>16, <2>17, <2>18, <2>19,
       <2>20, <2>21, <2>22, <2>23, <2>24, <2>25, <2>26, <2>27, <2>28,
       <2>29, <2>30, <2>31, <2>32, <2>33, <2>34, <2>35, <2>36, <2>37,
       <2>38, <2>39, <2>40
       DEF Next, Handler, Client, UploadTask, Environment
<1>3. QED
  BY <1>1, <1>2, TypeCorrect, FidsIssued, OrphansUnconfirmed, ReplacesOlder,
      RemovesAfterConfirmation, PTL DEF Spec

\* NewestKept (P2-2): the newest confirmed file survives every interleaving,
\* failure, timeout and dropped connection.
THEOREM NewestIsKept == Spec => []NewestKept
<1>1. TypeOK /\ FinishedKept => NewestKept
  BY DEF TypeOK, FinishedKept, NewestKept
<1>2. QED
  BY <1>1, TypeCorrect, FinishedSuperseded, PTL

-----------------------------------------------------------------------------
\* Uploads that are awaited: no timeout answer and no dropped connection.

AwaitedMode == UploadWaitTimeout = 0 /\ ~Aborts

\* A running task is awaited by its handler.
TaskAwaited == \A p \in Puts : task[p] \in Running => pc[p] = "waiting"

\* The handler looks the md5 up of the file it has captured as the old one.
OldCaptured == \A p \in Puts : pc[p] \in {"captured", "md5"} => old[p] = fid[p]

\* The answer of p is decided, or about to be, by a file of the cloud.
Resting(p) == pc[p] \in {"instant", "afterInstant", "ok", "skipped"}

\* No answer rests on a file that a running upload may still clean up.
RestsOnConfirmed ==
  \A p, q \in Puts : Resting(p) /\ Unconfirmed(q) => Backing(p) # new[q]

\* The file an answer rests on is in the cloud, deleted, or superseded.
RestsOnKept ==
  \A p \in Puts : Resting(p) =>
    \/ Backing(p) \in cloudLive \cup erased
    \/ \E g \in finished : g > Backing(p)

\* ... where every folded PUT is below the newest generation, whose holder
\* is not folded.
HeirInv ==
  /\ \A p \in Puts : gen[p] <= upload_generation
  /\ \A p \in Puts : pc[p] = "folded" => gen[p] < upload_generation
  /\ upload_generation # 0 =>
       \E q \in Puts : gen[q] = upload_generation /\ pc[q] # "folded"

\* The newest generation belongs to a PUT that is not folded.
THEOREM HeirKept == Spec => []HeirInv
<1>1. Init => HeirInv
  BY DEF Init, HeirInv, InFlush, Running
<1>2. TypeOK /\ HeirInv /\ [Next]_vars => HeirInv'
  <2> SUFFICES ASSUME TypeOK, HeirInv, [Next]_vars PROVE HeirInv'
    OBVIOUS
  <2> USE DEF HeirInv, PrepareForUpload, Obsolete, TypeOK, Answered,
      InFlush, Running, Goto, Leave, TaskGoto
  <2>1. ASSUME NEW p \in Puts, Lookup(p) PROVE HeirInv'
    BY <2>1 DEF Lookup
  <2>2. ASSUME NEW p \in Puts, Open(p) PROVE HeirInv'
    BY <2>2 DEF Open
  <2>3. ASSUME NEW p \in Puts, WriteBuf(p) PROVE HeirInv'
    BY <2>3 DEF WriteBuf
  <2>4. ASSUME NEW p \in Puts, Flush(p) PROVE HeirInv'
    BY <2>4 DEF Flush
  <2>5. ASSUME NEW p \in Puts, Fold(p) PROVE HeirInv'
    BY <2>5 DEF Fold
  <2>6. ASSUME NEW p \in Puts, Acquire(p) PROVE HeirInv'
    BY <2>6 DEF Acquire
  <2>7. ASSUME NEW p \in Puts, Probe(p) PROVE HeirInv'
    BY <2>7 DEF Probe
  <2>8. ASSUME NEW p \in Puts, CaptureOld(p) PROVE HeirInv'
    BY <2>8 DEF CaptureOld
  <2>9. ASSUME NEW p \in Puts, ClearPlaceholder(p) PROVE HeirInv'
    BY <2>9 DEF ClearPlaceholder
  <2>10. ASSUME NEW p \in Puts, Md5Same(p) PROVE HeirInv'
    BY <2>10 DEF Md5Same
  <2>11. ASSUME NEW p \in Puts, Md5Differs(p) PROVE HeirInv'
    BY <2>11 DEF Md5Differs
  <2>12. ASSUME NEW p \in Puts, PreFails(p) PROVE HeirInv'
    BY <2>12 DEF PreFails
  <2>13. ASSUME NEW p \in Puts, PreInstant(p) PROVE HeirInv'
    BY <2>13 DEF PreInstant
  <2>14. ASSUME NEW p \in Puts, PreStarts(p) PROVE HeirInv'
    BY <2>14 DEF PreStarts
  <2>15. ASSUME NEW p \in Puts, HashFails(p) PROVE HeirInv'
    BY <2>15 DEF HashFails
  <2>16. ASSUME NEW p \in Puts, HashInstant(p) PROVE HeirInv'
    BY <2>16 DEF HashInstant
  <2>17. ASSUME NEW p \in Puts, InstantRemovesOld(p) PROVE HeirInv'
    BY <2>17 DEF InstantRemovesOld
  <2>18. ASSUME NEW p \in Puts, InstantAnswers(p) PROVE HeirInv'
    BY <2>18 DEF InstantAnswers
  <2>19. ASSUME NEW p \in Puts, Spawn(p) PROVE HeirInv'
    BY <2>19 DEF Spawn
  <2>20. ASSUME NEW p \in Puts, TaskReports(p) PROVE HeirInv'
    BY <2>20 DEF TaskReports
  <2>21. ASSUME NEW p \in Puts, WaitTimesOut(p) PROVE HeirInv'
    BY <2>21 DEF WaitTimesOut
  <2>22. ASSUME NEW p \in Puts, CleanUp(p) PROVE HeirInv'
    BY <2>22 DEF CleanUp
  <2>23. ASSUME NEW p \in Puts, Abort(p) PROVE HeirInv'
    BY <2>23 DEF Abort
  <2>24. ASSUME NEW p \in Puts, ChunksDone(p) PROVE HeirInv'
    BY <2>24 DEF ChunksDone
  <2>25. ASSUME NEW p \in Puts, TaskDies(p) PROVE HeirInv'
    BY <2>25 DEF TaskDies
  <2>26. ASSUME NEW p \in Puts, EarlyFinish(p) PROVE HeirInv'
    BY <2>26 DEF EarlyFinish
  <2>27. ASSUME NEW p \in Puts, Commit(p) PROVE HeirInv'
    BY <2>27 DEF Commit
  <2>28. ASSUME NEW p \in Puts, Finish(p) PROVE HeirInv'
    BY <2>28 DEF Finish
  <2>29. ASSUME NEW p \in Puts, FinishFails(p) PROVE HeirInv'
    BY <2>29 DEF FinishFails
  <2>30. ASSUME NEW p \in Puts, RemoveOrphan(p) PROVE HeirInv'
    BY <2>30 DEF RemoveOrphan
  <2>31. ASSUME NEW p \in Puts, RemoveOld(p) PROVE HeirInv'
    BY <2>31 DEF RemoveOld
  <2>32. ASSUME NEW p \in Puts, Publish(p) PROVE HeirInv'
    BY <2>32 DEF Publish
  <2>33. CASE DeleteLookup
    BY <2>33 DEF DeleteLookup
  <2>34. CASE DeleteRemoves
    BY <2>34 DEF DeleteRemoves
  <2>35. CASE DeletePlaceholder
    BY <2>35 DEF DeletePlaceholder
  <2>36. CASE EntryAges
    BY <2>36 DEF EntryAges
  <2>37. CASE EntryPurged
    BY <2>37 DEF EntryPurged
  <2>38. CASE ListingDropped
    BY <2>38 DEF ListingDropped
  <2>39. CASE ListingCatchesUp
    BY <2>39 DEF ListingCatchesUp
  <2>40. CASE UNCHANGED vars
    BY <2>40 DEF vars
  <2>41. QED
    BY <2>1, <2>2, <2>3, <2>4, <2>5, <2>6, <2>7, <2>8, <2>9, <2>10,
       <2>11, <2>12, <2>13, <2>14, <2>15, <2>16, <2>17, <2>18, <2>19,
       <2>20, <2>21, <2>22, <2>23, <2>24, <2>25, <2>26, <2>27, <2>28,
       <2>29, <2>30, <2>31, <2>32, <2>33, <2>34, <2>35, <2>36, <2>37,
       <2>38, <2>39, <2>40
       DEF Next, Handler, Client, UploadTask, Environment
<1>3. QED
  BY <1>1, <1>2, TypeCorrect, PTL DEF Spec

\* FoldHasHeir: whoever is folded leaves the path to a newer PUT.
THEOREM FoldingHasHeir == Spec => []FoldHasHeir
<1>1. TypeOK /\ HeirInv => FoldHasHeir
  BY DEF TypeOK, HeirInv, FoldHasHeir
<1>2. QED
  BY <1>1, TypeCorrect, HeirKept, PTL

\* P2-2: the md5 is looked up for the file that would be replaced.
THEOREM OldIsCaptured == Spec => []OldCaptured
<1>1. Init => OldCaptured
  BY DEF Init, OldCaptured, InFlush, Running
<1>2. TypeOK /\ OldCaptured /\ [Next]_vars => OldCaptured'
  <2> SUFFICES ASSUME TypeOK, OldCaptured, [Next]_vars PROVE OldCaptured'
    OBVIOUS
  <2> USE DEF OldCaptured, TypeOK, Answered, InFlush, Running, Goto, Leave,
      TaskGoto
  <2>1. ASSUME NEW p \in Puts, Lookup(p) PROVE OldCaptured'
    BY <2>1 DEF Lookup
  <2>2. ASSUME NEW p \in Puts, Open(p) PROVE OldCaptured'
    BY <2>2 DEF Open
  <2>3. ASSUME NEW p \in Puts, WriteBuf(p) PROVE OldCaptured'
    BY <2>3 DEF WriteBuf
  <2>4. ASSUME NEW p \in Puts, Flush(p) PROVE OldCaptured'
    BY <2>4 DEF Flush
  <2>5. ASSUME NEW p \in Puts, Fold(p) PROVE OldCaptured'
    BY <2>5 DEF Fold
  <2>6. ASSUME NEW p \in Puts, Acquire(p) PROVE OldCaptured'
    BY <2>6 DEF Acquire
  <2>7. ASSUME NEW p \in Puts, Probe(p) PROVE OldCaptured'
    BY <2>7 DEF Probe
  <2>8. ASSUME NEW p \in Puts, CaptureOld(p) PROVE OldCaptured'
    BY <2>8 DEF CaptureOld
  <2>9. ASSUME NEW p \in Puts, ClearPlaceholder(p) PROVE OldCaptured'
    BY <2>9 DEF ClearPlaceholder
  <2>10. ASSUME NEW p \in Puts, Md5Same(p) PROVE OldCaptured'
    BY <2>10 DEF Md5Same
  <2>11. ASSUME NEW p \in Puts, Md5Differs(p) PROVE OldCaptured'
    BY <2>11 DEF Md5Differs
  <2>12. ASSUME NEW p \in Puts, PreFails(p) PROVE OldCaptured'
    BY <2>12 DEF PreFails
  <2>13. ASSUME NEW p \in Puts, PreInstant(p) PROVE OldCaptured'
    BY <2>13 DEF PreInstant
  <2>14. ASSUME NEW p \in Puts, PreStarts(p) PROVE OldCaptured'
    BY <2>14 DEF PreStarts
  <2>15. ASSUME NEW p \in Puts, HashFails(p) PROVE OldCaptured'
    BY <2>15 DEF HashFails
  <2>16. ASSUME NEW p \in Puts, HashInstant(p) PROVE OldCaptured'
    BY <2>16 DEF HashInstant
  <2>17. ASSUME NEW p \in Puts, InstantRemovesOld(p) PROVE OldCaptured'
    BY <2>17 DEF InstantRemovesOld
  <2>18. ASSUME NEW p \in Puts, InstantAnswers(p) PROVE OldCaptured'
    BY <2>18 DEF InstantAnswers
  <2>19. ASSUME NEW p \in Puts, Spawn(p) PROVE OldCaptured'
    BY <2>19 DEF Spawn
  <2>20. ASSUME NEW p \in Puts, TaskReports(p) PROVE OldCaptured'
    BY <2>20 DEF TaskReports
  <2>21. ASSUME NEW p \in Puts, WaitTimesOut(p) PROVE OldCaptured'
    BY <2>21 DEF WaitTimesOut
  <2>22. ASSUME NEW p \in Puts, CleanUp(p) PROVE OldCaptured'
    BY <2>22 DEF CleanUp
  <2>23. ASSUME NEW p \in Puts, Abort(p) PROVE OldCaptured'
    BY <2>23 DEF Abort
  <2>24. ASSUME NEW p \in Puts, ChunksDone(p) PROVE OldCaptured'
    BY <2>24 DEF ChunksDone
  <2>25. ASSUME NEW p \in Puts, TaskDies(p) PROVE OldCaptured'
    BY <2>25 DEF TaskDies
  <2>26. ASSUME NEW p \in Puts, EarlyFinish(p) PROVE OldCaptured'
    BY <2>26 DEF EarlyFinish
  <2>27. ASSUME NEW p \in Puts, Commit(p) PROVE OldCaptured'
    BY <2>27 DEF Commit
  <2>28. ASSUME NEW p \in Puts, Finish(p) PROVE OldCaptured'
    BY <2>28 DEF Finish
  <2>29. ASSUME NEW p \in Puts, FinishFails(p) PROVE OldCaptured'
    BY <2>29 DEF FinishFails
  <2>30. ASSUME NEW p \in Puts, RemoveOrphan(p) PROVE OldCaptured'
    BY <2>30 DEF RemoveOrphan
  <2>31. ASSUME NEW p \in Puts, RemoveOld(p) PROVE OldCaptured'
    BY <2>31 DEF RemoveOld
  <2>32. ASSUME NEW p \in Puts, Publish(p) PROVE OldCaptured'
    BY <2>32 DEF Publish
  <2>33. CASE DeleteLookup
    BY <2>33 DEF DeleteLookup
  <2>34. CASE DeleteRemoves
    BY <2>34 DEF DeleteRemoves
  <2>35. CASE DeletePlaceholder
    BY <2>35 DEF DeletePlaceholder
  <2>36. CASE EntryAges
    BY <2>36 DEF EntryAges
  <2>37. CASE EntryPurged
    BY <2>37 DEF EntryPurged
  <2>38. CASE ListingDropped
    BY <2>38 DEF ListingDropped
  <2>39. CASE ListingCatchesUp
    BY <2>39 DEF ListingCatchesUp
  <2>40. CASE UNCHANGED vars
    BY <2>40 DEF vars
  <2>41. QED
    BY <2>1, <2>2, <2>3, <2>4, <2>5, <2>6, <2>7, <2>8, <2>9, <2>10,
       <2>11, <2>12, <2>13, <2>14, <2>15, <2>16, <2>17, <2>18, <2>19,
       <2>20, <2>21, <2>22, <2>23, <2>24, <2>25, <2>26, <2>27, <2>28,
       <2>29, <2>30, <2>31, <2>32, <2>33, <2>34, <2>35, <2>36, <2>37,
       <2>38, <2>39, <2>40
       DEF Next, Handler, Client, UploadTask, Environment
<1>3. QED
  BY <1>1, <1>2, TypeCorrect, PTL DEF Spec

\* A running upload is awaited.
THEOREM TasksAwaited ==
  ASSUME AwaitedMode
  PROVE  Spec => []TaskAwaited
<1>1. Init => TaskAwaited
  BY DEF Init, TaskAwaited, InFlush, Running
<1>2. TypeOK /\ TaskAfterHandler /\ TaskAwaited /\ [Next]_vars => TaskAwaited'
  <2> SUFFICES ASSUME TypeOK, TaskAfterHandler, TaskAwaited, [Next]_vars
      PROVE TaskAwaited'
    OBVIOUS
  <2> USE DEF TaskAwaited, TaskAfterHandler, AwaitedMode, TypeOK, Answered,
      InFlush, Running, Goto, Leave, TaskGoto
  <2>1. ASSUME NEW p \in Puts, Lookup(p) PROVE TaskAwaited'
    BY <2>1 DEF Lookup
  <2>2. ASSUME NEW p \in Puts, Open(p) PROVE TaskAwaited'
    BY <2>2 DEF Open
  <2>3. ASSUME NEW p \in Puts, WriteBuf(p) PROVE TaskAwaited'
    BY <2>3 DEF WriteBuf
  <2>4. ASSUME NEW p \in Puts, Flush(p) PROVE TaskAwaited'
    BY <2>4 DEF Flush
  <2>5. ASSUME NEW p \in Puts, Fold(p) PROVE TaskAwaited'
    BY <2>5 DEF Fold
  <2>6. ASSUME NEW p \in Puts, Acquire(p) PROVE TaskAwaited'
    BY <2>6 DEF Acquire
  <2>7. ASSUME NEW p \in Puts, Probe(p) PROVE TaskAwaited'
    BY <2>7 DEF Probe
  <2>8. ASSUME NEW p \in Puts, CaptureOld(p) PROVE TaskAwaited'
    BY <2>8 DEF CaptureOld
  <2>9. ASSUME NEW p \in Puts, ClearPlaceholder(p) PROVE TaskAwaited'
    BY <2>9 DEF ClearPlaceholder
  <2>10. ASSUME NEW p \in Puts, Md5Same(p) PROVE TaskAwaited'
    BY <2>10 DEF Md5Same
  <2>11. ASSUME NEW p \in Puts, Md5Differs(p) PROVE TaskAwaited'
    BY <2>11 DEF Md5Differs
  <2>12. ASSUME NEW p \in Puts, PreFails(p) PROVE TaskAwaited'
    BY <2>12 DEF PreFails
  <2>13. ASSUME NEW p \in Puts, PreInstant(p) PROVE TaskAwaited'
    BY <2>13 DEF PreInstant
  <2>14. ASSUME NEW p \in Puts, PreStarts(p) PROVE TaskAwaited'
    BY <2>14 DEF PreStarts
  <2>15. ASSUME NEW p \in Puts, HashFails(p) PROVE TaskAwaited'
    BY <2>15 DEF HashFails
  <2>16. ASSUME NEW p \in Puts, HashInstant(p) PROVE TaskAwaited'
    BY <2>16 DEF HashInstant
  <2>17. ASSUME NEW p \in Puts, InstantRemovesOld(p) PROVE TaskAwaited'
    BY <2>17 DEF InstantRemovesOld
  <2>18. ASSUME NEW p \in Puts, InstantAnswers(p) PROVE TaskAwaited'
    BY <2>18 DEF InstantAnswers
  <2>19. ASSUME NEW p \in Puts, Spawn(p) PROVE TaskAwaited'
    BY <2>19 DEF Spawn
  <2>20. ASSUME NEW p \in Puts, TaskReports(p) PROVE TaskAwaited'
    BY <2>20 DEF TaskReports
  <2>21. ASSUME NEW p \in Puts, WaitTimesOut(p) PROVE TaskAwaited'
    BY <2>21 DEF WaitTimesOut
  <2>22. ASSUME NEW p \in Puts, CleanUp(p) PROVE TaskAwaited'
    BY <2>22 DEF CleanUp
  <2>23. ASSUME NEW p \in Puts, Abort(p) PROVE TaskAwaited'
    BY <2>23 DEF Abort
  <2>24. ASSUME NEW p \in Puts, ChunksDone(p) PROVE TaskAwaited'
    BY <2>24 DEF ChunksDone
  <2>25. ASSUME NEW p \in Puts, TaskDies(p) PROVE TaskAwaited'
    BY <2>25 DEF TaskDies
  <2>26. ASSUME NEW p \in Puts, EarlyFinish(p) PROVE TaskAwaited'
    BY <2>26 DEF EarlyFinish
  <2>27. ASSUME NEW p \in Puts, Commit(p) PROVE TaskAwaited'
    BY <2>27 DEF Commit
  <2>28. ASSUME NEW p \in Puts, Finish(p) PROVE TaskAwaited'
    BY <2>28 DEF Finish
  <2>29. ASSUME NEW p \in Puts, FinishFails(p) PROVE TaskAwaited'
    BY <2>29 DEF FinishFails
  <2>30. ASSUME NEW p \in Puts, RemoveOrphan(p) PROVE TaskAwaited'
    BY <2>30 DEF RemoveOrphan
  <2>31. ASSUME NEW p \in Puts, RemoveOld(p) PROVE TaskAwaited'
    BY <2>31 DEF RemoveOld
  <2>32. ASSUME NEW p \in Puts, Publish(p) PROVE TaskAwaited'
    BY <2>32 DEF Publish
  <2>33. CASE DeleteLookup
    BY <2>33 DEF DeleteLookup
  <2>34. CASE DeleteRemoves
    BY <2>34 DEF DeleteRemoves
  <2>35. CASE DeletePlaceholder
    BY <2>35 DEF DeletePlaceholder
  <2>36. CASE EntryAges
    BY <2>36 DEF EntryAges
  <2>37. CASE EntryPurged
    BY <2>37 DEF EntryPurged
  <2>38. CASE ListingDropped
    BY <2>38 DEF ListingDropped
  <2>39. CASE ListingCatchesUp
    BY <2>39 DEF ListingCatchesUp
  <2>40. CASE UNCHANGED vars
    BY <2>40 DEF vars
  <2>41. QED
    BY <2>1, <2>2, <2>3, <2>4, <2>5, <2>6, <2>7, <2>8, <2>9, <2>10,
       <2>11, <2>12, <2>13, <2>14, <2>15, <2>16, <2>17, <2>18, <2>19,
       <2>20, <2>21, <2>22, <2>23, <2>24, <2>25, <2>26, <2>27, <2>28,
       <2>29, <2>30, <2>31, <2>32, <2>33, <2>34, <2>35, <2>36, <2>37,
       <2>38, <2>39, <2>40
       DEF Next, Handler, Client, UploadTask, Environment
<1>3. QED
  BY <1>1, <1>2, TypeCorrect, TaskFollowsHandler, PTL DEF Spec

\* SerializedEndToEnd: with awaited uploads the path's lock covers the whole
\* upload, the spawned task included.
THEOREM UploadsSerialized ==
  ASSUME AwaitedMode
  PROVE  Spec => []SerializedEndToEnd
<1>1. LockHeld /\ TaskAwaited => SerializedEndToEnd
  BY DEF LockHeld, TaskAwaited, SerializedEndToEnd, UploadInFlight, InFlush
<1>2. QED
  BY <1>1, LockExclusive, TasksAwaited, PTL

\* No cleanup can hit the file of an answer.
THEOREM AnswersRestOnConfirmed ==
  ASSUME AwaitedMode
  PROVE  Spec => []RestsOnConfirmed
<1>1. Init => RestsOnConfirmed
  BY DEF Init, RestsOnConfirmed, Unconfirmed, Resting, Backing, InFlush,
      Running
<1>2. TypeOK /\ FidsBelowNext /\ LockHeld /\ TaskAwaited /\ TaskAfterHandler /\
    RestsOnConfirmed /\ [Next]_vars => RestsOnConfirmed'
  <2> SUFFICES ASSUME TypeOK, FidsBelowNext, LockHeld, TaskAwaited,
      TaskAfterHandler, RestsOnConfirmed, [Next]_vars PROVE RestsOnConfirmed'
    OBVIOUS
  <2> USE DEF RestsOnConfirmed, Resting, Backing, Unconfirmed,
      FidsBelowNext, LockHeld, TaskAwaited, TaskAfterHandler, TypeOK, Answered,
      InFlush, Running, Goto, Leave, TaskGoto
  <2>1. ASSUME NEW p \in Puts, Lookup(p) PROVE RestsOnConfirmed'
    BY <2>1 DEF Lookup
  <2>2. ASSUME NEW p \in Puts, Open(p) PROVE RestsOnConfirmed'
    BY <2>2 DEF Open
  <2>3. ASSUME NEW p \in Puts, WriteBuf(p) PROVE RestsOnConfirmed'
    BY <2>3 DEF WriteBuf
  <2>4. ASSUME NEW p \in Puts, Flush(p) PROVE RestsOnConfirmed'
    BY <2>4 DEF Flush
  <2>5. ASSUME NEW p \in Puts, Fold(p) PROVE RestsOnConfirmed'
    BY <2>5 DEF Fold
  <2>6. ASSUME NEW p \in Puts, Acquire(p) PROVE RestsOnConfirmed'
    BY <2>6 DEF Acquire
  <2>7. ASSUME NEW p \in Puts, Probe(p) PROVE RestsOnConfirmed'
    BY <2>7 DEF Probe
  <2>8. ASSUME NEW p \in Puts, CaptureOld(p) PROVE RestsOnConfirmed'
    BY <2>8 DEF CaptureOld
  <2>9. ASSUME NEW p \in Puts, ClearPlaceholder(p) PROVE RestsOnConfirmed'
    BY <2>9 DEF ClearPlaceholder
  <2>10. ASSUME NEW p \in Puts, Md5Same(p) PROVE RestsOnConfirmed'
    BY <2>10 DEF Md5Same
  <2>11. ASSUME NEW p \in Puts, Md5Differs(p) PROVE RestsOnConfirmed'
    BY <2>11 DEF Md5Differs
  <2>12. ASSUME NEW p \in Puts, PreFails(p) PROVE RestsOnConfirmed'
    BY <2>12 DEF PreFails
  <2>13. ASSUME NEW p \in Puts, PreInstant(p) PROVE RestsOnConfirmed'
    <3>1. \A q \in Puts : ~Unconfirmed(q)'
      <4>1. write_lock = {p}
        BY <2>13 DEF PreInstant
      <4>2. \A q \in Puts : pc[q] \in InFlush => q = p
        BY <4>1
      <4>3. \A q \in Puts : task[q] \in Running => q = p /\ pc[p] = "waiting"
        BY <4>2
      <4>4. task[p] \notin Running
        BY <2>13 DEF PreInstant
      <4>5. QED
        BY <2>13, <4>2, <4>3, <4>4 DEF PreInstant
    <3>2. QED
      BY <3>1
  <2>14. ASSUME NEW p \in Puts, PreStarts(p) PROVE RestsOnConfirmed'
    BY <2>14 DEF PreStarts
  <2>15. ASSUME NEW p \in Puts, HashFails(p) PROVE RestsOnConfirmed'
    BY <2>15 DEF HashFails
  <2>16. ASSUME NEW p \in Puts, HashInstant(p) PROVE RestsOnConfirmed'
    <3>1. \A q \in Puts : ~Unconfirmed(q)'
      <4>1. write_lock = {p}
        BY <2>16 DEF HashInstant
      <4>2. \A q \in Puts : pc[q] \in InFlush => q = p
        BY <4>1
      <4>3. \A q \in Puts : task[q] \in Running => q = p /\ pc[p] = "waiting"
        BY <4>2
      <4>4. task[p] \notin Running
        BY <2>16 DEF HashInstant
      <4>5. QED
        BY <2>16, <4>2, <4>3, <4>4 DEF HashInstant
    <3>2. QED
      BY <3>1
  <2>17. ASSUME NEW p \in Puts, InstantRemovesOld(p) PROVE RestsOnConfirmed'
    BY <2>17 DEF InstantRemovesOld
  <2>18. ASSUME NEW p \in Puts, InstantAnswers(p) PROVE RestsOnConfirmed'
    BY <2>18 DEF InstantAnswers
  <2>19. ASSUME NEW p \in Puts, Spawn(p) PROVE RestsOnConfirmed'
    BY <2>19 DEF Spawn
  <2>20. ASSUME NEW p \in Puts, TaskReports(p) PROVE RestsOnConfirmed'
    <3>1. \A q \in Puts : ~Unconfirmed(q)'
      <4>1. write_lock = {p}
        BY <2>20 DEF TaskReports
      <4>2. \A q \in Puts : pc[q] \in InFlush => q = p
        BY <4>1
      <4>3. \A q \in Puts : task[q] \in Running => q = p /\ pc[p] = "waiting"
        BY <4>2
      <4>4. task[p] \notin Running
        BY <2>20 DEF TaskReports
      <4>5. QED
        BY <2>20, <4>2, <4>3, <4>4 DEF TaskReports
    <3>2. QED
      BY <3>1
  <2>21. ASSUME NEW p \in Puts, WaitTimesOut(p) PROVE RestsOnConfirmed'
    BY <2>21 DEF WaitTimesOut
  <2>22. ASSUME NEW p \in Puts, CleanUp(p) PROVE RestsOnConfirmed'
    BY <2>22 DEF CleanUp
  <2>23. ASSUME NEW p \in Puts, Abort(p) PROVE RestsOnConfirmed'
    BY <2>23 DEF Abort
  <2>24. ASSUME NEW p \in Puts, ChunksDone(p) PROVE RestsOnConfirmed'
    BY <2>24 DEF ChunksDone
  <2>25. ASSUME NEW p \in Puts, TaskDies(p) PROVE RestsOnConfirmed'
    BY <2>25 DEF TaskDies
  <2>26. ASSUME NEW p \in Puts, EarlyFinish(p) PROVE RestsOnConfirmed'
    BY <2>26 DEF EarlyFinish
  <2>27. ASSUME NEW p \in Puts, Commit(p) PROVE RestsOnConfirmed'
    BY <2>27 DEF Commit
  <2>28. ASSUME NEW p \in Puts, Finish(p) PROVE RestsOnConfirmed'
    BY <2>28 DEF Finish
  <2>29. ASSUME NEW p \in Puts, FinishFails(p) PROVE RestsOnConfirmed'
    BY <2>29 DEF FinishFails
  <2>30. ASSUME NEW p \in Puts, RemoveOrphan(p) PROVE RestsOnConfirmed'
    BY <2>30 DEF RemoveOrphan
  <2>31. ASSUME NEW p \in Puts, RemoveOld(p) PROVE RestsOnConfirmed'
    BY <2>31 DEF RemoveOld
  <2>32. ASSUME NEW p \in Puts, Publish(p) PROVE RestsOnConfirmed'
    BY <2>32 DEF Publish
  <2>33. CASE DeleteLookup
    BY <2>33 DEF DeleteLookup
  <2>34. CASE DeleteRemoves
    BY <2>34 DEF DeleteRemoves
  <2>35. CASE DeletePlaceholder
    BY <2>35 DEF DeletePlaceholder
  <2>36. CASE EntryAges
    BY <2>36 DEF EntryAges
  <2>37. CASE EntryPurged
    BY <2>37 DEF EntryPurged
  <2>38. CASE ListingDropped
    BY <2>38 DEF ListingDropped
  <2>39. CASE ListingCatchesUp
    BY <2>39 DEF ListingCatchesUp
  <2>40. CASE UNCHANGED vars
    BY <2>40 DEF vars
  <2>41. QED
    BY <2>1, <2>2, <2>3, <2>4, <2>5, <2>6, <2>7, <2>8, <2>9, <2>10,
       <2>11, <2>12, <2>13, <2>14, <2>15, <2>16, <2>17, <2>18, <2>19,
       <2>20, <2>21, <2>22, <2>23, <2>24, <2>25, <2>26, <2>27, <2>28,
       <2>29, <2>30, <2>31, <2>32, <2>33, <2>34, <2>35, <2>36, <2>37,
       <2>38, <2>39, <2>40
       DEF Next, Handler, Client, UploadTask, Environment
<1>3. QED
  BY <1>1, <1>2, TypeCorrect, FidsIssued, LockExclusive, TasksAwaited,
      TaskFollowsHandler, PTL DEF Spec

\* The file of an answer is kept.
THEOREM AnswersKept ==
  ASSUME AwaitedMode
  PROVE  Spec => []RestsOnKept
<1>1. Init => RestsOnKept
  BY DEF Init, RestsOnKept, Unconfirmed, OwnsNew, Resting, Backing, InFlush,
      Running
<1>2. TypeOK /\ FidsBelowNext /\ LockHeld /\ TaskAwaited /\ RestsOnConfirmed /\
    OldCaptured /\ OldBelowNew /\ ConfirmedBeforeRemoval /\ FinishedKept /\
    RestsOnKept /\ [Next]_vars => RestsOnKept'
  <2> SUFFICES ASSUME TypeOK, FidsBelowNext, LockHeld, TaskAwaited,
      RestsOnConfirmed, OldCaptured, OldBelowNew, ConfirmedBeforeRemoval,
      FinishedKept, RestsOnKept, [Next]_vars PROVE RestsOnKept'
    OBVIOUS
  <2> USE DEF RestsOnKept, RestsOnConfirmed, Resting, Backing, Unconfirmed,
      OwnsNew, LockHeld, TaskAwaited, OldCaptured, OldBelowNew,
      ConfirmedBeforeRemoval, FinishedKept, FidsBelowNext, CloudFinishes,
      RemoveReplaced, Replaced, AfterFlush, TypeOK, Answered, InFlush, Running,
      Goto, Leave, TaskGoto
  <2>1. ASSUME NEW p \in Puts, Lookup(p) PROVE RestsOnKept'
    BY <2>1 DEF Lookup
  <2>2. ASSUME NEW p \in Puts, Open(p) PROVE RestsOnKept'
    BY <2>2 DEF Open
  <2>3. ASSUME NEW p \in Puts, WriteBuf(p) PROVE RestsOnKept'
    BY <2>3 DEF WriteBuf
  <2>4. ASSUME NEW p \in Puts, Flush(p) PROVE RestsOnKept'
    BY <2>4 DEF Flush
  <2>5. ASSUME NEW p \in Puts, Fold(p) PROVE RestsOnKept'
    BY <2>5 DEF Fold
  <2>6. ASSUME NEW p \in Puts, Acquire(p) PROVE RestsOnKept'
    BY <2>6 DEF Acquire
  <2>7. ASSUME NEW p \in Puts, Probe(p) PROVE RestsOnKept'
    BY <2>7 DEF Probe
  <2>8. ASSUME NEW p \in Puts, CaptureOld(p) PROVE RestsOnKept'
    BY <2>8 DEF CaptureOld
  <2>9. ASSUME NEW p \in Puts, ClearPlaceholder(p) PROVE RestsOnKept'
    BY <2>9 DEF ClearPlaceholder
  <2>10. ASSUME NEW p \in Puts, Md5Same(p) PROVE RestsOnKept'
    BY <2>10 DEF Md5Same
  <2>11. ASSUME NEW p \in Puts, Md5Differs(p) PROVE RestsOnKept'
    BY <2>11 DEF Md5Differs
  <2>12. ASSUME NEW p \in Puts, PreFails(p) PROVE RestsOnKept'
    BY <2>12 DEF PreFails
  <2>13. ASSUME NEW p \in Puts, PreInstant(p) PROVE RestsOnKept'
    BY <2>13 DEF PreInstant
  <2>14. ASSUME NEW p \in Puts, PreStarts(p) PROVE RestsOnKept'
    BY <2>14 DEF PreStarts
  <2>15. ASSUME NEW p \in Puts, HashFails(p) PROVE RestsOnKept'
    BY <2>15 DEF HashFails
  <2>16. ASSUME NEW p \in Puts, HashInstant(p) PROVE RestsOnKept'
    BY <2>16 DEF HashInstant
  <2>17. ASSUME NEW p \in Puts, InstantRemovesOld(p) PROVE RestsOnKept'
    BY <2>17 DEF InstantRemovesOld
  <2>18. ASSUME NEW p \in Puts, InstantAnswers(p) PROVE RestsOnKept'
    BY <2>18 DEF InstantAnswers
  <2>19. ASSUME NEW p \in Puts, Spawn(p) PROVE RestsOnKept'
    BY <2>19 DEF Spawn
  <2>20. ASSUME NEW p \in Puts, TaskReports(p) PROVE RestsOnKept'
    BY <2>20 DEF TaskReports
  <2>21. ASSUME NEW p \in Puts, WaitTimesOut(p) PROVE RestsOnKept'
    BY <2>21 DEF WaitTimesOut
  <2>22. ASSUME NEW p \in Puts, CleanUp(p) PROVE RestsOnKept'
    BY <2>22 DEF CleanUp
  <2>23. ASSUME NEW p \in Puts, Abort(p) PROVE RestsOnKept'
    BY <2>23 DEF Abort
  <2>24. ASSUME NEW p \in Puts, ChunksDone(p) PROVE RestsOnKept'
    BY <2>24 DEF ChunksDone
  <2>25. ASSUME NEW p \in Puts, TaskDies(p) PROVE RestsOnKept'
    BY <2>25 DEF TaskDies
  <2>26. ASSUME NEW p \in Puts, EarlyFinish(p) PROVE RestsOnKept'
    BY <2>26 DEF EarlyFinish
  <2>27. ASSUME NEW p \in Puts, Commit(p) PROVE RestsOnKept'
    BY <2>27 DEF Commit
  <2>28. ASSUME NEW p \in Puts, Finish(p) PROVE RestsOnKept'
    BY <2>28 DEF Finish
  <2>29. ASSUME NEW p \in Puts, FinishFails(p) PROVE RestsOnKept'
    BY <2>29 DEF FinishFails
  <2>30. ASSUME NEW p \in Puts, RemoveOrphan(p) PROVE RestsOnKept'
    BY <2>30 DEF RemoveOrphan
  <2>31. ASSUME NEW p \in Puts, RemoveOld(p) PROVE RestsOnKept'
    BY <2>31 DEF RemoveOld
  <2>32. ASSUME NEW p \in Puts, Publish(p) PROVE RestsOnKept'
    BY <2>32 DEF Publish
  <2>33. CASE DeleteLookup
    BY <2>33 DEF DeleteLookup
  <2>34. CASE DeleteRemoves
    BY <2>34 DEF DeleteRemoves
  <2>35. CASE DeletePlaceholder
    BY <2>35 DEF DeletePlaceholder
  <2>36. CASE EntryAges
    BY <2>36 DEF EntryAges
  <2>37. CASE EntryPurged
    BY <2>37 DEF EntryPurged
  <2>38. CASE ListingDropped
    BY <2>38 DEF ListingDropped
  <2>39. CASE ListingCatchesUp
    BY <2>39 DEF ListingCatchesUp
  <2>40. CASE UNCHANGED vars
    BY <2>40 DEF vars
  <2>41. QED
    BY <2>1, <2>2, <2>3, <2>4, <2>5, <2>6, <2>7, <2>8, <2>9, <2>10,
       <2>11, <2>12, <2>13, <2>14, <2>15, <2>16, <2>17, <2>18, <2>19,
       <2>20, <2>21, <2>22, <2>23, <2>24, <2>25, <2>26, <2>27, <2>28,
       <2>29, <2>30, <2>31, <2>32, <2>33, <2>34, <2>35, <2>36, <2>37,
       <2>38, <2>39, <2>40
       DEF Next, Handler, Client, UploadTask, Environment
<1>3. QED
  BY <1>1, <1>2, TypeCorrect, FidsIssued, LockExclusive, TasksAwaited,
      AnswersRestOnConfirmed, OldIsCaptured, ReplacesOlder,
      RemovesAfterConfirmation, FinishedSuperseded, PTL DEF Spec

\* AckDurable: with awaited uploads an acknowledged PUT's content is in the
\* cloud until a DELETE or a later confirmed upload takes its place.
THEOREM AcksDurable ==
  ASSUME AwaitedMode
  PROVE  Spec => []AckDurable
<1>1. RestsOnKept => AckDurable
  BY DEF RestsOnKept, Resting, AckDurable
<1>2. QED
  BY <1>1, AnswersKept, PTL

-----------------------------------------------------------------------------
\* Placeholders.

\* The request of p will still take a placeholder off, or is a probe, which
\* leaves its own behind.
Owes(p) ==
    \/ pc[p] \in {"body", "writing", "queued", "cleanup", "probed"}
    \/ pc[p] \in InFlush \ {"waiting"}
    \/ pc[p] = "waiting" /\ task[p] # "done"

\* The path is in `uploading` once at most, and then somebody owes its removal.
Drains ==
    /\ uploading <= 1
    /\ uploading > 0 => \E p \in Puts : Owes(p)

\* A step that leaves `uploading` alone and drops no obligation.
LEMMA DrainsKept ==
  ASSUME Drains, uploading' = uploading, \A q \in Puts : Owes(q) => Owes(q)'
  PROVE  Drains'
  BY DEF Drains

\* A removal empties `uploading`: it holds one entry at most.
LEMMA DrainsRemoved ==
  ASSUME TypeOK, Drains, NEW k \in {1, 2}, uploading' = RemoveUploading(k)
  PROVE  Drains'
<1>1. uploading \in 0 .. 1
  BY DEF TypeOK, Drains
<1>2. uploading' = 0
  BY <1>1 DEF RemoveUploading
<1>3. QED
  BY <1>2 DEF Drains

\* UploadingDrains: when uploads are awaited and nothing aborts, no placeholder
\* outlives the requests for its path, unless one of them was a probe.
THEOREM PlaceholdersDrain ==
  ASSUME AwaitedMode
  PROVE  Spec => []UploadingDrains
<1>1. Init => Drains
  BY DEF Init, Drains
<1>2. TypeOK /\ Drains /\ [Next]_vars => Drains'
  <2> SUFFICES ASSUME TypeOK, Drains, [Next]_vars PROVE Drains'
    OBVIOUS
  <2> USE DEF Goto, Leave, TaskGoto
  <2>1. ASSUME NEW p \in Puts, Lookup(p) PROVE Drains'
    <3>1. \A q \in Puts : Owes(q) => Owes(q)'
      BY <2>1 DEF Lookup, Owes, InFlush, TypeOK
    <3>2. QED
      BY <2>1, <3>1, DrainsKept DEF Lookup
  <2>2. ASSUME NEW p \in Puts, Open(p) PROVE Drains'
    <3>1. Owes(p)'
      BY <2>2 DEF Open, Owes, TypeOK
    <3>2. uploading' <= 1
      BY <2>2 DEF Open, Drains
    <3>3. QED
      BY <3>1, <3>2 DEF Drains
  <2>3. ASSUME NEW p \in Puts, WriteBuf(p) PROVE Drains'
    <3>1. \A q \in Puts : Owes(q) => Owes(q)'
      BY <2>3 DEF WriteBuf, Owes, InFlush, TypeOK
    <3>2. QED
      BY <2>3, <3>1, DrainsKept DEF WriteBuf
  <2>4. ASSUME NEW p \in Puts, Flush(p) PROVE Drains'
    <3>1. \A q \in Puts : Owes(q) => Owes(q)'
      BY <2>4 DEF Flush, Owes, InFlush, TypeOK
    <3>2. QED
      BY <2>4, <3>1, DrainsKept DEF Flush
  <2>5. ASSUME NEW p \in Puts, Fold(p) PROVE Drains'
    BY <2>5, DrainsRemoved DEF Fold
  <2>6. ASSUME NEW p \in Puts, Acquire(p) PROVE Drains'
    <3>1. \A q \in Puts : Owes(q) => Owes(q)'
      BY <2>6 DEF Acquire, Owes, InFlush, TypeOK
    <3>2. QED
      BY <2>6, <3>1, DrainsKept DEF Acquire
  <2>7. ASSUME NEW p \in Puts, Probe(p) PROVE Drains'
    <3>1. \A q \in Puts : Owes(q) => Owes(q)'
      BY <2>7 DEF Probe, Owes, InFlush, TypeOK
    <3>2. QED
      BY <2>7, <3>1, DrainsKept DEF Probe
  <2>8. ASSUME NEW p \in Puts, CaptureOld(p) PROVE Drains'
    <3>1. \A q \in Puts : Owes(q) => Owes(q)'
      BY <2>8 DEF CaptureOld, Owes, InFlush, TypeOK
    <3>2. QED
      BY <2>8, <3>1, DrainsKept DEF CaptureOld
  <2>9. ASSUME NEW p \in Puts, ClearPlaceholder(p) PROVE Drains'
    <3>1. \A q \in Puts : Owes(q) => Owes(q)'
      BY <2>9 DEF ClearPlaceholder, Owes, InFlush, TypeOK
    <3>2. QED
      BY <2>9, <3>1, DrainsKept DEF ClearPlaceholder
  <2>10. ASSUME NEW p \in Puts, Md5Same(p) PROVE Drains'
    BY <2>10, DrainsRemoved DEF Md5Same, AfterFlush
  <2>11. ASSUME NEW p \in Puts, Md5Differs(p) PROVE Drains'
    <3>1. \A q \in Puts : Owes(q) => Owes(q)'
      BY <2>11 DEF Md5Differs, Owes, InFlush, TypeOK
    <3>2. QED
      BY <2>11, <3>1, DrainsKept DEF Md5Differs
  <2>12. ASSUME NEW p \in Puts, PreFails(p) PROVE Drains'
    <3>1. \A q \in Puts : Owes(q) => Owes(q)'
      BY <2>12 DEF PreFails, Owes, InFlush, TypeOK
    <3>2. QED
      BY <2>12, <3>1, DrainsKept DEF PreFails
  <2>13. ASSUME NEW p \in Puts, PreInstant(p) PROVE Drains'
    <3>1. \A q \in Puts : Owes(q) => Owes(q)'
      BY <2>13 DEF PreInstant, Owes, InFlush, TypeOK
    <3>2. QED
      BY <2>13, <3>1, DrainsKept DEF PreInstant
  <2>14. ASSUME NEW p \in Puts, PreStarts(p) PROVE Drains'
    <3>1. \A q \in Puts : Owes(q) => Owes(q)'
      BY <2>14 DEF PreStarts, Owes, InFlush, TypeOK
    <3>2. QED
      BY <2>14, <3>1, DrainsKept DEF PreStarts
  <2>15. ASSUME NEW p \in Puts, HashFails(p) PROVE Drains'
    <3>1. \A q \in Puts : Owes(q) => Owes(q)'
      BY <2>15 DEF HashFails, Owes, InFlush, TypeOK
    <3>2. QED
      BY <2>15, <3>1, DrainsKept DEF HashFails
  <2>16. ASSUME NEW p \in Puts, HashInstant(p) PROVE Drains'
    <3>1. \A q \in Puts : Owes(q) => Owes(q)'
      BY <2>16 DEF HashInstant, Owes, InFlush, TypeOK
    <3>2. QED
      BY <2>16, <3>1, DrainsKept DEF HashInstant
  <2>17. ASSUME NEW p \in Puts, InstantRemovesOld(p) PROVE Drains'
    <3>1. \A q \in Puts : Owes(q) => Owes(q)'
      BY <2>17 DEF InstantRemovesOld, Owes, InFlush, TypeOK
    <3>2. QED
      BY <2>17, <3>1, DrainsKept DEF InstantRemovesOld
  <2>18. ASSUME NEW p \in Puts, InstantAnswers(p) PROVE Drains'
    BY <2>18, DrainsRemoved DEF InstantAnswers, AfterFlush
  <2>19. ASSUME NEW p \in Puts, Spawn(p) PROVE Drains'
    <3>1. \A q \in Puts : Owes(q) => Owes(q)'
      BY <2>19 DEF Spawn, Owes, InFlush, TypeOK
    <3>2. QED
      BY <2>19, <3>1, DrainsKept DEF Spawn
  <2>20. ASSUME NEW p \in Puts, TaskReports(p) PROVE Drains'
    <3>1. \A q \in Puts : Owes(q) => Owes(q)'
      BY <2>20 DEF TaskReports, Owes, InFlush, TypeOK
    <3>2. QED
      BY <2>20, <3>1, DrainsKept DEF TaskReports
  <2>21. ASSUME NEW p \in Puts, WaitTimesOut(p) PROVE Drains'
    BY <2>21 DEF WaitTimesOut, AwaitedMode
  <2>22. ASSUME NEW p \in Puts, CleanUp(p) PROVE Drains'
    BY <2>22, DrainsRemoved DEF CleanUp, AfterFlush
  <2>23. ASSUME NEW p \in Puts, Abort(p) PROVE Drains'
    BY <2>23 DEF Abort, AwaitedMode
  <2>24. ASSUME NEW p \in Puts, ChunksDone(p) PROVE Drains'
    <3>1. \A q \in Puts : Owes(q) => Owes(q)'
      BY <2>24 DEF ChunksDone, Owes, InFlush, TypeOK
    <3>2. QED
      BY <2>24, <3>1, DrainsKept DEF ChunksDone
  <2>25. ASSUME NEW p \in Puts, TaskDies(p) PROVE Drains'
    <3>1. \A q \in Puts : Owes(q) => Owes(q)'
      BY <2>25 DEF TaskDies, Owes, InFlush, TypeOK
    <3>2. QED
      BY <2>25, <3>1, DrainsKept DEF TaskDies
  <2>26. ASSUME NEW p \in Puts, EarlyFinish(p) PROVE Drains'
    BY <2>26, DrainsRemoved DEF EarlyFinish, AfterFlush
  <2>27. ASSUME NEW p \in Puts, Commit(p) PROVE Drains'
    <3>1. \A q \in Puts : Owes(q) => Owes(q)'
      BY <2>27 DEF Commit, Owes, InFlush, TypeOK
    <3>2. QED
      BY <2>27, <3>1, DrainsKept DEF Commit
  <2>28. ASSUME NEW p \in Puts, Finish(p) PROVE Drains'
    <3>1. \A q \in Puts : Owes(q) => Owes(q)'
      BY <2>28 DEF Finish, Owes, InFlush, TypeOK
    <3>2. QED
      BY <2>28, <3>1, DrainsKept DEF Finish
  <2>29. ASSUME NEW p \in Puts, FinishFails(p) PROVE Drains'
    <3>1. \A q \in Puts : Owes(q) => Owes(q)'
      BY <2>29 DEF FinishFails, Owes, InFlush, TypeOK
    <3>2. QED
      BY <2>29, <3>1, DrainsKept DEF FinishFails
  <2>30. ASSUME NEW p \in Puts, RemoveOrphan(p) PROVE Drains'
    <3>1. \A q \in Puts : Owes(q) => Owes(q)'
      BY <2>30 DEF RemoveOrphan, Owes, InFlush, TypeOK
    <3>2. QED
      BY <2>30, <3>1, DrainsKept DEF RemoveOrphan
  <2>31. ASSUME NEW p \in Puts, RemoveOld(p) PROVE Drains'
    <3>1. \A q \in Puts : Owes(q) => Owes(q)'
      BY <2>31 DEF RemoveOld, Owes, InFlush, TypeOK
    <3>2. QED
      BY <2>31, <3>1, DrainsKept DEF RemoveOld
  <2>32. ASSUME NEW p \in Puts, Publish(p) PROVE Drains'
    BY <2>32, DrainsRemoved DEF Publish
  <2>33. CASE DeleteLookup
    <3>1. \A q \in Puts : Owes(q) => Owes(q)'
      BY <2>33 DEF DeleteLookup, Owes
    <3>2. QED
      BY <2>33, <3>1, DrainsKept DEF DeleteLookup
  <2>34. CASE DeleteRemoves
    <3>1. \A q \in Puts : Owes(q) => Owes(q)'
      BY <2>34 DEF DeleteRemoves, Owes
    <3>2. uploading' = uploading \/ uploading' = RemoveUploading(1)
      BY <2>34 DEF DeleteRemoves, AfterFlush
    <3>3. QED
      BY <3>1, <3>2, DrainsKept, DrainsRemoved
  <2>35. CASE DeletePlaceholder
    BY <2>35, DrainsRemoved DEF DeletePlaceholder
  <2>36. CASE EntryAges
    <3>1. \A q \in Puts : Owes(q) => Owes(q)'
      BY <2>36 DEF EntryAges, Owes
    <3>2. QED
      BY <2>36, <3>1, DrainsKept DEF EntryAges
  <2>37. CASE EntryPurged
    <3>1. \A q \in Puts : Owes(q) => Owes(q)'
      BY <2>37 DEF EntryPurged, Owes
    <3>2. QED
      BY <2>37, <3>1, DrainsKept DEF EntryPurged
  <2>38. CASE ListingDropped
    <3>1. \A q \in Puts : Owes(q) => Owes(q)'
      BY <2>38 DEF ListingDropped, Owes
    <3>2. QED
      BY <2>38, <3>1, DrainsKept DEF ListingDropped
  <2>39. CASE ListingCatchesUp
    <3>1. \A q \in Puts : Owes(q) => Owes(q)'
      BY <2>39 DEF ListingCatchesUp, Owes
    <3>2. QED
      BY <2>39, <3>1, DrainsKept DEF ListingCatchesUp
  <2>40. CASE UNCHANGED vars
    <3>1. \A q \in Puts : Owes(q) => Owes(q)'
      BY <2>40 DEF vars, Owes
    <3>2. QED
      BY <2>40, <3>1, DrainsKept DEF vars
  <2>41. QED
    BY <2>1, <2>2, <2>3, <2>4, <2>5, <2>6, <2>7, <2>8, <2>9, <2>10,
       <2>11, <2>12, <2>13, <2>14, <2>15, <2>16, <2>17, <2>18, <2>19,
       <2>20, <2>21, <2>22, <2>23, <2>24, <2>25, <2>26, <2>27, <2>28,
       <2>29, <2>30, <2>31, <2>32, <2>33, <2>34, <2>35, <2>36, <2>37,
       <2>38, <2>39, <2>40
       DEF Next, Handler, Client, UploadTask, Environment
<1>3. TypeOK /\ Drains => UploadingDrains
  <2> SUFFICES ASSUME TypeOK, uploading # 0, NEW p \in Puts, Owes(p), AllAnswered
      PROVE pc[p] = "probed"
    BY DEF Drains, UploadingDrains, TypeOK
  <2> QED
    BY DEF AllAnswered, Answered, Owes, InFlush
<1>4. QED
  BY <1>1, <1>2, <1>3, TypeCorrect, PTL DEF Spec
=============================================================================
