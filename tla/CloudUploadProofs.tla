-------------------------- MODULE CloudUploadProofs --------------------------
(***************************************************************************)
(* Proofs about CloudUpload for every size of body and part, every number  *)
(* of retries and of faults: the parts are the body, what is published is  *)
(* whole, a failed upload leaves nothing behind, and the upload implements *)
(* AtomicReplace.                                                          *)
(***************************************************************************)
EXTENDS CloudUpload, Integers, SequenceTheorems, TLAPS

-----------------------------------------------------------------------------
\* The parts of the body.

LEMMA Division ==
  ASSUME NEW s \in Nat, NEW p \in Nat \ {0}
  PROVE  /\ s \div p \in Nat /\ (s % p) \in 0 .. (p - 1)
         /\ s = ((s \div p) * p) + (s % p)
<1>1. s \div p \in Int /\ s \div p >= 0
  OBVIOUS
<1>2. (s % p) \in Nat /\ (s % p) < p
  OBVIOUS
<1>3. s = (p * (s \div p)) + (s % p)
  OBVIOUS
<1>4. QED
  BY <1>1, <1>2, <1>3

LEMMA Multiples ==
  ASSUME NEW m \in Int, NEW n \in Int, NEW p \in Nat, m <= n
  PROVE  /\ m * p \in Int /\ n * p \in Int /\ m * p <= n * p
         /\ (m + 1) * p = (m * p) + p
<1>1. n - m \in Nat /\ (n - m) * p \in Nat
  OBVIOUS
<1>2. n * p = (m * p) + ((n - m) * p)
  OBVIOUS
<1>3. QED
  BY <1>1, <1>2

\* Every part but the last one is full, and the last one ends with the body.
LEMMA ChunkBounds ==
  /\ ChunkCount \in Nat \ {0} /\ Size <= ChunkCount * PartSize
  /\ \A n \in 1 .. ChunkCount :
       /\ Chunk(n) \subseteq Bytes
       /\ \A b \in Bytes : b \in Chunk(n) <=> (n - 1) * PartSize <= b /\ b < n * PartSize
<1> DEFINE q == Size \div PartSize
           r == Size % PartSize
<1>1. /\ Size \in Nat \ {0} /\ PartSize \in Nat \ {0}
      /\ q \in Nat /\ r \in 0 .. (PartSize - 1) /\ Size = (q * PartSize) + r
  BY CloudUploadAssumption, Division
<1>2. ChunkCount = q + (IF r # 0 THEN 1 ELSE 0)
  BY DEF ChunkCount
<1> HIDE DEF q, r
<1>3. ChunkCount \in Nat \ {0}
  <2>1. q = 0 => r # 0
    BY <1>1
  <2>2. QED
    BY <1>1, <1>2, <2>1
<1>4. ASSUME NEW n \in 1 .. ChunkCount
      PROVE  /\ (n - 1) * PartSize \in Nat /\ n * PartSize = ((n - 1) * PartSize) + PartSize
             /\ n # ChunkCount => n * PartSize <= Size
             /\ n = ChunkCount => /\ (n - 1) * PartSize < Size
                                  /\ Size <= n * PartSize
  <2>1. /\ (n - 1) * PartSize \in Nat /\ n * PartSize = ((n - 1) * PartSize) + PartSize
    BY <1>1, <1>3, Multiples
  <2>2. CASE r # 0
    <3>1. ChunkCount = q + 1
      BY <1>2, <2>2
    <3>2. CASE n = ChunkCount
      <4>1. n - 1 = q
        BY <1>1, <3>1, <3>2
      <4>2. QED
        BY <1>1, <2>1, <2>2, <3>2, <4>1
    <3>3. CASE n # ChunkCount
      <4>1. n <= q
        BY <1>1, <3>1, <3>3
      <4>2. n * PartSize <= q * PartSize
        BY <1>1, <4>1, Multiples
      <4>3. QED
        BY <1>1, <2>1, <3>3, <4>2
    <3>4. QED
      BY <3>2, <3>3
  <2>3. CASE r = 0
    <3>1. ChunkCount = q
      BY <1>1, <1>2, <2>3
    <3>2. n * PartSize <= q * PartSize
      BY <1>1, <3>1, Multiples
    <3>3. QED
      BY <1>1, <2>1, <2>3, <3>1, <3>2
  <2>4. QED
    BY <2>2, <2>3
<1>5. ASSUME NEW n \in 1 .. ChunkCount
      PROVE  /\ Chunk(n) \subseteq Bytes
             /\ \A b \in Bytes : b \in Chunk(n) <=> (n - 1) * PartSize <= b /\ b < n * PartSize
  <2> DEFINE o == (n - 1) * PartSize
             e == n * PartSize
  <2>1. /\ o \in Nat /\ e = o + PartSize
        /\ n # ChunkCount => e <= Size
        /\ n = ChunkCount => o < Size /\ Size <= e
    BY <1>4
  <2>2. Chunk(n) = o .. (o + (IF n = ChunkCount /\ Size - o < PartSize
                              THEN Size - o ELSE PartSize) - 1)
    BY DEF Chunk, BytesToRead
  <2>3. (\A b \in Bytes : b \in Chunk(n) <=> o <= b /\ b < e) /\ Chunk(n) \subseteq Bytes
    <3> HIDE DEF o, e
    <3>1. CASE n = ChunkCount
      BY <1>1, <2>1, <2>2, <3>1 DEF Bytes
    <3>2. CASE n # ChunkCount
      BY <1>1, <2>1, <2>2, <3>2 DEF Bytes
    <3>3. QED
      BY <3>1, <3>2
  <2>4. QED
    BY <2>3
<1>6. Size <= ChunkCount * PartSize
  <2>1. ChunkCount \in 1 .. ChunkCount
    BY <1>3
  <2>2. QED
    BY <1>4, <2>1
<1>7. QED
  BY <1>3, <1>5, <1>6

\* The parts of every body, put together in order, are the body.
THEOREM PartsAreBody ==
  ASSUME NEW o, Len(o) = ChunkCount, \A n \in 1 .. ChunkCount : o[n] = Chunk(n)
  PROVE  Whole(o)
<1>0. ChunkCount \in Nat \ {0} /\ PartSize \in Nat \ {0} /\ Size \in Nat
  BY ChunkBounds, CloudUploadAssumption
<1>1. ASSUME NEW b \in Bytes PROVE \E n \in 1 .. ChunkCount : b \in Chunk(n)
  <2> DEFINE n == (b \div PartSize) + 1
  <2>1. /\ b \in Nat /\ b \div PartSize \in Nat
        /\ b = ((b \div PartSize) * PartSize) + (b % PartSize)
        /\ (b % PartSize) \in 0 .. (PartSize - 1)
    <3>1. b \in Nat
      BY <1>0 DEF Bytes
    <3>2. QED
      BY <1>0, <3>1, Division
  <2>2. /\ n \in Nat \ {0} /\ n - 1 = b \div PartSize
        /\ (n - 1) * PartSize <= b
        /\ n * PartSize = ((n - 1) * PartSize) + PartSize
        /\ b < n * PartSize
    <3>1. n \in Nat \ {0} /\ n - 1 = b \div PartSize
      BY <2>1
    <3>2. n * PartSize = ((b \div PartSize) * PartSize) + PartSize
      BY <1>0, <2>1, Multiples
    <3>3. QED
      BY <1>0, <2>1, <3>1, <3>2
  <2> HIDE DEF n
  <2>3. n <= ChunkCount
    <3> SUFFICES ASSUME ChunkCount <= n - 1 PROVE FALSE
      BY <1>0, <2>2
    <3>1. ChunkCount * PartSize <= (n - 1) * PartSize
      BY <1>0, <2>2, Multiples
    <3>2. b < Size /\ Size <= ChunkCount * PartSize
      BY <1>0, ChunkBounds DEF Bytes
    <3>3. ChunkCount * PartSize \in Int /\ (n - 1) * PartSize \in Int
      BY <1>0, <2>2
    <3>4. QED
      BY <1>0, <2>1, <2>2, <3>1, <3>2, <3>3
  <2>4. n \in 1 .. ChunkCount
    BY <1>0, <2>2, <2>3
  <2>5. b \in Chunk(n)
    BY <2>2, <2>4, ChunkBounds
  <2>6. QED
    BY <2>4, <2>5
<1>2. UNION {o[n] : n \in 1 .. Len(o)} = Bytes
  BY <1>1, ChunkBounds
<1>3. ASSUME NEW m \in 1 .. ChunkCount, NEW n \in 1 .. ChunkCount, m < n,
             NEW b \in Chunk(m), NEW c \in Chunk(n)
      PROVE  b < c
  <2>1. b \in Bytes /\ c \in Bytes /\ b < m * PartSize /\ (n - 1) * PartSize <= c
    BY ChunkBounds
  <2>2. m * PartSize <= (n - 1) * PartSize
    BY <1>0, <1>3, Multiples
  <2>3. b \in Int /\ c \in Int /\ m * PartSize \in Int /\ (n - 1) * PartSize \in Int
    BY <1>0, <2>1 DEF Bytes
  <2>4. QED
    BY <2>1, <2>2, <2>3
<1>4. QED
  BY <1>2, <1>3 DEF Whole

-----------------------------------------------------------------------------
\* The inductive invariant.

\* s is made of the first parts of the body.
FirstParts(s) ==
    /\ s \in Seq(SUBSET Bytes) /\ Len(s) <= ChunkCount
    /\ \A n \in 1 .. Len(s) : s[n] = Chunk(n)

Calls == {"pre", "hash", "instant", "auth", "part", "commit_auth", "commit",
          "finish", "remove_new", "remove_old"}

\* The types, sharper where the steps need them: what client and cloud have of the
\* body are its first parts, all of them from the auth of the commit on.
Types ==
    /\ at \in Calls \cup Outcomes
    /\ tries \in 0 .. MaxRetries /\ spent \in BOOLEAN /\ same \in BOOLEAN
    /\ FirstParts(etags) /\ FirstParts(parts)
    /\ at \in {"pre", "hash"} => etags = <<>>
    /\ at \in {"auth", "part"} => Len(etags) < ChunkCount
    /\ at \in {"commit_auth", "commit"} => Len(etags) = ChunkCount
    /\ committed \in BOOLEAN
    /\ live \subseteq {"old", "new", "stray"}
    /\ faults \in 0 .. MaxFaults /\ session \in 0 .. faults
    /\ drive_cookies \in 0 .. session /\ unremoved \in BOOLEAN
    /\ at \in Outcomes => ~spent

\* Nothing is published or committed but the whole body.
WholeOnly == committed \/ "new" \in live => Whole(object)

\* Until the call of the commit nothing is committed.
CommittedLate ==
    at \in {"pre", "hash", "auth", "part", "commit_auth"} => ~committed

\* The old file goes when the new one is there, and only then.
OldGoesLast ==
    /\ same => HasOld
    /\ "old" \in live => HasOld
    /\ at \in Calls \cup {"failed"} /\ at \notin {"instant", "remove_old"} /\ HasOld =>
         "old" \in live
    /\ at \in {"instant", "remove_old"} => "new" \in live
    /\ at = "ok" => {"new", "stray"} \cap live # {} \/ (same /\ "old" \in live)
    /\ HasOld => live # {}

UInv == Types /\ WholeOnly /\ CommittedLate /\ OldGoesLast /\ FailedLeavesNothing

LEMMA FirstPartsOfBody ==
  /\ FirstParts(<<>>)
  /\ \A o : FirstParts(o) /\ Len(o) = ChunkCount => Whole(o)
<1>1. FirstParts(<<>>)
  BY ChunkBounds DEF FirstParts
<1>2. ASSUME NEW o, FirstParts(o), Len(o) = ChunkCount PROVE Whole(o)
  BY <1>2, PartsAreBody DEF FirstParts
<1>3. QED
  BY <1>1, <1>2

LEMMA InstantIsWhole == Whole(<<Bytes>>)
<1>1. Len(<<Bytes>>) = 1 /\ <<Bytes>>[1] = Bytes
  OBVIOUS
<1>2. QED
  BY <1>1 DEF Whole

\* What the cloud stores goes on from the first parts.
LEMMA StoredParts ==
  ASSUME Types, at = "part", Stores
  PROVE  FirstParts(parts')
<1> DEFINE k == PartNumber
           l == IF k > Len(parts) THEN k ELSE Len(parts)
<1>1. /\ Len(etags) \in Nat /\ Len(parts) \in Nat /\ Len(etags) < ChunkCount
      /\ Len(parts) <= ChunkCount /\ ChunkCount \in Nat
      /\ k = Len(etags) + 1
  BY ChunkBounds DEF Types, FirstParts, PartNumber
<1>2. /\ k \in 1 .. ChunkCount /\ l \in 1 .. ChunkCount /\ k <= Len(parts) + 1
      /\ parts' = [n \in 1 .. l |-> IF n = k THEN Chunk(n) ELSE parts[n]]
  BY <1>1 DEF Stores
<1> HIDE DEF k
<1>3. ASSUME NEW n \in 1 .. l PROVE n = k \/ n \in 1 .. Len(parts)
  BY <1>1, <1>2
<1> HIDE DEF l
<1>4. \A n \in 1 .. l : parts'[n] = Chunk(n) /\ Chunk(n) \in SUBSET Bytes
  BY <1>1, <1>2, <1>3, ChunkBounds DEF Types, FirstParts
<1>5. parts' \in Seq(SUBSET Bytes) /\ Len(parts') = l
  <2>1. l \in Nat /\ parts' = [n \in 1 .. l |-> parts'[n]]
    BY <1>1, <1>2
  <2>2. QED
    BY <1>4, <2>1, IsASeq, LenProperties
<1>6. QED
  BY <1>1, <1>2, <1>4, <1>5 DEF FirstParts

\* What the cloud does on a request that it accepts.
LEMMA ExecutesKeeps ==
  ASSUME UInv, NEW instant \in BOOLEAN, Executes(instant)
  PROVE  /\ FirstParts(parts') /\ committed' \in BOOLEAN
         /\ live' \subseteq {"old", "new", "stray"}
         /\ committed' \/ "new" \in live' => Whole(object')
         /\ at \in {"pre", "hash", "auth", "part", "commit_auth"} => ~committed'
         /\ "old" \in live' => "old" \in live
         /\ at \notin {"instant", "remove_old"} /\ "old" \in live => "old" \in live'
         /\ at \in {"instant", "remove_old", "finish"} => "new" \in live'
         /\ at = "remove_new" => "new" \notin live'
         /\ instant => at \in {"pre", "hash"} /\ ("new" \in live' \/ (at = "pre" /\ same))
<1> USE DEF UInv
<1>1. CASE at = "pre" /\ Prepares(instant)
  BY <1>1, FirstPartsOfBody, InstantIsWhole DEF Prepares, Types
<1>2. CASE at = "hash" /\ Hashes(instant)
  BY <1>2, InstantIsWhole DEF Hashes, Types, WholeOnly, CommittedLate
<1>3. CASE at \in {"auth", "commit_auth"} /\ ~instant /\ UNCHANGED <<upload, live>>
  BY <1>3 DEF upload, Types, WholeOnly, CommittedLate
<1>4. CASE at = "part" /\ ~instant /\ Stores
  <2>1. FirstParts(parts')
    BY <1>4, StoredParts
  <2>2. UNCHANGED <<committed, object, live>>
    BY <1>4 DEF Stores
  <2>3. QED
    BY <1>4, <2>1, <2>2 DEF Types, WholeOnly, CommittedLate
<1>5. CASE at = "commit" /\ ~instant /\ Commits
  <2>1. Whole(parts)
    BY <1>5, FirstPartsOfBody DEF Commits, Types
  <2>2. QED
    BY <1>5, <2>1 DEF Commits, Types
<1>6. CASE at = "finish" /\ ~instant /\ Finishes
  BY <1>6 DEF Finishes, upload, Types, WholeOnly
<1>7. CASE at = "remove_new" /\ ~instant /\ Removes("new")
  BY <1>7 DEF Removes, upload, Types, WholeOnly
<1>8. CASE at \in {"instant", "remove_old"} /\ ~instant /\ Removes("old")
  BY <1>8 DEF Removes, upload, Types, WholeOnly, OldGoesLast
<1>9. QED
  BY <1>1, <1>2, <1>3, <1>4, <1>5, <1>6, <1>7, <1>8 DEF Executes

\* A call that stays where it is, carried out or not.
LEMMA CallStays ==
  ASSUME UInv, UNCHANGED <<at, etags, same, session, drive_cookies, unremoved>>,
         at \notin Outcomes, tries' \in 0 .. MaxRetries, spent' \in BOOLEAN,
         faults' \in faults .. MaxFaults,
         (\E instant \in BOOLEAN : Executes(instant)) \/ UNCHANGED <<upload, live>>
  PROVE  UInv'
<1> USE DEF UInv
<1>0. at \in Calls /\ at # "failed" /\ at # "ok"
  BY DEF Types, Outcomes
<1>1. ASSUME NEW instant \in BOOLEAN, Executes(instant) PROVE UInv'
  <2>1. Types'
    BY <1>0, <1>1, ExecutesKeeps DEF Types, FirstParts
  <2>2. WholeOnly' /\ CommittedLate'
    BY <1>1, ExecutesKeeps DEF WholeOnly, CommittedLate
  <2>3. OldGoesLast'
    BY <1>0, <1>1, ExecutesKeeps DEF OldGoesLast, Calls
  <2>4. FailedLeavesNothing'
    BY <1>0 DEF FailedLeavesNothing
  <2>5. QED
    BY <2>1, <2>2, <2>3, <2>4
<1>2. CASE UNCHANGED <<upload, live>>
  <2>1. Types'
    BY <1>0, <1>2 DEF Types, FirstParts, upload
  <2>2. QED
    BY <1>0, <1>2, <2>1 DEF upload, WholeOnly, CommittedLate, OldGoesLast,
       FailedLeavesNothing, Whole
<1>3. QED
  BY <1>1, <1>2

\* A call succeeds, and the next one begins.
LEMMA AnsweredStep ==
  ASSUME UInv, Answered
  PROVE  UInv'
<1> USE DEF UInv
<1>1. PICK instant \in BOOLEAN : Executes(instant) /\ Goto(Follow(instant))
  BY DEF Answered
<1>2. /\ at \in Calls
      /\ etags' = IF at = "part" THEN Append(etags, Chunk(PartNumber)) ELSE etags
      /\ UNCHANGED <<same, session, drive_cookies, faults, unremoved>>
  BY DEF Answered, Types, sessions
<1>3. at' = Follow(instant) /\ tries' = 0 /\ spent' = FALSE
  BY <1>1 DEF Goto
<1>4. /\ ChunkCount \in Nat \ {0} /\ Len(etags) \in Nat /\ PartNumber = Len(etags) + 1
      /\ Len(<<>>) = 0
  BY ChunkBounds DEF Types, FirstParts, PartNumber
<1>5. /\ FirstParts(etags')
      /\ at = "part" => Len(etags') = PartNumber /\ PartNumber <= ChunkCount
  <2>1. CASE at = "part"
    <3>1. PartNumber \in 1 .. ChunkCount
      BY <1>4, <2>1 DEF Types
    <3>2. /\ etags' = Append(etags, Chunk(PartNumber)) /\ Chunk(PartNumber) \in SUBSET Bytes
          /\ etags \in Seq(SUBSET Bytes)
      BY <1>2, <2>1, <3>1, ChunkBounds DEF Types, FirstParts
    <3>3. /\ etags' \in Seq(SUBSET Bytes) /\ Len(etags') = PartNumber
          /\ \A n \in 1 .. Len(etags) : etags'[n] = etags[n]
          /\ etags'[PartNumber] = Chunk(PartNumber)
      BY <1>4, <3>2, AppendProperties
    <3>4. QED
      BY <1>4, <3>1, <3>3 DEF Types, FirstParts
  <2>2. CASE at # "part"
    BY <1>2, <2>2 DEF Types
  <2>3. QED
    BY <2>1, <2>2
<1>6. /\ at' \in Calls \cup Outcomes
      /\ at' \in {"pre", "hash"} => at = "pre"
      /\ at' \in {"auth", "part", "commit_auth"} => at \in {"hash", "auth", "part"}
      /\ at' = "auth" /\ at = "part" => PartNumber # ChunkCount
      /\ at' = "commit_auth" => at = "part" /\ PartNumber = ChunkCount
      /\ at' = "commit" => at = "commit_auth"
      /\ at' = "part" => at = "auth"
      /\ at' \in {"finish", "remove_new", "remove_old", "failed"} =>
           at \in {"commit", "finish", "remove_new"}
      /\ at' = "instant" => instant /\ (at = "pre" => ~same)
      /\ at' = "remove_old" => at = "finish"
      /\ at' = "failed" => at = "remove_new"
      /\ at' = "ok" => instant \/ at \in {"finish", "instant", "remove_old"}
      /\ at' = "ok" /\ at = "finish" => ~HasOld
  <2>1. /\ at' \in Calls \cup Outcomes
        /\ at' \in {"pre", "hash"} => at = "pre"
        /\ at' \in {"auth", "part", "commit_auth"} => at \in {"hash", "auth", "part"}
        /\ at' = "auth" /\ at = "part" => PartNumber # ChunkCount
        /\ at' = "commit_auth" => at = "part" /\ PartNumber = ChunkCount
    BY <1>2, <1>3 DEF Follow, Calls, Outcomes
  <2>2. /\ at' = "commit" => at = "commit_auth"
        /\ at' = "part" => at = "auth"
        /\ at' \in {"finish", "remove_new", "remove_old", "failed"} =>
             at \in {"commit", "finish", "remove_new"}
        /\ at' = "remove_old" => at = "finish"
        /\ at' = "failed" => at = "remove_new"
    BY <1>2, <1>3 DEF Follow, Calls
  <2>3. /\ at' = "instant" => instant /\ (at = "pre" => ~same)
        /\ at' = "ok" => instant \/ at \in {"finish", "instant", "remove_old"}
        /\ at' = "ok" /\ at = "finish" => ~HasOld
    BY <1>2, <1>3 DEF Follow, Calls
  <2>4. QED
    BY <2>1, <2>2, <2>3
<1>7. Types'
  <2>1. at' \in {"pre", "hash"} => etags' = <<>>
    BY <1>2, <1>6 DEF Types
  <2>2. at' \in {"auth", "part"} => Len(etags') < ChunkCount
    BY <1>2, <1>4, <1>5, <1>6 DEF Types
  <2>3. at' \in {"commit_auth", "commit"} => Len(etags') = ChunkCount
    BY <1>2, <1>4, <1>5, <1>6 DEF Types
  <2>4. FirstParts(parts') /\ committed' \in BOOLEAN
        /\ live' \subseteq {"old", "new", "stray"}
    BY <1>1, ExecutesKeeps
  <2>5. tries' \in 0 .. MaxRetries
    BY <1>3, CloudUploadAssumption
  <2>6. QED
    BY <1>2, <1>3, <1>5, <1>6, <2>1, <2>2, <2>3, <2>4, <2>5 DEF Types
<1>8. WholeOnly' /\ CommittedLate'
  BY <1>1, <1>6, ExecutesKeeps DEF WholeOnly, CommittedLate
<1>9. FailedLeavesNothing'
  BY <1>1, <1>6, ExecutesKeeps DEF FailedLeavesNothing
<1>10. OldGoesLast'
  <2>1. (same' => HasOld) /\ ("old" \in live' => HasOld)
    BY <1>1, <1>2, ExecutesKeeps DEF OldGoesLast
  <2>2. at' \in Calls \cup {"failed"} /\ at' \notin {"instant", "remove_old"} /\ HasOld =>
          "old" \in live'
    <3>1. at' \in Calls \cup {"failed"} => at \notin {"instant", "remove_old"}
      BY <1>2, <1>3 DEF Follow, Calls
    <3>2. QED
      BY <1>1, <1>2, <1>6, <3>1, ExecutesKeeps DEF OldGoesLast, Calls
  <2>3. at' \in {"instant", "remove_old"} => "new" \in live'
    BY <1>1, <1>6, ExecutesKeeps
  <2>4. at' = "ok" => {"new", "stray"} \cap live' # {} \/ (same' /\ "old" \in live')
    <3>1. CASE instant /\ "new" \notin live'
      BY <1>1, <1>2, <3>1, ExecutesKeeps DEF OldGoesLast, Calls
    <3>2. CASE at \in {"finish", "instant", "remove_old"} \/ "new" \in live'
      BY <1>1, <3>2, ExecutesKeeps
    <3>3. QED
      BY <1>6, <3>1, <3>2
  <2>5. HasOld => live' # {}
    BY <1>1, <1>2, ExecutesKeeps DEF OldGoesLast, Calls
  <2>6. QED
    BY <1>2, <2>1, <2>2, <2>3, <2>4, <2>5 DEF OldGoesLast
<1>11. QED
  BY <1>7, <1>8, <1>9, <1>10

\* A call fails, or the task ends, and the cloud stays as it is.
LEMMA ClientMoves ==
  ASSUME UInv, UNCHANGED <<etags, same, parts, committed, object, live>>,
         at' \in Outcomes \cup {"remove_new"}, tries' = 0, spent' = FALSE,
         at' = "failed" => \/ at \in {"pre", "hash", "auth", "part", "commit_auth"}
                           \/ unremoved'
                           \/ at = "failed" /\ unremoved' = unremoved,
         at' = "failed" => at \in Calls \cup {"failed"} /\ at \notin {"instant", "remove_old"},
         at' = "remove_new" => at \in {"commit", "finish"},
         at' = "ok" => at \in {"instant", "remove_old", "ok"},
         faults' \in faults .. MaxFaults, session' \in 0 .. faults',
         drive_cookies' \in 0 .. session', unremoved' \in BOOLEAN
  PROVE  UInv'
<1> USE DEF UInv
<1>1. Types'
  <2>1. FirstParts(etags') /\ FirstParts(parts')
    BY DEF Types, FirstParts
  <2>2. at' \notin {"pre", "hash", "auth", "part", "commit_auth", "commit"}
    BY DEF Outcomes
  <2>3. tries' \in 0 .. MaxRetries /\ faults' \in 0 .. MaxFaults
    BY CloudUploadAssumption DEF Types
  <2>4. QED
    BY <2>1, <2>2, <2>3 DEF Types, Calls
<1>2. WholeOnly' /\ CommittedLate'
  BY DEF WholeOnly, CommittedLate, Outcomes
<1>3. FailedLeavesNothing'
  BY DEF FailedLeavesNothing, CommittedLate
<1>4. OldGoesLast'
  BY DEF OldGoesLast, Outcomes, Calls
<1>5. QED
  BY <1>1, <1>2, <1>3, <1>4

\* Every step keeps it.
LEMMA UploadStep == UInv /\ [Next]_vars => UInv'
<1> SUFFICES ASSUME UInv, [Next]_vars PROVE UInv'
  OBVIOUS
<1>0. /\ faults \in Nat /\ faults <= MaxFaults /\ MaxFaults \in Nat /\ MaxRetries \in Nat
      /\ tries \in 0 .. MaxRetries /\ spent \in BOOLEAN /\ unremoved \in BOOLEAN
      /\ session \in 0 .. faults /\ drive_cookies \in 0 .. session
      /\ at \in Calls \cup Outcomes
  BY CloudUploadAssumption DEF UInv, Types
<1>1. CASE Answered
  BY <1>1, AnsweredStep
<1>2. CASE Garbled
  BY <1>0, <1>2, CallStays DEF Garbled, Fault, sessions
<1>3. CASE Refused
  BY <1>0, <1>3, CallStays DEF Refused, Fault, sessions
<1>4. CASE Transient
  <2>1. tries' \in 0 .. MaxRetries /\ spent' \in BOOLEAN
    <3>1. CASE tries < MaxRetries
      BY <1>0, <1>4, <3>1 DEF Transient
    <3>2. CASE ~(tries < MaxRetries)
      BY <1>0, <1>4, <3>2 DEF Transient
    <3>3. QED
      BY <3>1, <3>2
  <2>2. QED
    BY <1>0, <1>4, <2>1, CallStays DEF Transient, Fault, sessions
<1>5. CASE GivesUp
  <2>1. at \in Calls
    BY <1>5 DEF GivesUp, UInv, Types
  <2>2. at' = Recover /\ tries' = 0 /\ spent' = FALSE
    BY <1>5 DEF GivesUp, Goto
  <2>3. /\ at \in {"commit", "finish"} => at' = "remove_new"
        /\ at \in {"instant", "remove_old"} => at' = "ok"
        /\ at \notin {"commit", "finish", "instant", "remove_old"} => at' = "failed"
    BY <2>2 DEF Recover
  <2>4. UNCHANGED <<etags, same, parts, committed, object, live, session, drive_cookies, faults>>
        /\ unremoved' = (unremoved \/ at = "remove_new")
    BY <1>5 DEF GivesUp, upload, sessions
  <2>5. /\ at' \in Outcomes \cup {"remove_new"}
        /\ at' = "remove_new" => at \in {"commit", "finish"}
        /\ at' = "ok" => at \in {"instant", "remove_old", "ok"}
        /\ at' = "failed" => at \notin {"instant", "remove_old"}
        /\ at' = "failed" => \/ at \in {"pre", "hash", "auth", "part", "commit_auth"}
                             \/ unremoved'
    BY <2>1, <2>3, <2>4 DEF Calls, Outcomes
  <2>6. faults' \in faults .. MaxFaults /\ session' \in 0 .. faults'
        /\ drive_cookies' \in 0 .. session' /\ unremoved' \in BOOLEAN
    BY <1>0, <2>4
  <2>7. QED
    BY <2>1, <2>2, <2>4, <2>5, <2>6, ClientMoves
<1>6. CASE Dropped
  <2>1. at' = "gone" /\ tries' = 0 /\ spent' = FALSE /\ faults' = faults + 1
        /\ faults < MaxFaults
        /\ UNCHANGED <<etags, same, parts, committed, object, live, session, drive_cookies,
                       unremoved>>
    BY <1>6 DEF Dropped, Fault, Goto, upload, sessions
  <2>2. faults' \in faults .. MaxFaults /\ session' \in 0 .. faults'
        /\ drive_cookies' \in 0 .. session' /\ unremoved' \in BOOLEAN
    BY <1>0, <2>1
  <2>3. QED
    BY <2>1, <2>2, ClientMoves DEF Outcomes
<1>7. CASE Restart
  <2>1. at' = (IF at \in Outcomes THEN at ELSE "gone") /\ tries' = 0 /\ spent' = FALSE
        /\ faults' = faults + 1 /\ faults < MaxFaults /\ drive_cookies' = session
        /\ UNCHANGED <<etags, same, parts, committed, object, live, session, unremoved>>
    BY <1>7 DEF Restart, Fault, Goto, upload
  <2>2. faults' \in faults .. MaxFaults /\ session' \in 0 .. faults'
        /\ drive_cookies' \in 0 .. session' /\ unremoved' \in BOOLEAN
    BY <1>0, <2>1
  <2>3. at' \in Outcomes \cup {"remove_new"} /\ (at' # "gone" => at' = at /\ at \in Outcomes)
    BY <2>1 DEF Outcomes
  <2>4. QED
    BY <2>1, <2>2, <2>3, ClientMoves DEF Outcomes
<1>8. CASE Login
  BY <1>0, <1>8 DEF Login, Fault, client, upload, UInv, Types, FirstParts, WholeOnly, Whole,
     CommittedLate, OldGoesLast, FailedLeavesNothing
<1>9. CASE UNCHANGED vars
  BY <1>9 DEF vars, client, upload, sessions, UInv, Types, FirstParts, WholeOnly, Whole,
     CommittedLate, OldGoesLast, FailedLeavesNothing
<1>10. QED
  BY <1>1, <1>2, <1>3, <1>4, <1>5, <1>6, <1>7, <1>8, <1>9 DEF Next, Exchange

\* The inductive invariant of the upload.
THEOREM UploadInvariant == Spec => []UInv
<1>1. Init => UInv
  <2> SUFFICES ASSUME Init PROVE UInv
    OBVIOUS
  <2>1. FirstParts(<<>>)
    BY FirstPartsOfBody
  <2>2. 0 \in 0 .. MaxRetries /\ 0 \in 0 .. MaxFaults /\ 0 \in 0 .. 0
    BY CloudUploadAssumption
  <2>3. same \in BOOLEAN /\ live \subseteq {"old", "new", "stray"}
    BY DEF Init
  <2>4. Types
    BY <2>1, <2>2, <2>3 DEF Init, Types, Calls, Outcomes
  <2>5. QED
    BY <2>4, CloudUploadAssumption DEF Init, UInv, WholeOnly, CommittedLate, OldGoesLast,
       FailedLeavesNothing, Calls
<1>2. QED
  BY <1>1, UploadStep, PTL DEF Spec

-----------------------------------------------------------------------------
\* What it shows.

\* Type correctness for every size, every number of retries and of faults.
THEOREM UploadTypeCorrect == Spec => []TypeOK
<1>1. UInv => TypeOK
  <2> SUFFICES ASSUME UInv PROVE TypeOK
    OBVIOUS
  <2>1. \A n \in 1 .. Len(etags) : etags[n] \subseteq Bytes
    BY DEF UInv, Types, FirstParts
  <2>2. QED
    BY <2>1, CloudUploadAssumption DEF UInv, Types, FirstParts, TypeOK, Calls, Outcomes
<1>2. QED
  BY <1>1, UploadInvariant, PTL

\* However often parts are sent and whichever answers are lost, what the cloud
\* shows as the new file is the body, whole and in order.
THEOREM PublishesWhole == Spec => []PublishedIsWhole
<1>1. UInv => PublishedIsWhole
  BY DEF UInv, WholeOnly, PublishedIsWhole
<1>2. QED
  BY <1>1, UploadInvariant, PTL

\* An upload that fails after the commit has taken its file away again, unless the
\* removal has failed.
THEOREM FailureCleansUp == Spec => []FailedLeavesNothing
<1>1. UInv => FailedLeavesNothing
  BY DEF UInv
<1>2. QED
  BY <1>1, UploadInvariant, PTL

-----------------------------------------------------------------------------
\* The refinement.

\* While its call lasts, a step of the cloud takes the old file away only where the
\* new one is.
LEMMA CallReplaces ==
  ASSUME UInv, NEW instant \in BOOLEAN, Executes(instant), at \notin Outcomes
  PROVE  /\ "old" \in live' => "old" \in live
         /\ HasOld => live' # {} /\ live' \subseteq {"old", "new", "stray"}
         /\ at \notin {"instant", "remove_old"} /\ HasOld => "old" \in live'
         /\ at \in {"instant", "remove_old", "finish"} => "new" \in live'
  BY ExecutesKeeps DEF UInv, OldGoesLast, Types

\* For every size and every fault the upload keeps the promise of AtomicReplace.
THEOREM UploadReplaces == Spec => Replaces
<1>1. Init => Promise!Init
  <2> SUFFICES ASSUME Init PROVE Promise!Init
    OBVIOUS
  <2>1. ("old" \in live) = HasOld
    <3>1. ("old" \in live) <=> HasOld
      BY DEF Init
    <3>2. QED
      BY <3>1, CloudUploadAssumption
  <2>2. at \notin Outcomes
    BY DEF Init, Outcomes
  <2>3. same \in BOOLEAN
    BY DEF Init
  <2>4. ({"new", "stray"} \cap live # {} \/ (same /\ "old" \in live)) \in BOOLEAN
    BY <2>3
  <2>5. QED
    BY <2>1, <2>2, <2>4 DEF Promise!Init
<1>2. UInv /\ UInv' /\ [Next]_vars => [Promise!Replace]_<<"old" \in live,
          {"new", "stray"} \cap live # {} \/ (same /\ "old" \in live),
          IF at \in Outcomes THEN at ELSE "none">>
  <2> SUFFICES ASSUME UInv, UInv', Next,
                      at \notin Outcomes \/ at' # at \/ live' # live \/ same' # same
               PROVE  Promise!Replace \/ (at' = at /\ live' = live /\ same' = same)
    BY DEF vars, client, upload, sessions
  <2>1. CASE at \in Outcomes
    <3>1. ~spent
      BY <2>1 DEF UInv, Types
    <3>2. at \notin InFlush
      BY <2>1 DEF Outcomes, InFlush
    <3>3. QED
      BY <2>1, <3>1, <3>2 DEF Next, Exchange, Answered, Garbled, Refused, Transient, GivesUp,
         Dropped, Restart, Login, Goto, client
  <2>2. CASE at \notin Outcomes
    <3>1. same' = same /\ ("old" \in live' => "old" \in live)
      <4>1. \A instant \in BOOLEAN : Executes(instant) => ("old" \in live' => "old" \in live)
        BY <2>2, CallReplaces
      <4>2. QED
        BY <4>1 DEF Next, Exchange, Answered, Garbled, Refused, Transient, GivesUp, Dropped,
           Restart, Login, client
    <3>2. /\ at' \in Outcomes => at' \in {"ok", "failed", "gone"}
          /\ at' = "ok" => {"new", "stray"} \cap live' # {} \/ (same' /\ "old" \in live')
          /\ at' = "failed" => (HasOld <=> "old" \in live')
          /\ HasOld => \/ "old" \in live'
                       \/ {"new", "stray"} \cap live' # {}
      BY DEF UInv, Types, OldGoesLast, Outcomes, Calls
    <3>3. ("old" \in live') \in {"old" \in live, FALSE}
      <4>1. CASE "old" \in live'
        BY <3>1, <4>1
      <4>2. CASE "old" \notin live'
        <5>1. ("old" \in live') = FALSE
          BY <4>2
        <5>2. QED
          BY <5>1
      <4>3. QED
        BY <4>1, <4>2
    <3>4. ({"new", "stray"} \cap live' # {} \/ (same' /\ "old" \in live')) \in BOOLEAN
      OBVIOUS
    <3>5. at' = "failed" => ("old" \in live') = HasOld
      BY <3>2, CloudUploadAssumption
    <3>6. QED
      BY <2>2, <3>1, <3>2, <3>3, <3>4, <3>5 DEF Promise!Replace, Outcomes
  <2>3. QED
    BY <2>1, <2>2
<1>3. QED
  BY <1>1, <1>2, UploadInvariant, PTL DEF Spec, Replaces, Promise!Spec

-----------------------------------------------------------------------------
\* How far the upload is from its end.

\* Parts that have not been answered, and the most calls that can follow before the
\* outcome.
PartsLeft == ChunkCount - Len(etags)
CallsLeft ==
    CASE at \in Outcomes  -> 0
      [] at \in {"instant", "remove_old", "remove_new"} -> 1
      [] at = "finish"      -> 2
      [] at = "commit"      -> 3
      [] at = "commit_auth" -> 4
      [] at = "part"        -> 3 + 2 * PartsLeft
      [] at = "auth"        -> 4 + 2 * PartsLeft
      [] at = "hash"        -> 5 + 2 * PartsLeft
      [] at = "pre"         -> 6 + 2 * PartsLeft

\* Times the call under way can still be sent, and then given up.
TriesLeft == (MaxRetries - tries) + (IF spent THEN 0 ELSE 1)

\* One step nearer, and no farther.
Nearer    == CallsLeft' < CallsLeft \/ (CallsLeft' = CallsLeft /\ TriesLeft' < TriesLeft)
NoFarther == CallsLeft' = CallsLeft /\ TriesLeft' = TriesLeft

\* Every step of an upload that is under way brings it nearer to its end, faults and
\* refusals as well; a login alone leaves it where it is.
Descends == [][at \notin Outcomes => Nearer \/ (Login /\ NoFarther)]_vars

\* Both are counts, as long as the upload is under way.
LeftToDo == CallsLeft \in Nat /\ TriesLeft \in Nat

LEMMA CountsAre ==
  ASSUME UInv
  PROVE  /\ LeftToDo /\ PartsLeft \in Nat /\ ChunkCount \in Nat
         /\ at \in Outcomes => CallsLeft = 0
         /\ at \notin Outcomes => CallsLeft >= 1
         /\ at \in {"auth", "part"} => PartsLeft >= 1
<1>1. /\ ChunkCount \in Nat /\ Len(etags) \in Nat /\ Len(etags) <= ChunkCount
      /\ at \in Calls \cup Outcomes /\ tries \in 0 .. MaxRetries /\ spent \in BOOLEAN
      /\ at \in {"auth", "part"} => Len(etags) < ChunkCount
  BY ChunkBounds DEF UInv, Types, FirstParts
<1>2. PartsLeft \in Nat /\ (at \in {"auth", "part"} => PartsLeft >= 1)
  BY <1>1 DEF PartsLeft
<1>3. TriesLeft \in Nat
  BY <1>1, CloudUploadAssumption DEF TriesLeft
<1>4. /\ CallsLeft \in Nat /\ (at \in Outcomes => CallsLeft = 0)
      /\ at \notin Outcomes => CallsLeft >= 1
  <2>1. CASE at \in Outcomes \cup {"pre", "hash", "auth", "part"}
    BY <1>2, <2>1 DEF CallsLeft, Outcomes
  <2>2. CASE at \notin Outcomes \cup {"pre", "hash", "auth", "part"}
    BY <1>1, <2>2 DEF CallsLeft, Calls, Outcomes
  <2>3. QED
    BY <2>1, <2>2
<1>5. QED
  BY <1>1, <1>2, <1>3, <1>4 DEF LeftToDo

\* The call that follows one that succeeds, and those that follow it, are fewer.
LEMMA AnswerNearer ==
  ASSUME UInv, UInv', Answered
  PROVE  CallsLeft' < CallsLeft
<1>1. PICK instant \in BOOLEAN : at' = Follow(instant)
  BY DEF Answered, Goto
<1>2. /\ at \in Calls
      /\ etags' = IF at = "part" THEN Append(etags, Chunk(PartNumber)) ELSE etags
  BY DEF Answered, UInv, Types
<1>3. /\ PartsLeft \in Nat /\ ChunkCount \in Nat /\ CallsLeft \in Nat /\ CallsLeft >= 1
      /\ at \in {"auth", "part"} => PartsLeft >= 1
  BY <1>2, CountsAre DEF LeftToDo, Calls, Outcomes
<1>4. CASE at = "part"
  <2>1. /\ Len(etags) \in Nat /\ Len(etags) < ChunkCount /\ etags \in Seq(SUBSET Bytes)
        /\ PartNumber = Len(etags) + 1
    BY <1>4 DEF UInv, Types, FirstParts, PartNumber
  <2>2. Chunk(PartNumber) \in SUBSET Bytes
    BY <1>3, <2>1, ChunkBounds
  <2>3. Len(etags') = Len(etags) + 1
    BY <1>2, <1>4, <2>1, <2>2, AppendProperties
  <2>4. PartsLeft' = PartsLeft - 1
    <3>1. PartsLeft' = ChunkCount - Len(etags')
      BY DEF PartsLeft, ChunkCount
    <3>2. QED
      BY <1>3, <2>1, <2>3, <3>1 DEF PartsLeft
  <2>5. CallsLeft = 3 + 2 * PartsLeft
    BY <1>4 DEF CallsLeft, Outcomes
  <2>6. at' \in {"commit_auth", "auth"}
    BY <1>1, <1>4 DEF Follow
  <2>7. CallsLeft' \in {4, 4 + 2 * PartsLeft'}
    BY <2>6 DEF CallsLeft, Outcomes
  <2>8. QED
    BY <1>3, <1>4, <2>4, <2>5, <2>7
<1>5. CASE at # "part"
  <2>1. PartsLeft' = PartsLeft
    BY <1>2, <1>5 DEF PartsLeft, ChunkCount
  <2>2. CASE at \in {"pre", "hash", "auth"}
    <3>1. CallsLeft = IF at = "pre" THEN 6 + 2 * PartsLeft
                      ELSE IF at = "hash" THEN 5 + 2 * PartsLeft ELSE 4 + 2 * PartsLeft
      BY <2>2 DEF CallsLeft, Outcomes
    <3>2. /\ at = "pre"  => at' \in {"instant", "ok", "hash"}
          /\ at = "hash" => at' \in {"instant", "ok", "auth"}
          /\ at = "auth" => at' = "part"
      BY <1>1, <2>2 DEF Follow
    <3>3. CallsLeft' = CASE at' = "instant" -> 1 [] at' = "ok" -> 0
                         [] at' = "hash" -> 5 + 2 * PartsLeft' [] at' = "auth" -> 4 + 2 * PartsLeft'
                         [] at' = "part" -> 3 + 2 * PartsLeft'
      BY <2>2, <3>2 DEF CallsLeft, Outcomes
    <3>4. QED
      BY <1>3, <2>1, <2>2, <3>1, <3>2, <3>3
  <2>3. CASE at \notin {"pre", "hash", "auth"}
    <3>1. /\ at = "commit_auth" => at' = "commit"
          /\ at = "commit" => at' = "finish"
          /\ at = "finish" => at' \in {"remove_old", "ok"}
          /\ at = "remove_new" => at' = "failed"
          /\ at \in {"instant", "remove_old"} => at' = "ok"
      BY <1>1 DEF Follow
    <3>2. at \in {"commit_auth", "commit", "finish", "remove_new", "instant", "remove_old"}
      BY <1>2, <1>5, <2>3 DEF Calls
    <3>3. QED
      BY <3>1, <3>2 DEF CallsLeft, Outcomes
  <2>4. QED
    BY <2>2, <2>3
<1>6. QED
  BY <1>4, <1>5

\* So is what follows one that fails.
LEMMA GivingUpNearer ==
  ASSUME UInv, GivesUp, at \notin Outcomes
  PROVE  CallsLeft' < CallsLeft
<1>1. at' = Recover
  BY DEF GivesUp, Goto
<1>2. at \in Calls /\ PartsLeft \in Nat /\ CallsLeft >= 1 /\ CallsLeft \in Nat
  BY CountsAre DEF UInv, Types, LeftToDo
<1>3. CASE at \in {"commit", "finish"}
  BY <1>1, <1>3 DEF Recover, CallsLeft, Outcomes
<1>4. CASE at \notin {"commit", "finish"}
  <2>1. at' \in {"ok", "failed"}
    BY <1>1, <1>4 DEF Recover
  <2>2. CallsLeft' = 0
    BY <2>1 DEF CallsLeft, Outcomes
  <2>3. QED
    BY <1>2, <2>2
<1>5. QED
  BY <1>3, <1>4

\* What ends or renews the try of a call leaves fewer of them.
LEMMA TryNearer ==
  ASSUME UInv, Garbled \/ Refused \/ Transient
  PROVE  CallsLeft' = CallsLeft /\ TriesLeft' < TriesLeft
<1>1. UNCHANGED <<at, etags>> /\ ~spent
  BY DEF Garbled, Refused, Transient
<1>2. CallsLeft' = CallsLeft
  BY <1>1 DEF CallsLeft, PartsLeft, ChunkCount, Outcomes
<1>3. tries \in 0 .. MaxRetries /\ MaxRetries \in Nat
  BY CloudUploadAssumption DEF UInv, Types
<1>4. \/ spent' /\ tries' = tries
      \/ ~spent' /\ tries' = tries + 1
  BY <1>1 DEF Garbled, Refused, Transient
<1>5. QED
  BY <1>1, <1>2, <1>3, <1>4 DEF TriesLeft

\* The safety part of UploadEnds: no fault, refusal or lost answer sets an upload
\* back, so that the fairness of the calls alone brings it to its end.
THEOREM UploadDescends == Spec => Descends /\ []LeftToDo
<1>1. UInv => LeftToDo
  BY CountsAre
<1>2. UInv /\ UInv' /\ [Next]_vars
        => [at \notin Outcomes => Nearer \/ (Login /\ NoFarther)]_vars
  <2> SUFFICES ASSUME UInv, UInv', Next, at \notin Outcomes
               PROVE  Nearer \/ (Login /\ NoFarther)
    OBVIOUS
  <2>1. CASE Answered
    BY <2>1, AnswerNearer DEF Nearer
  <2>2. CASE Garbled \/ Refused \/ Transient
    BY <2>2, TryNearer DEF Nearer
  <2>3. CASE GivesUp
    BY <2>3, GivingUpNearer DEF Nearer
  <2>4. CASE Dropped \/ Restart
    <3>1. at' = "gone"
      BY <2>4 DEF Dropped, Restart, Goto
    <3>2. CallsLeft' = 0
      BY <3>1 DEF CallsLeft, Outcomes
    <3>3. QED
      BY <3>2, CountsAre DEF Nearer, LeftToDo
  <2>5. CASE Login
    <3>1. UNCHANGED <<at, tries, spent, etags>>
      BY <2>5 DEF Login, client
    <3>2. NoFarther
      BY <3>1 DEF NoFarther, CallsLeft, TriesLeft, PartsLeft, ChunkCount, Outcomes
    <3>3. QED
      BY <2>5, <3>2
  <2>6. QED
    BY <2>1, <2>2, <2>3, <2>4, <2>5 DEF Next, Exchange
<1>3. QED
  BY <1>1, <1>2, UploadInvariant, PTL DEF Spec, Descends
=============================================================================
