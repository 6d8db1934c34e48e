--------------------------- MODULE ChunkReadProofs ---------------------------
(***************************************************************************)
(* Proofs about ChunkRead for every set of readers and versions and all    *)
(* sizes: an upload leaves no chunk of the versions before it behind, a    *)
(* read that succeeds has each byte in its place, and the locks of the     *)
(* chunks are with whoever needs them.  And about GetFile, the GET that    *)
(* makes these reads, for every number of files and all sizes: its Digest  *)
(* and its body are of one file, and the body is the part asked for.       *)
(***************************************************************************)
EXTENDS ChunkRead, GetFile, SequenceTheorems, FiniteSetTheorems, TLAPS

\* The types of what the chunk cache depends on.
ChunkTypes ==
    /\ chunks \in [Keys -> SUBSET past]
    /\ \A x \in writes : x.of \in past
    /\ wipes \in Nat
    /\ file \in [Readers -> SUBSET past]
    /\ current \subseteq past
    /\ up \in [Versions -> {"no", "finished", "published", "gone"}]
    /\ past \subseteq Versions

\* A version that is in use but not at the path has strayed.
BusyStrayed == Busy \subseteq current \cup strayed

\* A version that has not come to the path has not been uploaded.
NotYetUploaded == \A v \in Versions \ past : up[v] = "no"

CInv == ChunkTypes /\ BusyStrayed /\ NotYetUploaded /\ UploadLeavesNoOldChunk

\* The steps of a reader that is at a chunk.
LEMMA ReadSteps ==
  ASSUME CInv, NEW r \in Readers, ReadStep(r)
  PROVE  /\ UNCHANGED <<wipes, file, current, past, up, strayed>>
         /\ \A k \in Keys : chunks'[k] \subseteq chunks[k]
         /\ chunks' \in [Keys -> SUBSET past]
         /\ \A x \in writes' : x.of \in Busy
<1> USE DEF CInv, ChunkTypes
<1>1. CASE ReadChunk(r) \/ Retry(r) \/ Fail(r)
  <2>1. UNCHANGED <<chunks, writes, wipes, file, current, past, up, strayed>>
    BY <1>1 DEF ReadChunk, Retry, Fail, path
  <2>2. QED
    BY <2>1 DEF Busy
<1>2. CASE CheckAge(r)
  <2>1. UNCHANGED <<writes, wipes, file, current, past, up, strayed>>
    BY <1>2 DEF CheckAge, TakeChunk, path
  <2>2. chunks' = chunks \/ chunks' = [chunks EXCEPT ![KeyOf(r)] = {}]
    BY <1>2 DEF CheckAge
  <2>3. QED
    BY <2>1, <2>2 DEF Busy
<1>3. CASE Download(r)
  <2>1. PICK v \in file[r] : writes' = writes \cup {[key |-> KeyOf(r), of |-> v]}
    BY <1>3 DEF Download
  <2>2. \A x \in writes' : x.of \in Busy
    BY <2>1 DEF Busy
  <2>3. UNCHANGED <<chunks, wipes, file, current, past, up, strayed>>
    BY <1>3 DEF Download, TakeChunk, path
  <2>4. QED
    BY <2>2, <2>3
<1>4. QED
  BY <1>1, <1>2, <1>3 DEF ReadStep

LEMMA ChunkStep ==
  ASSUME CInv, [Next]_vars
  PROVE  CInv'
<1> USE DEF CInv, ChunkTypes
<1>1. ASSUME NEW r \in Readers, Open(r) PROVE CInv'
  <2>1. PICK v \in past : /\ file' = [file EXCEPT ![r] = {v}]
                          /\ strayed' = strayed \cup ({v} \ current)
    BY <1>1 DEF Open
  <2>2. UNCHANGED <<chunks, writes, wipes, current, past, up>>
    BY <1>1 DEF Open
  <2>3. ChunkTypes' /\ NotYetUploaded'
    BY <2>1, <2>2 DEF NotYetUploaded
  <2>4. BusyStrayed'
    BY <2>1, <2>2 DEF BusyStrayed, Busy
  <2>5. UploadLeavesNoOldChunk'
    BY <2>1, <2>2 DEF UploadLeavesNoOldChunk
  <2>6. QED
    BY <2>3, <2>4, <2>5
<1>2. ASSUME NEW r \in Readers, ReadBytes(r) PROVE CInv'
  BY <1>2 DEF ReadBytes, path, BusyStrayed, Busy, NotYetUploaded,
              UploadLeavesNoOldChunk
<1>3. ASSUME NEW r \in Readers, ReadStep(r) PROVE CInv'
  <2>1. /\ UNCHANGED <<wipes, file, current, past, up, strayed>>
        /\ \A k \in Keys : chunks'[k] \subseteq chunks[k]
        /\ chunks' \in [Keys -> SUBSET past]
        /\ \A x \in writes' : x.of \in Busy
    BY <1>3, ReadSteps
  <2>2. BusyStrayed'
    <3>1. Busy' \subseteq Busy
      BY <2>1 DEF Busy
    <3>2. QED
      BY <2>1, <3>1 DEF BusyStrayed
  <2>3. ChunkTypes'
    <3>1. Busy \subseteq past
      BY DEF Busy
    <3>2. QED
      BY <2>1, <3>1
  <2>4. NotYetUploaded' /\ UploadLeavesNoOldChunk'
    BY <2>1 DEF NotYetUploaded, UploadLeavesNoOldChunk
  <2>5. QED
    BY <2>2, <2>3, <2>4
<1>4. ASSUME NEW r \in Readers, Close(r) PROVE CInv'
  BY <1>4 DEF Close, path, BusyStrayed, Busy, NotYetUploaded,
              UploadLeavesNoOldChunk
<1>5. ASSUME NEW x \in writes, WriteChunk(x) PROVE CInv'
  <2>1. UNCHANGED <<wipes, file, current, past, up, strayed>> /\ writes' \subseteq writes
    BY <1>5 DEF WriteChunk, path, reader
  <2>2. x.of \in past /\ x.of \in current \cup strayed
    BY DEF BusyStrayed, Busy
  <2>3. /\ chunks' \in [Keys -> SUBSET past]
        /\ \A k \in Keys : chunks'[k] \subseteq chunks[k] \cup {x.of}
    BY <1>5, <2>2 DEF WriteChunk
  <2>4. ChunkTypes' /\ BusyStrayed' /\ NotYetUploaded'
    BY <2>1, <2>3 DEF BusyStrayed, Busy, NotYetUploaded
  <2>5. UploadLeavesNoOldChunk'
    BY <2>1, <2>2, <2>3 DEF UploadLeavesNoOldChunk
  <2>6. QED
    BY <2>4, <2>5
<1>6. ASSUME WipeChunks PROVE CInv'
  <2>1. PICK kept \in SUBSET Keys :
          /\ chunks' = [k \in Keys |-> IF k \in kept THEN chunks[k] ELSE {}]
          /\ strayed' = strayed \cup UNION {chunks[k] : k \in kept}
    BY <1>6 DEF WipeChunks
  <2>2. UNCHANGED <<writes, file, current, past, up>> /\ wipes' \in Nat
    BY <1>6 DEF WipeChunks, reader
  <2>3. ChunkTypes' /\ NotYetUploaded' /\ BusyStrayed'
    BY <2>1, <2>2 DEF NotYetUploaded, BusyStrayed, Busy
  <2>4. \A k \in Keys : chunks'[k] \subseteq strayed'
    BY <2>1
  <2>5. UploadLeavesNoOldChunk'
    BY <2>4 DEF UploadLeavesNoOldChunk
  <2>6. QED
    BY <2>3, <2>5
<1>7. ASSUME NEW v \in Versions, UploadFinishes(v) PROVE CInv'
  <2>1. /\ UNCHANGED <<chunks, writes, wipes, file>>
        /\ up' = [up EXCEPT ![v] = "finished"] /\ current' = {v}
        /\ past' = past \cup {v} /\ strayed' = strayed \cup (current \cap Busy)
    BY <1>7 DEF UploadFinishes, reader
  <2>2. ChunkTypes' /\ NotYetUploaded' /\ UploadLeavesNoOldChunk'
    BY <2>1 DEF NotYetUploaded, UploadLeavesNoOldChunk
  <2>3. BusyStrayed'
    BY <2>1 DEF BusyStrayed, Busy
  <2>4. QED
    BY <2>2, <2>3
<1>8. ASSUME NEW v \in Versions, UploadPublishes(v) PROVE CInv'
  <2>1. /\ UNCHANGED <<chunks, writes, file, current, past, strayed>>
        /\ wipes' = wipes + 1 /\ up[v] # "no"
        /\ up' = [up EXCEPT ![v] = "published"]
    BY <1>8 DEF UploadPublishes, reader
  <2>2. ChunkTypes' /\ NotYetUploaded' /\ UploadLeavesNoOldChunk'
    BY <2>1 DEF NotYetUploaded, UploadLeavesNoOldChunk
  <2>3. BusyStrayed'
    BY <2>1 DEF BusyStrayed, Busy
  <2>4. QED
    BY <2>2, <2>3
<1>9. ASSUME NEW v \in Versions, MovesIn(v) PROVE CInv'
  <2>1. /\ UNCHANGED <<chunks, writes, wipes, file, up, strayed>>
        /\ current = {} /\ v \notin past
        /\ current' = {v} /\ past' = past \cup {v}
    BY <1>9 DEF MovesIn, reader
  <2>2. up'[v] = "no"
    BY <2>1 DEF NotYetUploaded
  <2>3. ChunkTypes' /\ NotYetUploaded' /\ UploadLeavesNoOldChunk'
    BY <2>1, <2>2 DEF NotYetUploaded, UploadLeavesNoOldChunk
  <2>4. BusyStrayed'
    BY <2>1 DEF BusyStrayed, Busy
  <2>5. QED
    BY <2>3, <2>4
<1>10. ASSUME Leaves PROVE CInv'
  BY <1>10 DEF Leaves, reader, BusyStrayed, Busy, NotYetUploaded,
               UploadLeavesNoOldChunk
<1>11. ASSUME Restart PROVE CInv'
  <2>1. /\ writes' = {} /\ wipes' = 0
        /\ file' = [r \in Readers |-> {}]
        /\ up' = [v \in Versions |-> IF up[v] = "finished" THEN "gone" ELSE up[v]]
        /\ strayed' = strayed \cup (IF wipes > 0 THEN past ELSE {})
        /\ UNCHANGED <<chunks, current, past>>
    BY <1>11 DEF Restart
  <2>2. ChunkTypes' /\ NotYetUploaded'
    BY <2>1 DEF NotYetUploaded
  <2>3. BusyStrayed'
    BY <2>1 DEF BusyStrayed, Busy
  <2>4. CASE wipes > 0
    BY <2>1, <2>2, <2>3, <2>4 DEF UploadLeavesNoOldChunk
  <2>5. CASE wipes = 0
    BY <2>1, <2>2, <2>3, <2>5 DEF UploadLeavesNoOldChunk
  <2>6. QED
    BY <2>4, <2>5
<1>12. ASSUME UNCHANGED vars PROVE CInv'
  BY <1>12 DEF vars, BusyStrayed, Busy, NotYetUploaded, UploadLeavesNoOldChunk
<1>13. QED
  BY <1>1, <1>2, <1>3, <1>4, <1>5, <1>6, <1>7, <1>8, <1>9, <1>10, <1>11, <1>12
     DEF Next, DiskTask, PathChanges

-----------------------------------------------------------------------------
\* The invariant of a read.

Waiting == {"lock", "age", "fetch"}

\* Read rd of version v is at a chunk of its range, and each byte before that chunk
\* is the byte of its position in some version.
Covers(rd, v) ==
    /\ rd = [from |-> rd.from, to |-> rd.to, idx |-> rd.idx, buf |-> rd.buf]
    /\ rd.from \in Nat /\ rd.to \in Nat /\ rd.idx \in Nat
    /\ rd.from < rd.to /\ rd.to <= Size[v]
    /\ rd.from < (rd.idx + 1) * ChunkSize /\ rd.idx * ChunkSize < rd.to
    /\ DOMAIN rd.buf = 0 .. (rd.to - rd.from - 1)
    /\ \A b \in DOMAIN rd.buf :
         rd.from + b < rd.idx * ChunkSize => \E w \in past : rd.buf[b] = {<<w, rd.from + b>>}

\* What a reader has opened, and how far its read has come.
Reading(r) ==
    /\ pc[r] # "closed" => \E v \in past : file[r] = {v}
    /\ pc[r] \in Waiting => \A v \in file[r] : Covers(read[r], v)

Reads == \A r \in Readers : Reading(r)

\* The types ChunkTypes leaves out.
ReadTypes ==
    /\ pc \in [Readers -> {"closed", "open"} \cup Waiting]
    /\ read = [r \in Readers |-> read[r]] /\ ans = [r \in Readers |-> ans[r]]
    /\ tries \in [Readers -> 0 .. 1] /\ data \in [Readers -> SUBSET past]
    /\ chunks \in [Keys -> {{}} \cup {{v} : v \in past}]
    /\ \A x \in writes : x.key \in Keys
    /\ strayed \subseteq past

Locks == [Starts -> Seq(Readers)]

\* k has one place in q; k is the first in q.
InLine(q, k)  == \E i \in 1 .. Len(q) : Places(q, k) = {i}
IsFirst(q, k) == q # <<>> /\ Head(q) = k

\* Whoever needs a chunk has one place in the line for its lock, and no other.
Needs(k, s) == pc[k] \in Waiting /\ StartOf(k) = s

Lines ==
    /\ chunk_locks \in Locks
    /\ \A k \in Readers, s \in Starts :
         /\ Needs(k, s) => InLine(chunk_locks[s], k)
         /\ ~Needs(k, s) => Places(chunk_locks[s], k) = {}
    /\ \A k \in Readers : pc[k] \in {"age", "fetch"} => IsFirst(chunk_locks[StartOf(k)], k)

RdInv == ReadTypes /\ Reads /\ ReadExact /\ Lines

-----------------------------------------------------------------------------
\* Lines for a lock.

LEMMA RemoveAtProperties ==
  ASSUME NEW S, NEW q \in Seq(S), NEW i \in 1 .. Len(q)
  PROVE  /\ RemoveAt(q, i) \in Seq(S) /\ Len(RemoveAt(q, i)) = Len(q) - 1
         /\ \A j \in 1 .. (Len(q) - 1) :
              RemoveAt(q, i)[j] = IF j < i THEN q[j] ELSE q[j + 1]
<1> DEFINE a == SubSeq(q, 1, i - 1)
           b == SubSeq(q, i + 1, Len(q))
<1>1. a \in Seq(S) /\ Len(a) = i - 1 /\ \A j \in 1 .. (i - 1) : a[j] = q[j]
  BY SubSeqProperties
<1>2. b \in Seq(S) /\ Len(b) = Len(q) - i /\ \A j \in 1 .. (Len(q) - i) : b[j] = q[i + j]
  BY SubSeqProperties
<1>3. RemoveAt(q, i) = a \o b
  BY DEF RemoveAt
<1> HIDE DEF a, b
<1>4. /\ a \o b \in Seq(S) /\ Len(a \o b) = Len(a) + Len(b)
      /\ \A j \in 1 .. Len(a) + Len(b) :
           (a \o b)[j] = IF j <= Len(a) THEN a[j] ELSE b[j - Len(a)]
  BY <1>1, <1>2, ConcatProperties
<1>5. Len(q) \in Nat /\ i \in Int /\ Len(a) + Len(b) = Len(q) - 1
  BY <1>1, <1>2
<1>6. ASSUME NEW j \in 1 .. (Len(q) - 1)
      PROVE  (a \o b)[j] = IF j < i THEN q[j] ELSE q[j + 1]
  <2>1. CASE j < i
    <3>1. j \in 1 .. (i - 1) /\ j <= Len(a) /\ j \in 1 .. Len(a) + Len(b)
      BY <1>1, <1>5, <2>1
    <3>2. QED
      BY <1>1, <1>4, <2>1, <3>1
  <2>2. CASE ~(j < i)
    <3>1. /\ j - Len(a) \in 1 .. (Len(q) - i) /\ ~(j <= Len(a))
          /\ j \in 1 .. Len(a) + Len(b) /\ i + (j - Len(a)) = j + 1
      BY <1>1, <1>5, <2>2
    <3>2. QED
      BY <1>2, <1>4, <2>2, <3>1
  <2>3. QED
    BY <2>1, <2>2
<1>7. QED
  BY <1>3, <1>4, <1>5, <1>6

\* Who leaves a line keeps the others in it, in their order.
LEMMA LineLeft ==
  ASSUME NEW q \in Seq(Readers), NEW r \in Readers, NEW i \in 1 .. Len(q), Places(q, r) = {i}
  PROVE  /\ RemoveAt(q, i) \in Seq(Readers)
         /\ Places(RemoveAt(q, i), r) = {}
         /\ \A k \in Readers \ {r} :
              /\ Places(q, k) = {} => Places(RemoveAt(q, i), k) = {}
              /\ InLine(q, k) => InLine(RemoveAt(q, i), k)
              /\ q # <<>> /\ Head(q) = k => /\ RemoveAt(q, i) # <<>>
                                            /\ Head(RemoveAt(q, i)) = k
<1> DEFINE l == RemoveAt(q, i)
<1>1. /\ l \in Seq(Readers) /\ Len(l) = Len(q) - 1
      /\ \A j \in 1 .. (Len(q) - 1) : l[j] = IF j < i THEN q[j] ELSE q[j + 1]
  BY RemoveAtProperties
<1> HIDE DEF l
<1>2. q[i] = r /\ \A j \in 1 .. Len(q) : q[j] = r => j = i
  BY DEF Places
<1>3. Places(l, r) = {}
  BY <1>1, <1>2 DEF Places
<1>4. ASSUME NEW k \in Readers \ {r}
      PROVE  /\ Places(q, k) = {} => Places(l, k) = {}
             /\ InLine(q, k) => InLine(l, k)
             /\ q # <<>> /\ Head(q) = k => l # <<>> /\ Head(l) = k
  <2>1. ASSUME Places(q, k) = {} PROVE Places(l, k) = {}
    <3>1. \A j \in 1 .. Len(q) : q[j] # k
      BY <2>1 DEF Places
    <3>2. ASSUME NEW j \in 1 .. Len(l) PROVE l[j] # k
      <4>1. j \in 1 .. Len(q) /\ j + 1 \in 1 .. Len(q) /\ l[j] \in {q[j], q[j + 1]}
        BY <1>1
      <4>2. QED
        BY <3>1, <4>1
    <3>3. QED
      BY <3>2 DEF Places
  <2>2. ASSUME InLine(q, k) PROVE InLine(l, k)
    <3>1. PICK j \in 1 .. Len(q) : Places(q, k) = {j}
      BY <2>2 DEF InLine
    <3>2. q[j] = k /\ j # i /\ \A x \in 1 .. Len(q) : q[x] = k => x = j
      BY <1>2, <1>4, <3>1 DEF Places
    <3>3. CASE j < i
      <4>1. j \in 1 .. Len(l) /\ l[j] = k
        BY <1>1, <3>2, <3>3
      <4>2. ASSUME NEW x \in 1 .. Len(l), l[x] = k PROVE x = j
        BY <1>1, <3>2, <3>3, <4>2
      <4>3. Places(l, k) = {j}
        BY <4>1, <4>2 DEF Places
      <4>4. QED
        BY <4>1, <4>3 DEF InLine
    <3>4. CASE j > i
      <4>1. j - 1 \in 1 .. Len(l) /\ l[j - 1] = k
        BY <1>1, <3>2, <3>4
      <4>2. ASSUME NEW x \in 1 .. Len(l), l[x] = k PROVE x = j - 1
        BY <1>1, <3>2, <3>4, <4>2
      <4>3. Places(l, k) = {j - 1}
        BY <4>1, <4>2 DEF Places
      <4>4. QED
        BY <4>1, <4>3 DEF InLine
    <3>5. QED
      BY <3>2, <3>3, <3>4
  <2>3. ASSUME q # <<>>, Head(q) = k PROVE l # <<>> /\ Head(l) = k
    <3>1. 1 \in 1 .. Len(q) /\ q[1] = k
      BY <2>3
    <3>2. i # 1 /\ Len(l) >= 1
      BY <1>1, <1>2, <1>4, <3>1
    <3>3. l[1] = k
      BY <1>1, <3>1, <3>2
    <3>4. QED
      BY <1>1, <3>2, <3>3
  <2>4. QED
    BY <2>1, <2>2, <2>3
<1>5. QED
  BY <1>1, <1>3, <1>4 DEF l

\* Who joins a line is behind the others.
LEMMA LineJoined ==
  ASSUME NEW q \in Seq(Readers), NEW r \in Readers, Places(q, r) = {}
  PROVE  /\ Append(q, r) \in Seq(Readers)
         /\ InLine(Append(q, r), r)
         /\ \A k \in Readers \ {r} :
              /\ Places(q, k) = {} => Places(Append(q, r), k) = {}
              /\ InLine(q, k) => InLine(Append(q, r), k)
              /\ q # <<>> /\ Head(q) = k => Append(q, r) # <<>> /\ Head(Append(q, r)) = k
<1> DEFINE l == Append(q, r)
<1>1. /\ l \in Seq(Readers) /\ Len(l) = Len(q) + 1 /\ Len(q) \in Nat
      /\ l[Len(q) + 1] = r /\ \A j \in 1 .. Len(q) : l[j] = q[j]
  OBVIOUS
<1> HIDE DEF l
<1>2. Places(l, r) = {Len(q) + 1} /\ Len(q) + 1 \in 1 .. Len(l)
  BY <1>1 DEF Places
<1>3. \A k \in Readers \ {r} : Places(l, k) = Places(q, k)
  BY <1>1 DEF Places
<1>4. ASSUME NEW k \in Readers, q # <<>>, Head(q) = k PROVE l # <<>> /\ Head(l) = k
  <2>1. Len(q) >= 1 /\ q[1] = k
    BY <1>4
  <2>2. Len(l) >= 1 /\ l[1] = k
    BY <1>1, <2>1
  <2>3. QED
    BY <1>1, <2>2
<1>5. \A k \in Readers \ {r} : InLine(q, k) => InLine(l, k)
  BY <1>1, <1>3 DEF InLine
<1>6. QED
  BY <1>1, <1>2, <1>3, <1>4, <1>5 DEF l, InLine

\* Without: r is in no line any more, and the others are where they were.
LEMMA WithoutLeaves ==
  ASSUME NEW locks \in Locks, NEW r \in Readers,
         \A s \in Starts : Places(locks[s], r) = {} \/ InLine(locks[s], r)
  PROVE  /\ Without(locks, r) \in Locks
         /\ \A s \in Starts :
              /\ Places(Without(locks, r)[s], r) = {}
              /\ \A k \in Readers \ {r} :
                   /\ Places(locks[s], k) = {} => Places(Without(locks, r)[s], k) = {}
                   /\ InLine(locks[s], k) => InLine(Without(locks, r)[s], k)
                   /\ IsFirst(locks[s], k) => IsFirst(Without(locks, r)[s], k)
<1>1. ASSUME NEW s \in Starts
      PROVE  /\ Without(locks, r)[s] \in Seq(Readers)
             /\ Places(Without(locks, r)[s], r) = {}
             /\ \A k \in Readers \ {r} :
                  /\ Places(locks[s], k) = {} => Places(Without(locks, r)[s], k) = {}
                  /\ InLine(locks[s], k) => InLine(Without(locks, r)[s], k)
                  /\ IsFirst(locks[s], k) => IsFirst(Without(locks, r)[s], k)
  <2>1. locks[s] \in Seq(Readers)
    BY DEF Locks
  <2>2. CASE Places(locks[s], r) = {}
    BY <2>1, <2>2 DEF Without
  <2>3. CASE InLine(locks[s], r)
    <3>1. PICK i \in 1 .. Len(locks[s]) : Places(locks[s], r) = {i}
      BY <2>3 DEF InLine
    <3>2. Without(locks, r)[s] = RemoveAt(locks[s], i)
      BY <3>1 DEF Without
    <3>3. QED
      BY <2>1, <3>1, <3>2, LineLeft DEF IsFirst
  <2>4. QED
    BY <2>2, <2>3
<1>2. Without(locks, r) \in Locks
  BY <1>1 DEF Without, Locks
<1>3. QED
  BY <1>1, <1>2

\* Queued: r is in line for the lock at c, and everybody else where they were.
LEMMA QueuedJoins ==
  ASSUME NEW locks \in Locks, NEW r \in Readers, NEW c \in Starts, Places(locks[c], r) = {}
  PROVE  /\ Queued(locks, r, c) \in Locks
         /\ InLine(Queued(locks, r, c)[c], r)
         /\ \A s \in Starts \ {c} : Queued(locks, r, c)[s] = locks[s]
         /\ \A s \in Starts : \A k \in Readers \ {r} :
              /\ Places(locks[s], k) = {} => Places(Queued(locks, r, c)[s], k) = {}
              /\ InLine(locks[s], k) => InLine(Queued(locks, r, c)[s], k)
              /\ IsFirst(locks[s], k) => IsFirst(Queued(locks, r, c)[s], k)
<1>1. locks[c] \in Seq(Readers)
  BY DEF Locks
<1>2. /\ Queued(locks, r, c)[c] = Append(locks[c], r)
      /\ \A s \in Starts \ {c} : Queued(locks, r, c)[s] = locks[s]
      /\ Queued(locks, r, c) \in Locks
  BY <1>1 DEF Queued, Locks
<1>3. /\ InLine(Append(locks[c], r), r)
      /\ \A k \in Readers \ {r} :
           /\ Places(locks[c], k) = {} => Places(Append(locks[c], r), k) = {}
           /\ InLine(locks[c], k) => InLine(Append(locks[c], r), k)
           /\ IsFirst(locks[c], k) => IsFirst(Append(locks[c], r), k)
  BY <1>1, LineJoined DEF IsFirst
<1>4. ASSUME NEW s \in Starts, NEW k \in Readers \ {r}
      PROVE  /\ Places(locks[s], k) = {} => Places(Queued(locks, r, c)[s], k) = {}
             /\ InLine(locks[s], k) => InLine(Queued(locks, r, c)[s], k)
             /\ IsFirst(locks[s], k) => IsFirst(Queued(locks, r, c)[s], k)
  <2>1. CASE s = c
    BY <1>2, <1>3, <2>1
  <2>2. CASE s # c
    BY <1>2, <2>2
  <2>3. QED
    BY <2>1, <2>2
<1>5. QED
  BY <1>2, <1>3, <1>4

\* What keeps Lines when r alone acts.
LEMMA LinesKept ==
  ASSUME Lines, NEW r \in Readers, chunk_locks' \in Locks,
         \A k \in Readers \ {r} : UNCHANGED <<pc[k], read[k]>>,
         \A k \in Readers \ {r}, s \in Starts :
              /\ Places(chunk_locks[s], k) = {} => Places(chunk_locks'[s], k) = {}
              /\ InLine(chunk_locks[s], k) => InLine(chunk_locks'[s], k),
         \A k \in Readers \ {r} : pc[k] \in Waiting =>
              (IsFirst(chunk_locks[StartOf(k)], k) => IsFirst(chunk_locks'[StartOf(k)], k)),
         \A s \in Starts : /\ Needs(r, s)' => InLine(chunk_locks'[s], r)
                           /\ ~Needs(r, s)' => Places(chunk_locks'[s], r) = {},
         pc'[r] \in {"age", "fetch"} => IsFirst(chunk_locks[StartOf(r)], r)'
  PROVE  Lines'
<1>1. \A k \in Readers \ {r} : StartOf(k)' = StartOf(k)
  BY DEF StartOf
<1>2. \A k \in Readers \ {r}, s \in Starts : Needs(k, s)' <=> Needs(k, s)
  BY <1>1 DEF Needs
<1>3. ASSUME NEW k \in Readers, NEW s \in Starts
      PROVE  /\ Needs(k, s)' => InLine(chunk_locks'[s], k)
             /\ ~Needs(k, s)' => Places(chunk_locks'[s], k) = {}
  BY <1>2 DEF Lines
<1>4. ASSUME NEW k \in Readers, pc'[k] \in {"age", "fetch"}
      PROVE  IsFirst(chunk_locks[StartOf(k)], k)'
  <2>1. CASE k = r
    BY <1>4, <2>1
  <2>2. CASE k # r
    <3>1. IsFirst(chunk_locks[StartOf(k)], k)
      BY <1>4, <2>2 DEF Lines
    <3>2. IsFirst(chunk_locks'[StartOf(k)], k)
      BY <1>4, <2>2, <3>1 DEF Waiting
    <3>3. QED
      BY <1>1, <2>2, <3>2 DEF IsFirst
  <2>3. QED
    BY <2>1, <2>2
<1>5. QED
  BY <1>3, <1>4 DEF Lines, InLine

-----------------------------------------------------------------------------
\* Chunks of a read.

LEMMA ChunkSizes ==
  ASSUME NEW n \in Nat
  PROVE  /\ n * ChunkSize \in Nat /\ (n + 1) * ChunkSize = (n * ChunkSize) + ChunkSize
         /\ n <= n * ChunkSize /\ ChunkSize \in Nat \ {0}
<1>1. ChunkSize \in Nat \ {0}
  BY SizesAssumption
<1>2. (n + 1) * ChunkSize = (n * ChunkSize) + ChunkSize /\ n * ChunkSize \in Nat
  BY <1>1
<1>3. n <= n * ChunkSize
  BY <1>1
<1>4. QED
  BY <1>1, <1>2, <1>3

\* The chunk byte s is in.
LEMMA ChunkOfByte ==
  ASSUME NEW s \in Nat
  PROVE  /\ s \div ChunkSize \in Nat
         /\ (s \div ChunkSize) * ChunkSize \in Nat /\ (s \div ChunkSize) * ChunkSize <= s
         /\ s < ((s \div ChunkSize) + 1) * ChunkSize
<1>1. ChunkSize \in Nat \ {0}
  BY SizesAssumption
<1> DEFINE q == s \div ChunkSize
<1>2. q \in Nat /\ (s % ChunkSize) \in 0 .. (ChunkSize - 1)
      /\ s = (ChunkSize * q) + (s % ChunkSize)
  BY <1>1
<1> HIDE DEF q
<1>3. (q + 1) * ChunkSize = (q * ChunkSize) + ChunkSize /\ q * ChunkSize = ChunkSize * q
      /\ q * ChunkSize \in Nat
  BY <1>1, <1>2
<1>4. q * ChunkSize <= s /\ s < (q + 1) * ChunkSize
  BY <1>1, <1>2, <1>3
<1>5. QED
  BY <1>2, <1>3, <1>4 DEF q

\* Whole chunks lie one behind the other.
LEMMA ChunksInOrder ==
  ASSUME NEW m \in Nat, NEW n \in Nat
  PROVE  /\ m <= n => m * ChunkSize <= n * ChunkSize
         /\ m * ChunkSize < n * ChunkSize => m < n
<1>1. ASSUME NEW x \in Nat, NEW y \in Nat, x <= y PROVE x * ChunkSize <= y * ChunkSize
  <2>1. /\ ChunkSize \in Nat /\ y - x \in Nat /\ (y - x) * ChunkSize \in Nat
        /\ x * ChunkSize \in Nat
    BY <1>1, SizesAssumption
  <2>2. y * ChunkSize = (x * ChunkSize) + ((y - x) * ChunkSize)
    BY <2>1
  <2>3. QED
    BY <2>1, <2>2
<1>2. QED
  BY <1>1, ChunkSizes

\* A chunk that begins within a version is one of it.
LEMMA ChunkNamed ==
  ASSUME NEW v \in Versions, NEW i \in Nat, i * ChunkSize < Size[v]
  PROVE  Key(v, i) \in Keys /\ i * ChunkSize \in Starts
<1>1. Size[v] \in Nat /\ i <= i * ChunkSize /\ i * ChunkSize \in Nat
  BY SizesAssumption, ChunkSizes
<1>2. i \in ChunksOf(v)
  BY <1>1 DEF ChunksOf
<1>3. Key(v, i) \in Keys
  BY <1>2 DEF Keys
<1>4. Key(v, i).start = i * ChunkSize
  BY DEF Key
<1>5. QED
  BY <1>3, <1>4 DEF Starts

\* The chunk a read is at is one of its version, with the name it is looked up by.
LEMMA AtChunk ==
  ASSUME ChunkTypes, NEW r \in Readers, NEW v \in past, file[r] = {v}, Covers(read[r], v)
  PROVE  /\ KeyOf(r) \in Keys /\ StartOf(r) \in Starts
         /\ KeyOf(r).len = ChunkLen(v, read[r].idx)
<1>1. v \in Versions /\ Size[v] \in Nat
  BY SizesAssumption DEF ChunkTypes
<1>2. read[r].idx \in Nat /\ read[r].idx * ChunkSize < Size[v]
  <2>1. read[r].idx * ChunkSize \in Nat
    BY ChunkSizes DEF Covers
  <2>2. QED
    BY <1>1, <2>1 DEF Covers
<1>3. KeyOf(r) = Key(v, read[r].idx)
  BY DEF KeyOf
<1>4. QED
  BY <1>1, <1>2, <1>3, ChunkNamed DEF Key, StartOf

\* The chunk is copied to its place, from whichever version its bytes are.
LEMMA CopiesChunk ==
  ASSUME NEW v \in past, Size[v] \in Nat, NEW rd, Covers(rd, v), NEW w \in past
  PROVE  LET buf == WithChunk(rd, rd.idx, w, ChunkLen(v, rd.idx))
         IN  /\ DOMAIN buf = DOMAIN rd.buf
             /\ \A b \in DOMAIN buf :
                  rd.from + b < (rd.idx + 1) * ChunkSize =>
                      \E u \in past : buf[b] = {<<u, rd.from + b>>}
<1> DEFINE start == rd.idx * ChunkSize
           len   == ChunkLen(v, rd.idx)
           lo    == Greater(rd.from, start)
           hi    == Lesser(rd.to, start + len)
           buf   == WithChunk(rd, rd.idx, w, ChunkLen(v, rd.idx))
<1>1. /\ start \in Nat /\ ChunkSize \in Nat \ {0}
      /\ (rd.idx + 1) * ChunkSize = start + ChunkSize
  BY ChunkSizes DEF Covers
<1>2. /\ rd.from \in Nat /\ rd.to \in Nat /\ rd.from < rd.to /\ rd.to <= Size[v]
      /\ start < rd.to /\ rd.from < start + ChunkSize
      /\ DOMAIN rd.buf = 0 .. (rd.to - rd.from - 1)
  BY <1>1 DEF Covers
<1>3. /\ len \in Nat
      /\ start + len = (IF start + ChunkSize < Size[v] THEN start + ChunkSize ELSE Size[v])
  BY <1>1, <1>2 DEF ChunkLen, Lesser
<1>4. /\ lo \in Nat /\ lo = IF rd.from > start THEN rd.from ELSE start
      /\ hi \in Nat /\ hi = IF rd.to < start + len THEN rd.to ELSE start + len
  BY <1>1, <1>2, <1>3 DEF Lesser, Greater
<1>5. buf = [b \in DOMAIN rd.buf |->
               IF b \in lo - rd.from .. hi - rd.from - 1
               THEN {<<w, start + ((lo - start) + (b - (lo - rd.from)))>>}
               ELSE rd.buf[b]]
  BY DEF WithChunk
<1> HIDE DEF start, len, lo, hi, buf
<1>6. ASSUME NEW b \in DOMAIN rd.buf, rd.from + b < start + ChunkSize
      PROVE  \E u \in past : buf[b] = {<<u, rd.from + b>>}
  <2>1. b \in Nat /\ b < rd.to - rd.from
    BY <1>2
  <2>2. CASE b \in lo - rd.from .. hi - rd.from - 1
    <3>1. buf[b] = {<<w, start + ((lo - start) + (b - (lo - rd.from)))>>}
      BY <1>5, <2>2
    <3>2. start + ((lo - start) + (b - (lo - rd.from))) = rd.from + b
      <4>1. start \in Int /\ lo \in Int /\ b \in Int /\ rd.from \in Int
        BY <1>1, <1>2, <1>4, <2>1
      <4>2. \A s, l, x, y \in Int : s + ((l - s) + (x - (l - y))) = y + x
        OBVIOUS
      <4>3. QED
        BY <4>1, <4>2
    <3>3. QED
      BY <3>1, <3>2
  <2>3. CASE b \notin lo - rd.from .. hi - rd.from - 1
    <3>1. rd.from + b < hi
      BY <1>1, <1>2, <1>3, <1>4, <1>6, <2>1
    <3>2. rd.from + b < start
      BY <1>1, <1>2, <1>4, <2>1, <2>3, <3>1
    <3>3. \E u \in past : rd.buf[b] = {<<u, rd.from + b>>}
      BY <3>2 DEF Covers, start
    <3>4. QED
      BY <1>5, <2>3, <3>3
  <2>4. QED
    BY <2>2, <2>3
<1>7. QED
  BY <1>1, <1>5, <1>6 DEF buf

-----------------------------------------------------------------------------
\* The steps.

\* A reader whose variables are left alone reads on.
LEMMA ReadingKept ==
  ASSUME NEW k \in Readers, Reading(k), UNCHANGED <<pc[k], read[k], file[k]>>,
         past \subseteq past'
  PROVE  Reading(k)'
  BY DEF Reading, Covers

LEMMA ExactKept ==
  ASSUME ReadExact, past \subseteq past',
         \A k \in Readers : ans'[k] = ans[k] \/ ans'[k] = {}
  PROVE  ReadExact'
  BY DEF ReadExact

\* Within a read nothing is in the wrong line.
LEMMA LeavesLines ==
  ASSUME Lines, NEW r \in Readers
  PROVE  /\ Without(chunk_locks, r) \in Locks
         /\ \A s \in Starts :
              /\ Places(Without(chunk_locks, r)[s], r) = {}
              /\ \A k \in Readers \ {r} :
                   /\ Places(chunk_locks[s], k) = {} =>
                        Places(Without(chunk_locks, r)[s], k) = {}
                   /\ InLine(chunk_locks[s], k) => InLine(Without(chunk_locks, r)[s], k)
                   /\ IsFirst(chunk_locks[s], k) => IsFirst(Without(chunk_locks, r)[s], k)
<1>1. \A s \in Starts : Places(chunk_locks[s], r) = {} \/ InLine(chunk_locks[s], r)
  BY DEF Lines
<1>2. chunk_locks \in Locks
  BY DEF Lines
<1>3. QED
  BY <1>1, <1>2, WithoutLeaves

\* Whoever is first in a line stands in that of a chunk.
LEMMA InStarts ==
  ASSUME ChunkTypes, Reads, NEW k \in Readers, pc[k] \in Waiting
  PROVE  StartOf(k) \in Starts
<1>1. PICK v \in past : file[k] = {v} /\ Covers(read[k], v)
  BY DEF Reads, Reading, Waiting
<1>2. QED
  BY <1>1, AtChunk

\* A reader that has left all lines, and is at no chunk.
LEMMA LinesLeft ==
  ASSUME ChunkTypes, Reads, Lines, NEW r \in Readers,
         \A k \in Readers \ {r} : UNCHANGED <<pc[k], read[k]>>,
         chunk_locks' = Without(chunk_locks, r), pc'[r] \notin Waiting
  PROVE  Lines'
<1>1. \A k \in Readers \ {r}, s \in Starts :
        /\ Places(chunk_locks[s], k) = {} => Places(chunk_locks'[s], k) = {}
        /\ InLine(chunk_locks[s], k) => InLine(chunk_locks'[s], k)
  BY LeavesLines
<1>2. ASSUME NEW k \in Readers \ {r}, IsFirst(chunk_locks[StartOf(k)], k), pc[k] \in Waiting
      PROVE  IsFirst(chunk_locks'[StartOf(k)], k)
  BY <1>2, InStarts, LeavesLines
<1>3. chunk_locks' \in Locks /\ \A s \in Starts : Places(chunk_locks'[s], r) = {}
  BY LeavesLines
<1>4. \A s \in Starts : ~Needs(r, s)'
  BY DEF Needs
<1>5. pc'[r] \notin {"age", "fetch"}
  BY DEF Waiting
<1>6. QED
  BY <1>1, <1>2, <1>3, <1>4, <1>5, LinesKept DEF Waiting

\* A reader that was in no line joins that of the chunk at c.
LEMMA LinesJoined ==
  ASSUME ChunkTypes, Reads, Lines, NEW r \in Readers, NEW c \in Starts,
         \A k \in Readers \ {r} : UNCHANGED <<pc[k], read[k]>>,
         chunk_locks' = Queued(Without(chunk_locks, r), r, c),
         pc'[r] = "lock", StartOf(r)' = c
  PROVE  Lines'
<1> DEFINE l == Without(chunk_locks, r)
<1>1. /\ l \in Locks
      /\ \A s \in Starts :
           /\ Places(l[s], r) = {}
           /\ \A k \in Readers \ {r} :
                /\ Places(chunk_locks[s], k) = {} => Places(l[s], k) = {}
                /\ InLine(chunk_locks[s], k) => InLine(l[s], k)
                /\ IsFirst(chunk_locks[s], k) => IsFirst(l[s], k)
  BY LeavesLines
<1>2. chunk_locks' = Queued(l, r, c)
  OBVIOUS
<1> HIDE DEF l
<1>3. /\ chunk_locks' \in Locks
      /\ InLine(chunk_locks'[c], r)
      /\ \A s \in Starts \ {c} : chunk_locks'[s] = l[s]
      /\ \A s \in Starts : \A k \in Readers \ {r} :
           /\ Places(l[s], k) = {} => Places(chunk_locks'[s], k) = {}
           /\ InLine(l[s], k) => InLine(chunk_locks'[s], k)
           /\ IsFirst(l[s], k) => IsFirst(chunk_locks'[s], k)
  <2>1. l \in Locks /\ Places(l[c], r) = {}
    BY <1>1
  <2>2. /\ Queued(l, r, c) \in Locks
        /\ InLine(Queued(l, r, c)[c], r)
        /\ \A s \in Starts \ {c} : Queued(l, r, c)[s] = l[s]
    BY <2>1, QueuedJoins
  <2>3. \A s \in Starts : \A k \in Readers \ {r} :
           /\ Places(l[s], k) = {} => Places(Queued(l, r, c)[s], k) = {}
           /\ InLine(l[s], k) => InLine(Queued(l, r, c)[s], k)
           /\ IsFirst(l[s], k) => IsFirst(Queued(l, r, c)[s], k)
    BY <2>1, QueuedJoins
  <2>4. QED
    BY <1>2, <2>2, <2>3
<1>4. \A k \in Readers \ {r}, s \in Starts :
        /\ Places(chunk_locks[s], k) = {} => Places(chunk_locks'[s], k) = {}
        /\ InLine(chunk_locks[s], k) => InLine(chunk_locks'[s], k)
        /\ IsFirst(chunk_locks[s], k) => IsFirst(chunk_locks'[s], k)
  BY <1>1, <1>3
<1>5. ASSUME NEW k \in Readers \ {r}, pc[k] \in Waiting, IsFirst(chunk_locks[StartOf(k)], k)
      PROVE  IsFirst(chunk_locks'[StartOf(k)], k)
  <2>1. StartOf(k) \in Starts
    BY <1>5, InStarts
  <2>2. QED
    BY <1>4, <1>5, <2>1
<1>6. \A s \in Starts : /\ Needs(r, s)' => InLine(chunk_locks'[s], r)
                        /\ ~Needs(r, s)' => Places(chunk_locks'[s], r) = {}
  <2>1. \A s \in Starts : Needs(r, s)' <=> s = c
    BY DEF Needs, Waiting
  <2>2. \A s \in Starts \ {c} : Places(chunk_locks'[s], r) = {}
    BY <1>1, <1>3
  <2>3. QED
    BY <1>3, <2>1, <2>2
<1>7. pc'[r] \notin {"age", "fetch"}
  OBVIOUS
<1>8. QED
  BY <1>3, <1>4, <1>5, <1>6, <1>7, LinesKept DEF Waiting

\* A chunk is taken, from whichever version: the read is answered, whole and exact,
\* or goes on with the next chunk and its lock.
LEMMA TakesChunk ==
  ASSUME ChunkTypes, RdInv, NEW r \in Readers, pc[r] \in {"age", "fetch"},
         NEW w \in past, TakeChunk(r, w), UNCHANGED past
  PROVE  /\ Reads' /\ ReadExact' /\ Lines'
         /\ pc' \in [Readers -> {"closed", "open"} \cup Waiting]
         /\ read' = [k \in Readers |-> read'[k]] /\ ans' = [k \in Readers |-> ans'[k]]
         /\ tries' \in [Readers -> 0 .. 1] /\ data' \in [Readers -> SUBSET past']
<1> USE DEF RdInv
<1>1. PICK v \in past : file[r] = {v} /\ Covers(read[r], v)
  BY DEF Reads, Reading, Waiting
<1>2. v \in Versions /\ Size[v] \in Nat /\ KeyOf(r).len = ChunkLen(v, read[r].idx)
  BY <1>1, SizesAssumption, AtChunk DEF ChunkTypes
<1> DEFINE rd   == read[r]
           buf  == WithChunk(rd, rd.idx, w, ChunkLen(v, rd.idx))
           next == rd.idx + 1
<1>3. /\ rd = [from |-> rd.from, to |-> rd.to, idx |-> rd.idx, buf |-> rd.buf]
      /\ rd.from \in Nat /\ rd.to \in Nat /\ rd.idx \in Nat
      /\ rd.from < rd.to /\ rd.to <= Size[v]
      /\ rd.from < next * ChunkSize
      /\ DOMAIN rd.buf = 0 .. (rd.to - rd.from - 1)
  BY <1>1 DEF Covers
<1>4. /\ DOMAIN buf = DOMAIN rd.buf
      /\ \A b \in DOMAIN buf :
           rd.from + b < next * ChunkSize => \E u \in past : buf[b] = {<<u, rd.from + b>>}
  BY <1>1, <1>2, CopiesChunk
<1>5. [rd EXCEPT !.buf = WithChunk(rd, rd.idx, w, KeyOf(r).len)]
        = [from |-> rd.from, to |-> rd.to, idx |-> rd.idx, buf |-> buf]
  BY <1>2, <1>3
<1>6. /\ tries' = [tries EXCEPT ![r] = 0] /\ data' = [data EXCEPT ![r] = {}]
      /\ UNCHANGED file
  BY DEF TakeChunk
<1>7. tries' \in [Readers -> 0 .. 1] /\ data' \in [Readers -> SUBSET past']
  BY <1>6 DEF ReadTypes
<1> HIDE DEF rd, buf
<1>8. next = rd.idx + 1 /\ next \in Nat /\ next * ChunkSize \in Nat
      /\ (next + 1) * ChunkSize = (next * ChunkSize) + ChunkSize /\ ChunkSize \in Nat \ {0}
  <2>1. next = rd.idx + 1 /\ next \in Nat
    BY <1>3
  <2>2. QED
    BY <2>1, ChunkSizes
<1> HIDE DEF next
<1>9. CASE /\ rd.idx < LastChunk(rd.to)
           /\ read' = [read EXCEPT ![r] =
                [[rd EXCEPT !.buf = WithChunk(rd, rd.idx, w, KeyOf(r).len)] EXCEPT !.idx = next]]
           /\ chunk_locks' = Queued(Without(chunk_locks, r), r, next * ChunkSize)
           /\ Goto(r, "lock") /\ UNCHANGED ans
  <2>1. /\ read' = [read EXCEPT ![r] = [from |-> rd.from, to |-> rd.to, idx |-> next,
                                         buf |-> buf]]
        /\ pc' = [pc EXCEPT ![r] = "lock"]
    <3>1. [[rd EXCEPT !.buf = WithChunk(rd, rd.idx, w, KeyOf(r).len)] EXCEPT !.idx = next]
            = [from |-> rd.from, to |-> rd.to, idx |-> next, buf |-> buf]
      <4>1. \A x : x = [from |-> rd.from, to |-> rd.to, idx |-> rd.idx, buf |-> buf] =>
              [x EXCEPT !.idx = next] = [from |-> rd.from, to |-> rd.to, idx |-> next, buf |-> buf]
        OBVIOUS
      <4>2. QED
        BY <1>5, <4>1
    <3>2. QED
      BY <1>9, <3>1 DEF Goto
  <2>2. /\ \A k \in Readers \ {r} : UNCHANGED <<pc[k], read[k], file[k]>>
        /\ pc'[r] = "lock" /\ file'[r] = {v}
        /\ read'[r] = [from |-> rd.from, to |-> rd.to, idx |-> next, buf |-> buf]
    BY <1>1, <1>6, <2>1 DEF ReadTypes
  <2>3. next * ChunkSize < rd.to
    <3>1. next <= LastChunk(rd.to) /\ rd.to - 1 \in Nat
      <4>1. rd.to - 1 \in Nat
        BY <1>3
      <4>2. LastChunk(rd.to) \in Nat
        BY <4>1, ChunkOfByte DEF LastChunk
      <4>3. QED
        BY <1>3, <1>9, <1>8, <4>1, <4>2
    <3>2. LastChunk(rd.to) \in Nat /\ LastChunk(rd.to) * ChunkSize <= rd.to - 1
      BY <3>1, ChunkOfByte DEF LastChunk
    <3>3. next * ChunkSize <= LastChunk(rd.to) * ChunkSize
      BY <1>8, <3>1, <3>2, ChunksInOrder
    <3>4. LastChunk(rd.to) * ChunkSize \in Nat
      BY <3>2, ChunkSizes
    <3>5. QED
      BY <1>3, <1>8, <3>2, <3>3, <3>4
  <2>4. rd.from < (next + 1) * ChunkSize
    BY <1>3, <1>8
  <2>5. Covers(read[r], v)'
    BY <1>3, <1>4, <1>8, <2>2, <2>3, <2>4 DEF Covers
  <2>6. Reads'
    BY <1>1, <2>2, <2>5, ReadingKept DEF Reads, Reading
  <2>7. StartOf(r)' = next * ChunkSize /\ next * ChunkSize \in Starts
    <3>1. next \in Nat /\ next * ChunkSize < Size[v]
      <4>1. rd.to <= Size[v] /\ rd.to \in Nat /\ Size[v] \in Nat
        BY <1>2, <1>3
      <4>2. QED
        BY <1>8, <2>3, <4>1
    <3>2. QED
      BY <1>2, <2>2, <3>1, ChunkNamed DEF StartOf
  <2>8. Lines'
    BY <1>9, <2>2, <2>7, LinesJoined
  <2>9. ReadExact'
    BY <1>9, ExactKept
  <2>10. QED
    BY <1>7, <1>9, <2>1, <2>6, <2>8, <2>9 DEF ReadTypes, Waiting
<1>10. CASE /\ rd.idx >= LastChunk(rd.to)
           /\ \E f \in file[r] :
                Answer(r, [rd EXCEPT !.buf = WithChunk(rd, rd.idx, w, KeyOf(r).len)], Size[f])
           /\ read' = [read EXCEPT ![r] = NoRead]
           /\ chunk_locks' = Without(chunk_locks, r)
           /\ Goto(r, "open")
  <2>1. ans' = [ans EXCEPT ![r] = {[from |-> rd.from, to |-> rd.to, size |-> Size[v],
                                     bytes |-> buf]}]
    BY <1>1, <1>5, <1>10 DEF Answer
  <2>2. /\ \A k \in Readers \ {r} : UNCHANGED <<pc[k], read[k], file[k]>>
        /\ pc' = [pc EXCEPT ![r] = "open"] /\ pc'[r] = "open" /\ file'[r] = {v}
    BY <1>1, <1>6, <1>10 DEF Goto, ReadTypes
  <2>3. rd.to <= next * ChunkSize
    <3>1. rd.to - 1 \in Nat
      BY <1>3
    <3>2. /\ LastChunk(rd.to) \in Nat /\ rd.to - 1 < (LastChunk(rd.to) + 1) * ChunkSize
      BY <3>1, ChunkOfByte DEF LastChunk
    <3>3. (LastChunk(rd.to) + 1) * ChunkSize <= next * ChunkSize
      <4>1. /\ rd.idx >= LastChunk(rd.to) /\ rd.idx \in Nat /\ next = rd.idx + 1
            /\ LastChunk(rd.to) \in Nat
        BY <1>3, <1>8, <1>10, <3>2
      <4>2. LastChunk(rd.to) + 1 \in Nat /\ LastChunk(rd.to) + 1 <= next
        BY <4>1
      <4>3. QED
        BY <1>8, <4>2, ChunksInOrder
    <3>4. (LastChunk(rd.to) + 1) * ChunkSize \in Nat
      BY <3>2, ChunkSizes
    <3>5. rd.to - 1 < next * ChunkSize
      BY <1>8, <3>1, <3>2, <3>3, <3>4
    <3>6. QED
      BY <1>3, <1>8, <3>5
  <2>4. ASSUME NEW b \in 0 .. rd.to - rd.from - 1
        PROVE  \E u \in past : buf[b] = {<<u, rd.from + b>>}
    <3>1. rd.from + b < rd.to /\ b \in DOMAIN buf
      BY <1>3, <1>4
    <3>2. rd.from + b < next * ChunkSize
      BY <1>3, <1>8, <2>3, <3>1
    <3>3. QED
      BY <1>4, <3>1, <3>2
  <2>5. ReadExact'
    <3>1. \A k \in Readers \ {r} : ans'[k] = ans[k]
      BY <2>1 DEF ReadTypes
    <3>2. ans'[r] = {[from |-> rd.from, to |-> rd.to, size |-> Size[v], bytes |-> buf]}
      BY <2>1 DEF ReadTypes
    <3>3. ASSUME NEW a \in ans'[r]
          PROVE  /\ a.from < a.to => a.to <= a.size
                 /\ \A b \in 0 .. a.to - a.from - 1 :
                      \E u \in past' : a.bytes[b] = {<<u, a.from + b>>}
      BY <1>3, <2>4, <3>2
    <3>4. QED
      BY <3>1, <3>3 DEF ReadExact
  <2>6. Reads'
    BY <2>2, ReadingKept DEF Reads, Reading, Waiting
  <2>7. Lines'
    BY <1>10, <2>2, LinesLeft DEF Waiting
  <2>8. QED
    BY <1>7, <1>10, <2>1, <2>2, <2>5, <2>6, <2>7 DEF ReadTypes, Waiting
<1>11. QED
  BY <1>9, <1>10 DEF TakeChunk, rd, next

\* Nobody joins or leaves a line, and only the first in a line gets its chunk.
LEMMA LinesSame ==
  ASSUME Lines, UNCHANGED <<chunk_locks, read>>,
         \A k \in Readers : /\ pc'[k] \in Waiting <=> pc[k] \in Waiting
                            /\ pc'[k] \in {"age", "fetch"} =>
                                 pc[k] \in {"age", "fetch"} \/ HasLock(k)
  PROVE  Lines'
<1>1. \A k \in Readers, s \in Starts : Needs(k, s)' <=> Needs(k, s)
  BY DEF Needs, StartOf
<1>2. \A k \in Readers : pc'[k] \in {"age", "fetch"} => IsFirst(chunk_locks[StartOf(k)], k)'
  BY DEF Lines, HasLock, IsFirst, StartOf
<1>3. QED
  BY <1>1, <1>2 DEF Lines, InLine

\* What only the path and the disk do leaves the readers alone.
LEMMA ReadersAlone ==
  ASSUME RdInv, UNCHANGED <<chunk_locks, reader>>, past \subseteq past',
         chunks' \in [Keys -> {{}} \cup {{v} : v \in past'}], writes' \subseteq writes,
         strayed' \subseteq past'
  PROVE  RdInv'
<1> USE DEF RdInv, reader
<1>1. Reads'
  BY ReadingKept DEF Reads
<1>2. ReadExact'
  BY ExactKept
<1>3. Lines'
  BY LinesSame
<1>4. ReadTypes'
  BY DEF ReadTypes
<1>5. QED
  BY <1>1, <1>2, <1>3, <1>4

LEMMA OpensFile ==
  ASSUME CInv, RdInv, NEW r \in Readers, Open(r)
  PROVE  RdInv'
<1> USE DEF RdInv
<1>1. PICK v \in past : /\ file' = [file EXCEPT ![r] = {v}]
                        /\ strayed' = strayed \cup ({v} \ current)
  BY DEF Open
<1>2. /\ UNCHANGED <<chunks, writes, chunk_locks, read, tries, data, past>>
      /\ pc[r] = "closed" /\ pc' = [pc EXCEPT ![r] = "open"]
      /\ ans' = [ans EXCEPT ![r] = {}]
  BY DEF Open, Goto
<1>3. /\ pc'[r] = "open" /\ file'[r] = {v}
      /\ \A k \in Readers \ {r} : UNCHANGED <<pc[k], read[k], file[k]>>
  BY <1>1, <1>2 DEF ReadTypes, CInv, ChunkTypes
<1>4. Reads'
  BY <1>2, <1>3, ReadingKept DEF Reads, Reading, Waiting
<1>5. ReadExact'
  BY <1>2, ExactKept DEF ReadTypes
<1>6. Lines'
  BY <1>2, <1>3, LinesSame DEF Waiting
<1>7. ReadTypes'
  BY <1>1, <1>2 DEF ReadTypes, Waiting
<1>8. QED
  BY <1>4, <1>5, <1>6, <1>7

LEMMA BeginsRead ==
  ASSUME CInv, RdInv, NEW r \in Readers, ReadBytes(r)
  PROVE  RdInv'
<1> USE DEF RdInv
<1>1. PICK v \in file[r], from \in Positions, count \in Counts :
        LET to == Lesser(from + count, Size[v])
        IN  \/ UNCHANGED <<pc, read, chunk_locks>>
            \/ /\ from < to
               /\ read' = [read EXCEPT ![r] =
                             [from |-> from, to |-> to, idx |-> FirstChunk(from),
                              buf |-> ZeroBytes(to - from)]]
               /\ chunk_locks' = Queued(chunk_locks, r, FirstChunk(from) * ChunkSize)
               /\ Goto(r, "lock")
  BY DEF ReadBytes
<1> DEFINE to  == Lesser(from + count, Size[v])
           idx == FirstChunk(from)
<1>2. /\ UNCHANGED <<chunks, writes, file, tries, data, past, strayed>>
      /\ pc[r] = "open" /\ ans' = [ans EXCEPT ![r] = {}]
  BY DEF ReadBytes, path
<1>3. ReadExact'
  BY <1>2, ExactKept DEF ReadTypes
<1>4. CASE UNCHANGED <<pc, read, chunk_locks>>
  <2>1. Reads'
    BY <1>2, <1>4, ReadingKept DEF Reads
  <2>2. Lines'
    BY <1>4, LinesSame
  <2>3. ReadTypes'
    BY <1>2, <1>4 DEF ReadTypes
  <2>4. QED
    BY <1>3, <2>1, <2>2, <2>3
<1>5. v \in past /\ v \in Versions /\ Size[v] \in Nat /\ from \in Nat /\ count \in Nat
  BY SizesAssumption DEF CInv, ChunkTypes
<1>6. to \in Nat /\ to <= Size[v]
  BY <1>5 DEF Lesser
<1>7. /\ idx \in Nat /\ idx * ChunkSize \in Nat /\ idx * ChunkSize <= from
      /\ from < (idx + 1) * ChunkSize
  BY <1>5, ChunkOfByte DEF FirstChunk
<1> HIDE DEF to, idx
<1>8. CASE /\ from < to
           /\ read' = [read EXCEPT ![r] = [from |-> from, to |-> to, idx |-> idx,
                                            buf |-> ZeroBytes(to - from)]]
           /\ chunk_locks' = Queued(chunk_locks, r, idx * ChunkSize)
           /\ Goto(r, "lock")
  <2>1. /\ read'[r] = [from |-> from, to |-> to, idx |-> idx, buf |-> ZeroBytes(to - from)]
        /\ pc'[r] = "lock" /\ file[r] = {v} /\ UNCHANGED file[r]
        /\ \A k \in Readers \ {r} : UNCHANGED <<pc[k], read[k], file[k]>>
    BY <1>2, <1>8 DEF Goto, ReadTypes, Reads, Reading
  <2>2. DOMAIN ZeroBytes(to - from) = 0 .. to - from - 1
    BY DEF ZeroBytes
  <2>3. \A b \in 0 .. to - from - 1 : ~(from + b < idx * ChunkSize)
    BY <1>5, <1>6, <1>7
  <2>4. idx * ChunkSize < to
    BY <1>5, <1>6, <1>7, <1>8
  <2>5. Covers(read[r], v)'
    <3>1. /\ read'[r].from = from /\ read'[r].to = to /\ read'[r].idx = idx
          /\ read'[r].buf = ZeroBytes(to - from)
      BY <2>1
    <3>2. read'[r] = [from |-> read'[r].from, to |-> read'[r].to, idx |-> read'[r].idx,
                      buf |-> read'[r].buf]
      BY <2>1
    <3>3. /\ read'[r].from \in Nat /\ read'[r].to \in Nat /\ read'[r].idx \in Nat
          /\ read'[r].from < read'[r].to /\ read'[r].to <= Size[v]
          /\ read'[r].from < (read'[r].idx + 1) * ChunkSize
          /\ read'[r].idx * ChunkSize < read'[r].to
      BY <1>5, <1>6, <1>7, <1>8, <2>4, <3>1
    <3>4. DOMAIN read'[r].buf = 0 .. (read'[r].to - read'[r].from - 1)
      BY <2>2, <3>1
    <3>5. \A b \in DOMAIN read'[r].buf : ~(read'[r].from + b < read'[r].idx * ChunkSize)
      BY <2>3, <3>1, <3>4
    <3>6. QED
      BY <3>2, <3>3, <3>4, <3>5 DEF Covers
  <2>6. Reads'
    BY <1>2, <1>5, <2>1, <2>5, ReadingKept DEF Reads, Reading
  <2>7. StartOf(r)' = idx * ChunkSize /\ idx * ChunkSize \in Starts
    <3>1. idx * ChunkSize < Size[v]
      BY <1>5, <1>6, <1>7, <2>4
    <3>2. QED
      BY <1>5, <1>7, <2>1, <3>1, ChunkNamed DEF StartOf
  <2>8. Without(chunk_locks, r) = chunk_locks
    <3>1. \A s \in Starts : Places(chunk_locks[s], r) = {}
      BY <1>2 DEF Lines, Needs, Waiting
    <3>2. QED
      BY <3>1 DEF Without, Lines, Locks
  <2>9. Lines'
    BY <1>8, <2>1, <2>7, <2>8, LinesJoined DEF CInv
  <2>10. ReadTypes'
    BY <1>2, <1>8 DEF ReadTypes, Goto, Waiting
  <2>11. QED
    BY <1>3, <2>6, <2>9, <2>10
<1>9. QED
  BY <1>1, <1>4, <1>8 DEF to, idx

LEMMA AtChunkReads ==
  ASSUME CInv, RdInv, NEW r \in Readers, ReadStep(r)
  PROVE  RdInv'
<1> USE DEF RdInv, path
<1>1. ASSUME pc[r] \in Waiting PROVE KeyOf(r) \in Keys /\ chunks[KeyOf(r)] \subseteq past
  <2>1. PICK v \in past : file[r] = {v} /\ Covers(read[r], v)
    BY <1>1 DEF Reads, Reading, Waiting
  <2>2. QED
    BY <2>1, AtChunk DEF CInv, ChunkTypes
<1>2. CASE ReadChunk(r)
  <2>1. /\ UNCHANGED <<chunks, writes, chunk_locks, file, read, tries, ans, past, strayed>>
        /\ data' = [data EXCEPT ![r] = chunks[KeyOf(r)]]
        /\ pc' \in {[pc EXCEPT ![r] = "fetch"], [pc EXCEPT ![r] = "age"]}
        /\ pc[r] = "lock" /\ HasLock(r)
    BY <1>2 DEF ReadChunk, Goto
  <2>2. Reads'
    BY <2>1, ReadingKept DEF Reads, Reading, ReadTypes, Waiting, Covers
  <2>3. ReadExact'
    BY <2>1, ExactKept
  <2>4. Lines'
    BY <2>1, LinesSame DEF ReadTypes, Waiting
  <2>5. ReadTypes'
    BY <1>1, <2>1 DEF ReadTypes, Waiting
  <2>6. QED
    BY <2>2, <2>3, <2>4, <2>5
<1>3. CASE Retry(r)
  <2>1. /\ UNCHANGED <<chunks, writes, chunk_locks, pc, file, read, data, ans, past, strayed>>
        /\ tries' = [tries EXCEPT ![r] = 1]
    BY <1>3 DEF Retry
  <2>2. Reads' /\ ReadExact'
    BY <2>1, ReadingKept, ExactKept DEF Reads
  <2>3. Lines'
    BY <2>1, LinesSame
  <2>4. ReadTypes'
    BY <2>1 DEF ReadTypes
  <2>5. QED
    BY <2>2, <2>3, <2>4
<1>4. CASE Fail(r)
  <2>1. /\ UNCHANGED <<chunks, writes, file, data, ans, past, strayed>>
        /\ chunk_locks' = Without(chunk_locks, r)
        /\ read' = [read EXCEPT ![r] = NoRead] /\ tries' = [tries EXCEPT ![r] = 0]
        /\ pc' = [pc EXCEPT ![r] = "open"] /\ pc[r] = "fetch"
    BY <1>4 DEF Fail, Goto
  <2>2. pc'[r] = "open" /\ \A k \in Readers \ {r} : UNCHANGED <<pc[k], read[k], file[k]>>
    BY <2>1 DEF ReadTypes
  <2>3. Reads'
    BY <2>1, <2>2, ReadingKept DEF Reads, Reading, Waiting
  <2>4. ReadExact'
    BY <2>1, ExactKept
  <2>5. Lines'
    BY <2>1, <2>2, LinesLeft DEF CInv, Waiting
  <2>6. ReadTypes'
    BY <2>1 DEF ReadTypes, Waiting
  <2>7. QED
    BY <2>3, <2>4, <2>5, <2>6
<1>5. CASE CheckAge(r)
  <2>1. pc[r] = "age" /\ UNCHANGED <<writes, past, strayed>>
    BY <1>5 DEF CheckAge
  <2>2. CASE /\ chunks' = [chunks EXCEPT ![KeyOf(r)] = {}]
             /\ data' = [data EXCEPT ![r] = {}]
             /\ Goto(r, "fetch")
             /\ UNCHANGED <<chunk_locks, file, read, tries, ans>>
    <3>1. Reads'
      BY <2>1, <2>2, ReadingKept DEF Goto, Reads, Reading, ReadTypes, Waiting, Covers
    <3>2. ReadExact'
      BY <2>1, <2>2, ExactKept
    <3>3. Lines'
      BY <2>1, <2>2, LinesSame DEF Goto, ReadTypes, Waiting
    <3>4. ReadTypes'
      BY <2>1, <2>2 DEF Goto, ReadTypes, Waiting
    <3>5. QED
      BY <3>1, <3>2, <3>3, <3>4
  <2>3. CASE (\E v \in data[r] : TakeChunk(r, v)) /\ UNCHANGED chunks
    <3>1. PICK v \in data[r] : TakeChunk(r, v)
      BY <2>3
    <3>2. v \in past
      BY DEF ReadTypes
    <3>3. /\ Reads' /\ ReadExact' /\ Lines'
          /\ pc' \in [Readers -> {"closed", "open"} \cup Waiting]
          /\ read' = [k \in Readers |-> read'[k]] /\ ans' = [k \in Readers |-> ans'[k]]
          /\ tries' \in [Readers -> 0 .. 1] /\ data' \in [Readers -> SUBSET past']
      BY <2>1, <3>1, <3>2, TakesChunk DEF CInv
    <3>4. ReadTypes'
      BY <2>1, <2>3, <3>3 DEF ReadTypes
    <3>5. QED
      BY <3>3, <3>4
  <2>4. QED
    BY <1>5, <2>2, <2>3 DEF CheckAge
<1>6. CASE Download(r)
  <2>1. PICK v \in file[r] : /\ writes' = writes \cup {[key |-> KeyOf(r), of |-> v]}
                             /\ TakeChunk(r, v)
    BY <1>6 DEF Download
  <2>2. pc[r] = "fetch" /\ UNCHANGED <<chunks, past, strayed>>
    BY <1>6 DEF Download
  <2>3. v \in past /\ KeyOf(r) \in Keys
    BY <1>1, <2>2 DEF CInv, ChunkTypes, Waiting
  <2>4. /\ Reads' /\ ReadExact' /\ Lines'
        /\ pc' \in [Readers -> {"closed", "open"} \cup Waiting]
        /\ read' = [k \in Readers |-> read'[k]] /\ ans' = [k \in Readers |-> ans'[k]]
        /\ tries' \in [Readers -> 0 .. 1] /\ data' \in [Readers -> SUBSET past']
    BY <2>1, <2>2, <2>3, TakesChunk DEF CInv
  <2>5. \A x \in writes' : x.key \in Keys
    BY <2>1, <2>3 DEF ReadTypes
  <2>6. ReadTypes'
    BY <2>2, <2>4, <2>5 DEF ReadTypes
  <2>7. QED
    BY <2>4, <2>6
<1>7. QED
  BY <1>2, <1>3, <1>4, <1>5, <1>6 DEF ReadStep

LEMMA ReadInvStep ==
  ASSUME CInv, RdInv, [Next]_vars
  PROVE  RdInv'
<1>1. ASSUME NEW r \in Readers, Open(r) \/ ReadBytes(r) \/ ReadStep(r) PROVE RdInv'
  BY <1>1, OpensFile, BeginsRead, AtChunkReads
<1>2. ASSUME NEW r \in Readers, Close(r) PROVE RdInv'
  <2> USE DEF RdInv
  <2>1. /\ UNCHANGED <<chunks, writes, past, strayed>>
        /\ chunk_locks' = Without(chunk_locks, r)
        /\ file' = [file EXCEPT ![r] = {}]
        /\ read' = [read EXCEPT ![r] = NoRead] /\ tries' = [tries EXCEPT ![r] = 0]
        /\ data' = [data EXCEPT ![r] = {}] /\ ans' = [ans EXCEPT ![r] = {}]
        /\ pc' = [pc EXCEPT ![r] = "closed"]
    BY <1>2 DEF Close, Goto, path
  <2>2. pc'[r] = "closed" /\ \A k \in Readers \ {r} : UNCHANGED <<pc[k], read[k], file[k]>>
    BY <2>1 DEF ReadTypes, CInv, ChunkTypes
  <2>3. Reads'
    BY <2>1, <2>2, ReadingKept DEF Reads, Reading, Waiting
  <2>4. ReadExact'
    BY <2>1, ExactKept DEF ReadTypes
  <2>5. Lines'
    BY <2>1, <2>2, LinesLeft DEF CInv, Waiting
  <2>6. ReadTypes'
    <3>1. pc' \in [Readers -> {"closed", "open"} \cup Waiting]
      BY <2>1 DEF ReadTypes
    <3>2. /\ read' = [k \in Readers |-> read'[k]] /\ ans' = [k \in Readers |-> ans'[k]]
          /\ data' \in [Readers -> SUBSET past']
      BY <2>1 DEF ReadTypes
    <3>3. tries' \in [Readers -> 0 .. 1]
      BY <2>1 DEF ReadTypes
    <3>4. chunks' \in [Keys -> {{}} \cup {{v} : v \in past'}]
      BY <2>1 DEF ReadTypes
    <3>5. (\A x \in writes' : x.key \in Keys) /\ strayed' \subseteq past'
      BY <2>1 DEF ReadTypes
    <3>6. QED
      BY <3>1, <3>2, <3>3, <3>4, <3>5 DEF ReadTypes
  <2>7. QED
    BY <2>3, <2>4, <2>5, <2>6
<1>3. ASSUME NEW x \in writes, WriteChunk(x) PROVE RdInv'
  <2>1. /\ UNCHANGED <<chunk_locks, reader, past, strayed>> /\ writes' \subseteq writes
        /\ chunks' = [chunks EXCEPT ![x.key] = {x.of}] \/ UNCHANGED chunks
    BY <1>3 DEF WriteChunk, path
  <2>2. x.of \in past
    BY DEF CInv, ChunkTypes
  <2>3. chunks' \in [Keys -> {{}} \cup {{v} : v \in past'}]
    BY <2>1, <2>2 DEF RdInv, ReadTypes
  <2>4. strayed' \subseteq past'
    BY <2>1 DEF RdInv, ReadTypes
  <2>5. QED
    BY <2>1, <2>3, <2>4, ReadersAlone
<1>4. CASE WipeChunks
  <2>1. PICK kept \in SUBSET Keys :
          /\ chunks' = [k \in Keys |-> IF k \in kept THEN chunks[k] ELSE {}]
          /\ strayed' = strayed \cup UNION {chunks[k] : k \in kept}
    BY <1>4 DEF WipeChunks
  <2>2. UNCHANGED <<writes, chunk_locks, reader, past>>
    BY <1>4 DEF WipeChunks
  <2>3. chunks' \in [Keys -> {{}} \cup {{v} : v \in past'}] /\ strayed' \subseteq past'
    BY <2>1, <2>2 DEF RdInv, ReadTypes
  <2>4. QED
    BY <2>2, <2>3, ReadersAlone
<1>5. ASSUME NEW v \in Versions, PathChanges(v) PROVE RdInv'
  <2>1. /\ UNCHANGED <<chunks, writes, chunk_locks, reader>> /\ past \subseteq past'
        /\ strayed' \subseteq strayed \cup current
    BY <1>5 DEF PathChanges, UploadFinishes, UploadPublishes, MovesIn
  <2>2. chunks' \in [Keys -> {{}} \cup {{u} : u \in past'}] /\ strayed' \subseteq past'
    BY <2>1 DEF RdInv, ReadTypes, CInv, ChunkTypes
  <2>3. QED
    BY <2>1, <2>2, ReadersAlone
<1>6. CASE Leaves
  <2>1. /\ UNCHANGED <<chunks, writes, chunk_locks, reader, past>>
        /\ strayed' \subseteq strayed \cup current
    BY <1>6 DEF Leaves
  <2>2. chunks' \in [Keys -> {{}} \cup {{u} : u \in past'}] /\ strayed' \subseteq past'
    BY <2>1 DEF RdInv, ReadTypes, CInv, ChunkTypes
  <2>3. QED
    BY <2>1, <2>2, ReadersAlone
<1>7. CASE Restart
  <2>1. Reads' /\ ReadExact'
    BY <1>7 DEF Restart, Reads, Reading, Waiting, ReadExact
  <2>2. /\ chunk_locks' = [s \in Starts |-> <<>>] /\ pc' = [r \in Readers |-> "closed"]
    BY <1>7 DEF Restart
  <2>3. Lines'
    <3>1. \A k \in Readers, s \in Starts : Places(chunk_locks'[s], k) = {} /\ ~Needs(k, s)'
      BY <2>2 DEF Places, Needs, Waiting
    <3>2. QED
      BY <2>2, <3>1 DEF Lines, Locks
  <2>4. ReadTypes'
    BY <1>7 DEF Restart, RdInv, ReadTypes, CInv, ChunkTypes
  <2>5. QED
    BY <2>1, <2>3, <2>4 DEF RdInv
<1>8. CASE UNCHANGED vars
  <2>1. UNCHANGED <<chunks, writes, chunk_locks, reader, past, strayed>>
    BY <1>8 DEF vars, reader
  <2>2. chunks' \in [Keys -> {{}} \cup {{u} : u \in past'}] /\ strayed' \subseteq past'
    BY <2>1 DEF RdInv, ReadTypes
  <2>3. QED
    BY <2>1, <2>2, ReadersAlone
<1>9. QED
  BY <1>1, <1>2, <1>3, <1>4, <1>5, <1>6, <1>7, <1>8 DEF Next, DiskTask

\* The invariant of reads, locks and the chunks on disk.
THEOREM ReadInvariant == Spec => [](CInv /\ RdInv)
<1>1. Init => CInv
  BY SizesAssumption
     DEF Init, CInv, ChunkTypes, BusyStrayed, Busy, NotYetUploaded,
         UploadLeavesNoOldChunk
<1>2. Init => RdInv
  <2> SUFFICES ASSUME Init PROVE RdInv
    OBVIOUS
  <2>1. Reads /\ ReadExact
    BY DEF Init, Reads, Reading, Waiting, ReadExact
  <2>2. Lines
    <3>1. \A k \in Readers, s \in Starts : Places(chunk_locks[s], k) = {} /\ ~Needs(k, s)
      BY DEF Init, Places, Needs, Waiting
    <3>2. QED
      BY <3>1 DEF Init, Lines, Locks
  <2>3. ReadTypes
    BY DEF Init, ReadTypes
  <2>4. QED
    BY <2>1, <2>2, <2>3 DEF RdInv
<1>3. CInv /\ RdInv /\ [Next]_vars => (CInv /\ RdInv)'
  BY ChunkStep, ReadInvStep
<1>4. QED
  BY <1>1, <1>2, <1>3, PTL DEF Spec

\* A read that succeeds has filled all it was asked for, for all sizes, chunk sizes
\* and ranges, and every byte is at its position in some version.
THEOREM ReadsAreExact == Spec => []ReadExact
<1>1. CInv /\ RdInv => ReadExact
  BY DEF RdInv
<1>2. QED
  BY <1>1, ReadInvariant, PTL

\* Chunk locks are with those who need them, however many readers come and go.
THEOREM LocksAreInOrder == Spec => []LockHolderWorks
<1>1. CInv /\ RdInv => LockHolderWorks
  <2> SUFFICES ASSUME CInv, RdInv PROVE LockHolderWorks
    OBVIOUS
  <2>1. ASSUME NEW r \in Readers, NEW s \in Starts
        PROVE  Cardinality(Places(chunk_locks[s], r)) =
                 IF pc[r] \in {"lock", "age", "fetch"} /\ StartOf(r) = s THEN 1 ELSE 0
    <3>1. CASE Needs(r, s)
      <4>1. PICK i \in 1 .. Len(chunk_locks[s]) : Places(chunk_locks[s], r) = {i}
        BY <3>1 DEF RdInv, Lines, InLine
      <4>2. Cardinality({i}) = 1
        BY FS_Singleton
      <4>3. QED
        BY <3>1, <4>1, <4>2 DEF Needs, Waiting
    <3>2. CASE ~Needs(r, s)
      <4>1. Places(chunk_locks[s], r) = {}
        BY <3>2 DEF RdInv, Lines
      <4>2. QED
        BY <3>2, <4>1, FS_EmptySet DEF Needs, Waiting
    <3>3. QED
      BY <3>1, <3>2
  <2>2. \A r \in Readers : pc[r] \in {"age", "fetch"} => HasLock(r)
    BY DEF RdInv, Lines, IsFirst, HasLock
  <2>3. QED
    BY <2>1, <2>2 DEF LockHolderWorks
<1>2. QED
  BY <1>1, ReadInvariant, PTL

\* The uploads that have invalidated the chunks.
Once == {v \in Versions : up[v] = "published"}

\* No more removals are under way than uploads have spawned.
Spawned == wipes <= Cardinality(Once)

LEMMA Subsets ==
  ASSUME IsFiniteSet(Versions), NEW S \in SUBSET Versions
  PROVE  /\ IsFiniteSet(S) /\ Cardinality(S) \in Nat
         /\ Cardinality(S) <= Cardinality(Versions) /\ Cardinality(Versions) \in Nat
         /\ \A v \in Versions \ S : Cardinality(S \cup {v}) = Cardinality(S) + 1
BY FS_Subset, FS_CardinalityType, FS_AddElement

\* With the uploads as they are, removals only get fewer.
LEMMA SpawnedStays ==
  ASSUME ChunkTypes, Spawned, UNCHANGED up, wipes' <= wipes, wipes' \in Nat,
         IsFiniteSet(Versions)
  PROVE  Spawned'
<1>1. Once' = Once
  BY DEF Once
<1>2. Once \subseteq Versions /\ wipes \in Nat
  BY DEF Once, ChunkTypes
<1>3. Cardinality(Once) \in Nat
  BY <1>2, Subsets
<1>4. Spawned' <=> wipes' <= Cardinality(Once)
  BY <1>1 DEF Spawned
<1> HIDE DEF Once
<1>5. QED
  BY <1>2, <1>3, <1>4 DEF Spawned

LEMMA SpawnedStep ==
  ASSUME ChunkTypes, Spawned, ChunkTypes', [Next]_vars, IsFiniteSet(Versions)
  PROVE  Spawned'
<1>1. Once \subseteq Versions /\ wipes \in Nat /\ wipes' \in Nat
  BY DEF Once, ChunkTypes
<1>2. Cardinality(Once) \in Nat
  BY <1>1, Subsets
<1>3. CASE UNCHANGED up /\ wipes' <= wipes
  BY <1>1, <1>3, SpawnedStays
<1>4. ASSUME NEW v \in Versions, UploadPublishes(v) PROVE Spawned'
  <2>1. up[v] = "finished" /\ up' = [up EXCEPT ![v] = "published"] /\ wipes' = wipes + 1
    BY <1>4 DEF UploadPublishes
  <2>2. v \in Versions \ Once /\ Once' = Once \cup {v}
    BY <2>1 DEF Once, ChunkTypes
  <2>3. Cardinality(Once') = Cardinality(Once) + 1
    BY <1>1, <2>2, Subsets
  <2>4. QED
    BY <2>1, <2>3, <1>1, <1>2 DEF Spawned
<1>5. ASSUME NEW v \in Versions, UploadFinishes(v) PROVE Spawned'
  <2>1. up[v] = "no" /\ up' = [up EXCEPT ![v] = "finished"] /\ wipes' = wipes
    BY <1>5 DEF UploadFinishes
  <2>2. Once' = Once
    BY <2>1 DEF Once, ChunkTypes
  <2>3. QED
    BY <2>1, <2>2 DEF Spawned
<1>6. CASE Restart
  <2>1. Once' \subseteq Versions /\ wipes' = 0
    BY <1>6 DEF Once, Restart
  <2>2. Cardinality(Once') \in Nat
    BY <2>1, Subsets
  <2>3. QED
    BY <2>1, <2>2 DEF Spawned
<1>7. CASE DiskTask
  <2>1. UNCHANGED up /\ wipes' <= wipes
    BY <1>7, <1>1 DEF DiskTask, WipeChunks, WriteChunk, path
  <2>2. QED
    BY <2>1, <1>3
<1>8. ASSUME NEW r \in Readers, Open(r) \/ ReadBytes(r) \/ ReadStep(r) \/ Close(r)
      PROVE  Spawned'
  <2>1. up' = up /\ wipes' = wipes
    BY <1>8 DEF Open, ReadBytes, ReadStep, ReadChunk, CheckAge, Download, Retry, Fail,
                Close, path
  <2>2. QED
    BY <2>1, <1>1, <1>3
<1>9. ASSUME Leaves \/ (\E v \in Versions : MovesIn(v)) \/ UNCHANGED vars PROVE Spawned'
  <2>1. up' = up /\ wipes' = wipes
    BY <1>9 DEF Leaves, MovesIn, vars
  <2>2. QED
    BY <2>1, <1>1, <1>3
<1>10. QED
  BY <1>4, <1>5, <1>6, <1>7, <1>8, <1>9 DEF Next, PathChanges

\* Type correctness for every set of readers, every finite set of versions and all
\* sizes; in particular no more removals of the path's chunks are ever under way
\* than one for each upload.
THEOREM ReadTypeCorrect ==
  ASSUME IsFiniteSet(Versions)
  PROVE  Spec => []TypeOK
<1>1. Init => Spawned
  <2>1. Once \subseteq Versions
    BY DEF Once
  <2>2. Cardinality(Once) \in Nat
    BY <2>1, Subsets
  <2>3. QED
    BY <2>2 DEF Init, Spawned
<1>2. CInv /\ CInv' /\ Spawned /\ [Next]_vars => Spawned'
  BY SpawnedStep DEF CInv
<1>3. CInv /\ RdInv /\ Spawned => TypeOK
  <2> SUFFICES ASSUME CInv, RdInv, Spawned PROVE TypeOK
    OBVIOUS
  <2>1. wipes \in 0 .. Cardinality(Versions)
    <3>1. Once \subseteq Versions /\ wipes \in Nat
      BY DEF Once, CInv, ChunkTypes
    <3>2. /\ Cardinality(Once) \in Nat /\ Cardinality(Versions) \in Nat
          /\ Cardinality(Once) <= Cardinality(Versions)
      BY <3>1, Subsets
    <3> HIDE DEF Once
    <3>3. QED
      BY <3>1, <3>2 DEF Spawned
  <2>2. QED
    BY <2>1 DEF CInv, ChunkTypes, RdInv, ReadTypes, Lines, Locks, Waiting, TypeOK
<1>4. QED
  BY <1>1, <1>2, <1>3, ReadInvariant, PTL DEF Spec

\* An upload that is through has taken the chunks of earlier versions with it,
\* for every set of readers and versions, all sizes and chunk sizes, whatever
\* order reads, spawned writes, removals, restarts and changes come in; what can
\* be left is of a version that was in use after it had left the path.
THEOREM UploadTakesOldChunks == Spec => []UploadLeavesNoOldChunk
<1>1. CInv /\ RdInv => UploadLeavesNoOldChunk
  BY DEF CInv
<1>2. QED
  BY <1>1, ReadInvariant, PTL

-----------------------------------------------------------------------------
\* The GET that reads (GetFile): what it finds stored, or downloads and stores, chunk
\* by chunk is what the reads above get.

\* What lookups find at the path: a file that is or was there, an entry with the
\* size and the body of such a file or without fid and body, and a placeholder with
\* the size of the file to come or none.
PlaceTrue ==
    /\ listed # None => listed \in Present
    /\ entry # None =>
         /\ entry.fid = NoFid => entry.body = None
         /\ entry.fid # NoFid => /\ entry.fid \in Present /\ entry.size = SizeOf[entry.fid]
                                 /\ entry.body \in {None, entry.fid}
    /\ uploading # None => uploading.size \in {0, SizeOf[uploading.fid]}

\* Where a GET stands before its body is read, from the open on, and from the
\* headers on.
Before  == {"idle", "backend", "open", "headers", "digest", "md5"}
Told    == {"headers", "digest", "md5", "body", "fetch", "download", "sent"}
Started == {"digest", "md5", "body", "fetch", "download", "sent"}

\* Digests: the drive knows the md5 of a file as that file's; a lookup finds what has
\* been opened, unless something has changed.
DigestTrue ==
    /\ \A f \in Fids : md5_cache[f] \in {None, f}
    /\ get \in Before => digest = None
    /\ get \in Told /\ ~moved => listed \in {None, opened.fid}
    /\ get = "md5" => digest_fid # None /\ (digest_fid = opened.fid \/ moved)
    /\ DigestOfBody

\* The file that has been opened, or the one to come that a placeholder stands for,
\* where nothing else was registered at its path.
Source == IF opened.fid = NoFid THEN opened.coming ELSE opened.fid
Sound  == opened.fid = NoFid => ~overtaken

\* What has been opened: a file that is or was there, with its size, or a placeholder
\* with that of the file to come, which then is the only one registered.
FileTrue ==
    get \in Told =>
        /\ opened.fid # NoFid => opened.fid \in Present /\ opened.size = SizeOf[opened.fid]
        /\ opened.fid = NoFid =>
             /\ opened.coming # None => opened.size \in {0, SizeOf[opened.coming]}
             /\ ~overtaken /\ entry # None => entry.body \in {None, opened.coming}

\* What is stored at a position is the chunk there of a file that is or was at the path.
DiskTrue == ~ignored => \A x \in disk : \E g \in Present : x[2] = <<g, x[1]>>

\* Where the part begins and ends.
Start == IF range = None THEN 0 ELSE range[1]
Stop  == IF range = None THEN opened.size ELSE AtMost(range[1] + range[2], opened.size)

\* A chunk sent for position n: that of the source, or one stored there.
Right(u, n) ==
    u = <<Source, n>> \/ \E g \in Present : u = <<g, n>> /\ <<n, u>> \in disk

\* What has been sent reaches from the start to the position, with a right chunk for
\* each place.
SentSoFar ==
    /\ Start <= pos /\ (Start <= end => pos <= end)
    /\ Len(body) = pos - Start
    /\ \A i \in 1 .. Len(body) : Right(body[i], Start + i - 1)
    /\ pos # Start => Source \in Present

BodyTrue ==
    /\ get \in Before => body = <<>>
    /\ get \in Started =>
         /\ end = Stop
         /\ range # None => Start < opened.size
         /\ ~ignored /\ Sound => SentSoFar
    /\ get = "sent" => pos >= end

\* A chunk is given up at its second download.
Counted == get # "cut" => retries <= 1

\* The types, and what the calls of read_bytes and of the md5 find.
GetTypes ==
    /\ GetTypeOK /\ Counted
    /\ get = "md5" => digest_fid # None
    /\ get \in {"fetch", "download"} => pos < end /\ opened.fid # NoFid

\* The inductive invariant.
GetInv == GetTypes /\ PlaceTrue /\ DigestTrue /\ FileTrue /\ DiskTrue /\ BodyTrue

-----------------------------------------------------------------------------
\* The lesser of two numbers.
LEMMA AtMostIs ==
  ASSUME NEW m \in Nat, NEW n \in Nat
  PROVE  /\ AtMost(m, n) \in {m, n} /\ AtMost(m, n) <= m /\ AtMost(m, n) <= n
         /\ AtMost(m, n) \in Nat
BY DEF AtMost

\* The chunks of part of a file.
LEMMA UnitsAre ==
  ASSUME NEW f, NEW a \in Nat, NEW n \in Nat
  PROVE  /\ Len(Units(f, a, n)) = n
         /\ \A i \in 1 .. n : Units(f, a, n)[i] = <<f, a + i - 1>>
<1>1. Units(f, a, n) \in Seq({f} \X Nat)
  <2>1. \A i \in 1 .. n : a + i - 1 \in Nat
    OBVIOUS
  <2>2. QED
    BY <2>1 DEF Units
<1>2. QED
  BY <1>1 DEF Units

\* A chunk sent makes the body one longer.
LEMMA SendingTypes ==
  ASSUME GetTypeOK, NEW u \in Chunks, Sends(u)
  PROVE  /\ pos' \in Nat /\ retries' = 0 /\ attempts' = 0
         /\ body' \in Seq(Chunks)
         /\ Len(body') = Len(body) + 1
         /\ \A i \in 1 .. Len(body') : body'[i] = IF i <= Len(body) THEN body[i] ELSE u
<1>1. body \in Seq(Chunks) /\ u \in Chunks /\ pos \in Nat
  BY DEF GetTypeOK, ChunksOK
<1>2. body' = Append(body, u) /\ pos' = pos + 1 /\ retries' = 0 /\ attempts' = 0
  BY DEF Sends
<1>3. QED
  <2>1. body' \in Seq(Chunks) /\ Len(body') = Len(body) + 1
    BY <1>1, <1>2
  <2>2. \A i \in 1 .. Len(body') : body'[i] = IF i <= Len(body) THEN body[i] ELSE u
    BY <1>1, <1>2
  <2>3. QED
    BY <1>1, <1>2, <2>1, <2>2

\* Every step keeps the types; chunks are only fetched where something is
\* left to read.
LEMMA GetTypesStep ==
  ASSUME GetTypes, [GetNext]_getVars
  PROVE  GetTypes'
<1> USE GetFileAssumption DEF GetFileAssumption, GetTypes, GetTypeOK, Counted,
      placeVars, requestVars, digestVars, readVars,
      histories
<1>0. UNCHANGED <<body, disk>> => ChunksOK'
  BY DEF ChunksOK
<1> USE <1>0
<1>1. CASE HandleRequest
  BY <1>1 DEF HandleRequest
<1>2. CASE HandleBrowserRequest
  BY <1>2 DEF HandleBrowserRequest, IsBrowser
<1>3. CASE HandleWith
  BY <1>3 DEF HandleWith
<1>4. CASE Cut
  BY <1>4 DEF Cut, Fault
<1>5. CASE Rests
  <2>1. opened' \in [fid : Fids \cup {NoFid}, size : Nat, coming : Fids \cup {None}]
    BY <1>5 DEF Rests, Nothing
  <2>2. url' \in BOOLEAN /\ browser' \in BOOLEAN /\ want_md5' \in BOOLEAN
    BY <1>5 DEF Rests, Nothing
  <2>3. moved' \in BOOLEAN /\ ignored' \in BOOLEAN /\ overtaken' \in BOOLEAN
    BY <1>5 DEF Rests, Nothing
  <2>4. ChunksOK'
    BY <1>5 DEF Rests, ChunksOK
  <2> QED
    BY <1>5, <2>1, <2>2, <2>3, <2>4 DEF Rests, Nothing
<1>6. CASE OpenFile
  <2>1. Opened # None =>
          Opened \in [fid : Fids \cup {NoFid}, size : Nat, coming : Fids \cup {None}]
    BY <1>6 DEF OpenFile, Opened
  <2>2. opened' \in [fid : Fids \cup {NoFid}, size : Nat, coming : Fids \cup {None}]
    BY <1>6 DEF OpenFile, Opened
  <2>3. moved' \in BOOLEAN /\ overtaken' \in BOOLEAN
    BY <1>6 DEF OpenFile, Opened
  <2> QED
    BY <1>6, <2>1, <2>2, <2>3 DEF OpenFile, Opened
<1>7. CASE Headers
  <2>1. opened.size \in Nat
    OBVIOUS
  <2>2. CASE range = None
    BY <1>7, <2>1, <2>2 DEF Headers
  <2>3. CASE range # None
    <3>1. range[1] \in Nat /\ range[2] \in Nat
      BY <2>3
    <3>2. AtMost(range[1] + range[2], opened.size) \in Nat
      <4>1. range[1] + range[2] \in Nat
        BY <3>1
      <4>2. QED
        BY <2>1, <4>1, AtMostIs
    <3>3. pos' \in Nat /\ end' \in Nat
      BY <1>7, <2>3, <3>1, <3>2 DEF Headers, Seek
    <3>4. QED
      BY <1>7, <2>3, <3>3 DEF Headers
  <2>4. QED
    BY <2>2, <2>3
<1>8. CASE LookUpDigest
  BY <1>8 DEF LookUpDigest
<1>9. CASE Md5
  BY <1>9 DEF Md5, CachedMd5
<1>10. CASE BodySent
  BY <1>10 DEF BodySent
<1>11. CASE ReadOverlay
  <2>1. CASE ~(entry # None /\ entry.body # None)
    <3>1. /\ get' = "cut" /\ UNCHANGED <<placeVars, requestVars, opened, digestVars>>
          /\ UNCHANGED <<readVars, disk, md5_cache, faults, histories>>
      BY <1>11, <2>1 DEF ReadOverlay
    <3>2. QED
      BY <3>1
  <2>2. CASE entry # None /\ entry.body # None
    <3>1. PICK u : Sends(u) /\ u \in Chunks
      BY <1>11, <2>2 DEF ReadOverlay, Unread, Zero, Chunks
    <3>2. /\ pos' \in Nat /\ retries' = 0 /\ attempts' = 0
          /\ body' \in Seq(Chunks)
      BY <3>1, SendingTypes
    <3>3. get' = "body" /\ ChunksOK'
      BY <1>11, <2>2, <3>2 DEF ReadOverlay, Unread, ChunksOK
    <3>4. QED
      BY <1>11, <3>2, <3>3 DEF ReadOverlay
  <2>3. QED
    BY <2>1, <2>2
<1>12. CASE ReadStored
  <2>1. PICK x \in disk : Sends(x[2])
    BY <1>12 DEF ReadStored
  <2>2. x[2] \in Chunks
    BY <2>1 DEF Chunks, ChunksOK
  <2>3. /\ pos' \in Nat /\ retries' = 0 /\ attempts' = 0
        /\ body' \in Seq(Chunks)
    BY <2>1, <2>2, SendingTypes
  <2>4. /\ UNCHANGED <<placeVars, get, requestVars, opened, digestVars, end, url>>
        /\ UNCHANGED <<disk, md5_cache, faults, histories>> /\ get = "body"
    BY <1>12 DEF ReadStored, Unread
  <2>5. ChunksOK'
    BY <2>3, <2>4 DEF ChunksOK
  <2>6. QED
    BY <2>3, <2>4, <2>5
<1>13. CASE MissChunk
  BY <1>13 DEF MissChunk, Unread
<1>14. CASE GetDownloadUrl
  <2>1. url' \in BOOLEAN
    BY <1>14 DEF GetDownloadUrl
  <2>2. md5_cache' \in [Fids -> Fids \cup {None}]
    BY <1>14 DEF GetDownloadUrl
  <2> QED
    BY <1>14, <2>1, <2>2 DEF GetDownloadUrl
<1>15. CASE UrlExpires
  <2>1. url' \in BOOLEAN
    BY <1>15 DEF UrlExpires, Fault
  <2> QED
    BY <1>15, <2>1 DEF UrlExpires, Fault
<1>16. CASE StartDownload
  BY <1>16 DEF StartDownload
<1>17. CASE Delivered
  <2>1. UNCHANGED <<placeVars, requestVars, opened, digestVars, md5_cache, moved, overtaken>>
    BY <1>17 DEF Delivered
  <2>2. ignored' \in BOOLEAN
    BY <1>17 DEF Delivered
  <2>3. faults' \in 0 .. MaxFaults
    BY <1>17 DEF Delivered, Fault
  <2>4. CASE RetryPiece /\ UNCHANGED disk
    <3>1. UNCHANGED <<pos, end, body, disk>> /\ url' = FALSE /\ attempts' = 0
      BY <2>4 DEF RetryPiece
    <3>2. retries \in 0 .. 1 /\ retries' = retries + 1 /\ get' \in {"fetch", "cut"}
          /\ (get' # "cut" => retries' < 2)
      BY <1>17, <2>4 DEF RetryPiece, Delivered
    <3>3. pos < end /\ opened.fid # NoFid
      BY <1>17 DEF Delivered
    <3>4. ChunksOK' /\ retries' \in 0 .. 2 /\ attempts' \in 0 .. 2
          /\ (get' # "cut" => retries' <= 1) /\ get' # "md5"
      BY <3>1, <3>2
    <3>5. url' \in BOOLEAN
      BY <3>1
    <3>6. QED
      BY <2>1, <2>2, <2>3, <3>1, <3>2, <3>3, <3>4, <3>5
  <2>5. CASE Arrives(<<opened.fid, pos>>) \/ Arrives(<<opened.fid, 0>>)
    <3>1. PICK n \in Nat : Arrives(<<opened.fid, n>>)
      BY <2>5
    <3>2. opened.fid \in Fids
      BY <1>17 DEF Delivered
    <3>3. /\ pos' \in Nat /\ retries' = 0 /\ attempts' = 0 /\ body' \in Seq(Chunks)
      <4>1. <<opened.fid, n>> \in Chunks
        BY <3>2 DEF Chunks
      <4>2. QED
        BY <3>1, <4>1, SendingTypes DEF Arrives
    <3>4. ChunksOK'
      BY <3>1, <3>2, <3>3 DEF Arrives, ChunksOK
    <3>5. get' = "body" /\ UNCHANGED <<end, url>>
      BY <3>1 DEF Arrives
    <3>6. QED
      BY <2>1, <2>2, <2>3, <3>3, <3>4, <3>5
  <2>6. QED
    BY <1>17, <2>4, <2>5 DEF Delivered
<1>18. CASE DownloadFails
  <2>1. url' \in BOOLEAN
    BY <1>18 DEF DownloadFails, RetryPiece, LastAttempt
  <2>2. retries' \in 0 .. 2 /\ attempts' \in 0 .. 2
    BY <1>18 DEF DownloadFails, RetryPiece, LastAttempt
  <2> QED
    BY <1>18, <2>1, <2>2 DEF DownloadFails, RetryPiece, LastAttempt
<1>19. CASE Relists
  BY <1>19 DEF Relists, Lists, Place, Fault
<1>20. CASE PutOpens
  BY <1>20 DEF PutOpens, Place, Fault
<1>21. CASE PutFails
  BY <1>21 DEF PutFails, Place
<1>22. CASE RegisterWithoutFid
  BY <1>22 DEF RegisterWithoutFid, Place, Fault
<1>23. CASE PutPublishes
  BY <1>23 DEF PutPublishes, Lists, Place, Fault
<1>24. CASE EntryExpires
  BY <1>24 DEF EntryExpires, Place
<1>25. CASE RemoveFile
  BY <1>25 DEF RemoveFile, Lists, Place, Fault
<1>26. CASE OtherGetStores
  <2>1. ChunksOK'
    <3>1. Present \subseteq Fids
      BY DEF Present
    <3>2. PICK f \in Present : \E i \in 0 .. SizeOf[f] - 1 : disk' = disk \cup {<<i, <<f, i>>>>}
      BY <1>26 DEF OtherGetStores
    <3>3. PICK i \in 0 .. SizeOf[f] - 1 : disk' = disk \cup {<<i, <<f, i>>>>}
      BY <3>2
    <3>4. i \in Nat /\ f \in Fids
      BY <3>1, <3>2, <3>3
    <3>5. QED
      BY <1>26, <3>3, <3>4 DEF OtherGetStores, ChunksOK
  <2>2. QED
    BY <1>26, <2>1 DEF OtherGetStores, Fault
<1>27. CASE UNCHANGED getVars
  BY <1>27 DEF getVars
<1>28. QED
  BY <1>1, <1>2, <1>3, <1>4, <1>5, <1>6, <1>7, <1>8, <1>9, <1>10, <1>11, <1>12,
     <1>13, <1>14, <1>15, <1>16, <1>17, <1>18, <1>19, <1>20, <1>21, <1>22,
     <1>23, <1>24, <1>25, <1>26, <1>27
     DEF GetNext, GetStep

\* What lookups find is true, whoever changes the path.
LEMMA PlaceStep ==
  ASSUME GetTypes, PlaceTrue, [GetNext]_getVars
  PROVE  PlaceTrue'
<1> USE GetFileAssumption DEF PlaceTrue, Present, GetFileAssumption, GetTypes, GetTypeOK,
      placeVars
<1>1. CASE HandleRequest
  BY <1>1 DEF HandleRequest
<1>2. CASE HandleBrowserRequest
  BY <1>2 DEF HandleBrowserRequest, IsBrowser
<1>3. CASE HandleWith
  BY <1>3 DEF HandleWith
<1>4. CASE Cut
  BY <1>4 DEF Cut, Fault
<1>5. CASE Rests
  BY <1>5 DEF Rests, Nothing
<1>6. CASE OpenFile
  BY <1>6 DEF OpenFile, Opened
<1>7. CASE Headers
  BY <1>7 DEF Headers
<1>8. CASE LookUpDigest
  BY <1>8 DEF LookUpDigest
<1>9. CASE Md5
  BY <1>9 DEF Md5, CachedMd5
<1>10. CASE BodySent
  BY <1>10 DEF BodySent
<1>11. CASE ReadOverlay
  BY <1>11 DEF ReadOverlay, Unread, Sends, Zero
<1>12. CASE ReadStored
  BY <1>12 DEF ReadStored, Unread, Sends
<1>13. CASE MissChunk
  BY <1>13 DEF MissChunk, Unread
<1>14. CASE GetDownloadUrl
  BY <1>14 DEF GetDownloadUrl
<1>15. CASE UrlExpires
  BY <1>15 DEF UrlExpires, Fault
<1>16. CASE StartDownload
  BY <1>16 DEF StartDownload
<1>17. CASE Delivered
  BY <1>17 DEF Delivered, Arrives, Sends, RetryPiece, Fault
<1>18. CASE DownloadFails
  BY <1>18 DEF DownloadFails, RetryPiece, LastAttempt
<1>19. CASE Relists
  BY <1>19 DEF Relists, Lists, Place, Fault
<1>20. CASE PutOpens
  BY <1>20 DEF PutOpens, Place, Fault
<1>21. CASE PutFails
  BY <1>21 DEF PutFails, Place
<1>22. CASE RegisterWithoutFid
  BY <1>22 DEF RegisterWithoutFid, Place, Fault
<1>23. CASE PutPublishes
  BY <1>23 DEF PutPublishes, Lists, Place, Fault
<1>24. CASE EntryExpires
  BY <1>24 DEF EntryExpires, Place
<1>25. CASE RemoveFile
  BY <1>25 DEF RemoveFile, Lists, Place, Fault
<1>26. CASE OtherGetStores
  BY <1>26 DEF OtherGetStores, Fault
<1>27. CASE UNCHANGED getVars
  BY <1>27 DEF getVars
<1>28. QED
  BY <1>1, <1>2, <1>3, <1>4, <1>5, <1>6, <1>7, <1>8, <1>9, <1>10, <1>11, <1>12,
     <1>13, <1>14, <1>15, <1>16, <1>17, <1>18, <1>19, <1>20, <1>21, <1>22,
     <1>23, <1>24, <1>25, <1>26, <1>27
     DEF GetNext, GetStep

\* Between the open and the digest's own lookup a change is noticed in
\* `moved`.
LEMMA DigestStep ==
  ASSUME GetTypes, PlaceTrue, DigestTrue, [GetNext]_getVars
  PROVE  DigestTrue'
<1> USE GetFileAssumption DEF DigestTrue, DigestOfBody, Before, Told, GetFileAssumption,
      GetTypes, GetTypeOK, placeVars, requestVars, digestVars,
      readVars, histories
<1>1. CASE HandleRequest
  BY <1>1 DEF HandleRequest
<1>2. CASE HandleBrowserRequest
  BY <1>2 DEF HandleBrowserRequest, IsBrowser
<1>3. CASE HandleWith
  BY <1>3 DEF HandleWith
<1>4. CASE Cut
  BY <1>4 DEF Cut, Fault
<1>5. CASE Rests
  BY <1>5 DEF Rests, Nothing
<1>6. CASE OpenFile
  BY <1>6 DEF OpenFile, Opened
<1>7. CASE Headers
  BY <1>7 DEF Headers
<1>8. CASE LookUpDigest
  BY <1>8 DEF LookUpDigest
<1>9. CASE Md5
  BY <1>9 DEF Md5, CachedMd5
<1>10. CASE BodySent
  BY <1>10 DEF BodySent
<1>11. CASE ReadOverlay
  BY <1>11 DEF ReadOverlay, Unread, Sends, Zero
<1>12. CASE ReadStored
  BY <1>12 DEF ReadStored, Unread, Sends
<1>13. CASE MissChunk
  BY <1>13 DEF MissChunk, Unread
<1>14. CASE GetDownloadUrl
  BY <1>14 DEF GetDownloadUrl
<1>15. CASE UrlExpires
  BY <1>15 DEF UrlExpires, Fault
<1>16. CASE StartDownload
  BY <1>16 DEF StartDownload
<1>17. CASE Delivered
  BY <1>17 DEF Delivered, Arrives, Sends, RetryPiece, Fault
<1>18. CASE DownloadFails
  BY <1>18 DEF DownloadFails, RetryPiece, LastAttempt
<1>19. CASE Relists
  BY <1>19 DEF Relists, Lists, Place, Fault
<1>20. CASE PutOpens
  BY <1>20 DEF PutOpens, Place, Fault
<1>21. CASE PutFails
  BY <1>21 DEF PutFails, Place
<1>22. CASE RegisterWithoutFid
  BY <1>22 DEF RegisterWithoutFid, Place, Fault
<1>23. CASE PutPublishes
  BY <1>23 DEF PutPublishes, Lists, Place, Fault
<1>24. CASE EntryExpires
  BY <1>24 DEF EntryExpires, Place
<1>25. CASE RemoveFile
  BY <1>25 DEF RemoveFile, Lists, Place, Fault
<1>26. CASE OtherGetStores
  BY <1>26 DEF OtherGetStores, Fault
<1>27. CASE UNCHANGED getVars
  BY <1>27 DEF getVars
<1>28. QED
  BY <1>1, <1>2, <1>3, <1>4, <1>5, <1>6, <1>7, <1>8, <1>9, <1>10, <1>11, <1>12,
     <1>13, <1>14, <1>15, <1>16, <1>17, <1>18, <1>19, <1>20, <1>21, <1>22,
     <1>23, <1>24, <1>25, <1>26, <1>27
     DEF GetNext, GetStep

\* What has been opened stays true of its file, and a placeholder stays that
\* of the file to come as long as no other is registered.
LEMMA FileStep ==
  ASSUME GetTypes, PlaceTrue, FileTrue, [GetNext]_getVars
  PROVE  FileTrue'
<1> USE GetFileAssumption DEF FileTrue, PlaceTrue, Present, Told, GetFileAssumption,
      GetTypes, GetTypeOK, placeVars, requestVars, digestVars,
      readVars, histories
<1>1. CASE HandleRequest
  BY <1>1 DEF HandleRequest
<1>2. CASE HandleBrowserRequest
  BY <1>2 DEF HandleBrowserRequest, IsBrowser
<1>3. CASE HandleWith
  BY <1>3 DEF HandleWith
<1>4. CASE Cut
  BY <1>4 DEF Cut, Fault
<1>5. CASE Rests
  BY <1>5 DEF Rests, Nothing
<1>6. CASE OpenFile
  BY <1>6 DEF OpenFile, Opened
<1>7. CASE Headers
  BY <1>7 DEF Headers
<1>8. CASE LookUpDigest
  BY <1>8 DEF LookUpDigest
<1>9. CASE Md5
  BY <1>9 DEF Md5, CachedMd5
<1>10. CASE BodySent
  BY <1>10 DEF BodySent
<1>11. CASE ReadOverlay
  BY <1>11 DEF ReadOverlay, Unread, Sends, Zero
<1>12. CASE ReadStored
  BY <1>12 DEF ReadStored, Unread, Sends
<1>13. CASE MissChunk
  BY <1>13 DEF MissChunk, Unread
<1>14. CASE GetDownloadUrl
  BY <1>14 DEF GetDownloadUrl
<1>15. CASE UrlExpires
  BY <1>15 DEF UrlExpires, Fault
<1>16. CASE StartDownload
  BY <1>16 DEF StartDownload
<1>17. CASE Delivered
  BY <1>17 DEF Delivered, Arrives, Sends, RetryPiece, Fault
<1>18. CASE DownloadFails
  BY <1>18 DEF DownloadFails, RetryPiece, LastAttempt
<1>19. CASE Relists
  BY <1>19 DEF Relists, Lists, Place, Fault
<1>20. CASE PutOpens
  BY <1>20 DEF PutOpens, Place, Fault
<1>21. CASE PutFails
  BY <1>21 DEF PutFails, Place
<1>22. CASE RegisterWithoutFid
  BY <1>22 DEF RegisterWithoutFid, Place, Fault
<1>23. CASE PutPublishes
  <2>1. PICK f \in Fids, b \in Fids \cup {None} :
          /\ gone' = gone \cup ({here} \ {None}) /\ b \in {f, None}
          /\ entry' = [fid |-> f, size |-> SizeOf[f], body |-> b]
          /\ overtaken' = (overtaken \/ f # opened.coming)
    BY <1>23 DEF PutPublishes
  <2>2. UNCHANGED <<get, opened>> /\ Present \subseteq Present'
    BY <1>23 DEF PutPublishes, Lists, Place, Fault
  <2>3. entry'.body \in {f, None}
    BY <2>1
  <2>4. ~overtaken' => ~overtaken /\ f = opened.coming
    BY <2>1
  <2>5. QED
    BY <2>2, <2>3, <2>4
<1>24. CASE EntryExpires
  BY <1>24 DEF EntryExpires, Place
<1>25. CASE RemoveFile
  BY <1>25 DEF RemoveFile, Lists, Place, Fault
<1>26. CASE OtherGetStores
  BY <1>26 DEF OtherGetStores, Fault
<1>27. CASE UNCHANGED getVars
  BY <1>27 DEF getVars
<1>28. QED
  BY <1>1, <1>2, <1>3, <1>4, <1>5, <1>6, <1>7, <1>8, <1>9, <1>10, <1>11, <1>12,
     <1>13, <1>14, <1>15, <1>16, <1>17, <1>18, <1>19, <1>20, <1>21, <1>22,
     <1>23, <1>24, <1>25, <1>26, <1>27
     DEF GetNext, GetStep

\* Files that are or were at the path stay so, and what is stored for it may be found
\* again.
Keeps == Present \subseteq Present' /\ disk \subseteq disk' /\ (ignored => ignored')

LEMMA PathKeeps ==
  ASSUME GetTypes, [GetNext]_getVars
  PROVE  Keeps
<1> USE DEF Keeps, Present, placeVars, histories
<1>1. CASE HandleRequest
  BY <1>1 DEF HandleRequest
<1>2. CASE HandleBrowserRequest
  BY <1>2 DEF HandleBrowserRequest, IsBrowser
<1>3. CASE HandleWith
  BY <1>3 DEF HandleWith
<1>4. CASE Cut
  BY <1>4 DEF Cut, Fault
<1>5. CASE Rests
  BY <1>5 DEF Rests, Nothing
<1>6. CASE OpenFile
  BY <1>6 DEF OpenFile, Opened
<1>7. CASE Headers
  BY <1>7 DEF Headers
<1>8. CASE LookUpDigest
  BY <1>8 DEF LookUpDigest
<1>9. CASE Md5
  BY <1>9 DEF Md5, CachedMd5
<1>10. CASE BodySent
  BY <1>10 DEF BodySent
<1>11. CASE ReadOverlay
  BY <1>11 DEF ReadOverlay, Unread, Sends, Zero
<1>12. CASE ReadStored
  BY <1>12 DEF ReadStored, Unread, Sends
<1>13. CASE MissChunk
  BY <1>13 DEF MissChunk, Unread
<1>14. CASE GetDownloadUrl
  BY <1>14 DEF GetDownloadUrl
<1>15. CASE UrlExpires
  BY <1>15 DEF UrlExpires, Fault
<1>16. CASE StartDownload
  BY <1>16 DEF StartDownload
<1>17. CASE Delivered
  BY <1>17 DEF Delivered, Arrives, Sends, RetryPiece, Fault
<1>18. CASE DownloadFails
  BY <1>18 DEF DownloadFails, RetryPiece, LastAttempt
<1>19. CASE Relists
  BY <1>19 DEF Relists, Lists, Place, Fault
<1>20. CASE PutOpens
  BY <1>20 DEF PutOpens, Place, Fault
<1>21. CASE PutFails
  BY <1>21 DEF PutFails, Place
<1>22. CASE RegisterWithoutFid
  BY <1>22 DEF RegisterWithoutFid, Place, Fault
<1>23. CASE PutPublishes
  BY <1>23 DEF PutPublishes, Lists, Place, Fault
<1>24. CASE EntryExpires
  BY <1>24 DEF EntryExpires, Place
<1>25. CASE RemoveFile
  BY <1>25 DEF RemoveFile, Lists, Place, Fault
<1>26. CASE OtherGetStores
  BY <1>26 DEF OtherGetStores, Fault
<1>27. CASE UNCHANGED getVars
  BY <1>27 DEF getVars
<1>28. QED
  BY <1>1, <1>2, <1>3, <1>4, <1>5, <1>6, <1>7, <1>8, <1>9, <1>10, <1>11, <1>12,
     <1>13, <1>14, <1>15, <1>16, <1>17, <1>18, <1>19, <1>20, <1>21, <1>22,
     <1>23, <1>24, <1>25, <1>26, <1>27
     DEF GetNext, GetStep

\* Whoever stores a chunk has downloaded it from a file that is or was at the path.
LEMMA DiskStep ==
  ASSUME GetTypes, FileTrue, DiskTrue, [GetNext]_getVars
  PROVE  DiskTrue'
<1>1. Keeps
  BY PathKeeps
<1>2. CASE UNCHANGED disk
  BY <1>1, <1>2 DEF Keeps, DiskTrue
<1>3. ASSUME NEW n \in Nat, NEW g \in Present, disk' = disk \cup {<<n, <<g, n>>>>}
      PROVE  DiskTrue'
  BY <1>1, <1>3 DEF Keeps, DiskTrue
<1>4. CASE Delivered
  <2>1. opened.fid \in Present /\ pos \in Nat
    BY <1>4 DEF Delivered, FileTrue, Told, GetTypes, GetTypeOK
  <2>2. CASE Arrives(<<opened.fid, pos>>)
    BY <1>3, <2>1, <2>2 DEF Arrives
  <2>3. CASE ignored'
    BY <2>3 DEF DiskTrue
  <2>4. QED
    BY <1>2, <1>4, <2>2, <2>3 DEF Delivered
<1>5. CASE OtherGetStores
  <2>1. PICK f \in Present : \E i \in 0 .. SizeOf[f] - 1 : disk' = disk \cup {<<i, <<f, i>>>>}
    BY <1>5 DEF OtherGetStores
  <2>2. PICK i \in 0 .. SizeOf[f] - 1 : disk' = disk \cup {<<i, <<f, i>>>>}
    BY <2>1
  <2>3. i \in Nat
    <3>1. SizeOf[f] \in Nat
      BY <2>1, GetFileAssumption DEF GetFileAssumption, Present, GetTypes, GetTypeOK
    <3>2. QED
      BY <3>1
  <2>4. QED
    BY <1>3, <2>1, <2>2, <2>3
<1>6. Delivered \/ OtherGetStores \/ UNCHANGED disk
  BY DEF GetNext, GetStep, HandleRequest, HandleBrowserRequest, HandleWith, Cut, Rests,
     OpenFile, Headers, LookUpDigest, Md5, BodySent, ReadOverlay, ReadStored, MissChunk,
     GetDownloadUrl, UrlExpires, StartDownload, DownloadFails, Relists, PutOpens, PutFails,
     RegisterWithoutFid, PutPublishes, EntryExpires, RemoveFile, Place, getVars
<1>7. QED
  BY <1>2, <1>4, <1>5, <1>6

\* What has been sent stays right while the path and the disk change.
LEMMA BodyKept ==
  ASSUME BodyTrue, Keeps, UNCHANGED <<range, opened, pos, end, body>>,
         get' \in Before => get \in Before,
         get' \in Started => get \in Started /\ (overtaken => overtaken'),
         get' = "sent" => pos >= end
  PROVE  BodyTrue'
<1>1. Start' = Start /\ Stop' = Stop /\ Source' = Source
  BY DEF Start, Stop, Source
<1>2. SentSoFar => SentSoFar'
  BY <1>1 DEF SentSoFar, Right, Keeps
<1>3. get' \in Started /\ ~ignored' /\ Sound' => ~ignored /\ Sound
  BY DEF Keeps, Sound
<1>4. QED
  BY <1>1, <1>2, <1>3 DEF BodyTrue

\* A right chunk for the next place makes a longer part.
LEMMA Sending ==
  ASSUME GetTypes, BodyTrue, Keeps, NEW u \in Chunks, Sends(u),
         get \in {"body", "download"}, get' = "body", pos < end,
         UNCHANGED <<range, opened, end>>, Source \in Present, overtaken => overtaken',
         NEW n \in Nat, n = pos, ~ignored' /\ Sound' => Right(u, n)'
  PROVE  BodyTrue'
<1>1. Start' = Start /\ Stop' = Stop /\ Source' = Source
  BY DEF Start, Stop, Source
<1>2. Start \in Nat /\ pos \in Nat /\ end \in Nat /\ Len(body) \in Nat
  BY GetFileAssumption DEF GetTypes, GetTypeOK, ChunksOK, Start, GetFileAssumption
<1>3. /\ pos' = pos + 1 /\ Len(body') = Len(body) + 1
      /\ \A i \in 1 .. Len(body') : body'[i] = IF i <= Len(body) THEN body[i] ELSE u
  <2>1. pos' = pos + 1
    BY DEF Sends
  <2>2. QED
    BY <2>1, SendingTypes DEF GetTypes
<1>4. ASSUME ~ignored', Sound' PROVE SentSoFar'
  <2>1. SentSoFar
    <3>1. get \in Started /\ ~ignored /\ Sound
      BY <1>4 DEF Keeps, Sound, Started
    <3>2. QED
      BY <3>1 DEF BodyTrue
  <2>2. /\ Start <= pos /\ Len(body) = pos - Start
        /\ \A i \in 1 .. Len(body) : Right(body[i], Start + i - 1)
    BY <2>1 DEF SentSoFar
  <2>3. Len(body') = pos' - Start /\ Start <= pos' /\ pos' <= end
    BY <1>2, <1>3, <2>2
  <2>4. ASSUME NEW i \in 1 .. Len(body') PROVE Right(body[i], Start + i - 1)'
    <3>1. CASE i <= Len(body)
      <4>1. Right(body[i], Start + i - 1) /\ body'[i] = body[i]
        BY <1>2, <1>3, <2>2, <3>1
      <4>2. QED
        BY <1>1, <4>1 DEF Right, Keeps
    <3>2. CASE ~(i <= Len(body))
      <4>1. i = Len(body) + 1 /\ body'[i] = u
        BY <1>2, <1>3, <3>2
      <4>2. Start + i - 1 = n
        BY <1>2, <2>2, <4>1
      <4>3. Right(u, n)'
        BY <1>4
      <4>4. QED
        BY <1>1, <4>1, <4>2, <4>3 DEF Right
    <3>3. QED
      BY <3>1, <3>2
  <2>5. QED
    BY <1>1, <2>3, <2>4 DEF SentSoFar, Keeps
<1>5. QED
  BY <1>1, <1>4 DEF BodyTrue, Before, Started

\* Every chunk follows the one before.
LEMMA BodyStep ==
  ASSUME GetTypes, PlaceTrue, FileTrue, DiskTrue, BodyTrue, [GetNext]_getVars
  PROVE  BodyTrue'
<1>0. Keeps
  BY PathKeeps
<1> USE DEF placeVars, requestVars, digestVars, readVars, histories
<1>1. CASE HandleRequest
  BY <1>1 DEF HandleRequest, BodyTrue, Before, Started
<1>2. CASE HandleBrowserRequest
  BY <1>2 DEF HandleBrowserRequest, BodyTrue, Before, Started
<1>3. CASE HandleWith
  BY <1>3 DEF HandleWith, BodyTrue, Before, Started
<1>4. CASE Cut
  BY <1>4 DEF Cut, BodyTrue, Before, Started
<1>5. CASE Rests
  BY <1>5 DEF Rests, BodyTrue, Before, Started
<1>6. CASE OpenFile
  BY <1>6 DEF OpenFile, BodyTrue, Before, Started
<1>7. CASE Headers
  <2>1. CASE get' = "cut"
    BY <1>7, <2>1 DEF BodyTrue, Before, Started
  <2>2. CASE get' # "cut"
    <3>1. /\ body' = <<>> /\ pos' = Start' /\ end' = Stop' /\ get' \in {"digest", "body"}
          /\ range' # None => Start' < opened'.size
      BY <1>7, <2>2 DEF Headers, Seek, BodyTrue, Before, Start, Stop
    <3>2. pos' \in Nat /\ end' \in Nat
      BY GetTypesStep DEF GetTypes, GetTypeOK
    <3>3. SentSoFar'
      <4>1. \A k \in Nat : k - k = 0 /\ k <= k
        OBVIOUS
      <4>2. Len(body') = 0 /\ pos' - Start' = 0 /\ Start' <= pos'
        BY <3>1, <3>2, <4>1
      <4>3. QED
        BY <3>1, <4>2 DEF SentSoFar
    <3>4. QED
      BY <3>1, <3>3 DEF BodyTrue, Before, Started
  <2>3. QED
    BY <2>1, <2>2
<1>8. CASE LookUpDigest
  BY <1>0, <1>8, BodyKept DEF LookUpDigest, Before, Started
<1>9. CASE Md5
  BY <1>0, <1>9, BodyKept DEF Md5, CachedMd5, Before, Started
<1>10. CASE BodySent
  BY <1>0, <1>10, BodyKept DEF BodySent, Before, Started
<1>11. CASE ReadOverlay
  <2>1. CASE ~(entry # None /\ entry.body # None)
    BY <1>11, <2>1 DEF ReadOverlay, Unread, BodyTrue, Before, Started
  <2>2. CASE entry # None /\ entry.body # None
    <3>1. /\ get = "body" /\ get' = "body" /\ pos < end /\ opened.fid = NoFid
          /\ UNCHANGED <<range, opened, end, ignored, overtaken>>
      BY <1>11, <2>2 DEF ReadOverlay, Unread
    <3>2. CASE ignored \/ overtaken
      BY <3>1, <3>2 DEF BodyTrue, Before, Started, Sound, Start, Stop
    <3>3. CASE ~ignored /\ ~overtaken
      <4>1. /\ entry.body = opened.coming /\ opened.coming \in Present
            /\ opened.coming \in Fids
            /\ opened.size \in {0, SizeOf[opened.coming]}
        <5>1. opened.coming \in Fids \cup {None} /\ entry.body \in Fids /\ get \in Told
          BY <2>2, <3>1 DEF Told, GetTypes, GetTypeOK
        <5>2. entry.body = opened.coming
          BY <2>2, <3>1, <3>3, <5>1 DEF FileTrue
        <5>3. opened.coming # None
          BY <2>2, <5>2
        <5>4. opened.size \in {0, SizeOf[opened.coming]}
          BY <3>1, <5>1, <5>3 DEF FileTrue
        <5>5. entry.body \in Present
          BY <2>2, <5>1 DEF PlaceTrue
        <5>6. QED
          BY <5>1, <5>2, <5>4, <5>5
      <4>2. end <= opened.size /\ pos \in Nat /\ end \in Nat /\ opened.size \in Nat
        <5>1. end = Stop /\ opened.size \in Nat /\ pos \in Nat /\ end \in Nat
          BY <3>1 DEF BodyTrue, Started, GetTypes, GetTypeOK
        <5>2. CASE range = None
          BY <5>1, <5>2 DEF Stop
        <5>3. CASE range # None
          <6>1. range[1] + range[2] \in Nat
            BY <5>3, GetFileAssumption DEF GetFileAssumption, GetTypes, GetTypeOK
          <6>2. QED
            BY <5>1, <5>3, <6>1, AtMostIs DEF Stop
        <5>4. QED
          BY <5>2, <5>3
      <4>3. pos < SizeOf[entry.body]
        <5>1. SizeOf[entry.body] \in Nat
          BY <4>1, GetFileAssumption DEF GetFileAssumption
        <5>2. QED
          BY <3>1, <4>1, <4>2, <5>1
      <4>4. Sends(<<Source, pos>>) /\ Source \in Present /\ Source \in Fids
        BY <1>11, <2>2, <3>1, <4>1, <4>3 DEF ReadOverlay, Source
      <4>5. PICK n \in Nat, u \in Chunks : n = pos /\ u = <<Source, n>>
        BY <4>2, <4>4 DEF Chunks
      <4>6. Right(u, n)'
        BY <3>1, <4>5 DEF Right, Source
      <4>7. QED
        BY <1>0, <3>1, <4>4, <4>5, <4>6, Sending
    <3>4. QED
      BY <3>2, <3>3
  <2>3. QED
    BY <2>1, <2>2
<1>12. CASE ReadStored
  <2>1. PICK x \in disk : x[1] = pos /\ Sends(x[2])
    BY <1>12 DEF ReadStored
  <2>2. /\ get = "body" /\ get' = "body" /\ pos < end /\ opened.fid # NoFid
        /\ UNCHANGED <<range, opened, end, overtaken, ignored>>
    BY <1>12 DEF ReadStored, Unread
  <2>3. Source \in Present
    BY <2>2 DEF FileTrue, Told, Source
  <2>4. PICK n \in Nat, u \in Chunks : n = pos /\ u = x[2] /\ x = <<n, u>>
    BY <2>1 DEF GetTypes, GetTypeOK, Chunks, ChunksOK
  <2>5. ~ignored' => Right(u, n)'
    <3>1. ~ignored' => \E g \in Present : u = <<g, n>>
      BY <2>1, <2>2, <2>4 DEF DiskTrue
    <3>2. Present \subseteq Present' /\ <<n, u>> \in disk'
      BY <1>0, <2>1, <2>4 DEF Keeps
    <3>3. QED
      BY <3>1, <3>2 DEF Right
  <2>6. QED
    BY <1>0, <2>1, <2>2, <2>3, <2>4, <2>5, Sending
<1>13. CASE MissChunk
  BY <1>0, <1>13, BodyKept DEF MissChunk, Unread, Before, Started
<1>14. CASE GetDownloadUrl
  BY <1>0, <1>14, BodyKept DEF GetDownloadUrl, Before, Started
<1>15. CASE UrlExpires
  <2>1. UNCHANGED <<get, range, opened, pos, end, body>> /\ (overtaken => overtaken')
    BY <1>15 DEF UrlExpires, Fault
  <2>2. QED
    BY <1>0, <2>1, BodyKept DEF BodyTrue
<1>16. CASE StartDownload
  BY <1>0, <1>16, BodyKept DEF StartDownload, Before, Started
<1>17. CASE Delivered
  <2>1. /\ get = "download" /\ pos < end /\ opened.fid # NoFid
        /\ UNCHANGED <<range, opened, end, overtaken>>
    BY <1>17 DEF Delivered, Arrives, RetryPiece, GetTypes
  <2>2. CASE RetryPiece
    BY <1>0, <2>1, <2>2, BodyKept DEF RetryPiece, Before, Started
  <2>3. CASE ignored' /\ get' = "body"
    BY <2>1, <2>3 DEF BodyTrue, Before, Started, Start, Stop
  <2>4. CASE Arrives(<<opened.fid, pos>>)
    <3>1. Source = opened.fid /\ Source \in Present /\ Source \in Fids /\ pos \in Nat
      BY <2>1 DEF FileTrue, Told, Source, Present, GetTypes, GetTypeOK
    <3>2. Sends(<<Source, pos>>) /\ get' = "body"
      BY <2>4, <3>1 DEF Arrives
    <3>3. PICK n \in Nat, u \in Chunks : n = pos /\ u = <<Source, n>>
      BY <3>1 DEF Chunks
    <3>4. Right(u, n)'
      BY <2>1, <3>3 DEF Right, Source
    <3>5. QED
      BY <1>0, <2>1, <3>1, <3>2, <3>3, <3>4, Sending
  <2>5. QED
    BY <1>17, <2>2, <2>3, <2>4 DEF Delivered, Arrives
<1>18. CASE DownloadFails
  <2>1. get = "download" /\ get' \in {"download", "fetch", "cut"}
    BY <1>18 DEF DownloadFails, RetryPiece
  <2>2. UNCHANGED <<range, opened, pos, end, body, overtaken>>
    BY <1>18 DEF DownloadFails, RetryPiece
  <2>3. QED
    BY <1>0, <2>1, <2>2, BodyKept DEF Before, Started
<1>19. CASE Relists
  <2>1. UNCHANGED <<get, range, opened, pos, end, body>> /\ (overtaken => overtaken')
    BY <1>19 DEF Relists, Lists, Place, Fault
  <2>2. QED
    BY <1>0, <2>1, BodyKept DEF BodyTrue
<1>20. CASE PutOpens
  <2>1. UNCHANGED <<get, range, opened, pos, end, body>> /\ (overtaken => overtaken')
    BY <1>20 DEF PutOpens, Place, Fault
  <2>2. QED
    BY <1>0, <2>1, BodyKept DEF BodyTrue
<1>21. CASE PutFails
  <2>1. UNCHANGED <<get, range, opened, pos, end, body>> /\ (overtaken => overtaken')
    BY <1>21 DEF PutFails, Place
  <2>2. QED
    BY <1>0, <2>1, BodyKept DEF BodyTrue
<1>22. CASE RegisterWithoutFid
  <2>1. UNCHANGED <<get, range, opened, pos, end, body>> /\ (overtaken => overtaken')
    BY <1>22 DEF RegisterWithoutFid, Place, Fault
  <2>2. QED
    BY <1>0, <2>1, BodyKept DEF BodyTrue
<1>23. CASE PutPublishes
  <2>1. UNCHANGED <<get, range, opened, pos, end, body>> /\ (overtaken => overtaken')
    BY <1>23 DEF PutPublishes, Lists, Place, Fault
  <2>2. QED
    BY <1>0, <2>1, BodyKept DEF BodyTrue
<1>24. CASE EntryExpires
  <2>1. UNCHANGED <<get, range, opened, pos, end, body>> /\ (overtaken => overtaken')
    BY <1>24 DEF EntryExpires, Place
  <2>2. QED
    BY <1>0, <2>1, BodyKept DEF BodyTrue
<1>25. CASE RemoveFile
  <2>1. UNCHANGED <<get, range, opened, pos, end, body>> /\ (overtaken => overtaken')
    BY <1>25 DEF RemoveFile, Lists, Place, Fault
  <2>2. QED
    BY <1>0, <2>1, BodyKept DEF BodyTrue
<1>26. CASE OtherGetStores
  <2>1. UNCHANGED <<get, range, opened, pos, end, body>> /\ (overtaken => overtaken')
    BY <1>26 DEF OtherGetStores, Fault
  <2>2. QED
    BY <1>0, <2>1, BodyKept DEF BodyTrue
<1>27. CASE UNCHANGED getVars
  <2>1. UNCHANGED <<get, range, opened, pos, end, body>> /\ (overtaken => overtaken')
    BY <1>27 DEF getVars
  <2>2. QED
    BY <1>0, <2>1, BodyKept DEF BodyTrue
<1>28. QED
  BY <1>1, <1>2, <1>3, <1>4, <1>5, <1>6, <1>7, <1>8, <1>9, <1>10, <1>11, <1>12,
     <1>13, <1>14, <1>15, <1>16, <1>17, <1>18, <1>19, <1>20, <1>21, <1>22,
     <1>23, <1>24, <1>25, <1>26, <1>27
     DEF GetNext, GetStep

\* A request at rest satisfies all that.
LEMMA GetBegins ==
  ASSUME GetInit
  PROVE  GetInv
<1> USE DEF GetInit, Nothing
<1>1. GetTypes
  <2>1. md5_cache \in [Fids -> Fids \cup {None}] /\ faults \in 0 .. MaxFaults
    BY GetFileAssumption DEF GetFileAssumption
  <2>2. opened \in [fid : Fids \cup {NoFid}, size : Nat, coming : Fids \cup {None}]
    OBVIOUS
  <2>3. url \in BOOLEAN /\ moved \in BOOLEAN /\ ignored \in BOOLEAN /\ overtaken \in BOOLEAN
    OBVIOUS
  <2>4. browser \in BOOLEAN /\ want_md5 \in BOOLEAN
    OBVIOUS
  <2>5. ChunksOK
    BY DEF ChunksOK
  <2>6. QED
    BY <2>1, <2>2, <2>3, <2>4, <2>5 DEF GetTypes, GetTypeOK, Counted
<1>2. PlaceTrue /\ FileTrue
  BY DEF PlaceTrue, Present, FileTrue, Told
<1>3. DigestTrue /\ DiskTrue /\ BodyTrue
  BY DEF DigestTrue, DigestOfBody, DiskTrue, Before, Told, BodyTrue, Started
<1>4. QED
  BY <1>1, <1>2, <1>3 DEF GetInv

\* A part from a on, of n chunks of z or as many as there are.
LEMMA PartLength ==
  ASSUME NEW a \in Nat, NEW n \in Nat \ {0}, NEW z \in Nat, a < z
  PROVE  /\ a < AtMost(a + n, z)
         /\ AtMost(a + n, z) - a = AtMost(n, z - a)
         /\ AtMost(n, z - a) \in Nat
BY DEF AtMost

\* A body that has come to its end is the part asked for, but for stored chunks.
LEMMA BodyIsPart ==
  ASSUME GetTypes, FileTrue, BodyTrue
  PROVE  SentInPlace
<1> SUFFICES ASSUME get = "sent", ~ignored, Sound, ~(body = <<>> /\ opened.size = 0)
    PROVE  \E f \in Present :
             /\ Len(body) = Len(Part(f))
             /\ \A i \in 1 .. Len(body) :
                  body[i] # Part(f)[i] =>
                      \E g \in Present : /\ body[i] = <<g, Part(f)[i][2]>>
                                         /\ <<Part(f)[i][2], body[i]>> \in disk
  BY DEF SentInPlace, Sound, GetTypes, GetTypeOK
<1>1. /\ pos \in Nat /\ end \in Nat /\ opened.size \in Nat
      /\ range \in (Nat \X (Nat \ {0})) \cup {None}
      /\ SizeOf \in [Fids -> Nat] /\ Start \in Nat
      /\ body \in Seq(Chunks)
  BY GetFileAssumption DEF GetTypes, GetTypeOK, ChunksOK, GetFileAssumption, Start
<1>2. /\ end = Stop /\ (range # None => Start < opened.size)
      /\ SentSoFar /\ pos >= end
  BY DEF BodyTrue, Started
<1>3. /\ Start <= pos /\ (Start <= end => pos <= end) /\ Len(body) = pos - Start
      /\ \A i \in 1 .. Len(body) : Right(body[i], Start + i - 1)
      /\ pos # Start => Source \in Present
  BY <1>2 DEF SentSoFar
<1>4. Source \in Present => Source \in Fids /\ (opened.size = 0 \/ opened.size = SizeOf[Source])
  <2>1. get \in Told
    BY DEF Told
  <2>2. None \notin Fids
    BY GetFileAssumption DEF GetFileAssumption
  <2>3. QED
    BY <2>1, <2>2 DEF FileTrue, Source, Present, GetTypes, GetTypeOK
<1>5. ASSUME NEW n \in Nat, Source \in Present, Part(Source) = Units(Source, Start, n),
             n = pos - Start
      PROVE  /\ Len(body) = Len(Part(Source))
             /\ \A i \in 1 .. Len(body) :
                  body[i] # Part(Source)[i] =>
                      \E g \in Present : /\ body[i] = <<g, Part(Source)[i][2]>>
                                         /\ <<Part(Source)[i][2], body[i]>> \in disk
  <2>1. /\ Len(Part(Source)) = n
        /\ \A i \in 1 .. n : Part(Source)[i] = <<Source, Start + i - 1>>
    <3>1. Start \in Nat /\ n \in Nat
      BY <1>1
    <3>2. /\ Len(Units(Source, Start, n)) = n
          /\ \A i \in 1 .. n : Units(Source, Start, n)[i] = <<Source, Start + i - 1>>
      BY <3>1, UnitsAre
    <3>3. QED
      BY <1>5, <3>2
  <2>2. Len(body) = n
    BY <1>3, <1>5
  <2>3. ASSUME NEW i \in 1 .. Len(body), body[i] # Part(Source)[i]
        PROVE  \E g \in Present : /\ body[i] = <<g, Part(Source)[i][2]>>
                                  /\ <<Part(Source)[i][2], body[i]>> \in disk
    <3>1. Part(Source)[i] = <<Source, Start + i - 1>>
      BY <2>1, <2>2
    <3>2. Part(Source)[i][2] = Start + i - 1
      BY <3>1
    <3>3. Right(body[i], Start + i - 1)
      BY <1>3
    <3>4. QED
      BY <2>3, <3>1, <3>2, <3>3 DEF Right
  <2>4. QED
    BY <2>1, <2>2, <2>3
<1>6. CASE range = None
  <2>1. Start = 0 /\ end = opened.size /\ pos = opened.size
    BY <1>1, <1>2, <1>3, <1>6 DEF Start, Stop
  <2>2. opened.size # 0
    <3>1. opened.size = 0 => Len(body) = 0
      BY <1>1, <1>3, <2>1
    <3>2. Len(body) = 0 => body = <<>>
      BY <1>1
    <3>3. QED
      BY <3>1, <3>2
  <2>3. Source \in Present /\ opened.size = SizeOf[Source]
    BY <1>3, <1>4, <2>1, <2>2
  <2>4. Part(Source) = Units(Source, Start, opened.size)
    BY <1>6, <2>1, <2>3 DEF Part
  <2>5. opened.size = pos - Start
    BY <1>1, <2>1
  <2>6. QED
    BY <1>1, <1>5, <2>3, <2>4, <2>5
<1>7. CASE range # None
  <2>1. Start = range[1] /\ range[1] \in Nat /\ range[2] \in Nat \ {0}
    BY <1>1, <1>7 DEF Start
  <2>2. /\ end = AtMost(range[1] + range[2], opened.size) /\ range[1] < opened.size
    BY <1>2, <1>7, <2>1 DEF Stop
  <2>3. /\ range[1] < end /\ AtMost(range[2], opened.size - range[1]) \in Nat
        /\ end - range[1] = AtMost(range[2], opened.size - range[1])
    BY <1>1, <2>1, <2>2, PartLength
  <2>4. Start < end /\ pos = end
    BY <1>1, <1>2, <1>3, <2>1, <2>3
  <2>5. Source \in Present /\ opened.size = SizeOf[Source]
    BY <1>1, <1>3, <1>4, <2>1, <2>2, <2>4
  <2>6. Part(Source) = Units(Source, Start, AtMost(range[2], opened.size - range[1]))
    BY <1>7, <2>1, <2>5 DEF Part
  <2>7. AtMost(range[2], opened.size - range[1]) = pos - Start
    BY <2>1, <2>3, <2>4
  <2>8. QED
    BY <1>5, <2>3, <2>5, <2>6, <2>7
<1>8. QED
  BY <1>6, <1>7

\* The inductive invariant of a GET, beside anything that happens to the
\* path.
LEMMA GetInvariant ==
  GetSpec => []GetInv
<1>1. GetInit => GetInv
  BY GetBegins
<1>2. GetInv /\ [GetNext]_getVars => GetInv'
  <2> SUFFICES ASSUME GetInv, [GetNext]_getVars PROVE GetInv'
    OBVIOUS
  <2>1. GetTypes'
    BY GetTypesStep DEF GetInv
  <2>2. PlaceTrue' /\ FileTrue'
    BY PlaceStep, FileStep DEF GetInv
  <2>3. DigestTrue' /\ DiskTrue' /\ BodyTrue'
    BY DigestStep, DiskStep, BodyStep DEF GetInv
  <2>4. QED
    BY <2>1, <2>2, <2>3 DEF GetInv
<1>3. QED
  BY <1>1, <1>2, PTL DEF GetSpec

\* Type correctness of the path, the request and its counters.
THEOREM GetTypeCorrect == GetSpec => []GetTypeOK
<1>1. GetInv => GetTypeOK
  BY DEF GetInv, GetTypes
<1>2. QED
  BY <1>1, GetInvariant, PTL

\* DigestOfBody: the Digest belongs to the file that was opened for the body,
\* for every number of files, although both are looked up on their own,
\* unless the listing has changed in between.
THEOREM DigestsAgree == GetSpec => []DigestOfBody
<1>1. GetInv => DigestOfBody
  BY DEF GetInv, DigestTrue
<1>2. QED
  BY <1>1, GetInvariant, PTL

\* SentInPlace: for files of every size, every range and whatever is stored for the
\* path, a complete body has the length of the part asked for of one file that is or
\* was at the path, and each chunk is that file's or one that is stored in its place
\* of another file that is or was there, but for the two cases the property names: a
\* Range ignored, a placeholder overtaken.
THEOREM BodiesInPlace == GetSpec => []SentInPlace
<1>1. GetInv => SentInPlace
  BY BodyIsPart DEF GetInv
<1>2. QED
  BY <1>1, GetInvariant, PTL

-----------------------------------------------------------------------------
\* How far a GET is from its end.

InBody == get \in {"body", "fetch", "download"}

\* Stages of a GET, counted from its end; the body is one.
Stage ==
    CASE get = "idle"                 -> 0
      [] get \in {"sent", "cut"}      -> 1
      [] InBody                       -> 2
      [] get = "md5"                  -> 3
      [] get = "digest"               -> 4
      [] get = "headers"              -> 5
      [] get = "open"                 -> 6
      [] get = "backend"              -> 7

\* What is left of the body; the calls left of a chunk, downloads in read_bytes and
\* attempts in download; and the steps to the next attempt.
ToSend == IF pos < end THEN end - pos ELSE 0
ToCall == 5 * (1 - retries) + (2 - attempts)
ToTake ==
    CASE get = "download" -> 0
      [] get = "fetch"    -> IF url THEN 1 ELSE 2
      [] OTHER            -> IF url THEN 2 ELSE 3

Calls  == ToCall + ToTake

\* A chunk resets the calls, and is worth more than all of them; a fault takes a URL
\* away, and is worth that.
Effort == 11 * ToSend + ToCall + ToTake + (MaxFaults - faults)

\* One step nearer, and no farther.
GetNearer ==
    Stage' < Stage \/ (InBody /\ InBody' /\ Effort' < Effort)
GetNoFarther ==
    Stage' < Stage \/ (Stage' = Stage /\ (InBody => Effort' <= Effort))

\* Each step of a GET brings it nearer to its end, and nothing that happens at the
\* path or in the cloud meanwhile sets it back.
GetDescends ==
    [][get # "idle" => GetNoFarther /\ (GetStep => GetNearer)]_getVars

\* Both measures are natural numbers.
GetMeasured == Stage \in 0 .. 7 /\ (InBody => Effort \in Nat)

LEMMA EffortIs ==
  ASSUME GetTypes
  PROVE  /\ Stage \in 0 .. 7 /\ ToSend \in Nat /\ ToTake \in 0 .. 3
         /\ InBody => ToCall \in 0 .. 7 /\ Effort \in Nat
         /\ MaxFaults - faults \in Nat
<1>1. /\ pos \in Nat /\ end \in Nat /\ retries \in 0 .. 2 /\ attempts \in 0 .. 2
      /\ faults \in 0 .. MaxFaults /\ MaxFaults \in Nat
      /\ get # "cut" => retries <= 1
      /\ get \in {"idle", "backend", "open", "headers", "digest", "md5", "body",
                  "fetch", "download", "sent", "cut"}
  BY GetFileAssumption DEF GetFileAssumption, GetTypes, GetTypeOK, Counted
<1>2. Stage \in 0 .. 7
  BY <1>1 DEF Stage, InBody
<1>3. ToSend \in Nat /\ ToTake \in 0 .. 3 /\ MaxFaults - faults \in Nat
  BY <1>1 DEF ToSend, ToTake
<1>4. InBody => ToCall \in 0 .. 7
  BY <1>1 DEF InBody, ToCall
<1>5. InBody => Effort \in Nat
  BY <1>3, <1>4 DEF Effort
<1>6. QED
  BY <1>2, <1>3, <1>4, <1>5

\* The sums the measure is made of.
LEMMA CallsBound ==
  ASSUME NEW r \in 0 .. 1, NEW a \in 0 .. 2
  PROVE  5 * (1 - r) + (2 - a) \in 0 .. 7
OBVIOUS

LEMMA CallsAndSteps ==
  ASSUME NEW a \in 0 .. 7, NEW b \in 0 .. 3, NEW x \in 0 .. 7, NEW y \in 0 .. 3
  PROVE  a + b \in Int /\ x + y \in Int /\ x + y < a + b + 11
OBVIOUS

LEMMA NotAbove ==
  ASSUME NEW c \in Int, NEW d \in Int, NEW f \in Nat, NEW g \in Nat, f <= g
  PROVE  /\ d = c => d <= c + (g - f)
         /\ d = c + 1 /\ g - f = 1 => d <= c + (g - f)
OBVIOUS

LEMMA Sums ==
  ASSUME NEW s \in Nat, NEW n \in Nat, n <= s, NEW c \in Int, NEW d \in Int,
         NEW m \in Nat, NEW f \in Nat, NEW g \in Nat, f <= g, g <= m
  PROVE  /\ n >= 1 /\ d < c + 11 => 11 * (s - n) + d + (m - g) < 11 * s + c + (m - f)
         /\ d < c => 11 * s + d + (m - g) < 11 * s + c + (m - f)
         /\ d <= c + (g - f) => 11 * s + d + (m - g) <= 11 * s + c + (m - f)
OBVIOUS

\* A chunk that has been sent makes up for the calls that the next one has again.
LEMMA PieceNearer ==
  ASSUME GetTypes, GetTypes', InBody, InBody', pos < end,
         NEW n \in Nat \ {0}, pos' = pos + n, n <= end - pos, end' = end,
         faults' \in faults .. MaxFaults
  PROVE  Effort' < Effort
<1>1. /\ pos \in Nat /\ end \in Nat /\ faults \in Nat /\ MaxFaults \in Nat
      /\ faults' \in Nat /\ faults <= faults' /\ faults' <= MaxFaults
  BY GetFileAssumption DEF GetFileAssumption, GetTypes, GetTypeOK
<1>2. ToSend = end - pos /\ ToSend' = end - pos - n
  BY <1>1 DEF ToSend
<1>3. ToCall \in 0 .. 7 /\ ToTake \in 0 .. 3
  BY EffortIs
<1>4. ToCall' \in 0 .. 7 /\ ToTake' \in 0 .. 3
  <2>1. ToTake' \in 0 .. 3
    BY DEF ToTake
  <2>2. retries' \in 0 .. 1 /\ attempts' \in 0 .. 2
    BY DEF GetTypes, GetTypeOK, Counted, InBody
  <2>3. ToCall' = 5 * (1 - retries') + (2 - attempts')
    BY DEF ToCall
  <2>4. ToCall' \in 0 .. 7
    BY <2>2, <2>3, CallsBound
  <2>5. QED
    BY <2>1, <2>4
<1>5. Effort = 11 * (end - pos) + ToCall + ToTake + (MaxFaults - faults)
  BY <1>2 DEF Effort
<1>6. Effort' = 11 * (end - pos - n) + ToCall' + ToTake' + (MaxFaults - faults')
  BY <1>2 DEF Effort
<1> DEFINE s == end - pos
           c == ToCall + ToTake
           d == ToCall' + ToTake'
<1>7. s \in Nat /\ n <= s
  BY <1>1
<1>8. c \in Int /\ d \in Int /\ d < c + 11
  BY <1>3, <1>4, CallsAndSteps
<1>9. Effort = 11 * s + c + (MaxFaults - faults)
  BY <1>1, <1>3, <1>5
<1>10. Effort' = 11 * (s - n) + d + (MaxFaults - faults')
  BY <1>1, <1>4, <1>6
<1> HIDE DEF s, c, d
<1>11. 11 * (s - n) + d + (MaxFaults - faults') < 11 * s + c + (MaxFaults - faults)
  <2>1. n \in Nat /\ n >= 1
    OBVIOUS
  <2>2. QED
    BY <1>1, <1>7, <1>8, <2>1, Sums
<1>12. QED
  BY <1>9, <1>10, <1>11

\* Within the body, from one call to the next.
LEMMA CallNearer ==
  ASSUME GetTypes, GetTypes', InBody, InBody', UNCHANGED <<pos, end>>,
         faults' \in faults .. MaxFaults
  PROVE  /\ ToCall' + ToTake' < ToCall + ToTake => Effort' < Effort
         /\ Calls' <= Calls + (faults' - faults) => Effort' <= Effort
<1>1. /\ faults \in Nat /\ MaxFaults \in Nat
      /\ faults' \in Nat /\ faults <= faults' /\ faults' <= MaxFaults
  BY GetFileAssumption DEF GetFileAssumption, GetTypes, GetTypeOK
<1>2. ToSend' = ToSend
  BY DEF ToSend
<1>3. ToCall \in 0 .. 7 /\ ToTake \in 0 .. 3 /\ ToSend \in Nat
  BY EffortIs
<1>4. ToCall' \in Int /\ ToTake' \in Int
  <2>1. ToTake' \in Int
    BY DEF ToTake
  <2>2. ToCall' \in Int
    BY DEF ToCall, GetTypes, GetTypeOK
  <2>3. QED
    BY <2>1, <2>2
<1>5. Effort' = 11 * ToSend + ToCall' + ToTake' + (MaxFaults - faults')
  BY <1>2 DEF Effort
<1>6. Effort = 11 * ToSend + ToCall + ToTake + (MaxFaults - faults)
  BY DEF Effort
<1> DEFINE c == ToCall + ToTake
           d == ToCall' + ToTake'
<1>7. /\ c \in Int /\ d \in Int /\ c = Calls /\ d = Calls'
      /\ Effort = 11 * ToSend + c + (MaxFaults - faults)
      /\ Effort' = 11 * ToSend + d + (MaxFaults - faults')
  BY <1>1, <1>3, <1>4, <1>5, <1>6 DEF Calls
<1> HIDE DEF c, d
<1>8. /\ d < c => Effort' < Effort
      /\ d <= c + (faults' - faults) => Effort' <= Effort
  <2>1. 0 \in Nat /\ 0 <= ToSend
    BY <1>3
  <2>2. QED
    BY <1>1, <1>3, <1>7, <2>1, Sums
<1>9. QED
  BY <1>7, <1>8 DEF c, d

\* Giving a download up leaves fewer of them, or ends the body.
LEMMA RetryNearer ==
  ASSUME GetTypes, GetTypes', get = "download", RetryPiece, faults' \in faults .. MaxFaults
  PROVE  GetNearer
<1>1. CASE get' = "cut"
  BY <1>1 DEF GetNearer, Stage, InBody
<1>2. CASE get' = "fetch"
  <2>1. retries \in 0 .. 1 /\ attempts \in 0 .. 2 /\ retries' = retries + 1
        /\ attempts' = 0 /\ url' = FALSE
    BY <1>2 DEF GetTypes, GetTypeOK, Counted, RetryPiece
  <2>2. ToCall' + ToTake' < ToCall + ToTake
    BY <1>2, <2>1 DEF ToCall, ToTake
  <2>3. InBody /\ InBody' /\ UNCHANGED <<pos, end>>
    BY <1>2 DEF InBody, RetryPiece
  <2>4. QED
    BY <2>2, <2>3, CallNearer DEF GetNearer
<1>3. QED
  BY <1>1, <1>2 DEF RetryPiece

\* What comes nearer is not farther.
LEMMA NearerNoFarther ==
  ASSUME GetTypes, GetTypes', GetNearer
  PROVE  GetNoFarther
<1>1. CASE Stage' < Stage
  BY <1>1 DEF GetNoFarther
<1>2. CASE InBody /\ InBody' /\ Effort' < Effort
  <2>1. Stage' = Stage
    BY <1>2 DEF InBody, Stage
  <2>2. Effort \in Nat
    BY <1>2, EffortIs
  <2>3. Effort' \in Int
    <3>1. /\ pos' \in Nat /\ end' \in Nat /\ retries' \in Nat /\ attempts' \in Nat
          /\ faults' \in Nat /\ MaxFaults \in Nat
      BY GetFileAssumption DEF GetFileAssumption, GetTypes, GetTypeOK
    <3>2. ToSend' \in Int /\ ToTake' \in Int /\ ToCall' \in Int
      BY <3>1 DEF ToSend, ToTake, ToCall
    <3>3. QED
      BY <3>1, <3>2 DEF Effort
  <2>4. QED
    BY <1>2, <2>1, <2>2, <2>3 DEF GetNoFarther
<1>3. QED
  BY <1>1, <1>2 DEF GetNearer

\* Each step of the body brings it nearer to its end.
LEMMA BodyNearer ==
  ASSUME GetTypes, GetTypes',
         \/ BodySent \/ ReadOverlay \/ ReadStored \/ MissChunk \/ GetDownloadUrl
         \/ StartDownload \/ Delivered \/ DownloadFails
  PROVE  GetNearer
<1>1. /\ pos \in Nat /\ end \in Nat /\ retries \in 0 .. 2 /\ attempts \in 0 .. 2
      /\ faults \in 0 .. MaxFaults /\ MaxFaults \in Nat /\ faults' \in 0 .. MaxFaults
  BY GetFileAssumption DEF GetFileAssumption, GetTypes, GetTypeOK
<1>2. ASSUME NEW u, Sends(u), get \in {"body", "download"}, get' = "body", pos < end,
             end' = end, faults' \in faults .. MaxFaults
      PROVE  GetNearer
  <2>1. 1 \in Nat \ {0} /\ pos' = pos + 1 /\ 1 <= end - pos
    BY <1>1, <1>2 DEF Sends
  <2>2. InBody /\ InBody'
    BY <1>2 DEF InBody
  <2>3. QED
    BY <1>2, <2>1, <2>2, PieceNearer DEF GetNearer
<1>3. ASSUME ToCall' + ToTake' < ToCall + ToTake, InBody, InBody',
             UNCHANGED <<pos, end>>, faults' = faults
      PROVE  GetNearer
  <2>1. faults' \in faults .. MaxFaults
    BY <1>1, <1>3
  <2>2. QED
    BY <1>3, <2>1, CallNearer DEF GetNearer
<1>4. CASE BodySent
  BY <1>4 DEF BodySent, GetNearer, Stage, InBody
<1>5. CASE ReadOverlay
  <2>1. CASE get' = "cut"
    BY <1>5, <2>1 DEF ReadOverlay, Unread, GetNearer, Stage, InBody
  <2>2. CASE get' # "cut"
    <3>1. PICK u : Sends(u)
      BY <1>5, <2>2 DEF ReadOverlay
    <3>2. get = "body" /\ get' = "body" /\ pos < end /\ end' = end /\ faults' = faults
      BY <1>5, <2>2 DEF ReadOverlay, Unread
    <3>3. faults' \in faults .. MaxFaults
      BY <1>1, <3>2
    <3>4. QED
      BY <1>2, <3>1, <3>2, <3>3
  <2>3. QED
    BY <2>1, <2>2
<1>6. CASE ReadStored
  <2>1. PICK x \in disk : Sends(x[2])
    BY <1>6 DEF ReadStored
  <2>2. get = "body" /\ get' = "body" /\ pos < end /\ end' = end /\ faults' = faults
    BY <1>6 DEF ReadStored, Unread
  <2>3. faults' \in faults .. MaxFaults
    BY <1>1, <2>2
  <2>4. QED
    BY <1>2, <2>1, <2>2, <2>3
<1>7. CASE MissChunk
  <2>1. /\ get = "body" /\ get' = "fetch"
        /\ UNCHANGED <<pos, end, url, retries, attempts, faults>>
    BY <1>7 DEF MissChunk, Unread, readVars
  <2>2. ToCall' + ToTake' < ToCall + ToTake
    BY <1>1, <2>1 DEF ToCall, ToTake
  <2>3. QED
    BY <1>3, <2>1, <2>2 DEF InBody
<1>8. CASE GetDownloadUrl
  <2>1. CASE get' = "cut"
    BY <1>8, <2>1 DEF GetDownloadUrl, GetNearer, Stage, InBody
  <2>2. CASE get' # "cut"
    <3>1. /\ get = "fetch" /\ get' = "fetch" /\ ~url /\ url'
          /\ UNCHANGED <<pos, end, retries, attempts, faults>>
      BY <1>8, <2>2 DEF GetDownloadUrl
    <3>2. ToCall' + ToTake' < ToCall + ToTake
      BY <1>1, <3>1 DEF ToCall, ToTake
    <3>3. QED
      BY <1>3, <3>1, <3>2 DEF InBody
  <2>3. QED
    BY <2>1, <2>2
<1>9. CASE StartDownload
  <2>1. /\ get = "fetch" /\ get' = "download" /\ url
        /\ UNCHANGED <<pos, end, retries, attempts, faults>>
    BY <1>9 DEF StartDownload, readVars
  <2>2. ToCall' + ToTake' < ToCall + ToTake
    BY <1>1, <2>1 DEF ToCall, ToTake
  <2>3. QED
    BY <1>3, <2>1, <2>2 DEF InBody
<1>10. CASE Delivered
  <2>1. get = "download" /\ pos < end /\ faults' \in faults .. MaxFaults
    BY <1>1, <1>10 DEF Delivered, Fault, GetTypes
  <2>2. CASE RetryPiece
    BY <2>1, <2>2, RetryNearer
  <2>3. CASE ~RetryPiece
    <3>1. PICK u : Arrives(u)
      BY <1>10, <2>3 DEF Delivered
    <3>2. Sends(u) /\ get' = "body" /\ end' = end
      BY <3>1 DEF Arrives
    <3>3. QED
      BY <1>2, <2>1, <3>2
  <2>4. QED
    BY <2>2, <2>3
<1>11. CASE DownloadFails
  <2>1. get = "download" /\ faults' = faults
    BY <1>11 DEF DownloadFails
  <2>2. CASE RetryPiece
    <3>1. faults' \in faults .. MaxFaults
      BY <1>1, <2>1
    <3>2. QED
      BY <2>1, <2>2, <3>1, RetryNearer
  <2>3. CASE ~RetryPiece
    <3>1. attempts' = attempts + 1 /\ UNCHANGED <<get, pos, end, url, retries>>
      BY <1>11, <2>3 DEF DownloadFails
    <3>2. ToCall' + ToTake' < ToCall + ToTake
      BY <1>1, <2>1, <3>1 DEF ToCall, ToTake
    <3>3. QED
      BY <1>3, <2>1, <3>1, <3>2 DEF InBody
  <2>4. QED
    BY <2>2, <2>3
<1>12. QED
  BY <1>4, <1>5, <1>6, <1>7, <1>8, <1>9, <1>10, <1>11

\* What happens at the path does not touch the GET but for the count of faults.
LEMMA PlaceNoFarther ==
  ASSUME GetTypes, GetTypes', UNCHANGED <<get, pos, end, url, retries, attempts>>,
         faults' \in faults .. MaxFaults
  PROVE  GetNoFarther
<1>1. UNCHANGED <<get, pos, end, url, retries, attempts>>
  OBVIOUS
<1>2. Stage' = Stage /\ (InBody => InBody')
  BY <1>1 DEF Stage, InBody
<1>3. ASSUME InBody PROVE Effort' <= Effort
  <2>1. ToCall' = ToCall /\ ToTake' = ToTake
    BY <1>1 DEF ToCall, ToTake
  <2>2. ToCall \in 0 .. 7 /\ ToTake \in 0 .. 3
    BY <1>3, EffortIs
  <2>3. Calls' <= Calls + (faults' - faults)
    <3>1. faults \in Nat /\ faults' \in Nat /\ faults <= faults'
      BY GetFileAssumption DEF GetFileAssumption, GetTypes, GetTypeOK
    <3>2. Calls' = Calls /\ Calls \in Int
      BY <2>1, <2>2 DEF Calls
    <3>3. QED
      BY <3>1, <3>2, NotAbove
  <2>4. QED
    BY <1>1, <1>2, <1>3, <2>3, CallNearer
<1>4. QED
  BY <1>2, <1>3 DEF GetNoFarther

\* The safety part of GetEnds, for bodies of every length, whatever is stored,
\* and every number of faults: the fairness of the calls alone brings a GET to its end.
THEOREM GetsDescend == GetSpec => GetDescends /\ []GetMeasured
<1>1. GetTypes => GetMeasured
  BY EffortIs DEF GetMeasured
<1>2. GetTypes /\ GetTypes' /\ [GetNext]_getVars
        => [get # "idle" => GetNoFarther /\ (GetStep => GetNearer)]_getVars
  <2> SUFFICES ASSUME GetTypes, GetTypes', GetNext, get # "idle"
               PROVE  GetNoFarther /\ (GetStep => GetNearer)
    OBVIOUS
  <2>1. ASSUME GetStep PROVE GetNearer
    <3>1. CASE \/ BodySent \/ ReadOverlay \/ ReadStored \/ MissChunk
               \/ GetDownloadUrl \/ StartDownload \/ Delivered \/ DownloadFails
      BY <3>1, BodyNearer
    <3>2. CASE HandleBrowserRequest \/ HandleWith
      BY <3>2 DEF HandleBrowserRequest, HandleWith, GetNearer, Stage, InBody
    <3>3. CASE OpenFile
      BY <3>3 DEF OpenFile, GetNearer, Stage, InBody
    <3>4. CASE Headers
      <4>1. get = "headers" /\ get' \in {"digest", "body", "cut"}
        BY <3>4 DEF Headers
      <4>2. QED
        BY <4>1 DEF GetNearer, Stage, InBody
    <3>5. CASE LookUpDigest \/ Md5
      BY <3>5 DEF LookUpDigest, Md5, GetNearer, Stage, InBody
    <3>6. CASE Rests
      BY <3>6 DEF Rests, GetNearer, Stage, InBody
    <3>7. QED
      BY <2>1, <3>1, <3>2, <3>3, <3>4, <3>5, <3>6 DEF GetStep
  <2>2. CASE GetStep
    BY <2>1, <2>2, NearerNoFarther
  <2>3. CASE Cut
    <3>1. get' = "cut"
      BY <2>3 DEF Cut
    <3>2. Stage' = 1
      BY <3>1 DEF Stage, InBody
    <3>3. Stage \in 1 .. 7
      BY EffortIs DEF Stage, InBody, GetTypes, GetTypeOK
    <3>4. Stage = 1 => ~InBody
      BY DEF Stage, InBody
    <3>5. GetNoFarther
      BY <3>2, <3>3, <3>4 DEF GetNoFarther
    <3>6. QED
      BY <2>1, <3>5
  <2>4. CASE UrlExpires
    <3>1. /\ get \in {"body", "fetch"} /\ get' = get /\ url /\ ~url' /\ faults' = faults + 1
          /\ faults < MaxFaults /\ UNCHANGED <<pos, end, retries, attempts>>
      BY <2>4 DEF UrlExpires, Fault
    <3>2. InBody /\ InBody' /\ Stage' = Stage
      BY <3>1 DEF InBody, Stage
    <3>3. ToCall' = ToCall /\ ToTake' = ToTake + 1 /\ ToCall \in 0 .. 7
      BY <3>1, <3>2, EffortIs DEF ToCall, ToTake
    <3>4. /\ faults \in Nat /\ faults' \in faults .. MaxFaults
          /\ ToTake \in 0 .. 3 /\ faults' - faults = 1
      BY <3>1, EffortIs, GetFileAssumption DEF GetFileAssumption, GetTypes, GetTypeOK
    <3>5. Effort' <= Effort
      <4>1. Calls' <= Calls + (faults' - faults)
        <5>1. Calls' = Calls + 1 /\ Calls \in Int /\ Calls' \in Int
          BY <3>3, <3>4 DEF Calls
        <5>2. faults' \in Nat /\ faults <= faults'
          BY <3>1, <3>4
        <5>3. QED
          BY <3>4, <5>1, <5>2, NotAbove
      <4>2. QED
        BY <3>1, <3>2, <3>4, <4>1, CallNearer
    <3>6. QED
      BY <2>1, <3>2, <3>5 DEF GetNoFarther
  <2>5. CASE \/ Relists \/ PutOpens \/ PutFails \/ RegisterWithoutFid \/ PutPublishes
             \/ EntryExpires \/ RemoveFile \/ OtherGetStores
    <3>1. /\ UNCHANGED <<get, pos, end, url, retries, attempts>>
          /\ faults' \in {faults, faults + 1}
      BY <2>5 DEF Relists, PutOpens, PutFails, RegisterWithoutFid, PutPublishes,
         EntryExpires, RemoveFile, OtherGetStores, Place, Fault, readVars
    <3>2. faults \in Nat /\ faults' \in 0 .. MaxFaults /\ MaxFaults \in Nat
      BY GetFileAssumption DEF GetFileAssumption, GetTypes, GetTypeOK
    <3>3. faults' \in faults .. MaxFaults
      BY <3>1, <3>2
    <3>4. QED
      BY <2>1, <3>1, <3>3, PlaceNoFarther
  <2>6. CASE HandleRequest
    BY <2>6 DEF HandleRequest
  <2>7. QED
    BY <2>1, <2>2, <2>3, <2>4, <2>5, <2>6 DEF GetNext
<1>3. GetInv => GetTypes
  BY DEF GetInv
<1>4. QED
  BY <1>1, <1>2, <1>3, GetInvariant, PTL DEF GetSpec, GetDescends
=============================================================================
