------------------------------- MODULE ChunkRead -------------------------------
(***************************************************************************)
(* Reading a file through the chunk cache: read_bytes of vfs.rs over       *)
(* read_chunk, write_chunk and invalidate_chunks of cache.rs.  A read      *)
(* covers a range of bytes with chunks of ChunkSize; each chunk comes from *)
(* a file on disk or is downloaded and then written there by a task of its *)
(* own.  The files on disk belong to a path and a byte range, not to a     *)
(* version of the file.  The cloud is taken to send the range asked for;   *)
(* GetFile also has the other case.                                        *)
(*                                                                         *)
(* One path.  A version is a cloud file (a fid) that is or was at the      *)
(* path; its byte number b is <<version, b>>.                              *)
(***************************************************************************)
EXTENDS Integers, SequencesExt

CONSTANTS
    Readers,        \* opened files, each with one read at a time
    Versions,       \* cloud files that come to the path
    Size,           \* their sizes in bytes: [Versions -> Nat]
    First,          \* the version at the path in the beginning
    ChunkSize,      \* read_ahead_chunk_size
    Positions,      \* where reads start
    Counts          \* how many bytes they ask for

ASSUME SizesAssumption ==
    /\ First \in Versions /\ Size \in [Versions -> Nat]
    /\ ChunkSize \in Nat \ {0}
    /\ Positions \subseteq Nat /\ Counts \subseteq Nat

VARIABLES
    chunks,         \* chunk files, by name: {} or {version the bytes are of}
    writes,         \* spawned writes of chunks: set of [key, of]
    wipes,          \* spawned removals of the path's chunk directory
    chunk_locks,    \* who holds (first) and awaits the lock of each chunk
    pc,             \* where each reader stands
    file,           \* the version it has opened: {} or {version}
    read,           \* its read: [from, to, idx, buf]
    tries,          \* failed downloads of its present chunk
    data,           \* version whose bytes it has got from disk: {} or {version}
    ans,            \* the bytes it got last: {} or {[from, to, size, bytes]}
    current,        \* the version at the path: {} or {version}
    past,           \* versions that are or were there
    up,             \* where each version that is uploaded stands
    strayed         \* history: versions used after they had left the path

vars == <<chunks, writes, wipes, chunk_locks, pc, file, read, tries, data, ans,
          current, past, up, strayed>>

reader == <<pc, file, read, tries, data, ans>>
path   == <<current, past, up, strayed>>

-----------------------------------------------------------------------------
\* Bytes and chunks.

Lesser(a, b)  == IF a < b THEN a ELSE b
Greater(a, b) == IF a > b THEN a ELSE b

\* The chunks of a version; the last one ends with the file.
ChunksOf(v)    == {i \in 0 .. Size[v] : i * ChunkSize < Size[v]}
ChunkLen(v, i) == Lesser(ChunkSize, Size[v] - i * ChunkSize)

\* The name of a chunk file: where it starts, and its length.
Key(v, i) == [start |-> i * ChunkSize, len |-> ChunkLen(v, i)]

Keys   == UNION {{Key(v, i) : i \in ChunksOf(v)} : v \in Versions}
Starts == {k.start : k \in Keys}

\* The chunks a range of bytes needs.
FirstChunk(from) == from \div ChunkSize

\* Mutation: the last byte's chunk is not counted unless it is full.
LastFullChunk(to) == to \div ChunkSize - 1

LastChunk(to) == (to - 1) \div ChunkSize

NoRead == [from |-> 0, to |-> 0, idx |-> 0, buf |-> <<>>]

\* A buffer of n zero bytes; a zero byte is {}, byte b of version v is {<<v, b>>}.
ZeroBytes(n) == [b \in 0 .. n - 1 |-> {}]

\* The part of chunk i of version v, which has len bytes, that overlaps with a
\* read is copied to its place in the read's buffer.
WithChunk(rd, i, v, len) ==
    LET start   == i * ChunkSize
        byte(j) == {<<v, start + j>>}
        lo      == Greater(rd.from, start)
        hi      == Lesser(rd.to, start + len)
    IN  [b \in DOMAIN rd.buf |->
           IF b \in lo - rd.from .. hi - rd.from - 1
           THEN byte((lo - start) + (b - (lo - rd.from)))
           ELSE rd.buf[b]]

-----------------------------------------------------------------------------
Init ==
    /\ chunks = [k \in Keys |-> {}]
    /\ writes = {}
    /\ wipes = 0
    /\ chunk_locks = [s \in Starts |-> <<>>]
    /\ pc = [r \in Readers |-> "closed"]
    /\ file = [r \in Readers |-> {}]
    /\ read = [r \in Readers |-> NoRead]
    /\ tries = [r \in Readers |-> 0]
    /\ data = [r \in Readers |-> {}]
    /\ ans = [r \in Readers |-> {}]
    /\ current = {First}
    /\ past = {First}
    /\ up = [v \in Versions |-> "no"]
    /\ strayed = {}

Goto(r, c) == pc' = [pc EXCEPT ![r] = c]

\* The chunk a reader is at, and its lock.
KeyOf(r)    == Key(CHOOSE v \in file[r] : TRUE, read[r].idx)
StartOf(r)  == read[r].idx * ChunkSize
HasLock(r)  == chunk_locks[StartOf(r)] # <<>> /\ Head(chunk_locks[StartOf(r)]) = r

\* A reader queues for the lock of the chunk at s; one leaves its place.
Queued(locks, r, s) == [locks EXCEPT ![s] = Append(@, r)]
Places(q, r)        == {i \in 1 .. Len(q) : q[i] = r}
Without(locks, r)   ==
    [s \in Starts |-> IF Places(locks[s], r) = {} THEN locks[s]
                      ELSE RemoveAt(locks[s], CHOOSE i \in Places(locks[s], r) : TRUE)]

\* Versions somebody reads or writes chunks of.
Busy == {v \in Versions : \/ \E r \in Readers : v \in file[r]
                          \/ \E x \in writes : x.of = v}

-----------------------------------------------------------------------------
\* The reader.

\* The path is looked up, perhaps in a listing that is out of date.
Open(r) ==
    /\ pc[r] = "closed"
    /\ \E v \in past :
         /\ file' = [file EXCEPT ![r] = {v}]
         /\ strayed' = strayed \cup ({v} \ current)
    /\ Goto(r, "open")
    /\ ans' = [ans EXCEPT ![r] = {}]
    /\ UNCHANGED <<chunks, writes, wipes, chunk_locks, read, tries, data,
                   current, past, up>>

Answer(r, rd, size) ==
    ans' = [ans EXCEPT ![r] = {[from |-> rd.from, to |-> rd.to, size |-> size,
                                bytes |-> rd.buf]}]

\* read_bytes at the position a seek or the last read has left.
ReadBytes(r) ==
    /\ pc[r] = "open"
    /\ \E v \in file[r], from \in Positions, count \in Counts :
         LET to == Lesser(from + count, Size[v])
         IN  \/ /\ from >= to
                /\ UNCHANGED <<pc, read, chunk_locks>>
             \/ /\ from < to
                /\ read' = [read EXCEPT ![r] =
                              [from |-> from, to |-> to, idx |-> FirstChunk(from),
                               buf |-> ZeroBytes(to - from)]]
                /\ chunk_locks' = Queued(chunk_locks, r, FirstChunk(from) * ChunkSize)
                /\ Goto(r, "lock")
    /\ ans' = [ans EXCEPT ![r] = {}]
    /\ UNCHANGED <<chunks, writes, wipes, file, tries, data, path>>

\* The lock is the reader's; a chunk file of this name is read, or missing.
ReadChunk(r) ==
    /\ pc[r] = "lock" /\ HasLock(r)
    /\ data' = [data EXCEPT ![r] = chunks[KeyOf(r)]]
    /\ Goto(r, IF chunks[KeyOf(r)] = {} THEN "fetch" ELSE "age")
    /\ UNCHANGED <<chunks, writes, wipes, chunk_locks, file, read, tries, ans, path>>

\* The bytes of version v are copied and the lock released; the next chunk
\* follows or the read is answered.
TakeChunk(r, v) ==
    LET rd   == [read[r] EXCEPT !.buf =
                                WithChunk(read[r], read[r].idx, v, KeyOf(r).len)]
        next == read[r].idx + 1
    IN  /\ tries' = [tries EXCEPT ![r] = 0]
        /\ data' = [data EXCEPT ![r] = {}]
        /\ \/ /\ read[r].idx < LastChunk(read[r].to)
              /\ read' = [read EXCEPT ![r] = [rd EXCEPT !.idx = next]]
              /\ chunk_locks' = Queued(Without(chunk_locks, r), r, next * ChunkSize)
              /\ Goto(r, "lock")
              /\ UNCHANGED ans
           \/ /\ read[r].idx >= LastChunk(read[r].to)
              /\ \E f \in file[r] : Answer(r, rd, Size[f])
              /\ read' = [read EXCEPT ![r] = NoRead]
              /\ chunk_locks' = Without(chunk_locks, r)
              /\ Goto(r, "open")
        /\ UNCHANGED file

\* The time stamp of the file that has the name by now decides: older than 24 h,
\* and the file is removed and the chunk downloaded; younger, or no file any
\* more, and the bytes read before count.
CheckAge(r) ==
    /\ pc[r] = "age"
    /\ \/ /\ chunks[KeyOf(r)] # {}
          /\ chunks' = [chunks EXCEPT ![KeyOf(r)] = {}]
          /\ data' = [data EXCEPT ![r] = {}]
          /\ Goto(r, "fetch")
          /\ UNCHANGED <<chunk_locks, file, read, tries, ans>>
       \/ /\ \E v \in data[r] : TakeChunk(r, v)
          /\ UNCHANGED chunks
    /\ UNCHANGED <<writes, wipes, path>>

\* The bytes of the opened version arrive, and a task writes them to disk.
Download(r) ==
    /\ pc[r] = "fetch"
    /\ \E v \in file[r] :
         /\ writes' = writes \cup {[key |-> KeyOf(r), of |-> v]}
         /\ TakeChunk(r, v)
    /\ UNCHANGED <<chunks, wipes, path>>

\* Mutation: one retry too many.
RetryTwice(r) ==
    /\ pc[r] = "fetch" /\ tries[r] <= 1
    /\ tries' = [tries EXCEPT ![r] = @ + 1]
    /\ UNCHANGED <<chunks, writes, wipes, chunk_locks, pc, file, read, data, ans, path>>

\* The download fails, stops short or takes 300 s: once more with another URL.
Retry(r) ==
    /\ pc[r] = "fetch" /\ tries[r] = 0
    /\ tries' = [tries EXCEPT ![r] = 1]
    /\ UNCHANGED <<chunks, writes, wipes, chunk_locks, pc, file, read, data, ans, path>>

\* Mutation: the lock is not released.
FailLocked(r) ==
    /\ pc[r] = "fetch"
    /\ read' = [read EXCEPT ![r] = NoRead]
    /\ tries' = [tries EXCEPT ![r] = 0]
    /\ Goto(r, "open")
    /\ UNCHANGED <<chunks, writes, wipes, chunk_locks, file, data, ans, path>>

\* It fails again, or there is no download URL: the read ends with an error.
Fail(r) ==
    /\ pc[r] = "fetch"
    /\ chunk_locks' = Without(chunk_locks, r)
    /\ read' = [read EXCEPT ![r] = NoRead]
    /\ tries' = [tries EXCEPT ![r] = 0]
    /\ Goto(r, "open")
    /\ UNCHANGED <<chunks, writes, wipes, file, data, ans, path>>

\* The request ends between two reads, or its connection is dropped in one; a
\* dropped guard releases its lock.
Close(r) ==
    /\ pc[r] # "closed"
    /\ chunk_locks' = Without(chunk_locks, r)
    /\ file' = [file EXCEPT ![r] = {}]
    /\ read' = [read EXCEPT ![r] = NoRead]
    /\ tries' = [tries EXCEPT ![r] = 0]
    /\ data' = [data EXCEPT ![r] = {}]
    /\ ans' = [ans EXCEPT ![r] = {}]
    /\ Goto(r, "closed")
    /\ UNCHANGED <<chunks, writes, wipes, path>>

-----------------------------------------------------------------------------
\* Tasks on the disk.

\* A spawned write is done, or fails because its directory is being removed.
WriteChunk(x) ==
    /\ x \in writes
    /\ writes' = writes \ {x}
    /\ \/ chunks' = [chunks EXCEPT ![x.key] = {x.of}]
       \/ UNCHANGED chunks
    /\ UNCHANGED <<wipes, chunk_locks, reader, path>>

\* A spawned removal of the directory is done; where it fails, chunks stay.
WipeChunks ==
    /\ wipes > 0
    /\ wipes' = wipes - 1
    /\ \E kept \in SUBSET Keys :
         /\ chunks' = [k \in Keys |-> IF k \in kept THEN chunks[k] ELSE {}]
         /\ strayed' = strayed \cup UNION {chunks[k] : k \in kept}
    /\ UNCHANGED <<writes, chunk_locks, reader, current, past, up>>

-----------------------------------------------------------------------------
\* What happens at the path.

\* The upload of v is confirmed, v takes the place of what was there.
UploadFinishes(v) ==
    /\ up[v] = "no" /\ v \notin past
    /\ up' = [up EXCEPT ![v] = "finished"]
    /\ current' = {v}
    /\ past' = past \cup {v}
    /\ strayed' = strayed \cup (current \cap Busy)
    /\ UNCHANGED <<chunks, writes, wipes, chunk_locks, reader>>

\* Mutation: the task leaves the chunks alone.
PublishOnly(v) ==
    /\ up[v] = "finished"
    /\ up' = [up EXCEPT ![v] = "published"]
    /\ UNCHANGED <<chunks, writes, wipes, chunk_locks, reader, current, past, strayed>>

\* An upload invalidates the chunks once: its task does, at its end or when up_part
\* tells that it is finished, or the request, if the answer to up_pre or to the hash is.
UploadPublishes(v) ==
    /\ up[v] = "finished"
    /\ up' = [up EXCEPT ![v] = "published"]
    /\ wipes' = wipes + 1
    /\ UNCHANGED <<chunks, writes, chunk_locks, reader, current, past, strayed>>

\* DELETE of the path, or a MOVE away from it; the chunks stay.
Leaves ==
    /\ current # {}
    /\ current' = {}
    /\ strayed' = strayed \cup (current \cap Busy)
    /\ UNCHANGED <<chunks, writes, wipes, chunk_locks, reader, past, up>>

\* A MOVE of another file to the path, which has been freed before.
MovesIn(v) ==
    /\ current = {} /\ v \notin past
    /\ current' = {v}
    /\ past' = past \cup {v}
    /\ UNCHANGED <<chunks, writes, wipes, chunk_locks, reader, up, strayed>>

\* The process is killed and started again; what is on disk stays.
Restart ==
    /\ writes' = {}
    /\ wipes' = 0
    /\ chunk_locks' = [s \in Starts |-> <<>>]
    /\ pc' = [r \in Readers |-> "closed"]
    /\ file' = [r \in Readers |-> {}]
    /\ read' = [r \in Readers |-> NoRead]
    /\ tries' = [r \in Readers |-> 0]
    /\ data' = [r \in Readers |-> {}]
    /\ ans' = [r \in Readers |-> {}]
    /\ up' = [v \in Versions |-> IF up[v] = "finished" THEN "gone" ELSE up[v]]
    /\ strayed' = strayed \cup (IF wipes > 0 THEN past ELSE {})
    /\ UNCHANGED <<chunks, current, past>>

-----------------------------------------------------------------------------
ReadStep(r) ==
    ReadChunk(r) \/ CheckAge(r) \/ Download(r) \/ Retry(r) \/ Fail(r)

DiskTask == WipeChunks \/ \E x \in writes : WriteChunk(x)

PathChanges(v) ==
    UploadFinishes(v) \/ UploadPublishes(v) \/ MovesIn(v)

Next ==
    \/ \E r \in Readers : Open(r) \/ ReadBytes(r) \/ ReadStep(r) \/ Close(r)
    \/ \E v \in Versions : PathChanges(v)
    \/ DiskTask \/ Leaves \/ Restart

Spec == Init /\ [][Next]_vars
-----------------------------------------------------------------------------
\* Properties.

\* Every variable has its type; a chunk is downloaded twice at most.
TypeOK ==
    /\ chunks \in [Keys -> {{}} \cup {{v} : v \in past}]
    /\ \A x \in writes : x.key \in Keys /\ x.of \in past
    /\ wipes \in 0 .. Cardinality(Versions)
    /\ chunk_locks \in [Starts -> Seq(Readers)]
    /\ pc \in [Readers -> {"closed", "open", "lock", "age", "fetch"}]
    /\ file \in [Readers -> SUBSET past]
    /\ tries \in [Readers -> 0 .. 1]
    /\ data \in [Readers -> SUBSET past]
    /\ current \subseteq past /\ past \subseteq Versions
    /\ up \in [Versions -> {"no", "finished", "published", "gone"}]
    /\ strayed \subseteq past

\* A read that succeeds has filled all it was asked for, up to the end of the
\* file, and every byte is the byte of that position in some version of it.
ReadExact ==
    \A r \in Readers : \A a \in ans[r] :
        /\ a.from < a.to => a.to <= a.size
        /\ \A b \in 0 .. a.to - a.from - 1 :
             \E v \in past : a.bytes[b] = {<<v, a.from + b>>}

\* Once an upload is through and the removals it has spawned are done, no chunk is
\* left of a version that was there before, unless the version was being read, or
\* its chunks written, when it left the path or later, or a removal has failed.
UploadLeavesNoOldChunk ==
    \A v \in current : up[v] = "published" /\ wipes = 0 =>
        \A k \in Keys : chunks[k] \subseteq current \cup strayed

\* Whoever needs a chunk is in line for its lock, once and for no other, and only
\* the first in line reads or downloads it: no lock is left behind by a read that
\* ended, failed or was dropped, and no two reads wait for each other.
LockHolderWorks ==
    /\ \A r \in Readers, s \in Starts :
         Cardinality(Places(chunk_locks[s], r)) =
             IF pc[r] \in {"lock", "age", "fetch"} /\ StartOf(r) = s THEN 1 ELSE 0
    /\ \A r \in Readers : pc[r] \in {"age", "fetch"} => HasLock(r)
=============================================================================
