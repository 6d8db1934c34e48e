------------------------------ MODULE ProxyCache ------------------------------
(***************************************************************************)
(* The PROPFIND cache of the HTTPS proxy (proxy.rs).  A PROPFIND is        *)
(* answered from an entry younger than Ttl; otherwise it is forwarded to   *)
(* the file system and a 207 answer is stored under its path and depth.    *)
(* Requests that change the file system drop entries afterwards, one path  *)
(* at a time, each with what lies below it.                                *)
(*                                                                         *)
(* The file system behind the proxy is what StaleListing promises of it:   *)
(* an answer shows a set of writes and may miss the latest.  A path is a   *)
(* sequence of names, the root the empty one.                              *)
(***************************************************************************)
EXTENDS Integers, SequencesExt

CONSTANTS
    Names,          \* names of files and folders
    Readers,        \* PROPFIND requests under way at once
    Keys,           \* what they ask for: [path, depth]
    Writes,         \* requests that change the file system: [op, from, to]
    Ttl,            \* life of an entry, 5 s
    MaxDelay,       \* longest time from the file system's answer to its storing
    BackendLag      \* the file system may miss writes younger than this

Ops == {"put", "probe", "mkcol", "delete", "rmdir", "move", "movePlaceholder"}

ASSUME KeysAssumption ==
    \A k \in Keys : k.path \in Seq(Names) /\ k.depth \in {0, 1}
ASSUME WritesAssumption ==
    \A w \in Writes : /\ w.op \in Ops
                      /\ {w.from, w.to} \subseteq Seq(Names) \ {<<>>}
                      /\ w.op \notin {"move", "movePlaceholder"} => w.to = w.from
ASSUME DisjointAssumption == Readers \cap Writes = {}
ASSUME TimesAssumption ==
    Ttl \in Nat \ {0} /\ MaxDelay \in Nat /\ BackendLag \in Nat

VARIABLES
    cache,      \* the entry of each key: {} or {entry}
    pc,         \* where each PROPFIND and each write stands
    key,        \* what a PROPFIND under way asks for: {} or {key}
    held,       \* answer of the file system not stored yet: {} or {entry}
    left,       \* paths a write has still to invalidate
    truth,      \* writes that have taken effect
    since,      \* how long ago each of them did
    ans         \* answer to each PROPFIND: {} or {writes shown}

vars == <<cache, pc, key, held, left, truth, since, ans>>

\* An entry of the cache; outdated are the writes it was there before.
Entry == [list : SUBSET Writes, age : Nat, outdated : SUBSET Writes]

\* The longest an answer of the file system, and one of the proxy, may miss a
\* write.
BackendBound == IF BackendLag = 0 THEN 0 ELSE BackendLag - 1
Bound == BackendBound + MaxDelay + Ttl - 1

Init ==
    /\ cache = [k \in Keys |-> {}]
    /\ pc = [x \in Readers \cup Writes |-> "idle"]
    /\ key = [r \in Readers |-> {}]
    /\ held = [r \in Readers |-> {}]
    /\ left = [w \in Writes |-> <<>>]
    /\ truth = {}
    /\ since = [w \in Writes |-> 0]
    /\ ans = [r \in Readers |-> {}]

-----------------------------------------------------------------------------
Parent(p) == Front(p)

WrittenPaths ==
    UNION {{w.from, w.to, Parent(w.from), Parent(w.to)} : w \in Writes}

Goto(x, c) == pc' = [pc EXCEPT ![x] = c]

\* The paths each operation of vfs.rs invalidates, in its order.  A PUT without
\* content invalidates nothing, and the MOVE of a file that only has a
\* placeholder to another directory returns before the parents' turn.
Invalidations(w) ==
    CASE w.op \in {"put", "mkcol"}    -> <<Parent(w.from), w.from>>
      [] w.op \in {"delete", "rmdir"} -> <<w.from, Parent(w.from)>>
      [] w.op = "move"                -> <<w.from, w.to, Parent(w.from), Parent(w.to)>>
      [] w.op = "movePlaceholder"     -> <<w.from, w.to>>
      [] w.op = "probe"               -> <<>>

\* Mutation: only the path's own entries are dropped.
DropsExactly(p, k) == k.path = p

\* invalidate_propfind: the entries of p, of every depth, and of what is below.
Drops(p, k) == IsPrefix(p, k.path)

\* Mutation: entries do not expire.
LiveForEver(e) == TRUE

\* An entry answers while its age is below the 5 s.
Live(e) == e.age < Ttl

\* The entry at another age, and the entry with a write it does not show.
Aged(e, n)    == [e EXCEPT !.age = n]
Outdate(e, w) == [e EXCEPT !.outdated = @ \cup {w}]

-----------------------------------------------------------------------------
\* PROPFIND.

\* A client asks for a path, or for a path and its children, and a valid entry
\* is the answer.
Hit(r) ==
    /\ pc[r] = "idle"
    /\ \E k \in Keys : \E e \in cache[k] :
         Live(e) /\ ans' = [ans EXCEPT ![r] = {e.list}]
    /\ UNCHANGED <<cache, pc, key, held, left, truth, since>>

\* There is no entry, or one too old that is removed next.
Miss(r) ==
    /\ pc[r] = "idle"
    /\ \E k \in Keys :
         /\ \A e \in cache[k] : ~Live(e)
         /\ key' = [key EXCEPT ![r] = {k}]
         /\ Goto(r, IF cache[k] = {} THEN "forward" ELSE "expired")
    /\ ans' = [ans EXCEPT ![r] = {}]
    /\ UNCHANGED <<cache, held, left, truth, since>>

\* The removal takes the lock again: the entry may be a newer one by now.
RemoveExpired(r) ==
    /\ pc[r] = "expired"
    /\ cache' = [k \in Keys |-> IF k \in key[r] THEN {} ELSE cache[k]]
    /\ Goto(r, "forward")
    /\ UNCHANGED <<key, held, left, truth, since, ans>>

\* The file system answers, perhaps without its latest writes.
Forward(r) ==
    /\ pc[r] = "forward"
    /\ \E l \in SUBSET truth :
         /\ \A w \in truth \ l : since[w] < BackendLag
         /\ held' = [held EXCEPT ![r] = {[list |-> l, age |-> 0, outdated |-> {}]}]
    /\ Goto(r, "answered")
    /\ UNCHANGED <<cache, key, left, truth, since, ans>>

\* The backend cannot be reached or its body not be read: 502.
BackendFails(r) ==
    /\ pc[r] \in {"forward", "answered"}
    /\ held' = [held EXCEPT ![r] = {}]
    /\ key' = [key EXCEPT ![r] = {}]
    /\ Goto(r, "idle")
    /\ UNCHANGED <<cache, left, truth, since, ans>>

\* r is through with the entry it holds.
Finish(r) ==
    /\ ans' = [ans EXCEPT ![r] = {e.list : e \in held[r]}]
    /\ held' = [held EXCEPT ![r] = {}]
    /\ key' = [key EXCEPT ![r] = {}]
    /\ Goto(r, "idle")
    /\ UNCHANGED <<left, truth, since>>

\* Mutation: the new entry joins the old one.
StoreBeside(r) ==
    /\ pc[r] = "answered"
    /\ cache' = [k \in Keys |-> IF k \in key[r] THEN cache[k] \cup held[r] ELSE cache[k]]
    /\ Finish(r)

\* A 207 is stored with the time of now, whatever was invalidated since the
\* file system answered.
Store(r) ==
    /\ pc[r] = "answered"
    /\ cache' = [k \in Keys |-> IF k \in key[r] THEN {Aged(e, 0) : e \in held[r]}
                                             ELSE cache[k]]
    /\ Finish(r)

\* Any other status is only passed on.
PassOn(r) ==
    /\ pc[r] = "answered"
    /\ Finish(r)
    /\ UNCHANGED cache

-----------------------------------------------------------------------------
\* Writes.

\* The write takes effect in the file system: in the cloud or an overlay.
TakeEffect(w) ==
    /\ pc[w] = "idle"
    /\ truth' = truth \cup {w}
    /\ left' = [left EXCEPT ![w] = Invalidations(w)]
    /\ cache' = [k \in Keys |-> {Outdate(e, w) : e \in cache[k]}]
    /\ Goto(w, IF Invalidations(w) = <<>> THEN "done" ELSE "invalidate")
    /\ UNCHANGED <<key, held, since, ans>>

\* The next path of the write is invalidated; after the last one the client
\* is answered.
Invalidate(w) ==
    /\ pc[w] = "invalidate"
    /\ cache' = [k \in Keys |-> IF Drops(Head(left[w]), k) THEN {} ELSE cache[k]]
    /\ left' = [left EXCEPT ![w] = Tail(@)]
    /\ Goto(w, IF Len(left[w]) = 1 THEN "done" ELSE "invalidate")
    /\ UNCHANGED <<key, held, truth, since, ans>>

\* The connection is dropped at an await before the invalidations, which follow
\* each other without one, or the write was another client's.
Abandon(w) ==
    /\ pc[w] = "invalidate"
    /\ left[w] = Invalidations(w)
    /\ left' = [left EXCEPT ![w] = <<>>]
    /\ Goto(w, "gone")
    /\ UNCHANGED <<cache, key, held, truth, since, ans>>

-----------------------------------------------------------------------------
\* Time passes; ages stop where nothing compares them any more.
Tick ==
    /\ \A r \in Readers : \A e \in held[r] : e.age < MaxDelay
    /\ cache' = [k \in Keys |->
                   {IF Live(e) THEN Aged(e, e.age + 1) ELSE e : e \in cache[k]}]
    /\ held' = [r \in Readers |-> {Aged(e, e.age + 1) : e \in held[r]}]
    /\ since' = [w \in Writes |->
                   IF w \in truth /\ since[w] <= Bound THEN since[w] + 1
                                                       ELSE since[w]]
    /\ UNCHANGED <<pc, key, left, truth, ans>>

\* The process is killed and started again: the cache is in its memory.  A
\* restart of the proxy task alone, by the watchdog, keeps it.
Restart ==
    /\ cache' = [k \in Keys |-> {}]
    /\ held' = [r \in Readers |-> {}]
    /\ key' = [r \in Readers |-> {}]
    /\ left' = [w \in Writes |-> <<>>]
    /\ pc' = [x \in Readers \cup Writes |->
                IF x \in Readers THEN "idle"
                ELSE IF pc[x] = "invalidate" THEN "gone" ELSE pc[x]]
    /\ UNCHANGED <<truth, since, ans>>

-----------------------------------------------------------------------------
Propfind(r) ==
    \/ Hit(r) \/ Miss(r) \/ RemoveExpired(r)
    \/ Forward(r) \/ BackendFails(r) \/ Store(r) \/ PassOn(r)

Write(w) == TakeEffect(w) \/ Invalidate(w) \/ Abandon(w)

Next ==
    \/ \E r \in Readers : Propfind(r)
    \/ \E w \in Writes : Write(w)
    \/ Tick \/ Restart

Spec == Init /\ [][Next]_vars
-----------------------------------------------------------------------------
\* Properties.

Pc == {"idle", "expired", "forward", "answered", "invalidate", "done", "gone"}

\* Every variable has its type, and a key has one entry at most.
TypeOK ==
    /\ cache \in [Keys -> SUBSET Entry]
    /\ \A k \in Keys : \A e, f \in cache[k] : e = f
    /\ pc \in [Readers \cup Writes -> Pc]
    /\ key \in [Readers -> SUBSET Keys]
    /\ held \in [Readers -> SUBSET Entry]
    /\ \A r \in Readers : \A e, f \in held[r] : e = f
    /\ \A r \in Readers : pc[r] = "answered" => held[r] # {}
    /\ left \in [Writes -> Seq(WrittenPaths)]
    /\ \A w \in Writes : pc[w] = "invalidate" => left[w] # <<>>
    /\ truth \in SUBSET Writes
    /\ since \in [Writes -> Nat]
    /\ ans \in [Readers -> SUBSET SUBSET Writes]

\* What a write changes: its own path, what is below it when the path itself
\* comes or goes with its descendants, and the children shown by its parent.
Shows(w, k) ==
    \E p \in {w.from, w.to} :
        \/ IsPrefix(p, k.path)
        \/ k.depth = 1 /\ k.path = Parent(p)

\* P2-1: once a write has been answered, no answer stored before it took
\* effect is left for anything it changed.
Dropped ==
    \A w \in Writes : pc[w] = "done" =>
        \A k \in Keys : Shows(w, k) => \A e \in cache[k] : w \notin e.outdated

Promise == INSTANCE StaleListing WITH Changes <- Writes

\* With a file system that implements StaleListing the proxy does too: an
\* answer is at most Ttl and the delay of storing it behind the file system's.
AddsTtlOnly == Promise!Spec
=============================================================================
