--------------------------- MODULE ProxyCacheProofs ---------------------------
(***************************************************************************)
(* The PROPFIND cache implements StaleListing over a file system that does,*)
(* and leaves nothing behind that a write has made outdated.               *)
(***************************************************************************)
EXTENDS ProxyCache, SequenceTheorems, TLAPS

USE DEF Pc

\* What Aged and Outdate keep and change of an entry.
LEMMA AgedEntry ==
  ASSUME NEW e \in Entry, NEW n \in Nat
  PROVE  /\ Aged(e, n) \in Entry
         /\ Aged(e, n).list = e.list
         /\ Aged(e, n).age = n
         /\ Aged(e, n).outdated = e.outdated
BY DEF Entry, Aged

LEMMA OlderEntry ==
  ASSUME NEW e \in Entry
  PROVE  /\ e.age \in Nat
         /\ Aged(e, e.age + 1) \in Entry
         /\ Aged(e, e.age + 1).list = e.list
         /\ Aged(e, e.age + 1).age = e.age + 1
         /\ Aged(e, e.age + 1).outdated = e.outdated
<1>1. e.age \in Nat
  BY DEF Entry
<1>2. e.age + 1 \in Nat
  BY <1>1
<1>3. QED
  BY <1>1, <1>2, AgedEntry

LEMMA OutdatedEntry ==
  ASSUME NEW e \in Entry, NEW w \in Writes
  PROVE  /\ Outdate(e, w) \in Entry
         /\ Outdate(e, w).list = e.list
         /\ Outdate(e, w).age = e.age
         /\ Outdate(e, w).outdated = e.outdated \cup {w}
BY DEF Entry, Outdate

\* Every operation invalidates paths that writes touch.
LEMMA InvalidationsInSeq ==
  ASSUME NEW w \in Writes
  PROVE  Invalidations(w) \in Seq(WrittenPaths)
<1> DEFINE W == WrittenPaths
<1>1. {w.from, w.to, Parent(w.from), Parent(w.to)} \subseteq W
  BY DEF WrittenPaths
<1> HIDE DEF W
<1>2. /\ <<Parent(w.from), w.from>> \in Seq(W)
      /\ <<w.from, Parent(w.from)>> \in Seq(W)
      /\ <<w.from, w.to, Parent(w.from), Parent(w.to)>> \in Seq(W)
      /\ <<w.from, w.to>> \in Seq(W)
      /\ <<>> \in Seq(W)
  BY <1>1
<1>3. Invalidations(w) \in Seq(W)
  BY <1>2, WritesAssumption DEF Invalidations, Ops
<1>4. QED
  BY <1>3 DEF W

\* What is left to invalidate after one more path.
LEMMA NextLeft ==
  ASSUME TypeOK, NEW w \in Writes, pc[w] = "invalidate"
  PROVE  /\ left[w] \in Seq(WrittenPaths) /\ Len(left[w]) \in Nat \ {0}
         /\ Head(left[w]) = left[w][1]
         /\ Tail(left[w]) \in Seq(WrittenPaths)
         /\ Len(Tail(left[w])) = Len(left[w]) - 1
         /\ \A i \in 1 .. Len(Tail(left[w])) : Tail(left[w])[i] = left[w][i + 1]
<1>1. left[w] \in Seq(WrittenPaths) /\ left[w] # <<>>
  BY DEF TypeOK
<1>2. Len(left[w]) \in Nat \ {0}
  BY <1>1, EmptySeq
<1>3. /\ Tail(left[w]) \in Seq(WrittenPaths)
      /\ Len(Tail(left[w])) = Len(left[w]) - 1
      /\ \A i \in 1 .. Len(Tail(left[w])) : Tail(left[w])[i] = left[w][i + 1]
  BY <1>1, HeadTailProperties, Zenon
<1>4. Head(left[w]) = left[w][1]
  BY <1>1
<1>5. QED
  BY <1>1, <1>2, <1>3, <1>4

\* Type correctness of the proxy's cache, for every set of PROPFINDs, of keys
\* and of writes.
THEOREM ProxyTypeCorrect == Spec => []TypeOK
<1>1. Init => TypeOK
  BY DisjointAssumption DEF Init, TypeOK, Entry
<1>2. TypeOK /\ [Next]_vars => TypeOK'
  <2> SUFFICES ASSUME TypeOK, [Next]_vars PROVE TypeOK'
    OBVIOUS
  <2> USE DisjointAssumption DEF TypeOK, Goto
  <2>1. ASSUME NEW r \in Readers, Hit(r) PROVE TypeOK'
    BY <2>1 DEF Hit, Entry
  <2>2. ASSUME NEW r \in Readers, Miss(r) PROVE TypeOK'
    BY <2>2 DEF Miss
  <2>3. ASSUME NEW r \in Readers, RemoveExpired(r) PROVE TypeOK'
    BY <2>3 DEF RemoveExpired
  <2>4. ASSUME NEW r \in Readers, Forward(r) PROVE TypeOK'
    <3>1. \A l \in SUBSET truth : [list |-> l, age |-> 0, outdated |-> {}] \in Entry
      BY DEF Entry
    <3>2. PICK e \in Entry : held' = [held EXCEPT ![r] = {e}]
      BY <2>4, <3>1 DEF Forward
    <3>3. /\ held' \in [Readers -> SUBSET Entry]
          /\ \A q \in Readers : held'[q] = IF q = r THEN {e} ELSE held[q]
      BY <3>2
    <3>4. /\ pc' \in [Readers \cup Writes -> Pc]
          /\ \A q \in Readers : pc'[q] = "answered" => held'[q] # {}
          /\ \A w \in Writes : pc'[w] = "invalidate" => left[w] # <<>>
      BY <2>4, <3>3 DEF Forward
    <3>5. ASSUME NEW q \in Readers PROVE \A d, f \in held'[q] : d = f
      <4>1. CASE q = r
        BY <3>3, <4>1
      <4>2. CASE q # r
        BY <3>3, <4>2
      <4>3. QED
        BY <4>1, <4>2
    <3>6. QED
      BY <2>4, <3>3, <3>4, <3>5 DEF Forward
  <2>5. ASSUME NEW r \in Readers, BackendFails(r) PROVE TypeOK'
    BY <2>5 DEF BackendFails
  <2>6. ASSUME NEW r \in Readers, Store(r) PROVE TypeOK'
    <3>1. \A e \in held[r] : Aged(e, 0) \in Entry
      BY AgedEntry
    <3>2. \A e \in held[r] : e.list \in SUBSET Writes
      BY DEF Entry
    <3>3. /\ cache' \in [Keys -> SUBSET Entry]
          /\ \A k \in Keys : \A e, f \in cache'[k] : e = f
      BY <2>6, <3>1 DEF Store
    <3>4. QED
      BY <2>6, <3>2, <3>3 DEF Store, Finish
  <2>7. ASSUME NEW r \in Readers, PassOn(r) PROVE TypeOK'
    BY <2>7 DEF PassOn, Finish, Entry
  <2>8. ASSUME NEW w \in Writes, TakeEffect(w) PROVE TypeOK'
    <3>1. \A e \in Entry : Outdate(e, w) \in Entry
      BY OutdatedEntry
    <3>2. /\ cache' \in [Keys -> SUBSET Entry]
          /\ \A k \in Keys : \A e, f \in cache'[k] : e = f
      BY <2>8, <3>1 DEF TakeEffect
    <3>3. Invalidations(w) \in Seq(WrittenPaths)
      BY InvalidationsInSeq
    <3>4. QED
      BY <2>8, <3>2, <3>3 DEF TakeEffect
  <2>9. ASSUME NEW w \in Writes, Invalidate(w) PROVE TypeOK'
    <3>1. /\ left[w] \in Seq(WrittenPaths) /\ Len(left[w]) \in Nat \ {0}
          /\ Tail(left[w]) \in Seq(WrittenPaths)
          /\ Len(Tail(left[w])) = Len(left[w]) - 1
      BY <2>9, NextLeft DEF Invalidate
    <3>2. Len(left[w]) # 1 => Tail(left[w]) # <<>>
      <4>1. Len(left[w]) # 1 => Len(Tail(left[w])) # 0
        BY <3>1
      <4>2. QED
        BY <4>1, EmptySeq
    <3>3. left' \in [Writes -> Seq(WrittenPaths)]
      BY <2>9, <3>1 DEF Invalidate
    <3>4. \A v \in Writes : pc'[v] = "invalidate" => left'[v] # <<>>
      BY <2>9, <3>2 DEF Invalidate
    <3>5. QED
      BY <2>9, <3>3, <3>4 DEF Invalidate
  <2>10. ASSUME NEW w \in Writes, Abandon(w) PROVE TypeOK'
    BY <2>10 DEF Abandon
  <2>11. ASSUME Tick PROVE TypeOK'
    <3>1. \A e \in Entry : e.age \in Nat /\ Aged(e, e.age + 1) \in Entry
      BY OlderEntry
    <3>2. cache' \in [Keys -> SUBSET Entry] /\ held' \in [Readers -> SUBSET Entry]
      BY <2>11, <3>1 DEF Tick
    <3>3. /\ \A k \in Keys : \A e, f \in cache'[k] : e = f
          /\ \A r \in Readers : \A e, f \in held'[r] : e = f
      BY <2>11 DEF Tick
    <3>4. since' \in [Writes -> Nat]
      BY <2>11 DEF Tick
    <3>5. \A r \in Readers : pc'[r] = "answered" => held'[r] # {}
      BY <2>11 DEF Tick
    <3>6. QED
      BY <2>11, <3>2, <3>3, <3>4, <3>5 DEF Tick
  <2>12. ASSUME Restart PROVE TypeOK'
    BY <2>12 DEF Restart
  <2>13. ASSUME UNCHANGED vars PROVE TypeOK'
    BY <2>13 DEF vars
  <2>14. QED
    BY <2>1, <2>2, <2>3, <2>4, <2>5, <2>6, <2>7, <2>8, <2>9, <2>10, <2>11,
       <2>12, <2>13 DEF Next, Propfind, Write
<1>3. QED
  BY <1>1, <1>2, PTL DEF Spec

-----------------------------------------------------------------------------
\* The promise of StaleListing.

\* The listing l shows only writes that have happened, and misses none that
\* happened more than n ago.
Misses(l, n) ==
    /\ l \subseteq truth
    /\ \A w \in truth : w \notin l => since[w] <= n

\* A write that waits has not happened; one that has not happened has no age.
WritesInOrder ==
    \A w \in Writes : /\ w \notin truth => since[w] = 0
                      /\ pc[w] = "idle" => w \notin truth

\* An answer on its way to the cache is as old as the file system's and its
\* own age.
HeldAges ==
    \A r \in Readers : \A e \in held[r] :
        e.age <= MaxDelay /\ Misses(e.list, BackendBound + e.age)

\* An entry's own age comes on top of that.
CacheAges ==
    \A k \in Keys : \A e \in cache[k] :
        Live(e) => Misses(e.list, BackendBound + MaxDelay + e.age)

IInv == TypeOK /\ WritesInOrder /\ HeldAges /\ CacheAges

LEMMA BackendBoundNat == BackendBound \in Nat /\ Bound \in Nat
BY TimesAssumption DEF BackendBound, Bound

\* The step from the type invariant, as a fact to use below.
LEMMA EntryFields ==
  ASSUME TypeOK
  PROVE  /\ \A r \in Readers : \A e \in held[r] :
                e \in Entry /\ e.age \in Nat /\ e.list \in SUBSET Writes
         /\ \A k \in Keys : \A e \in cache[k] :
                e \in Entry /\ e.age \in Nat /\ e.list \in SUBSET Writes
BY DEF TypeOK, Entry

\* Steps that neither change the file system nor let time pass keep what a
\* listing misses.
LEMMA MissesKept ==
  ASSUME UNCHANGED <<truth, since>>, NEW l, NEW n
  PROVE  Misses(l, n)' = Misses(l, n)
BY DEF Misses

LEMMA OrderStep ==
  ASSUME IInv, [Next]_vars
  PROVE  WritesInOrder'
<1> USE DisjointAssumption DEF IInv, TypeOK, WritesInOrder, Goto
<1>1. ASSUME NEW r \in Readers, Propfind(r) PROVE WritesInOrder'
  BY <1>1 DEF Propfind, Hit, Miss, RemoveExpired, Forward, BackendFails, Store,
              PassOn, Finish
<1>2. ASSUME NEW w \in Writes, TakeEffect(w) PROVE WritesInOrder'
  BY <1>2 DEF TakeEffect
<1>3. ASSUME NEW w \in Writes, Invalidate(w) PROVE WritesInOrder'
  BY <1>3 DEF Invalidate
<1>4. ASSUME NEW w \in Writes, Abandon(w) PROVE WritesInOrder'
  BY <1>4 DEF Abandon
<1>5. ASSUME Tick PROVE WritesInOrder'
  BY <1>5 DEF Tick
<1>6. ASSUME Restart PROVE WritesInOrder'
  BY <1>6 DEF Restart
<1>7. ASSUME UNCHANGED vars PROVE WritesInOrder'
  BY <1>7 DEF vars
<1>8. QED
  BY <1>1, <1>2, <1>3, <1>4, <1>5, <1>6, <1>7 DEF Next, Write

\* A write that takes effect, and the time that passes, add to what a listing
\* misses.
LEMMA MissesAfterWrite ==
  ASSUME IInv, NEW w \in Writes, TakeEffect(w), NEW l, NEW n \in Nat, Misses(l, n)
  PROVE  Misses(l, n)'
BY DEF IInv, TypeOK, WritesInOrder, TakeEffect, Misses

LEMMA MissesAfterTick ==
  ASSUME IInv, Tick, NEW l, NEW n \in Nat, Misses(l, n)
  PROVE  Misses(l, n + 1)'
BY BackendBoundNat DEF IInv, TypeOK, Tick, Misses

LEMMA HeldShrinks ==
  ASSUME IInv, UNCHANGED <<truth, since>>,
         \A r \in Readers : held'[r] \subseteq held[r]
  PROVE  HeldAges'
BY MissesKept DEF IInv, HeldAges

LEMMA HeldStep ==
  ASSUME IInv, [Next]_vars
  PROVE  HeldAges'
<1> USE DEF IInv, TypeOK, Goto
<1>1. ASSUME NEW r \in Readers, Forward(r) PROVE HeldAges'
  <2>1. PICK l \in SUBSET truth :
          /\ \A w \in truth \ l : since[w] < BackendLag
          /\ held' = [held EXCEPT ![r] = {[list |-> l, age |-> 0, outdated |-> {}]}]
    BY <1>1 DEF Forward
  <2>2. Misses(l, BackendBound + 0)
    BY <2>1, TimesAssumption DEF Misses, BackendBound
  <2>3. UNCHANGED <<truth, since>>
    BY <1>1 DEF Forward
  <2>4. Misses(l, BackendBound + 0)'
    BY <2>2, <2>3 DEF Misses
  <2>5. \A q \in Readers : q # r => held'[q] = held[q]
    BY <2>1
  <2>6. held'[r] = {[list |-> l, age |-> 0, outdated |-> {}]}
    BY <2>1
  <2>7. \A e \in held'[r] : e.age <= MaxDelay /\ Misses(e.list, BackendBound + e.age)'
    BY <2>4, <2>6, TimesAssumption
  <2>8. ASSUME NEW q \in Readers, NEW e \in held'[q]
        PROVE  e.age <= MaxDelay /\ Misses(e.list, BackendBound + e.age)'
    <3>1. CASE q = r
      BY <2>7, <3>1
    <3>2. CASE q # r
      <4>1. e \in held[q]
        BY <2>5, <3>2
      <4>2. e.age <= MaxDelay /\ Misses(e.list, BackendBound + e.age)
        BY <4>1 DEF HeldAges
      <4>3. QED
        BY <2>3, <4>2 DEF Misses
    <3>3. QED
      BY <3>1, <3>2
  <2>9. QED
    BY <2>8 DEF HeldAges
<1>2. ASSUME NEW r \in Readers, Propfind(r), ~Forward(r) PROVE HeldAges'
  <2>1. UNCHANGED <<truth, since>> /\ \A q \in Readers : held'[q] \subseteq held[q]
    <3>1. CASE Hit(r) \/ Miss(r) \/ RemoveExpired(r)
      BY <3>1 DEF Hit, Miss, RemoveExpired
    <3>2. CASE BackendFails(r)
      BY <3>2 DEF BackendFails
    <3>3. CASE Store(r) \/ PassOn(r)
      BY <3>3 DEF Store, PassOn, Finish
    <3>4. QED
      BY <1>2, <3>1, <3>2, <3>3 DEF Propfind
  <2>2. QED
    BY <2>1, HeldShrinks
<1>3. ASSUME NEW w \in Writes, TakeEffect(w) PROVE HeldAges'
  <2>1. \A r \in Readers : \A e \in held[r] : Misses(e.list, BackendBound + e.age)'
    BY <1>3, MissesAfterWrite, EntryFields, BackendBoundNat DEF HeldAges
  <2>2. QED
    BY <1>3, <2>1 DEF TakeEffect, HeldAges
<1>4. ASSUME NEW w \in Writes, Invalidate(w) \/ Abandon(w) PROVE HeldAges'
  BY <1>4, HeldShrinks DEF Invalidate, Abandon
<1>5. ASSUME Tick PROVE HeldAges'
  <2> SUFFICES ASSUME NEW r \in Readers, NEW f \in held'[r]
               PROVE  f.age <= MaxDelay /\ Misses(f.list, BackendBound + f.age)'
    BY DEF HeldAges
  <2>1. PICK e \in held[r] : f = Aged(e, e.age + 1)
    BY <1>5 DEF Tick
  <2>2. f.age = e.age + 1 /\ f.list = e.list /\ e.age \in Nat
    <3>1. e \in Entry
      BY EntryFields
    <3>2. QED
      BY <2>1, <3>1, OlderEntry
  <2>3. e.age < MaxDelay
    BY <1>5 DEF Tick
  <2>4. Misses(e.list, BackendBound + e.age)
    BY DEF HeldAges
  <2>5. BackendBound + e.age \in Nat
    BY <2>2, BackendBoundNat
  <2>6. Misses(e.list, BackendBound + e.age + 1)'
    BY <1>5, <2>4, <2>5, MissesAfterTick
  <2>7. BackendBound + e.age + 1 = BackendBound + f.age
    BY <2>2, BackendBoundNat
  <2>8. QED
    BY <2>2, <2>3, <2>6, <2>7, TimesAssumption
<1>6. ASSUME Restart PROVE HeldAges'
  BY <1>6 DEF Restart, HeldAges
<1>7. ASSUME UNCHANGED vars PROVE HeldAges'
  BY <1>7, HeldShrinks DEF vars
<1>8. QED
  BY <1>1, <1>2, <1>3, <1>4, <1>5, <1>6, <1>7 DEF Next, Write

LEMMA CacheShrinks ==
  ASSUME IInv, UNCHANGED <<truth, since>>,
         \A k \in Keys : cache'[k] \subseteq cache[k]
  PROVE  CacheAges'
BY MissesKept DEF IInv, CacheAges, Live

LEMMA MissesWeaker ==
  ASSUME TypeOK, NEW l, NEW m \in Nat, NEW n \in Nat, m <= n, Misses(l, m)
  PROVE  Misses(l, n)
BY DEF TypeOK, Misses

LEMMA CacheStep ==
  ASSUME IInv, [Next]_vars
  PROVE  CacheAges'
<1> USE DEF IInv
<1>1. ASSUME NEW r \in Readers, Store(r) PROVE CacheAges'
  <2> SUFFICES ASSUME NEW k \in Keys, NEW f \in cache'[k], Live(f)
               PROVE  Misses(f.list, BackendBound + MaxDelay + f.age)'
    BY DEF CacheAges, Live
  <2>1. UNCHANGED <<truth, since>>
    BY <1>1 DEF Store, Finish
  <2>2. CASE f \in cache[k]
    BY <2>1, <2>2 DEF CacheAges, Misses
  <2>3. ASSUME NEW e \in held[r], f = Aged(e, 0)
        PROVE  Misses(f.list, BackendBound + MaxDelay + f.age)'
    <3>1. e \in Entry /\ e.age \in Nat /\ e.age <= MaxDelay
      BY EntryFields DEF HeldAges
    <3>2. f.list = e.list /\ f.age = 0
      BY <2>3, <3>1, AgedEntry
    <3>3. Misses(e.list, BackendBound + e.age)
      BY DEF HeldAges
    <3>4. Misses(e.list, BackendBound + MaxDelay)
      BY <3>1, <3>3, MissesWeaker, BackendBoundNat, TimesAssumption
    <3>5. Misses(e.list, BackendBound + MaxDelay)'
      BY <2>1, <3>4 DEF Misses
    <3>6. BackendBound + MaxDelay + f.age = BackendBound + MaxDelay
      BY <3>2, BackendBoundNat, TimesAssumption
    <3>7. QED
      BY <3>2, <3>5, <3>6
  <2>4. f \in cache[k] \/ \E e \in held[r] : f = Aged(e, 0)
    BY <1>1 DEF Store
  <2>5. QED
    BY <2>2, <2>3, <2>4
<1>2. ASSUME NEW r \in Readers, Propfind(r), ~Store(r) PROVE CacheAges'
  <2>1. UNCHANGED <<truth, since>> /\ \A k \in Keys : cache'[k] \subseteq cache[k]
    <3>1. CASE Hit(r) \/ Miss(r) \/ RemoveExpired(r)
      BY <3>1 DEF Hit, Miss, RemoveExpired
    <3>2. CASE BackendFails(r) \/ Forward(r)
      BY <3>2 DEF BackendFails, Forward
    <3>3. CASE PassOn(r)
      BY <3>3 DEF PassOn, Finish
    <3>4. QED
      BY <1>2, <3>1, <3>2, <3>3 DEF Propfind
  <2>2. QED
    BY <2>1, CacheShrinks
<1>3. ASSUME NEW w \in Writes, TakeEffect(w) PROVE CacheAges'
  <2> SUFFICES ASSUME NEW k \in Keys, NEW f \in cache'[k], Live(f)
               PROVE  Misses(f.list, BackendBound + MaxDelay + f.age)'
    BY DEF CacheAges, Live
  <2>1. PICK e \in cache[k] : f = Outdate(e, w)
    BY <1>3 DEF TakeEffect
  <2>2. e \in Entry /\ e.age \in Nat
    BY EntryFields
  <2>3. f.age = e.age /\ f.list = e.list
    BY <2>1, <2>2, OutdatedEntry
  <2>4. Misses(e.list, BackendBound + MaxDelay + e.age)
    BY <2>3 DEF CacheAges, Live
  <2>5. BackendBound + MaxDelay + e.age \in Nat
    BY <2>2, BackendBoundNat, TimesAssumption
  <2>6. Misses(e.list, BackendBound + MaxDelay + e.age)'
    BY <1>3, <2>4, <2>5, MissesAfterWrite
  <2>7. QED
    BY <2>3, <2>6
<1>4. ASSUME NEW w \in Writes, Invalidate(w) \/ Abandon(w) PROVE CacheAges'
  BY <1>4, CacheShrinks DEF Invalidate, Abandon
<1>5. ASSUME Tick PROVE CacheAges'
  <2> SUFFICES ASSUME NEW k \in Keys, NEW f \in cache'[k], Live(f)
               PROVE  Misses(f.list, BackendBound + MaxDelay + f.age)'
    BY DEF CacheAges, Live
  <2>1. PICK e \in cache[k] : f = IF Live(e) THEN Aged(e, e.age + 1) ELSE e
    BY <1>5 DEF Tick
  <2>2. e \in Entry
    BY EntryFields
  <2>3. Live(e)
    BY <2>1
  <2>4. f.age = e.age + 1 /\ f.list = e.list /\ e.age \in Nat
    BY <2>1, <2>2, <2>3, OlderEntry
  <2>5. Misses(e.list, BackendBound + MaxDelay + e.age)
    BY <2>3 DEF CacheAges
  <2>6. BackendBound + MaxDelay + e.age \in Nat
    BY <2>4, BackendBoundNat, TimesAssumption
  <2>7. Misses(e.list, BackendBound + MaxDelay + e.age + 1)'
    BY <1>5, <2>5, <2>6, MissesAfterTick
  <2>8. BackendBound + MaxDelay + e.age + 1 = BackendBound + MaxDelay + f.age
    BY <2>4, BackendBoundNat, TimesAssumption
  <2>9. QED
    BY <2>4, <2>7, <2>8
<1>6. ASSUME Restart PROVE CacheAges'
  BY <1>6 DEF Restart, CacheAges
<1>7. ASSUME UNCHANGED vars PROVE CacheAges'
  BY <1>7, CacheShrinks DEF vars
<1>8. QED
  BY <1>1, <1>2, <1>3, <1>4, <1>5, <1>6, <1>7 DEF Next, Write

\* What the proxy holds and what its cache holds is as old as its age says.
THEOREM AgesBounded == Spec => []IInv
<1>1. Init => WritesInOrder /\ HeldAges /\ CacheAges
  BY DEF Init, WritesInOrder, HeldAges, CacheAges
<1>2. TypeOK /\ WritesInOrder /\ HeldAges /\ CacheAges /\ TypeOK' /\ [Next]_vars
        => (WritesInOrder /\ HeldAges /\ CacheAges)'
  BY OrderStep, HeldStep, CacheStep DEF IInv
<1>3. QED
  BY <1>1, <1>2, ProxyTypeCorrect, PTL DEF Spec, IInv

-----------------------------------------------------------------------------
\* The answer given from an entry or from the file system is acceptable.
LEMMA AcceptedAnswer ==
  ASSUME IInv, NEW r \in Readers, NEW l, NEW n \in Nat, n <= Bound, Misses(l, n),
         ans' = [ans EXCEPT ![r] = {l}], UNCHANGED <<truth, since>>
  PROVE  Promise!Answer(r)
<1>1. Promise!Acceptable(l)
  BY BackendBoundNat DEF IInv, TypeOK, Misses, Promise!Acceptable
<1>2. QED
  BY <1>1 DEF Promise!Answer, Misses

\* The proxy implements StaleListing: for every set of PROPFINDs and of writes,
\* whatever the order of lookups, storing, invalidation and restarts, an answer
\* misses a write for no longer than Bound.
THEOREM ProxyImplementsPromise == Spec => AddsTtlOnly
<1>1. Init => Promise!Init
  BY DEF Init, Promise!Init
<1>2. IInv /\ [Next]_vars => [Promise!Next]_(Promise!vars)
  <2> SUFFICES ASSUME IInv, [Next]_vars
               PROVE  Promise!Next \/ UNCHANGED Promise!vars
    OBVIOUS
  <2> USE DEF IInv
  <2>1. ASSUME NEW r \in Readers, Hit(r) PROVE Promise!Next
    <3>0. PICK k \in Keys :
            \E e \in cache[k] : Live(e) /\ ans' = [ans EXCEPT ![r] = {e.list}]
      BY <2>1 DEF Hit
    <3>1. PICK e \in cache[k] : Live(e) /\ ans' = [ans EXCEPT ![r] = {e.list}]
      BY <3>0
    <3>2. /\ e.age \in Nat /\ e.age < Ttl
          /\ Misses(e.list, BackendBound + MaxDelay + e.age)
      BY <3>1, EntryFields DEF CacheAges, Live
    <3>3. /\ BackendBound + MaxDelay + e.age \in Nat
          /\ BackendBound + MaxDelay + e.age <= Bound
      BY <3>2, BackendBoundNat, TimesAssumption DEF Bound
    <3>4. UNCHANGED <<truth, since>>
      BY <2>1 DEF Hit
    <3>5. Promise!Answer(r)
      BY <3>1, <3>2, <3>3, <3>4, AcceptedAnswer
    <3>6. QED
      BY <3>5 DEF Promise!Next
  <2>2. ASSUME NEW r \in Readers, Miss(r) PROVE Promise!Next
    BY <2>2 DEF Miss, Promise!Ask, Promise!Next
  <2>3. ASSUME NEW r \in Readers, RemoveExpired(r) \/ Forward(r) \/ BackendFails(r)
        PROVE  UNCHANGED Promise!vars
    BY <2>3 DEF RemoveExpired, Forward, BackendFails, Promise!vars
  <2>4. ASSUME NEW r \in Readers, Store(r) \/ PassOn(r) PROVE Promise!Next
    <3>1. Finish(r) /\ pc[r] = "answered"
      BY <2>4 DEF Store, PassOn
    <3>2. PICK e \in held[r] : TRUE
      BY <3>1 DEF TypeOK
    <3>3. {d.list : d \in held[r]} = {e.list}
      <4>1. \A d \in held[r] : d = e
        BY DEF TypeOK
      <4>2. QED
        BY <4>1
    <3>4. ans' = [ans EXCEPT ![r] = {e.list}] /\ UNCHANGED <<truth, since>>
      BY <3>1, <3>3 DEF Finish
    <3>5. /\ e.age \in Nat /\ e.age <= MaxDelay
          /\ Misses(e.list, BackendBound + e.age)
      BY EntryFields DEF HeldAges
    <3>6. BackendBound + e.age \in Nat /\ BackendBound + e.age <= Bound
      BY <3>5, BackendBoundNat, TimesAssumption DEF Bound
    <3>7. Promise!Answer(r)
      BY <3>4, <3>5, <3>6, AcceptedAnswer
    <3>8. QED
      BY <3>7 DEF Promise!Next
  <2>5. ASSUME NEW w \in Writes, TakeEffect(w) PROVE Promise!Next
    BY <2>5 DEF TakeEffect, WritesInOrder, Promise!Change, Promise!Next
  <2>6. ASSUME NEW w \in Writes, Invalidate(w) \/ Abandon(w)
        PROVE  UNCHANGED Promise!vars
    BY <2>6 DEF Invalidate, Abandon, Promise!vars
  <2>7. ASSUME Tick PROVE Promise!Next
    BY <2>7 DEF Tick, Promise!Tick, Promise!Next
  <2>8. ASSUME Restart PROVE UNCHANGED Promise!vars
    BY <2>8 DEF Restart, Promise!vars
  <2>9. ASSUME UNCHANGED vars PROVE UNCHANGED Promise!vars
    BY <2>9 DEF vars, Promise!vars
  <2>10. QED
    BY <2>1, <2>2, <2>3, <2>4, <2>5, <2>6, <2>7, <2>8, <2>9
       DEF Next, Propfind, Write
<1>3. QED
  BY <1>1, <1>2, AgesBounded, PTL DEF Spec, AddsTtlOnly, Promise!Spec

-----------------------------------------------------------------------------
\* What a write has made outdated is dropped before the write is answered.

\* An answer on its way is not outdated yet, and no entry is outdated by a
\* write that has not happened.
NotYetOutdated ==
    /\ \A r \in Readers : \A e \in held[r] : e.outdated = {}
    /\ \A w \in Writes : pc[w] = "idle" =>
         \A k \in Keys : \A e \in cache[k] : w \notin e.outdated

\* The path that drops an entry the write has made outdated is still to come.
DropsToCome(w, k) == \E i \in 1 .. Len(left[w]) : Drops(left[w][i], k)

OutdatedGoes ==
    \A w \in Writes : pc[w] = "invalidate" =>
        \A k \in Keys : Shows(w, k) =>
            \A e \in cache[k] : w \in e.outdated => DropsToCome(w, k)

DInv == TypeOK /\ NotYetOutdated /\ OutdatedGoes /\ Dropped

\* The requests that invalidate all they change.
Thorough == \A w \in Writes : w.op \notin {"probe", "movePlaceholder"}

\* A path is below itself.
LEMMA PrefixOfItself ==
  ASSUME NEW k \in Keys
  PROVE  IsPrefix(k.path, k.path)
BY KeysAssumption DEF IsPrefix

\* The paths a thorough request invalidates drop all that shows what it changes.
LEMMA InvalidatesAll ==
  ASSUME Thorough, NEW w \in Writes, NEW k \in Keys, Shows(w, k)
  PROVE  \E i \in 1 .. Len(Invalidations(w)) : Drops(Invalidations(w)[i], k)
<1>1. PICK p \in {w.from, w.to, Parent(w.from), Parent(w.to)} : Drops(p, k)
  BY PrefixOfItself DEF Shows, Drops
<1>2. CASE w.op \in {"put", "mkcol"}
  <2>1. w.to = w.from /\ Invalidations(w) = <<Parent(w.from), w.from>>
    BY <1>2, WritesAssumption DEF Invalidations
  <2>2. PICK i \in {1, 2} : Invalidations(w)[i] = p
    BY <1>1, <2>1
  <2>3. QED
    BY <1>1, <2>1, <2>2
<1>3. CASE w.op \in {"delete", "rmdir"}
  <2>1. w.to = w.from /\ Invalidations(w) = <<w.from, Parent(w.from)>>
    BY <1>3, WritesAssumption DEF Invalidations
  <2>2. PICK i \in {1, 2} : Invalidations(w)[i] = p
    BY <1>1, <2>1
  <2>3. QED
    BY <1>1, <2>1, <2>2
<1>4. CASE w.op = "move"
  <2>1. Invalidations(w) = <<w.from, w.to, Parent(w.from), Parent(w.to)>>
    BY <1>4 DEF Invalidations
  <2>2. PICK i \in {1, 2, 3, 4} : Invalidations(w)[i] = p
    BY <1>1, <2>1
  <2>3. QED
    BY <1>1, <2>1, <2>2
<1>5. QED
  BY <1>2, <1>3, <1>4, WritesAssumption DEF Thorough, Ops

\* Steps of a PROPFIND store nothing outdated and leave the writes alone.
LEMMA PropfindDrops ==
  ASSUME DInv, NEW r \in Readers, Propfind(r)
  PROVE  /\ \A w \in Writes : pc'[w] = pc[w] /\ left'[w] = left[w]
         /\ \A k \in Keys : \A e \in cache'[k] :
              e \in cache[k] \/ e.outdated = {}
         /\ \A q \in Readers : \A e \in held'[q] : e.outdated = {}
<1> USE DEF DInv
<1>1. \A w \in Writes : pc'[w] = pc[w] /\ left'[w] = left[w]
  BY DisjointAssumption
     DEF TypeOK, Propfind, Hit, Miss, RemoveExpired, Forward, BackendFails,
         Store, PassOn, Finish, Goto
<1>2. \A q \in Readers : \A e \in held'[q] : e.outdated = {}
  <2>1. CASE Forward(r)
    <3>1. PICK l \in SUBSET truth :
            held' = [held EXCEPT ![r] = {[list |-> l, age |-> 0, outdated |-> {}]}]
      BY <2>1 DEF Forward
    <3>2. QED
      BY <3>1 DEF TypeOK, NotYetOutdated
  <2>2. CASE Hit(r) \/ Miss(r) \/ RemoveExpired(r)
    BY <2>2 DEF Hit, Miss, RemoveExpired, NotYetOutdated
  <2>3. CASE BackendFails(r)
    BY <2>3 DEF BackendFails, TypeOK, NotYetOutdated
  <2>4. CASE Store(r) \/ PassOn(r)
    <3>1. held' = [held EXCEPT ![r] = {}]
      BY <2>4 DEF Store, PassOn, Finish
    <3>2. QED
      BY <3>1 DEF TypeOK, NotYetOutdated
  <2>5. QED
    BY <2>1, <2>2, <2>3, <2>4 DEF Propfind
<1>3. \A k \in Keys : \A e \in cache'[k] : e \in cache[k] \/ e.outdated = {}
  <2>1. CASE Store(r)
    <3>1. \A e \in held[r] : Aged(e, 0).outdated = {}
      BY EntryFields, AgedEntry DEF NotYetOutdated
    <3>2. QED
      BY <2>1, <3>1 DEF Store
  <2>2. CASE ~Store(r)
    BY <2>2 DEF Propfind, Hit, Miss, RemoveExpired, Forward, BackendFails, PassOn,
                TypeOK
  <2>3. QED
    BY <2>1, <2>2
<1>4. QED
  BY <1>1, <1>2, <1>3

LEMMA DropsStep ==
  ASSUME Thorough, DInv, TypeOK', [Next]_vars
  PROVE  DInv'
<1> USE DEF DInv
<1> SUFFICES (NotYetOutdated /\ OutdatedGoes /\ Dropped)'
  OBVIOUS
<1>1. ASSUME NEW r \in Readers, Propfind(r)
      PROVE  (NotYetOutdated /\ OutdatedGoes /\ Dropped)'
  <2>1. /\ \A w \in Writes : pc'[w] = pc[w] /\ left'[w] = left[w]
        /\ \A k \in Keys : \A e \in cache'[k] :
             e \in cache[k] \/ e.outdated = {}
        /\ \A q \in Readers : \A e \in held'[q] : e.outdated = {}
    BY <1>1, PropfindDrops
  <2>2. NotYetOutdated'
    BY <2>1 DEF NotYetOutdated
  <2>3. OutdatedGoes'
    BY <2>1 DEF OutdatedGoes, DropsToCome
  <2>4. Dropped'
    BY <2>1 DEF Dropped
  <2>5. QED
    BY <2>2, <2>3, <2>4
<1>2. ASSUME NEW w \in Writes, TakeEffect(w)
      PROVE  (NotYetOutdated /\ OutdatedGoes /\ Dropped)'
  <2>1. ASSUME NEW k \in Keys, NEW f \in cache'[k]
        PROVE  \E e \in cache[k] : f.outdated = e.outdated \cup {w}
    <3>1. PICK e \in cache[k] : f = Outdate(e, w)
      BY <1>2 DEF TakeEffect
    <3>2. QED
      BY <3>1, EntryFields, OutdatedEntry
  <2>2. /\ pc[w] = "idle" /\ left'[w] = Invalidations(w)
        /\ pc'[w] = IF Invalidations(w) = <<>> THEN "done" ELSE "invalidate"
        /\ \A x \in Readers \cup Writes : x # w => pc'[x] = pc[x]
        /\ \A v \in Writes : v # w => left'[v] = left[v]
        /\ held' = held
    BY <1>2 DEF TakeEffect, TypeOK, Goto
  <2>3. NotYetOutdated'
    BY <2>1, <2>2 DEF NotYetOutdated
  <2>4. \A k \in Keys : Shows(w, k) =>
          \E i \in 1 .. Len(Invalidations(w)) : Drops(Invalidations(w)[i], k)
    BY InvalidatesAll
  <2>5. OutdatedGoes'
    BY <2>1, <2>2, <2>4 DEF OutdatedGoes, DropsToCome
  <2>6. Dropped'
    <3>1. Invalidations(w) = <<>> => \A k \in Keys : ~Shows(w, k)
      BY <2>4
    <3>2. QED
      BY <2>1, <2>2, <3>1 DEF Dropped
  <2>7. QED
    BY <2>3, <2>5, <2>6
<1>3. ASSUME NEW w \in Writes, Invalidate(w)
      PROVE  (NotYetOutdated /\ OutdatedGoes /\ Dropped)'
  <2>1. /\ pc[w] = "invalidate" /\ left'[w] = Tail(left[w])
        /\ pc'[w] = IF Len(left[w]) = 1 THEN "done" ELSE "invalidate"
        /\ \A x \in Readers \cup Writes : x # w => pc'[x] = pc[x]
        /\ \A v \in Writes : v # w => left'[v] = left[v]
        /\ held' = held
    BY <1>3 DEF Invalidate, TypeOK, Goto
  <2>2. /\ Len(left[w]) \in Nat \ {0} /\ Head(left[w]) = left[w][1]
        /\ Len(Tail(left[w])) = Len(left[w]) - 1
        /\ \A i \in 1 .. Len(Tail(left[w])) : Tail(left[w])[i] = left[w][i + 1]
    BY <2>1, NextLeft
  <2>3. \A k \in Keys : /\ cache'[k] \subseteq cache[k]
                        /\ Drops(left[w][1], k) => cache'[k] = {}
    BY <1>3, <2>2 DEF Invalidate
  <2>4. NotYetOutdated'
    BY <2>1, <2>3 DEF NotYetOutdated
  <2>5. ASSUME NEW k \in Keys, Shows(w, k), NEW e \in cache'[k], w \in e.outdated
        PROVE  \E i \in 1 .. Len(left[w]) - 1 : Drops(left[w][i + 1], k)
    <3>1. PICK i \in 1 .. Len(left[w]) : Drops(left[w][i], k)
      BY <2>1, <2>3, <2>5 DEF OutdatedGoes, DropsToCome
    <3>2. i # 1
      BY <2>3, <2>5, <3>1
    <3>3. i - 1 \in 1 .. Len(left[w]) - 1 /\ (i - 1) + 1 = i
      BY <2>2, <3>2
    <3>4. QED
      BY <3>1, <3>3
  <2>6. OutdatedGoes'
    <3>1. ASSUME NEW k \in Keys, Shows(w, k), NEW e \in cache'[k], w \in e.outdated
          PROVE  DropsToCome(w, k)'
      <4>1. PICK i \in 1 .. Len(left[w]) - 1 : Drops(left[w][i + 1], k)
        BY <2>5, <3>1
      <4>2. i \in 1 .. Len(Tail(left[w])) /\ Tail(left[w])[i] = left[w][i + 1]
        BY <2>2
      <4>3. QED
        BY <2>1, <4>1, <4>2 DEF DropsToCome
    <3>2. ASSUME NEW v \in Writes, v # w, pc'[v] = "invalidate",
                 NEW k \in Keys, Shows(v, k), NEW e \in cache'[k], v \in e.outdated
          PROVE  DropsToCome(v, k)'
      BY <2>1, <2>3, <3>2 DEF OutdatedGoes, DropsToCome
    <3>3. QED
      BY <3>1, <3>2 DEF OutdatedGoes
  <2>7. Dropped'
    <3>1. ASSUME Len(left[w]) = 1, NEW k \in Keys, Shows(w, k), NEW e \in cache'[k]
          PROVE  w \notin e.outdated
      BY <2>5, <3>1
    <3>2. QED
      BY <2>1, <2>3, <3>1 DEF Dropped
  <2>8. QED
    BY <2>4, <2>6, <2>7
<1>4. ASSUME NEW w \in Writes, Abandon(w)
      PROVE  (NotYetOutdated /\ OutdatedGoes /\ Dropped)'
  <2>1. /\ cache' = cache /\ held' = held
        /\ \A v \in Writes : pc'[v] = IF v = w THEN "gone" ELSE pc[v]
        /\ \A v \in Writes : v # w => left'[v] = left[v]
    BY <1>4 DEF Abandon, TypeOK, Goto
  <2>2. QED
    BY <2>1 DEF NotYetOutdated, OutdatedGoes, Dropped, DropsToCome
<1>5. ASSUME Tick PROVE (NotYetOutdated /\ OutdatedGoes /\ Dropped)'
  <2>1. /\ \A e \in Entry : Aged(e, e.age + 1).outdated = e.outdated
        /\ \A r \in Readers : \A e \in held[r] : e \in Entry
        /\ \A k \in Keys : \A e \in cache[k] : e \in Entry
    BY OlderEntry, EntryFields
  <2>2. /\ \A r \in Readers : \A f \in held'[r] :
             \E e \in held[r] : f.outdated = e.outdated
        /\ \A k \in Keys : \A f \in cache'[k] :
             \E e \in cache[k] : f.outdated = e.outdated
        /\ pc' = pc /\ left' = left
    BY <1>5, <2>1 DEF Tick
  <2>3. NotYetOutdated'
    BY <2>2 DEF NotYetOutdated
  <2>4. OutdatedGoes' /\ Dropped'
    BY <2>2 DEF OutdatedGoes, Dropped, DropsToCome
  <2>5. QED
    BY <2>3, <2>4
<1>6. ASSUME Restart PROVE (NotYetOutdated /\ OutdatedGoes /\ Dropped)'
  BY <1>6 DEF Restart, NotYetOutdated, OutdatedGoes, Dropped
<1>7. ASSUME UNCHANGED vars PROVE (NotYetOutdated /\ OutdatedGoes /\ Dropped)'
  BY <1>7 DEF vars, NotYetOutdated, OutdatedGoes, Dropped, DropsToCome
<1>8. QED
  BY <1>1, <1>2, <1>3, <1>4, <1>5, <1>6, <1>7 DEF Next, Write

\* Once a write is answered nothing it made outdated is left, whatever the
\* order of storing, invalidation and restarts: for all requests but a PUT
\* without content and the MOVE of a placeholder.
THEOREM AnsweredWritesDrop ==
  ASSUME Thorough
  PROVE  Spec => []Dropped
<1>1. Init => NotYetOutdated /\ OutdatedGoes /\ Dropped
  BY DEF Init, NotYetOutdated, OutdatedGoes, Dropped
<1>2. DInv /\ TypeOK' /\ [Next]_vars => DInv'
  BY DropsStep
<1>3. QED
  BY <1>1, <1>2, ProxyTypeCorrect, PTL DEF Spec, DInv
=============================================================================
