---------------------------- MODULE DirCacheProofs ----------------------------
(***************************************************************************)
(* The directory cache implements StaleListing: for every number of        *)
(* readers and of changes, every time to live, storing delay and lag of    *)
(* the cloud, no answer misses a change for longer than Bound.             *)
(***************************************************************************)
EXTENDS DirCache, FiniteSetTheorems, TLAPS

-----------------------------------------------------------------------------
\* The invariant.

\* A tier holds at most one entry.
AtMostOne(E) == \A d, e \in E : d = e

Types ==
    /\ moka \in SUBSET Entry /\ AtMostOne(moka)
    /\ disk \in SUBSET Entry /\ AtMostOne(disk)
    /\ writes \in SUBSET Entry
    /\ pc \in [Clients -> Pc]
    /\ held \in [Getters -> SUBSET Entry]
    /\ fetched \in SUBSET Readers
    /\ ans \in [Readers -> SUBSET SUBSET Changes]
    /\ truth \in SUBSET Changes
    /\ since \in [Changes -> Nat]

\* A change happens once, and a MKCOL looks for the listing after its own.
Before == {"idle", "preMoka", "preDisk", "cloud"}
Looks  == {"get", "disk", "expired", "promote"}

ChangesInOrder ==
    /\ \A c \in Changes \ truth : since[c] = 0
    /\ \A i \in Invalidators : pc[i] = "idle" => i \notin truth
    /\ \A m \in Mkdirs : /\ pc[m] \in Before => m \notin truth
                         /\ pc[m] \in Looks => m \in truth

\* MKCOL requests that may have stored a listing anew: each once at most.
PushedAt == {"insert", "moka", "delete", "done", "gone"}
Pushed   == {m \in Mkdirs : pc[m] \in PushedAt}

\* How long a listing is handed on from its first storing to its last answer.
Round == 2 * (Ttl + MaxDelay) - 1
Lag   == IF MaxLag = 0 THEN 0 ELSE MaxLag - 1

\* How long a change may have been missing from a listing that is stored now,
\* when the MKCOL requests in M have handed it on.
BaseOf(M) == Cardinality(M) * Round + Lag
Base == BaseOf(Pushed)

\* Listing l is true but for changes of the last n time units.
Misses(l, n) == l \subseteq truth /\ \A c \in truth \ l : since[c] <= n

\* What entry e may miss while it is to be inserted, on disk, to be promoted
\* and in moka.
InsertAge(e)  == Misses(e.list, Base + e.age)
StoredAge(e)  == e.age <= Ttl => Misses(e.list, Base + (MaxDelay + e.age))
PromoteAge(e) == Misses(e.list, Base + (MaxDelay + Ttl + e.age))
MokaAge(e)    == e.age < Ttl /\ Misses(e.list, Base + (MaxDelay + Ttl + MaxDelay + e.age))

\* Where a request has read a listing that it is to store.
Listed == {"pages", "insert"}

HeldAges ==
    \A x \in Getters : \A e \in held[x] :
        /\ e.age <= MaxDelay
        /\ pc[x] \in Listed => InsertAge(e)
        /\ pc[x] = "promote" => PromoteAge(e)

Ages ==
    /\ \A e \in moka : MokaAge(e)
    /\ \A e \in disk \cup writes : StoredAge(e)
    /\ HeldAges

IInv == Types /\ ChangesInOrder /\ Ages

-----------------------------------------------------------------------------
\* Times.

LEMMA Times ==
  /\ Ttl \in Nat /\ Ttl >= 1 /\ MaxDelay \in Nat /\ MaxLag \in Nat
  /\ Lag \in Nat /\ Round \in Nat /\ Round + 1 = 2 * Ttl + 2 * MaxDelay
BY TimesAssumption DEF Lag, Round

LEMMA Rounds ==
  ASSUME NEW m \in Nat, NEW n \in Nat
  PROVE  /\ n * Round \in Nat /\ (n + 1) * Round = (n * Round) + Round
         /\ m <= n => m * Round <= n * Round
<1>1. \A r, x, y \in Nat : /\ x * r \in Nat /\ (x + 1) * r = (x * r) + r
                           /\ y <= x => y * r <= x * r
  OBVIOUS
<1>2. QED
  BY <1>1, Times

\* More requests hand a listing on longer, and all of them no longer than Bound.
LEMMA Bases ==
  ASSUME NEW M \in SUBSET Mkdirs
  PROVE  /\ BaseOf(M) \in Nat
         /\ \A N \in SUBSET M : BaseOf(N) <= BaseOf(M)
         /\ \A N \in SUBSET M : \A m \in M \ N : BaseOf(N) + Round <= BaseOf(M)
         /\ BaseOf(M) + Round <= Bound
<1>1. IsFiniteSet(M) /\ Cardinality(M) \in Nat /\ Cardinality(M) <= Cardinality(Mkdirs)
  BY FiniteAssumption, FS_Subset, FS_CardinalityType
<1>2. Cardinality(Mkdirs) \in Nat
  BY FiniteAssumption, FS_CardinalityType
<1>3. BaseOf(M) \in Nat
  BY <1>1, Rounds, Times DEF BaseOf
<1>4. ASSUME NEW N \in SUBSET M PROVE BaseOf(N) <= BaseOf(M)
  <2>1. Cardinality(N) \in Nat /\ Cardinality(N) <= Cardinality(M)
    BY <1>1, FS_Subset, FS_CardinalityType
  <2>2. Cardinality(N) * Round <= Cardinality(M) * Round
    BY <1>1, <2>1, Rounds
  <2>3. Cardinality(N) * Round \in Nat /\ Cardinality(M) * Round \in Nat
    BY <1>1, <2>1, Rounds
  <2>4. QED
    BY <2>2, <2>3, Times DEF BaseOf
<1>5. ASSUME NEW N \in SUBSET M, NEW m \in M \ N PROVE BaseOf(N) + Round <= BaseOf(M)
  <2>1. IsFiniteSet(N) /\ Cardinality(N) \in Nat
    BY <1>1, FS_Subset, FS_CardinalityType
  <2>2. Cardinality(N \cup {m}) = Cardinality(N) + 1
    BY <2>1, FS_AddElement
  <2>3. BaseOf(N \cup {m}) <= BaseOf(M)
    BY <1>4
  <2>4. (Cardinality(N) + 1) * Round = (Cardinality(N) * Round) + Round
        /\ Cardinality(N) * Round \in Nat
    BY <2>1, Rounds
  <2>5. BaseOf(N \cup {m}) = BaseOf(N) + Round
    BY <2>2, <2>4, Times DEF BaseOf
  <2>6. QED
    BY <2>3, <2>5
<1>6. BaseOf(M) + Round <= Bound
  <2>1. Bound = ((1 + Cardinality(Mkdirs)) * Round) + Lag
    BY DEF Bound, Round, Lag
  <2>2. 1 + Cardinality(Mkdirs) = Cardinality(Mkdirs) + 1
    BY <1>2
  <2>3. /\ Bound = ((Cardinality(Mkdirs) * Round) + Round) + Lag
        /\ Cardinality(Mkdirs) * Round \in Nat
    BY <1>2, <2>1, <2>2, Rounds
  <2>4. Cardinality(M) * Round <= Cardinality(Mkdirs) * Round /\ Cardinality(M) * Round \in Nat
    BY <1>1, <1>2, Rounds
  <2>5. QED
    BY <2>3, <2>4, Times DEF BaseOf
<1>7. QED
  BY <1>3, <1>4, <1>5, <1>6

LEMMA BaseTypes ==
  /\ Base \in Nat /\ Base + Round <= Bound /\ Bound \in Nat
<1>1. Base \in Nat /\ Base + Round <= Bound
  BY Bases DEF Base, Pushed
<1>2. Bound \in Nat
  <2>1. Cardinality(Mkdirs) \in Nat
    BY FiniteAssumption, FS_CardinalityType
  <2>2. Cardinality(Mkdirs) + 1 \in Nat /\ 1 + Cardinality(Mkdirs) = Cardinality(Mkdirs) + 1
    BY <2>1
  <2>3. (Cardinality(Mkdirs) + 1) * Round \in Nat
    BY <2>2, Rounds
  <2>4. QED
    BY <2>2, <2>3, Times DEF Bound, Round, Lag
<1>3. QED
  BY <1>1, <1>2

-----------------------------------------------------------------------------
\* Entries.

LEMMA EntryFields ==
  ASSUME NEW e \in Entry
  PROVE  e.age \in Nat /\ e.list \subseteq Changes
BY DEF Entry

LEMMA NewEntry ==
  ASSUME NEW l \in SUBSET Changes
  PROVE  /\ New(l) \in SUBSET Entry /\ AtMostOne(New(l))
         /\ \A e \in New(l) : e.list = l /\ e.age = 0
BY DEF New, Entry, AtMostOne

LEMMA AgedEntry ==
  ASSUME NEW e \in Entry, NEW n \in Nat
  PROVE  /\ [e EXCEPT !.age = n] \in Entry
         /\ [e EXCEPT !.age = n].list = e.list
         /\ [e EXCEPT !.age = n].age = n
BY DEF Entry

\* What Tick makes of an entry.
LEMMA OlderEntries ==
  ASSUME NEW E \in SUBSET Entry, NEW d \in Older(E)
  PROVE  /\ d \in Entry
         /\ \E e \in E : /\ d.list = e.list
                         /\ d.age = IF e.age > Ttl THEN e.age ELSE e.age + 1
<1>1. PICK e \in E : d = [e EXCEPT !.age = IF e.age > Ttl THEN e.age ELSE e.age + 1]
  BY DEF Older
<1>2. (IF e.age > Ttl THEN e.age ELSE e.age + 1) \in Nat
  BY EntryFields, Times
<1>3. QED
  BY <1>1, <1>2, AgedEntry

-----------------------------------------------------------------------------
\* Steps that leave the clock alone.

\* The cloud stays as it is, changes in a way it has not before, or is read in part.
Steady ==
    /\ Pushed \subseteq Pushed'
    /\ \/ UNCHANGED cloudVars
       \/ \E c \in Changes : c \notin truth /\ Apply(c)
       \/ \E C \in SUBSET Changes : LeaveOut(C)

LEMMA MissesMore ==
  ASSUME Types, NEW l, NEW m \in Nat, NEW n \in Nat, m <= n, Misses(l, m)
  PROVE  Misses(l, n)
<1>1. \A c \in truth \ l : since[c] \in Nat
  BY DEF Types
<1>2. QED
  BY <1>1 DEF Misses

LEMMA MissesSteady ==
  ASSUME Types, ChangesInOrder, Steady, NEW l, NEW m \in Nat, NEW n \in Nat, m <= n, Misses(l, m)
  PROVE  Misses(l, n)'
<1>1. Misses(l, n)
  BY MissesMore
<1>2. CASE UNCHANGED cloudVars
  BY <1>1, <1>2 DEF Misses, cloudVars
<1>3. ASSUME NEW c \in Changes, c \notin truth, Apply(c) PROVE Misses(l, n)'
  <2>1. since'[c] = 0 /\ since' = since /\ truth' = truth \cup {c}
    BY <1>3 DEF Apply, ChangesInOrder
  <2>2. QED
    BY <1>1, <2>1 DEF Misses
<1>4. ASSUME NEW C \in SUBSET Changes, LeaveOut(C) PROVE Misses(l, n)'
  <2>1. truth' = truth /\ \A c \in Changes : since'[c] \in {0, since[c]}
    BY <1>4 DEF LeaveOut
  <2>2. truth \subseteq Changes
    BY DEF Types
  <2>3. QED
    BY <1>1, <2>1, <2>2 DEF Misses
<1>5. QED
  BY <1>2, <1>3, <1>4 DEF Steady

LEMMA BaseSteady ==
  ASSUME Steady
  PROVE  Base \in Nat /\ Base' \in Nat /\ Base <= Base'
<1>1. Pushed' \in SUBSET Mkdirs /\ Pushed \in SUBSET Pushed'
  BY DEF Steady, Pushed
<1>2. QED
  BY <1>1, Bases DEF Base

\* An entry keeps its promises.
LEMMA EntryStays ==
  ASSUME Types, ChangesInOrder, Steady, NEW e \in Entry
  PROVE  /\ InsertAge(e) => InsertAge(e)'
         /\ StoredAge(e) => StoredAge(e)'
         /\ PromoteAge(e) => PromoteAge(e)'
         /\ MokaAge(e) => MokaAge(e)'
<1>1. e.age \in Nat
  BY EntryFields
<1>2. \A n \in Nat : Base + n \in Nat /\ Base' + n \in Nat /\ Base + n <= Base' + n
  BY BaseSteady
<1>3. \A n \in Nat : Misses(e.list, Base + n) => Misses(e.list, Base + n)'
  BY <1>2, MissesSteady
<1>4. InsertAge(e) => InsertAge(e)'
  BY <1>1, <1>3 DEF InsertAge
<1>5. StoredAge(e) => StoredAge(e)'
  <2>1. MaxDelay + e.age \in Nat
    BY <1>1, Times
  <2>2. QED
    BY <1>3, <2>1 DEF StoredAge
<1>6. PromoteAge(e) => PromoteAge(e)'
  <2>1. MaxDelay + Ttl + e.age \in Nat
    BY <1>1, Times
  <2>2. QED
    BY <1>3, <2>1 DEF PromoteAge
<1>7. MokaAge(e) => MokaAge(e)'
  <2>1. MaxDelay + Ttl + MaxDelay + e.age \in Nat
    BY <1>1, Times
  <2>2. QED
    BY <1>3, <2>1 DEF MokaAge
<1>8. QED
  BY <1>4, <1>5, <1>6, <1>7

\* What is there stays as good as it was.
LEMMA OldStay ==
  ASSUME Types, ChangesInOrder, Ages, Steady
  PROVE  /\ \A e \in moka : MokaAge(e)'
         /\ \A e \in disk \cup writes : StoredAge(e)'
         /\ \A x \in Getters :
              held'[x] = held[x] /\ pc'[x] = pc[x] =>
                \A e \in held'[x] : /\ e.age <= MaxDelay
                                    /\ pc'[x] \in Listed => InsertAge(e)'
                                    /\ pc'[x] = "promote" => PromoteAge(e)'
<1>1. \A e \in moka : MokaAge(e)'
  BY EntryStays DEF Ages, Types
<1>2. \A e \in disk \cup writes : StoredAge(e)'
  BY EntryStays DEF Ages, Types
<1>3. ASSUME NEW x \in Getters, held'[x] = held[x], pc'[x] = pc[x], NEW e \in held'[x]
      PROVE  /\ e.age <= MaxDelay
             /\ pc'[x] \in Listed => InsertAge(e)'
             /\ pc'[x] = "promote" => PromoteAge(e)'
  <2>1. /\ e.age <= MaxDelay
        /\ pc[x] \in Listed => InsertAge(e)
        /\ pc[x] = "promote" => PromoteAge(e)
    BY <1>3 DEF Ages, HeldAges
  <2>2. e \in Entry
    BY <1>3 DEF Types
  <2>3. QED
    BY <1>3, <2>1, <2>2, EntryStays
<1>4. QED
  BY <1>1, <1>2, <1>3

\* A step that adds no entry, and neither inserts nor promotes a held one.
LEMMA AgesStay ==
  ASSUME Types, ChangesInOrder, Ages, Steady, Types',
         moka' \subseteq moka, disk' \cup writes' \subseteq disk \cup writes,
         \A x \in Getters : \/ held'[x] = {}
                            \/ held'[x] = held[x] /\ pc'[x] = pc[x]
                            \/ held'[x] = held[x] /\ pc'[x] \notin Listed \cup {"promote"}
  PROVE  Ages'
<1>1. ASSUME NEW e \in moka' PROVE MokaAge(e)'
  BY <1>1, EntryStays DEF Ages, Types
<1>2. ASSUME NEW e \in disk' \cup writes' PROVE StoredAge(e)'
  BY <1>2, EntryStays DEF Ages, Types
<1>3. ASSUME NEW x \in Getters, NEW e \in held'[x]
      PROVE  /\ e.age <= MaxDelay
             /\ pc'[x] \in Listed => InsertAge(e)'
             /\ pc'[x] = "promote" => PromoteAge(e)'
  <2>1. e \in held[x] /\ e \in Entry
    BY <1>3 DEF Types
  <2>2. /\ e.age <= MaxDelay
        /\ pc[x] \in Listed => InsertAge(e)
        /\ pc[x] = "promote" => PromoteAge(e)
    BY <2>1 DEF Ages, HeldAges
  <2>3. /\ InsertAge(e) => InsertAge(e)'
        /\ PromoteAge(e) => PromoteAge(e)'
    BY <2>1, EntryStays
  <2>4. QED
    BY <1>3, <2>2, <2>3
<1>4. HeldAges'
  BY <1>3 DEF HeldAges
<1>5. QED
  BY <1>1, <1>2, <1>4 DEF Ages

\* A step of one request, which does not change the cloud.
LEMMA GoesOn ==
  ASSUME Types, ChangesInOrder, UNCHANGED cloudVars,
         NEW x \in Clients, NEW to \in Pc, Goto(x, to),
         x \in Invalidators => to # "idle",
         x \in Mkdirs => /\ to \in Before => pc[x] \in Before
                         /\ to \in Looks => pc[x] \in Looks
                         /\ pc[x] \in PushedAt => to \in PushedAt
  PROVE  ChangesInOrder' /\ Pushed \subseteq Pushed' /\ Steady
<1>1. pc' = [pc EXCEPT ![x] = to] /\ pc \in [Clients -> Pc] /\ Mkdirs \cup Invalidators \subseteq Clients
  BY DEF Goto, Types, Clients, Changes
<1>2. ChangesInOrder'
  BY <1>1 DEF ChangesInOrder, cloudVars
<1>3. Pushed \subseteq Pushed'
  BY <1>1 DEF Pushed
<1>4. QED
  BY <1>2, <1>3 DEF Steady

\* Who has found nothing goes on.
LEMMA MissedGoesOn ==
  ASSUME Types, ChangesInOrder, UNCHANGED cloudVars,
         NEW x \in Getters, pc[x] \in Looks, Missed(x)
  PROVE  /\ ChangesInOrder' /\ Pushed \subseteq Pushed' /\ Steady
         /\ pc' \in [Clients -> Pc] /\ fetched' \in SUBSET Readers
         /\ pc'[x] \notin Listed \cup {"promote"}
         /\ \A y \in Clients \ {x} : pc'[y] = pc[y]
<1> DEFINE to == IF x \in Mkdirs THEN "moka" ELSE IF x \in fetched THEN "idle" ELSE "fetch"
<1>1. /\ x \in Clients /\ x \notin Invalidators /\ to \in Pc /\ Goto(x, to)
      /\ x \in Mkdirs => to = "moka"
  BY DisjointAssumption DEF Missed, Getters, Clients, Changes, Pc
<1>2. /\ pc' = [pc EXCEPT ![x] = to] /\ to \notin Listed \cup {"promote"}
  BY <1>1 DEF Goto, Listed
<1>3. fetched' \in SUBSET Readers
  BY DEF Missed, Types
<1> HIDE DEF to
<1>4. ChangesInOrder' /\ Pushed \subseteq Pushed' /\ Steady
  BY <1>1, GoesOn DEF Before, Looks, PushedAt
<1>5. QED
  BY <1>1, <1>2, <1>3, <1>4 DEF Types

-----------------------------------------------------------------------------
\* Reads.

LEMMA StartKeeps ==
  ASSUME IInv, NEW r \in Readers, Start(r)
  PROVE  IInv'
<1> USE DEF IInv
<1>1. r \in Clients /\ "get" \in Pc /\ r \notin Changes /\ r \notin Invalidators /\ r \notin Mkdirs
  BY DisjointAssumption DEF Clients, Changes, Pc
<1>2. /\ UNCHANGED <<moka, disk, writes, held, fetched, cloudVars>> /\ Goto(r, "get")
      /\ ans' = [ans EXCEPT ![r] = {}]
  BY DEF Start
<1>3. ChangesInOrder' /\ Steady
  BY <1>1, <1>2, GoesOn
<1>4. Types'
  BY <1>1, <1>2 DEF Types, Goto, cloudVars
<1>5. \A x \in Getters : /\ held'[x] = held[x]
                         /\ (pc'[x] = pc[x] \/ pc'[x] \notin Listed \cup {"promote"})
  BY <1>1, <1>2 DEF Types, Goto, Getters, Clients, Changes, Listed
<1>6. Ages'
  BY <1>2, <1>3, <1>4, <1>5, AgesStay
<1>7. QED
  BY <1>3, <1>4, <1>6

LEMMA MokaMissKeeps ==
  ASSUME IInv, NEW x \in Getters, MokaMiss(x)
  PROVE  IInv'
<1> USE DEF IInv
<1>1. x \in Clients /\ "disk" \in Pc /\ x \notin Invalidators
  BY DisjointAssumption DEF Getters, Clients, Changes, Pc
<1>2. /\ UNCHANGED <<moka, disk, writes, held, fetched, ans, cloudVars>> /\ Goto(x, "disk")
      /\ pc[x] = "get"
  BY DEF MokaMiss
<1>3. ChangesInOrder' /\ Steady
  BY <1>1, <1>2, GoesOn DEF Before, Looks, PushedAt
<1>4. Types'
  BY <1>1, <1>2 DEF Types, Goto, cloudVars
<1>5. \A y \in Getters : /\ held'[y] = held[y]
                         /\ (pc'[y] = pc[y] \/ pc'[y] \notin Listed \cup {"promote"})
  BY <1>1, <1>2 DEF Types, Goto, Getters, Clients, Changes, Listed
<1>6. Ages'
  BY <1>2, <1>3, <1>4, <1>5, AgesStay
<1>7. QED
  BY <1>3, <1>4, <1>6

LEMMA RemoveExpiredKeeps ==
  ASSUME IInv, NEW x \in Getters, RemoveExpired(x)
  PROVE  IInv'
<1> USE DEF IInv
<1>1. /\ UNCHANGED <<moka, writes, held, ans, cloudVars>> /\ disk' = {}
      /\ pc[x] = "expired" /\ Missed(x)
  BY DEF RemoveExpired
<1>2. pc[x] \in Looks
  BY <1>1 DEF Looks
<1>3. /\ ChangesInOrder' /\ Steady
      /\ pc' \in [Clients -> Pc] /\ fetched' \in SUBSET Readers
      /\ pc'[x] \notin Listed \cup {"promote"}
      /\ \A y \in Clients \ {x} : pc'[y] = pc[y]
  BY <1>1, <1>2, MissedGoesOn
<1>4. Types'
  BY <1>1, <1>3 DEF Types, cloudVars, AtMostOne
<1>5. \A y \in Getters : /\ held'[y] = held[y]
                         /\ (pc'[y] = pc[y] \/ pc'[y] \notin Listed \cup {"promote"})
  BY <1>1, <1>3 DEF Getters, Clients, Changes
<1>6. Ages'
  BY <1>1, <1>3, <1>4, <1>5, AgesStay
<1>7. QED
  BY <1>3, <1>4, <1>6

\* A listing is read from disk: it may have been there for Ttl.
LEMMA ReadDiskKeeps ==
  ASSUME IInv, NEW x \in Getters, ReadDisk(x)
  PROVE  IInv'
<1> USE DEF IInv
<1>1. /\ UNCHANGED <<moka, disk, writes, ans, cloudVars>> /\ pc[x] = "disk" /\ pc[x] \in Looks
  BY DEF ReadDisk, Looks
<1>2. x \in Clients /\ {"expired", "promote"} \subseteq Pc /\ x \notin Invalidators
  BY DisjointAssumption DEF Getters, Clients, Changes, Pc
<1>3. CASE Missed(x) /\ UNCHANGED held
  <2>1. /\ ChangesInOrder' /\ Steady
        /\ pc' \in [Clients -> Pc] /\ fetched' \in SUBSET Readers
        /\ pc'[x] \notin Listed \cup {"promote"}
        /\ \A y \in Clients \ {x} : pc'[y] = pc[y]
    BY <1>1, <1>3, MissedGoesOn
  <2>2. Types'
    BY <1>1, <1>3, <2>1 DEF Types, cloudVars
  <2>3. \A y \in Getters : /\ held'[y] = held[y]
                           /\ pc'[y] = pc[y] \/ pc'[y] \notin Listed \cup {"promote"}
    BY <1>3, <2>1 DEF Getters, Clients, Changes
  <2>4. Ages'
    BY <1>1, <2>1, <2>2, <2>3, AgesStay
  <2>5. QED
    BY <2>1, <2>2, <2>4
<1>4. CASE Goto(x, "expired") /\ UNCHANGED <<held, fetched>>
  <2>1. ChangesInOrder' /\ Steady
    BY <1>1, <1>2, <1>4, GoesOn DEF Before, Looks, PushedAt
  <2>2. Types'
    BY <1>1, <1>2, <1>4 DEF Types, Goto, cloudVars
  <2>3. \A y \in Getters : /\ held'[y] = held[y]
                           /\ pc'[y] = pc[y] \/ pc'[y] \notin Listed \cup {"promote"}
    BY <1>4 DEF Types, Goto, Getters, Clients, Changes, Listed
  <2>4. Ages'
    BY <1>1, <2>1, <2>2, <2>3, AgesStay
  <2>5. QED
    BY <2>1, <2>2, <2>4
<1>5. ASSUME NEW e \in disk, DiskLive(e), held' = [held EXCEPT ![x] = New(e.list)],
             Goto(x, "promote"), UNCHANGED fetched
      PROVE  IInv'
  <2>1. ChangesInOrder' /\ Steady
    BY <1>1, <1>2, <1>5, GoesOn DEF Before, Looks, PushedAt
  <2>2. e \in Entry /\ e.age \in Nat /\ e.list \in SUBSET Changes
    BY EntryFields DEF Types
  <2>3. Types'
    BY <1>1, <1>2, <1>5, <2>2, NewEntry DEF Types, Goto, cloudVars
  <2>4. \A y \in Getters \ {x} : held'[y] = held[y] /\ pc'[y] = pc[y]
    BY <1>5 DEF Types, Goto, Getters, Clients, Changes
  <2>5. held'[x] = New(e.list) /\ pc'[x] = "promote"
    BY <1>2, <1>5 DEF Types, Goto
  <2>6. ASSUME NEW d \in New(e.list) PROVE d.age <= MaxDelay /\ PromoteAge(d)'
    <3>1. d.list = e.list /\ d.age = 0 /\ d \in Entry
      BY <2>2, NewEntry
    <3>2. Misses(e.list, Base + (MaxDelay + e.age)) /\ e.age <= Ttl
      BY <1>5 DEF Ages, StoredAge, DiskLive
    <3>3. /\ Base + (MaxDelay + e.age) \in Nat /\ Base + (MaxDelay + Ttl + 0) \in Nat
          /\ Base + (MaxDelay + e.age) <= Base + (MaxDelay + Ttl + 0)
      BY <2>2, <3>2, BaseTypes, Times
    <3>4. Misses(e.list, Base + (MaxDelay + Ttl + 0))
      BY <3>2, <3>3, MissesMore
    <3>5. PromoteAge(d)
      BY <3>1, <3>4 DEF PromoteAge
    <3>6. QED
      BY <2>1, <3>1, <3>5, EntryStays, Times
  <2>7. Ages'
    <3>1. \A d \in New(e.list) : /\ d.age <= MaxDelay
                                 /\ pc'[x] \in Listed => InsertAge(d)'
                                 /\ pc'[x] = "promote" => PromoteAge(d)'
      BY <2>5, <2>6 DEF Listed
    <3>2. QED
      BY <1>1, <2>1, <2>4, <2>5, <3>1, OldStay DEF Ages, HeldAges
  <2>8. QED
    BY <2>1, <2>3, <2>7
<1>6. QED
  BY <1>3, <1>4, <1>5 DEF ReadDisk

\* What get finds is answered to a reader, and pushed onto by a MKCOL, which
\* hands it on once more.
LEMMA FoundKeeps ==
  ASSUME IInv, NEW x \in Getters, pc[x] \in Looks,
         NEW l \in SUBSET Changes, Found(x, l), Misses(l, Base + Round),
         UNCHANGED <<disk, writes, cloudVars>>, moka' \in SUBSET Entry, AtMostOne(moka')
  PROVE  /\ Types' /\ ChangesInOrder' /\ HeldAges' /\ Steady
<1> USE DEF IInv
<1>1. CASE x \in Readers
  <2>1. x \in Clients /\ x \notin Mkdirs /\ x \notin Invalidators /\ "idle" \in Pc
    BY <1>1, DisjointAssumption DEF Clients, Changes, Pc
  <2>2. /\ ans' = [ans EXCEPT ![x] = {l}] /\ held' = [held EXCEPT ![x] = {}]
        /\ fetched' = fetched \ {x} /\ Goto(x, "idle")
    BY <2>1 DEF Found
  <2>3. ChangesInOrder' /\ Steady
    BY <2>1, <2>2, GoesOn
  <2>4. Types'
    BY <2>1, <2>2 DEF Types, Goto, cloudVars
  <2>5. /\ held'[x] = {} /\ \A y \in Getters \ {x} : held'[y] = held[y] /\ pc'[y] = pc[y]
    BY <2>2 DEF Types, Goto, Getters, Clients, Changes
  <2>6. HeldAges'
    BY <2>3, <2>5, OldStay DEF HeldAges
  <2>7. QED
    BY <2>3, <2>4, <2>6
<1>2. CASE x \in Mkdirs
  <2>1. x \in Clients /\ x \in Changes /\ x \notin Readers /\ x \notin Invalidators /\ "insert" \in Pc
    BY <1>2, DisjointAssumption DEF Clients, Changes, Pc
  <2>2. /\ held' = [held EXCEPT ![x] = New(l \cup {x})] /\ Goto(x, "insert")
        /\ UNCHANGED <<fetched, ans>>
    BY <2>1 DEF Found
  <2>3. ChangesInOrder' /\ Steady
    BY <2>1, <2>2, GoesOn DEF Before, Looks, PushedAt
  <2>4. l \cup {x} \in SUBSET Changes /\ x \in truth
    BY <1>2, <2>1 DEF ChangesInOrder
  <2>5. Types'
    BY <2>1, <2>2, <2>4, NewEntry DEF Types, Goto, cloudVars
  <2>6. /\ held'[x] = New(l \cup {x}) /\ pc'[x] = "insert"
        /\ \A y \in Getters \ {x} : held'[y] = held[y] /\ pc'[y] = pc[y]
    BY <2>1, <2>2 DEF Types, Goto, Getters, Clients, Changes
  <2>7. Base + Round <= Base' /\ Base' \in Nat
    <3>1. x \notin Pushed /\ x \in Pushed'
      BY <1>2, <2>6 DEF Pushed, PushedAt, Looks
    <3>2. Pushed' \in SUBSET Mkdirs /\ Pushed \in SUBSET Pushed'
      BY <2>3 DEF Steady, Pushed
    <3>3. QED
      BY <3>1, <3>2, Bases DEF Base
  <2>8. Misses(l \cup {x}, Base + Round)
    BY <2>4 DEF Misses
  <2>9. ASSUME NEW d \in New(l \cup {x}) PROVE d.age <= MaxDelay /\ InsertAge(d)'
    <3>1. d.list = l \cup {x} /\ d.age = 0
      BY <2>4, NewEntry
    <3>2. Base + Round \in Nat
      BY BaseTypes, Times
    <3>3. Misses(l \cup {x}, Base)'
      BY <2>3, <2>7, <2>8, <3>2, MissesSteady
    <3>4. Base' + d.age = Base'
      <4>1. \A n \in Nat : n + 0 = n
        OBVIOUS
      <4>2. Base' \in Nat
        BY <2>7
      <4>3. QED
        BY <3>1, <4>1, <4>2, Zenon
    <3>5. QED
      BY <3>1, <3>3, <3>4, Times DEF InsertAge
  <2>10. HeldAges'
    <3>1. \A d \in held'[x] : /\ d.age <= MaxDelay
                              /\ pc'[x] \in Listed => InsertAge(d)'
                              /\ pc'[x] = "promote" => PromoteAge(d)'
      BY <2>6, <2>9 DEF Listed
    <3>2. QED
      BY <2>3, <2>6, <3>1, OldStay DEF HeldAges
  <2>11. QED
    BY <2>3, <2>5, <2>10
<1>3. QED
  BY <1>1, <1>2 DEF Found

\* A listing in moka is at most as old as two lives and two delays make it.
LEMMA MokaMisses ==
  ASSUME IInv, NEW e \in moka
  PROVE  Misses(e.list, Base + Round) /\ e.list \in SUBSET Changes
<1> USE DEF IInv
<1>1. e \in Entry /\ e.age \in Nat /\ e.list \in SUBSET Changes
  BY EntryFields DEF Types
<1>2. e.age < Ttl /\ Misses(e.list, Base + (MaxDelay + Ttl + MaxDelay + e.age))
  BY DEF Ages, MokaAge
<1>3. /\ Base + (MaxDelay + Ttl + MaxDelay + e.age) \in Nat /\ Base + Round \in Nat
      /\ Base + (MaxDelay + Ttl + MaxDelay + e.age) <= Base + Round
  BY <1>1, <1>2, BaseTypes, Times
<1>4. QED
  BY <1>1, <1>2, <1>3, MissesMore

\* And one that is to be promoted is no older.
LEMMA PromotedMisses ==
  ASSUME IInv, NEW x \in Getters, NEW e \in held[x], pc[x] = "promote"
  PROVE  /\ Misses(e.list, Base + Round) /\ e.list \in SUBSET Changes
         /\ Misses(e.list, Base + (MaxDelay + Ttl + MaxDelay + 0))
<1> USE DEF IInv
<1>1. e \in Entry /\ e.age \in Nat /\ e.list \in SUBSET Changes
  BY EntryFields DEF Types
<1>2. e.age <= MaxDelay /\ Misses(e.list, Base + (MaxDelay + Ttl + e.age))
  BY DEF Ages, HeldAges, PromoteAge
<1>3. /\ Base + (MaxDelay + Ttl + e.age) \in Nat /\ Base + Round \in Nat
      /\ Base + (MaxDelay + Ttl + MaxDelay + 0) \in Nat
      /\ Base + (MaxDelay + Ttl + e.age) <= Base + (MaxDelay + Ttl + MaxDelay + 0)
      /\ Base + (MaxDelay + Ttl + MaxDelay + 0) <= Base + Round
  BY <1>1, <1>2, BaseTypes, Times
<1>4. QED
  BY <1>1, <1>2, <1>3, MissesMore

LEMMA MokaHitKeeps ==
  ASSUME IInv, NEW x \in Getters, MokaHit(x)
  PROVE  IInv'
<1>1. PICK e \in moka : MokaLive(e) /\ Found(x, e.list)
  BY DEF MokaHit
<1>2. /\ UNCHANGED <<moka, disk, writes, cloudVars>> /\ pc[x] \in Looks
  BY DEF MokaHit, Looks
<1>3. moka' \in SUBSET Entry /\ AtMostOne(moka')
  BY <1>2 DEF IInv, Types
<1>4. Types' /\ ChangesInOrder' /\ HeldAges' /\ Steady
  BY <1>1, <1>2, <1>3, MokaMisses, FoundKeeps
<1>5. (\A d \in moka' : MokaAge(d)') /\ (\A d \in disk' \cup writes' : StoredAge(d)')
  BY <1>2, <1>4, OldStay DEF IInv
<1>6. QED
  BY <1>4, <1>5 DEF IInv, Ages

LEMMA PromoteKeeps ==
  ASSUME IInv, NEW x \in Getters, Promote(x)
  PROVE  IInv'
<1>1. PICK e \in held[x] : Store(e.list) /\ Found(x, e.list)
  BY DEF Promote
<1>2. /\ UNCHANGED <<disk, writes, cloudVars>> /\ pc[x] = "promote" /\ pc[x] \in Looks
  BY DEF Promote, Looks
<1>3. /\ Misses(e.list, Base + Round) /\ e.list \in SUBSET Changes
      /\ Misses(e.list, Base + (MaxDelay + Ttl + MaxDelay + 0))
  BY <1>2, PromotedMisses
<1>4. moka' = New(e.list) /\ moka' \in SUBSET Entry /\ AtMostOne(moka')
  BY <1>1, <1>3, NewEntry DEF Store
<1>5. Types' /\ ChangesInOrder' /\ HeldAges' /\ Steady
  BY <1>1, <1>2, <1>3, <1>4, FoundKeeps
<1>6. ASSUME NEW d \in moka' PROVE MokaAge(d)'
  <2>1. d \in Entry /\ d.list = e.list /\ d.age = 0
    BY <1>3, <1>4, NewEntry
  <2>2. MokaAge(d)
    BY <1>3, <2>1, Times DEF MokaAge
  <2>3. QED
    BY <1>5, <2>1, <2>2, EntryStays DEF IInv
<1>7. \A d \in disk' \cup writes' : StoredAge(d)'
  BY <1>2, <1>5, OldStay DEF IInv
<1>8. QED
  BY <1>5, <1>6, <1>7 DEF IInv, Ages

\* The cloud's own answer lags, and nothing else.
LEMMA FetchKeeps ==
  ASSUME IInv, NEW r \in Readers, Fetch(r)
  PROVE  IInv'
<1> USE DEF IInv
<1>1. PICK l \in SUBSET truth : /\ \A c \in truth \ l : since[c] < MaxLag
                                /\ held' = [held EXCEPT ![r] = New(l)]
  BY DEF Fetch
<1>2. /\ UNCHANGED <<moka, disk, writes, fetched, ans, cloudVars>> /\ Goto(r, "pages")
      /\ pc[r] = "fetch"
  BY DEF Fetch
<1>3. r \in Clients /\ r \in Getters /\ r \notin Mkdirs /\ r \notin Invalidators /\ "pages" \in Pc
  BY DisjointAssumption DEF Getters, Clients, Changes, Pc
<1>4. ChangesInOrder' /\ Steady
  BY <1>2, <1>3, GoesOn
<1>5. l \in SUBSET Changes
  BY DEF Types
<1>6. Types'
  BY <1>1, <1>2, <1>3, <1>5, NewEntry DEF Types, Goto, cloudVars
<1>7. /\ held'[r] = New(l) /\ pc'[r] = "pages"
      /\ \A y \in Getters \ {r} : held'[y] = held[y] /\ pc'[y] = pc[y]
  BY <1>1, <1>2, <1>3 DEF Types, Goto, Getters, Clients, Changes
<1>8. Misses(l, Lag)
  <2>1. ASSUME NEW c \in truth \ l PROVE since[c] <= Lag
    <3>1. since[c] \in Nat /\ since[c] < MaxLag
      BY <1>1 DEF Types
    <3>2. QED
      BY <3>1, Times DEF Lag
  <2>2. QED
    BY <2>1 DEF Misses
<1>9. ASSUME NEW d \in New(l) PROVE d.age <= MaxDelay /\ InsertAge(d)'
  <2>1. d \in Entry /\ d.list = l /\ d.age = 0
    BY <1>5, NewEntry
  <2>2. Lag <= Base
    <3>1. IsFiniteSet(Pushed)
      BY FiniteAssumption, FS_Subset DEF Pushed
    <3>2. Cardinality(Pushed) * Round \in Nat
      BY <3>1, FS_CardinalityType, Rounds
    <3>3. QED
      BY <3>2, Times DEF Base, BaseOf
  <2>3. Base + d.age = Base
    BY <2>1, BaseTypes
  <2>4. InsertAge(d)
    BY <1>8, <2>1, <2>2, <2>3, BaseTypes, Times, MissesMore DEF InsertAge
  <2>5. QED
    BY <1>4, <2>1, <2>4, EntryStays, Times
<1>10. HeldAges'
  <2>1. \A d \in held'[r] : /\ d.age <= MaxDelay
                            /\ pc'[r] \in Listed => InsertAge(d)'
                            /\ pc'[r] = "promote" => PromoteAge(d)'
    BY <1>7, <1>9 DEF Listed
  <2>2. QED
    BY <1>4, <1>7, <2>1, OldStay DEF HeldAges
<1>11. (\A d \in moka' : MokaAge(d)') /\ (\A d \in disk' \cup writes' : StoredAge(d)')
  BY <1>2, <1>4, OldStay
<1>12. QED
  BY <1>4, <1>6, <1>10, <1>11 DEF Ages

LEMMA MorePagesKeeps ==
  ASSUME IInv, NEW r \in Readers, MorePages(r)
  PROVE  IInv'
<1> USE DEF IInv
<1>1. PICK l \in SUBSET truth, e \in held[r] :
        /\ held' = [held EXCEPT ![r] = {[e EXCEPT !.list = l]}]
        /\ LeaveOut(e.list \ l)
  BY DEF MorePages
<1>2. /\ UNCHANGED <<moka, disk, writes, fetched, ans>> /\ Goto(r, "insert")
      /\ pc[r] = "pages"
  BY DEF MorePages
<1>3. /\ r \in Clients /\ r \in Getters /\ r \notin Mkdirs /\ r \notin Invalidators
      /\ "insert" \in Pc
  BY DisjointAssumption DEF Getters, Clients, Changes, Pc
<1>4. /\ held \in [Getters -> SUBSET Entry] /\ pc \in [Clients -> Pc]
      /\ since \in [Changes -> Nat] /\ truth \in SUBSET Changes
  BY DEF Types
<1>5. e \in Entry /\ e.age \in Nat /\ e.list \in SUBSET Changes /\ l \in SUBSET Changes
  BY <1>3, <1>4, EntryFields
<1> DEFINE new == [e EXCEPT !.list = l]
<1>6. new \in Entry /\ new.list = l /\ new.age = e.age
  BY <1>5 DEF Entry
<1> HIDE DEF new
<1>7. held' = [held EXCEPT ![r] = {new}]
  BY <1>1 DEF new
<1>8. /\ truth' = truth /\ since' \in [Changes -> Nat]
      /\ \A c \in Changes : since'[c] = IF c \in e.list \ l THEN 0 ELSE since[c]
  BY <1>1, <1>4 DEF LeaveOut
<1>9. pc' = [pc EXCEPT ![r] = "insert"] /\ Mkdirs \cup Invalidators \subseteq Clients
  BY <1>2 DEF Goto, Clients, Changes
<1>10. ChangesInOrder' /\ Pushed' = Pushed
  <2>1. \A m \in Mkdirs \cup Invalidators : pc'[m] = pc[m]
    BY <1>3, <1>4, <1>9
  <2>2. \A c \in Changes \ truth' : since'[c] = 0
    BY <1>8 DEF ChangesInOrder
  <2>3. QED
    BY <1>8, <2>1, <2>2 DEF ChangesInOrder, Pushed
<1>11. Steady
  BY <1>1, <1>5, <1>10 DEF Steady
<1>12. Types'
  <2>1. held' \in [Getters -> SUBSET Entry] /\ pc' \in [Clients -> Pc]
    BY <1>3, <1>4, <1>6, <1>7, <1>9
  <2>2. QED
    BY <1>2, <1>8, <2>1 DEF Types
<1>13. /\ held'[r] = {new} /\ pc'[r] = "insert"
       /\ \A y \in Getters \ {r} : held'[y] = held[y] /\ pc'[y] = pc[y]
  BY <1>3, <1>4, <1>7, <1>9 DEF Getters, Clients, Changes
<1>14. e.age <= MaxDelay /\ Misses(e.list, Base + e.age)
  BY <1>2, <1>3 DEF Ages, HeldAges, InsertAge, Listed
<1>15. Misses(l, Base + e.age)'
  <2>1. Base + e.age \in Nat
    BY <1>5, BaseTypes
  <2>2. ASSUME NEW c \in truth \ l PROVE since'[c] <= Base + e.age
    BY <1>4, <1>8, <1>14, <2>1, <2>2 DEF Misses
  <2>3. Base' = Base
    BY <1>10 DEF Base
  <2>4. QED
    BY <1>8, <2>2, <2>3 DEF Misses
<1>16. HeldAges'
  <2>1. new.age <= MaxDelay /\ InsertAge(new)'
    BY <1>6, <1>14, <1>15, <1>10 DEF InsertAge, Base
  <2>2. QED
    BY <1>11, <1>13, <2>1, OldStay DEF HeldAges
<1>17. (\A d \in moka' : MokaAge(d)') /\ (\A d \in disk' \cup writes' : StoredAge(d)')
  BY <1>2, <1>11, <1>10, OldStay
<1>18. QED
  BY <1>10, <1>12, <1>16, <1>17 DEF Ages

LEMMA FetchFailsKeeps ==
  ASSUME IInv, NEW r \in Readers, FetchFails(r)
  PROVE  IInv'
<1> USE DEF IInv
<1>1. r \in Clients /\ r \notin Mkdirs /\ r \notin Invalidators /\ "get" \in Pc
  BY DisjointAssumption DEF Clients, Changes, Pc
<1>2. /\ UNCHANGED <<moka, disk, writes, held, ans, cloudVars>> /\ Goto(r, "get")
      /\ fetched' = fetched \cup {r}
  BY DEF FetchFails
<1>3. ChangesInOrder' /\ Steady
  BY <1>1, <1>2, GoesOn
<1>4. Types'
  BY <1>1, <1>2 DEF Types, Goto, cloudVars
<1>5. \A y \in Getters : /\ held'[y] = held[y]
                         /\ (pc'[y] = pc[y] \/ pc'[y] \notin Listed \cup {"promote"})
  BY <1>1, <1>2 DEF Types, Goto, Getters, Clients, Changes, Listed
<1>6. Ages'
  BY <1>2, <1>3, <1>4, <1>5, AgesStay
<1>7. QED
  BY <1>3, <1>4, <1>6

\* A listing is stored within MaxDelay, in moka and on its way to the disk.
LEMMA InsertKeeps ==
  ASSUME IInv, NEW x \in Getters, Insert(x)
  PROVE  IInv'
<1> USE DEF IInv
<1>1. PICK e \in held[x] : Store(e.list) /\ writes' = writes \cup New(e.list)
  BY DEF Insert
<1> DEFINE to == IF x \in Mkdirs THEN "moka" ELSE "get"
<1>2. /\ UNCHANGED <<disk, ans, cloudVars>> /\ pc[x] = "insert" /\ Goto(x, to)
      /\ held' = [held EXCEPT ![x] = {}] /\ fetched' = fetched \cup ({x} \cap Readers)
  BY DEF Insert
<1>3. x \in Clients /\ x \notin Invalidators /\ to \in Pc /\ (x \in Mkdirs => to = "moka")
      /\ to \notin Listed \cup {"promote"}
  BY DisjointAssumption DEF Getters, Clients, Changes, Pc, Listed
<1> HIDE DEF to
<1>4. ChangesInOrder' /\ Steady
  BY <1>2, <1>3, GoesOn DEF Before, Looks, PushedAt
<1>5. e \in Entry /\ e.age \in Nat /\ e.list \in SUBSET Changes
  BY EntryFields DEF Types
<1>6. moka' = New(e.list) /\ New(e.list) \in SUBSET Entry /\ AtMostOne(New(e.list))
  BY <1>1, <1>5, NewEntry DEF Store
<1>7. Types'
  <2>1. held' \in [Getters -> SUBSET Entry] /\ pc' \in [Clients -> Pc]
    BY <1>2, <1>3 DEF Types, Goto
  <2>2. QED
    BY <1>1, <1>2, <1>6, <2>1 DEF Types, cloudVars
<1>8. /\ held'[x] = {}
      /\ \A y \in Getters \ {x} : held'[y] = held[y] /\ pc'[y] = pc[y]
  BY <1>2 DEF Types, Goto, Getters, Clients, Changes
<1>9. HeldAges'
  BY <1>4, <1>8, OldStay DEF HeldAges
<1>10. Misses(e.list, Base + (MaxDelay + 0)) /\ Misses(e.list, Base + (MaxDelay + Ttl + MaxDelay + 0))
  <2>1. e.age <= MaxDelay /\ Misses(e.list, Base + e.age)
    BY <1>2 DEF Ages, HeldAges, InsertAge, Listed
  <2>2. /\ Base + e.age \in Nat /\ Base + (MaxDelay + 0) \in Nat
        /\ Base + (MaxDelay + Ttl + MaxDelay + 0) \in Nat
        /\ Base + e.age <= Base + (MaxDelay + 0)
        /\ Base + e.age <= Base + (MaxDelay + Ttl + MaxDelay + 0)
    BY <1>5, <2>1, BaseTypes, Times
  <2>3. QED
    BY <2>1, <2>2, MissesMore
<1>11. ASSUME NEW d \in New(e.list) PROVE MokaAge(d)' /\ StoredAge(d)'
  <2>1. d \in Entry /\ d.list = e.list /\ d.age = 0
    BY <1>5, NewEntry
  <2>2. MokaAge(d) /\ StoredAge(d)
    BY <1>10, <2>1, Times DEF MokaAge, StoredAge
  <2>3. QED
    BY <1>4, <2>1, <2>2, EntryStays
<1>12. \A d \in disk' \cup writes' : StoredAge(d)'
  BY <1>1, <1>2, <1>4, <1>11, OldStay
<1>13. QED
  BY <1>4, <1>6, <1>7, <1>9, <1>11, <1>12 DEF Ages

-----------------------------------------------------------------------------
\* Changes, spawned writes, restarts and time.

LEMMA WriteDiskKeeps ==
  ASSUME IInv, WriteDisk
  PROVE  IInv'
<1> USE DEF IInv
<1>1. PICK e \in writes : writes' = writes \ {e} /\ disk' \in {{e}, disk, {}}
  BY DEF WriteDisk
<1>2. UNCHANGED <<moka, pc, held, fetched, ans, truth, since>>
  BY DEF WriteDisk, requestVars, cloudVars
<1>3. ChangesInOrder' /\ Steady
  BY <1>2 DEF ChangesInOrder, Steady, Pushed, cloudVars
<1>4. disk' \in SUBSET Entry /\ AtMostOne(disk') /\ disk' \subseteq disk \cup writes
  BY <1>1 DEF Types, AtMostOne
<1>5. Types'
  BY <1>1, <1>2, <1>4 DEF Types
<1>6. Ages'
  BY <1>1, <1>2, <1>3, <1>4, <1>5, AgesStay
<1>7. QED
  BY <1>3, <1>5, <1>6

\* A change takes place in the cloud, once, or fails.
LEMMA ChangeKeeps ==
  ASSUME IInv, NEW c \in Changes, NEW to \in Pc, Goto(c, to),
         Apply(c) \/ UNCHANGED cloudVars, UNCHANGED <<moka, disk, writes, held, fetched, ans>>,
         c \in Invalidators => pc[c] = "idle" /\ to = "moka",
         c \in Mkdirs => pc[c] = "cloud" /\ to \in {"get", "moka", "gone"},
         to = "get" => Apply(c)
  PROVE  IInv' /\ c \notin truth
<1> USE DEF IInv
<1>1. c \in Clients /\ c \notin Readers /\ c \in Mkdirs \cup Invalidators
      /\ Mkdirs \cup Invalidators \subseteq Clients /\ Mkdirs \cap Invalidators = {}
  BY DisjointAssumption DEF Clients, Changes
<1>2. c \notin truth
  BY <1>1 DEF ChangesInOrder, Before
<1>3. pc' = [pc EXCEPT ![c] = to] /\ pc \in [Clients -> Pc]
  BY DEF Goto, Types
<1>4. Pushed \subseteq Pushed'
  BY <1>1, <1>3 DEF Pushed, PushedAt
<1>5. Steady
  BY <1>2, <1>4 DEF Steady
<1>6. truth' \in {truth, truth \cup {c}} /\ since' = since /\ (to = "get" => c \in truth')
  BY DEF Apply, cloudVars
<1>7. ChangesInOrder'
  <2>1. \A d \in Changes \ truth' : since'[d] = 0
    BY <1>6 DEF ChangesInOrder
  <2>2. ASSUME NEW i \in Invalidators, pc'[i] = "idle" PROVE i \notin truth'
    <3>1. i # c
      BY <1>1, <1>3, <2>2
    <3>2. QED
      BY <1>1, <1>3, <1>6, <2>2, <3>1 DEF ChangesInOrder
  <2>3. ASSUME NEW m \in Mkdirs PROVE /\ pc'[m] \in Before => m \notin truth'
                                      /\ pc'[m] \in Looks => m \in truth'
    <3>1. CASE m = c
      BY <1>1, <1>3, <1>6, <2>3, <3>1 DEF Before, Looks
    <3>2. CASE m # c
      BY <1>1, <1>3, <1>6, <3>2 DEF ChangesInOrder
    <3>3. QED
      BY <3>1, <3>2
  <2>4. QED
    BY <2>1, <2>2, <2>3 DEF ChangesInOrder
<1>8. Types'
  <2>1. truth' \in SUBSET Changes /\ pc' \in [Clients -> Pc]
    BY <1>3, <1>6 DEF Types
  <2>2. QED
    BY <1>6, <2>1 DEF Types
<1>9. \A y \in Getters : held'[y] = held[y] /\ (pc'[y] = pc[y] \/ pc'[y] \notin Listed \cup {"promote"})
  <2>1. to \notin Listed \cup {"promote"}
    BY <1>1 DEF Listed
  <2>2. QED
    BY <1>3, <2>1 DEF Getters, Clients, Changes
<1>10. Ages'
  BY <1>5, <1>8, <1>9, AgesStay
<1>11. QED
  BY <1>2, <1>7, <1>8, <1>10

LEMMA ChangeCloudKeeps ==
  ASSUME IInv, NEW i \in Invalidators, ChangeCloud(i)
  PROVE  IInv' /\ i \notin truth
<1>1. i \in Changes /\ i \notin Mkdirs /\ "moka" \in Pc
  BY DisjointAssumption DEF Changes, Pc
<1>2. /\ Goto(i, "moka") /\ Apply(i) /\ UNCHANGED <<moka, disk, writes, held, fetched, ans>>
      /\ pc[i] = "idle"
  BY DEF ChangeCloud
<1>3. QED
  BY <1>1, <1>2, ChangeKeeps

LEMMA CreateFolderKeeps ==
  ASSUME IInv, NEW m \in Mkdirs, CreateFolder(m)
  PROVE  IInv' /\ m \notin truth
<1>1. m \in Changes /\ m \notin Invalidators /\ {"get", "moka", "gone"} \subseteq Pc
  BY DisjointAssumption DEF Changes, Pc
<1>2. UNCHANGED <<moka, disk, writes, held, fetched, ans>> /\ pc[m] = "cloud"
  BY DEF CreateFolder
<1>3. \/ \E to \in {"get", "moka"} : Goto(m, to) /\ Apply(m)
      \/ Goto(m, "gone") /\ UNCHANGED cloudVars
  BY DEF CreateFolder
<1>4. QED
  BY <1>1, <1>2, <1>3, ChangeKeeps

\* A step of a change's invalidation.
LEMMA InvalidationKeeps ==
  ASSUME IInv, NEW c \in Changes, NEW to \in Pc, Goto(c, to),
         UNCHANGED <<writes, held, fetched, ans, cloudVars>>,
         moka' \in {moka, {}}, disk' \in {disk, {}},
         \/ pc[c] = "idle" /\ to = "preMoka" /\ c \in Mkdirs
         \/ pc[c] = "preMoka" /\ to = "preDisk"
         \/ pc[c] = "preDisk" /\ to = "cloud"
         \/ pc[c] = "moka" /\ to = "delete"
         \/ pc[c] = "delete" /\ to = "done"
  PROVE  IInv'
<1> USE DEF IInv
<1>1. c \in Clients /\ c \notin Readers
  BY DisjointAssumption DEF Clients, Changes
<1>2. ChangesInOrder' /\ Steady
  BY <1>1, GoesOn DEF Before, Looks, PushedAt
<1>3. pc' = [pc EXCEPT ![c] = to] /\ pc \in [Clients -> Pc] /\ to \notin Listed \cup {"promote"}
  BY DEF Goto, Types, Listed
<1>4. Types'
  <2>1. pc' \in [Clients -> Pc]
    BY <1>3
  <2>2. moka' \in SUBSET Entry /\ AtMostOne(moka') /\ disk' \in SUBSET Entry /\ AtMostOne(disk')
    BY DEF Types, AtMostOne
  <2>3. QED
    BY <2>1, <2>2 DEF Types, cloudVars
<1>5. \A y \in Getters : /\ held'[y] = held[y]
                         /\ (pc'[y] = pc[y] \/ pc'[y] \notin Listed \cup {"promote"})
  BY <1>3 DEF Getters, Clients, Changes
<1>6. moka' \subseteq moka /\ disk' \cup writes' \subseteq disk \cup writes
  OBVIOUS
<1>7. Ages'
  BY <1>2, <1>4, <1>5, <1>6, AgesStay
<1>8. QED
  BY <1>2, <1>4, <1>7

LEMMA InvalidateKeeps ==
  ASSUME IInv, NEW c \in Changes, Invalidate(c) \/ (c \in Mkdirs /\ MkdirStarts(c))
  PROVE  IInv'
<1>1. {"preMoka", "preDisk", "cloud", "delete", "done"} \subseteq Pc
  BY DEF Pc
<1>2. CASE c \in Mkdirs /\ MkdirStarts(c)
  <2>1. /\ Goto(c, "preMoka") /\ UNCHANGED <<writes, held, fetched, ans, cloudVars>>
        /\ moka' \in {moka, {}} /\ disk' \in {disk, {}} /\ pc[c] = "idle"
    BY <1>2 DEF MkdirStarts
  <2>2. QED
    BY <1>1, <1>2, <2>1, InvalidationKeeps
<1>3. CASE InvalidateMoka(c)
  <2>1. /\ UNCHANGED <<writes, held, fetched, ans, cloudVars>>
        /\ moka' \in {moka, {}} /\ disk' \in {disk, {}}
        /\ \/ pc[c] = "preMoka" /\ Goto(c, "preDisk")
           \/ pc[c] = "moka" /\ Goto(c, "delete")
    BY <1>3 DEF InvalidateMoka
  <2>2. QED
    BY <1>1, <2>1, InvalidationKeeps
<1>4. CASE DeleteDisk(c)
  <2>1. /\ UNCHANGED <<writes, held, fetched, ans, cloudVars>>
        /\ moka' \in {moka, {}} /\ disk' \in {disk, {}}
        /\ \/ pc[c] = "preDisk" /\ Goto(c, "cloud")
           \/ pc[c] = "delete" /\ Goto(c, "done")
    BY <1>4 DEF DeleteDisk
  <2>2. QED
    BY <1>1, <2>1, InvalidationKeeps
<1>5. QED
  BY <1>2, <1>3, <1>4 DEF Invalidate

LEMMA DropsKeeps ==
  ASSUME IInv, MokaDrops
  PROVE  IInv'
<1> USE DEF IInv
<1>1. moka' = {} /\ UNCHANGED <<disk, writes, pc, held, fetched, ans, truth, since>>
  BY DEF MokaDrops, requestVars, cloudVars
<1>2. ChangesInOrder' /\ Steady
  BY <1>1 DEF ChangesInOrder, Steady, Pushed, cloudVars
<1>3. Types'
  BY <1>1 DEF Types, AtMostOne
<1>4. Ages'
  BY <1>1, <1>2, <1>3, AgesStay
<1>5. QED
  BY <1>2, <1>3, <1>4

LEMMA RestartKeeps ==
  ASSUME IInv, Restart
  PROVE  IInv'
<1> USE DEF IInv
<1>1. /\ moka' = {} /\ writes' = {} /\ held' = [g \in Getters |-> {}] /\ fetched' = {}
      /\ UNCHANGED <<disk, ans, cloudVars>>
  BY DEF Restart
<1>2. /\ pc' \in [Clients -> {"idle", "done", "gone"}]
      /\ \A c \in Changes : \/ pc[c] \in {"idle", "done"} /\ pc'[c] = pc[c]
                            \/ pc[c] \notin {"idle", "done"} /\ pc'[c] = "gone"
  <2>1. pc' = [x \in Clients |->
                 IF x \in Readers THEN "idle"
                 ELSE IF pc[x] \in {"idle", "done"} THEN pc[x] ELSE "gone"]
    BY DEF Restart
  <2>2. \A c \in Changes : c \in Clients /\ c \notin Readers
    BY DisjointAssumption DEF Clients
  <2>3. QED
    BY <2>1, <2>2
<1>3. ChangesInOrder'
  BY <1>1, <1>2 DEF ChangesInOrder, cloudVars, Before, Looks, Changes
<1>4. Steady
  BY <1>1, <1>2 DEF Steady, Pushed, PushedAt, Changes
<1>5. Types'
  BY <1>1, <1>2 DEF Types, AtMostOne, Pc, cloudVars
<1>6. Ages'
  BY <1>1, <1>4, <1>5, AgesStay
<1>7. QED
  BY <1>3, <1>5, <1>6

\* A unit of time passes: what is missing is missing for one more.
LEMMA MissesTick ==
  ASSUME Types, Tick, NEW l, NEW n \in Nat, Misses(l, n)
  PROVE  Misses(l, n + 1)'
<1>1. ASSUME NEW c \in truth \ l PROVE since'[c] <= n + 1
  <2>1. since[c] \in Nat /\ since[c] <= n /\ c \in Changes
    BY DEF Types, Misses
  <2>2. since'[c] \in {since[c], since[c] + 1}
    BY <2>1 DEF Tick
  <2>3. QED
    BY <2>1, <2>2
<1>2. truth' = truth
  BY DEF Tick
<1>3. QED
  BY <1>1, <1>2 DEF Misses

LEMMA OlderOnce ==
  ASSUME NEW E \in SUBSET Entry, AtMostOne(E)
  PROVE  Older(E) \in SUBSET Entry /\ AtMostOne(Older(E))
<1>1. Older(E) \in SUBSET Entry
  BY OlderEntries
<1>2. AtMostOne(Older(E))
  BY DEF AtMostOne, Older
<1>3. QED
  BY <1>1, <1>2

LEMMA TickKeeps ==
  ASSUME IInv, Tick
  PROVE  IInv'
<1> USE DEF IInv
<1>1. /\ moka' = {e \in Older(moka) : MokaLive(e)}
      /\ disk' = Older(disk) /\ writes' = Older(writes)
      /\ held' = [x \in Getters |-> {[e EXCEPT !.age = e.age + 1] : e \in held[x]}]
      /\ UNCHANGED <<pc, fetched, ans, truth>>
      /\ \A x \in Getters : \A e \in held[x] : e.age < MaxDelay
  BY DEF Tick
<1>2. since' = [c \in Changes |-> IF c \in truth /\ since[c] <= Bound THEN since[c] + 1
                                                                     ELSE since[c]]
  BY DEF Tick
<1>3. since' \in [Changes -> Nat] /\ \A c \in Changes \ truth : since'[c] = since[c]
  BY <1>2 DEF Types
<1>4. ChangesInOrder'
  BY <1>1, <1>3 DEF ChangesInOrder
<1>5. ASSUME NEW x \in Getters, NEW d \in held'[x]
      PROVE  /\ d \in Entry
             /\ \E e \in held[x] : d.list = e.list /\ d.age = e.age + 1
  <2>1. PICK e \in held[x] : d = [e EXCEPT !.age = e.age + 1]
    BY <1>1, <1>5
  <2>2. e \in Entry /\ e.age + 1 \in Nat
    BY EntryFields DEF Types
  <2>3. QED
    BY <2>1, <2>2, AgedEntry
<1>6. Types'
  <2>1. moka' \in SUBSET Entry /\ AtMostOne(moka') /\ disk' \in SUBSET Entry /\ AtMostOne(disk')
    BY <1>1, OlderOnce DEF Types, AtMostOne
  <2>2. writes' \in SUBSET Entry
    BY <1>1, OlderEntries DEF Types
  <2>3. held' \in [Getters -> SUBSET Entry]
    BY <1>1, <1>5
  <2>4. QED
    BY <1>1, <1>3, <2>1, <2>2, <2>3 DEF Types
<1>7. Base' = Base /\ Base \in Nat
  BY <1>1, BaseTypes DEF Base, Pushed
<1>8. ASSUME NEW d \in moka' PROVE MokaAge(d)'
  <2>1. PICK e \in moka : /\ d.list = e.list
                          /\ d.age = IF e.age > Ttl THEN e.age ELSE e.age + 1
    BY <1>1, OlderEntries DEF Types
  <2>2. e.age \in Nat /\ d.age < Ttl
    BY <1>1, EntryFields DEF Types, MokaLive
  <2>3. e.age < Ttl /\ Misses(e.list, Base + (MaxDelay + Ttl + MaxDelay + e.age))
    BY DEF Ages, MokaAge
  <2>4. d.age = e.age + 1
    BY <2>1, <2>2, <2>3, Times
  <2>5. /\ Base + (MaxDelay + Ttl + MaxDelay + e.age) \in Nat
        /\ Base + (MaxDelay + Ttl + MaxDelay + e.age) + 1
             = Base + (MaxDelay + Ttl + MaxDelay + d.age)
    BY <1>7, <2>2, <2>4, Times
  <2>6. Misses(e.list, Base + (MaxDelay + Ttl + MaxDelay + e.age) + 1)'
    BY <1>7, <2>3, <2>5, MissesTick
  <2>7. QED
    BY <1>7, <2>1, <2>2, <2>5, <2>6 DEF MokaAge, Misses
<1>9. ASSUME NEW d \in disk' \cup writes' PROVE StoredAge(d)'
  <2>1. PICK e \in disk \cup writes : /\ d.list = e.list
                                      /\ d.age = IF e.age > Ttl THEN e.age ELSE e.age + 1
    BY <1>1, OlderEntries DEF Types
  <2>2. e.age \in Nat
    BY EntryFields DEF Types
  <2>3. SUFFICES ASSUME d.age <= Ttl
                 PROVE  Misses(d.list, Base + (MaxDelay + d.age))'
    BY DEF StoredAge
  <2>4. e.age <= Ttl /\ d.age = e.age + 1
    BY <2>1, <2>2, <2>3, Times
  <2>5. Misses(e.list, Base + (MaxDelay + e.age))
    BY <2>4 DEF Ages, StoredAge
  <2>6. /\ Base + (MaxDelay + e.age) \in Nat
        /\ Base + (MaxDelay + e.age) + 1 = Base + (MaxDelay + d.age)
    BY <1>7, <2>2, <2>4, Times
  <2>7. Misses(e.list, Base + (MaxDelay + e.age) + 1)'
    BY <1>7, <2>5, <2>6, MissesTick
  <2>8. QED
    BY <1>7, <2>1, <2>6, <2>7 DEF Misses
<1>10. ASSUME NEW x \in Getters, NEW d \in held'[x]
       PROVE  /\ d.age <= MaxDelay
              /\ pc'[x] \in Listed => InsertAge(d)'
              /\ pc'[x] = "promote" => PromoteAge(d)'
  <2>1. PICK e \in held[x] : d.list = e.list /\ d.age = e.age + 1
    BY <1>5, <1>10
  <2>2. e.age \in Nat /\ e.age < MaxDelay
    BY <1>1, EntryFields DEF Types
  <2>3. ASSUME pc[x] \in Listed PROVE InsertAge(d)'
    <3>1. Misses(e.list, Base + e.age)
      BY <2>3 DEF Ages, HeldAges, InsertAge
    <3>2. Base + e.age \in Nat /\ Base + e.age + 1 = Base + d.age
      BY <1>7, <2>1, <2>2
    <3>3. Misses(e.list, Base + e.age + 1)'
      BY <1>7, <3>1, <3>2, MissesTick
    <3>4. QED
      BY <1>7, <2>1, <3>2, <3>3 DEF InsertAge, Misses
  <2>4. ASSUME pc[x] = "promote" PROVE PromoteAge(d)'
    <3>1. Misses(e.list, Base + (MaxDelay + Ttl + e.age))
      BY <2>4 DEF Ages, HeldAges, PromoteAge
    <3>2. /\ Base + (MaxDelay + Ttl + e.age) \in Nat
          /\ Base + (MaxDelay + Ttl + e.age) + 1 = Base + (MaxDelay + Ttl + d.age)
      BY <1>7, <2>1, <2>2, Times
    <3>3. Misses(e.list, Base + (MaxDelay + Ttl + e.age) + 1)'
      BY <1>7, <3>1, <3>2, MissesTick
    <3>4. QED
      BY <1>7, <2>1, <3>2, <3>3 DEF PromoteAge, Misses
  <2>5. d.age <= MaxDelay
    BY <2>1, <2>2, Times
  <2>6. QED
    BY <1>1, <2>3, <2>4, <2>5
<1>11. QED
  BY <1>4, <1>6, <1>8, <1>9, <1>10 DEF Ages, HeldAges

-----------------------------------------------------------------------------
\* What the cache promises.

LEMMA IInvInit == Init => IInv
<1> SUFFICES ASSUME Init PROVE IInv
  OBVIOUS
<1>1. Types
  BY DEF Init, Types, AtMostOne, Pc
<1>2. ChangesInOrder
  BY DisjointAssumption DEF Init, ChangesInOrder, Looks, Clients, Changes
<1>3. Ages
  BY DEF Init, Ages, HeldAges
<1>4. QED
  BY <1>1, <1>2, <1>3 DEF IInv

LEMMA IInvStep == IInv /\ [Next]_vars => IInv'
<1> SUFFICES ASSUME IInv, [Next]_vars PROVE IInv'
  OBVIOUS
<1>1. ASSUME NEW x \in Getters, Get(x) PROVE IInv'
  BY <1>1, MokaHitKeeps, MokaMissKeeps, ReadDiskKeeps, RemoveExpiredKeeps, PromoteKeeps,
     InsertKeeps DEF Get
<1>2. ASSUME NEW r \in Readers, Read(r) PROVE IInv'
  BY <1>2, StartKeeps, FetchKeeps, MorePagesKeeps, FetchFailsKeeps DEF Read
<1>3. ASSUME NEW i \in Invalidators, ChangeCloud(i) PROVE IInv'
  BY <1>3, ChangeCloudKeeps
<1>4. ASSUME NEW m \in Mkdirs, CreateFolder(m) PROVE IInv'
  BY <1>4, CreateFolderKeeps
<1>5. ASSUME NEW c \in Changes, Invalidate(c) \/ (c \in Mkdirs /\ MkdirStarts(c)) PROVE IInv'
  BY <1>5, InvalidateKeeps
<1>6. CASE WriteDisk \/ MokaDrops \/ Tick \/ Restart
  BY <1>6, WriteDiskKeeps, DropsKeeps, TickKeeps, RestartKeeps
<1>7. CASE UNCHANGED vars
  <2>1. UNCHANGED <<moka, disk, writes, pc, held, fetched, ans, truth, since>>
    BY <1>7 DEF vars, requestVars, cloudVars
  <2>2. Base' = Base
    BY <2>1 DEF Base, Pushed
  <2>3. Types' /\ ChangesInOrder'
    BY <2>1 DEF IInv, Types, ChangesInOrder
  <2>4. \A l, n : Misses(l, n) => Misses(l, n)'
    BY <2>1 DEF Misses
  <2>5. Ages'
    BY <2>1, <2>2, <2>4 DEF IInv, Ages, HeldAges, MokaAge, StoredAge, InsertAge, PromoteAge
  <2>6. QED
    BY <2>3, <2>5 DEF IInv
<1>8. \A m \in Mkdirs : m \in Changes
  BY DEF Changes
<1>9. QED
  BY <1>1, <1>2, <1>3, <1>4, <1>5, <1>6, <1>7, <1>8 DEF Next

\* The inductive invariant: nothing in moka, on disk, in a spawned write or in a
\* request's hands misses a change for longer than its age and the MKCOL requests
\* that have handed it on allow.
THEOREM ListingsAge == Spec => []IInv
<1>1. QED
  BY IInvInit, IInvStep, PTL DEF Spec

\* Type correctness for every set of requests and all times: in particular neither
\* tier ever holds two listings of the directory.
THEOREM CacheTypeCorrect == Spec => []TypeOK
<1>1. ASSUME NEW E, AtMostOne(E) PROVE Cardinality(E) <= 1
  <2>1. CASE E = {}
    BY <2>1, FS_EmptySet
  <2>2. CASE E # {}
    <3>1. PICK e \in E : TRUE
      BY <2>2
    <3>2. E = {e}
      BY <1>1, <3>1 DEF AtMostOne
    <3>3. Cardinality({e}) = 1
      BY FS_Singleton
    <3>4. QED
      BY <3>2, <3>3
  <2>3. QED
    BY <2>1, <2>2
<1>2. IInv => TypeOK
  BY <1>1 DEF IInv, Types, TypeOK
<1>3. QED
  BY <1>2, ListingsAge, PTL

-----------------------------------------------------------------------------
\* An answer the invariant allows is one that StaleListing accepts.
LEMMA AnswerAccepted ==
  ASSUME Types, NEW r \in Readers, NEW l, Misses(l, Base + Round),
         ans' = [ans EXCEPT ![r] = {l}], UNCHANGED <<truth, since>>
  PROVE  Promise!Next
<1>1. /\ Base + Round \in Nat /\ Bound \in Nat /\ Base + Round <= Bound
  BY BaseTypes, Times
<1>2. Misses(l, Bound)
  BY <1>1, MissesMore
<1>3. Promise!Answer(r)
  BY <1>2 DEF Misses, Promise!Answer, Promise!Acceptable
<1>4. QED
  BY <1>3 DEF Promise!Next

\* What a reader holds while it reads the other pages is true.
LEMMA PagesMiss ==
  ASSUME IInv, NEW r \in Readers, pc[r] = "pages", NEW e \in held[r]
  PROVE  e.list \subseteq truth
<1>1. Misses(e.list, Base + e.age)
  BY DEF IInv, Ages, HeldAges, InsertAge, Listed, Getters
<1>2. QED
  BY <1>1 DEF Misses

\* The cache implements StaleListing, for every number of readers and changes and all
\* times: each step answers an acceptable listing, asks, changes the directory, lets
\* time pass, or is none of the reader's business.
THEOREM CacheImplementsPromise == Spec => BoundedStaleness
<1>1. Init => Promise!Init
  BY DEF Init, Promise!Init
<1>2. IInv /\ [Next]_vars => [Promise!Next]_(Promise!vars)
  <2> SUFFICES ASSUME IInv, [Next]_vars
               PROVE  Promise!Next \/ UNCHANGED <<truth, since, ans>>
    BY DEF Promise!vars
  <2>1. ASSUME NEW x \in Getters, NEW l, Found(x, l), Misses(l, Base + Round),
               UNCHANGED <<truth, since>>
        PROVE  Promise!Next \/ UNCHANGED <<truth, since, ans>>
    BY <2>1, AnswerAccepted DEF Found, IInv
  <2>2. ASSUME NEW x \in Getters, MokaHit(x)
        PROVE  Promise!Next \/ UNCHANGED <<truth, since, ans>>
    <3>1. PICK e \in moka : Found(x, e.list)
      BY <2>2 DEF MokaHit
    <3>2. UNCHANGED <<truth, since>>
      BY <2>2 DEF MokaHit, cloudVars
    <3>3. QED
      BY <2>1, <3>1, <3>2, MokaMisses
  <2>3. ASSUME NEW x \in Getters, Promote(x)
        PROVE  Promise!Next \/ UNCHANGED <<truth, since, ans>>
    <3>1. PICK e \in held[x] : Found(x, e.list)
      BY <2>3 DEF Promote
    <3>2. UNCHANGED <<truth, since>> /\ pc[x] = "promote"
      BY <2>3 DEF Promote, cloudVars
    <3>3. QED
      BY <2>1, <3>1, <3>2, PromotedMisses
  <2>4. ASSUME NEW x \in Getters, MokaMiss(x) \/ ReadDisk(x) \/ RemoveExpired(x) \/ Insert(x)
        PROVE  UNCHANGED <<truth, since, ans>>
    BY <2>4 DEF MokaMiss, ReadDisk, RemoveExpired, Insert, cloudVars
  <2>5. ASSUME NEW r \in Readers, Start(r) PROVE Promise!Next
    BY <2>5 DEF Start, cloudVars, Promise!Ask, Promise!Next
  <2>6. ASSUME NEW r \in Readers, Fetch(r) \/ FetchFails(r)
        PROVE  UNCHANGED <<truth, since, ans>>
    BY <2>6 DEF Fetch, FetchFails, cloudVars
  <2>7. ASSUME NEW c \in Changes, c \notin truth, Apply(c), UNCHANGED ans PROVE Promise!Next
    BY <2>7 DEF Apply, Promise!Change, Promise!Next
  <2>8. ASSUME NEW i \in Invalidators, ChangeCloud(i) PROVE Promise!Next
    <3>1. i \in Changes /\ i \notin truth
      BY <2>8, ChangeCloudKeeps DEF Changes
    <3>2. QED
      BY <2>7, <2>8, <3>1 DEF ChangeCloud
  <2>9. ASSUME NEW m \in Mkdirs, CreateFolder(m)
        PROVE  Promise!Next \/ UNCHANGED <<truth, since, ans>>
    <3>1. m \in Changes /\ m \notin truth
      BY <2>9, CreateFolderKeeps DEF Changes
    <3>2. UNCHANGED ans /\ (Apply(m) \/ UNCHANGED cloudVars)
      BY <2>9 DEF CreateFolder
    <3>3. QED
      BY <2>7, <3>1, <3>2 DEF cloudVars
  <2>10. ASSUME NEW c \in Changes, Invalidate(c) \/ MkdirStarts(c)
         PROVE  UNCHANGED <<truth, since, ans>>
    BY <2>10 DEF Invalidate, InvalidateMoka, DeleteDisk, MkdirStarts, cloudVars
  <2>11. CASE Tick
    <3>1. Promise!Tick
      BY <2>11 DEF Tick, Promise!Tick
    <3>2. QED
      BY <3>1 DEF Promise!Next
  <2>12. CASE WriteDisk \/ MokaDrops \/ Restart \/ UNCHANGED vars
    BY <2>12 DEF WriteDisk, MokaDrops, Restart, vars, requestVars, cloudVars
  <2>13. \A m \in Mkdirs : m \in Changes
    BY DEF Changes
  <2>15. ASSUME NEW r \in Readers, MorePages(r) PROVE Promise!Next
    <3>1. PICK l \in SUBSET truth, e \in held[r] : LeaveOut(e.list \ l)
      BY <2>15 DEF MorePages
    <3>2. /\ since' = [c \in Changes |-> IF c \in (e.list \ l) \cap truth THEN 0
                                                                  ELSE since[c]]
          /\ UNCHANGED <<truth, ans>>
      <4>1. e.list \subseteq truth
        BY <2>15, PagesMiss DEF MorePages
      <4>2. QED
        BY <2>15, <3>1, <4>1 DEF LeaveOut, MorePages
    <3>3. Promise!LeaveOut((e.list \ l) \cap truth)
      BY <3>2 DEF Promise!LeaveOut
    <3>4. QED
      BY <3>3 DEF Promise!Next
  <2>14. QED
    BY <2>15, <2>2, <2>3, <2>4, <2>5, <2>6, <2>8, <2>9, <2>10, <2>11, <2>12, <2>13
       DEF Next, Get, Read
<1>3. QED
  BY <1>1, <1>2, ListingsAge, PTL DEF Spec, BoundedStaleness, Promise!Spec
=============================================================================
