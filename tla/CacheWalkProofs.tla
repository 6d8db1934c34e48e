--------------------------- MODULE CacheWalkProofs ---------------------------
(***************************************************************************)
(* Proofs about CacheWalk for every tree and any number of clients: a      *)
(* lookup answers None only for a folder that was not in the drive or not  *)
(* shown at some moment of it, or for a list call that failed.             *)
(***************************************************************************)
EXTENDS CacheWalk, FiniteSetTheorems, SequenceTheorems, TLAPS

Looking == {"get", "climb", "walk", "reget"}

\* What is in the drive is in folders of the drive.
Tree ==
    \A p \in Places, q \in Places :
        Within(p, q) /\ cloud[p] # None => cloud[q] # None

\* A lookup is of the folder the request's next step needs.
Aims(c) ==
    /\ op[c] \in {"rmdir", "rmfile"} =>
         path[c] \in Paths /\ key[c] = Parent(path[c])
    /\ op[c] = "mkdir" =>
         /\ path[c] \in Dirs
         /\ \/ key[c] = Parent(path[c])
            \/ Parent(path[c]) # Root /\ key[c] = Parent(Parent(path[c]))
    /\ pc[c] \in {"self", "pre", "create", "push"} => op[c] = "mkdir"
    /\ pc[c] \in {"remove", "own", "above"} => op[c] # "read"

\* A lookup without an excuse is of a folder in the drive, ...
Sought(c) == pc[c] \in Looking /\ c \notin excused => cloud[key[c]] # None

\* ... climbs along the way to it, ...
Climbs(c) == pc[c] = "get" \/ pc[c] = "climb" => Within(key[c], at[c])

\* ... has it listed or a call of dfs to make on the way to it ...
Walks(c) ==
    pc[c] = "walk" /\ c \notin excused =>
        \/ key[c] \in moka
        \/ \E i \in 1 .. Len(todo[c]) : Within(key[c], todo[c][i].path)

\* ... and has it listed when all calls have returned.
Fetched(c) == pc[c] = "reget" /\ c \notin excused => key[c] \in moka

Fair(c) == missed[c] => c \in excused

Goes(c) ==
    Aims(c) /\ Sought(c) /\ Climbs(c) /\ Walks(c) /\ Fetched(c) /\ Fair(c)

WInv == TypeOK /\ Tree /\ \A c \in Clients : Goes(c)
-----------------------------------------------------------------------------
\* Paths.

LEMMA PathTypes ==
  /\ Places \subseteq Seq(STRING) /\ Folders \subseteq Places /\ Root \in Folders
  /\ \A p \in Places : p # Root => p \in Paths /\ Len(p) >= 1
  /\ \A p \in Paths : p # Root
<1>1. Root \in Seq(STRING)
  BY EmptySeq DEF Root
<1>2. \A p \in Seq(STRING) : p # Root => Len(p) >= 1
  BY EmptySeq, LenProperties DEF Root
<1> QED
  BY <1>1, <1>2, PathsAssumption DEF Places, Folders

\* p is d or below it when it begins with d.
LEMMA WithinIs ==
  ASSUME NEW p \in Seq(STRING), NEW d \in Seq(STRING)
  PROVE  Within(p, d) <=> Len(d) <= Len(p) /\ \A i \in 1 .. Len(d) : p[i] = d[i]
<1>1. ASSUME Len(d) <= Len(p)
      PROVE  /\ \A i \in 1 .. Len(d) : SubSeq(p, 1, Len(d))[i] = p[i]
             /\ Len(SubSeq(p, 1, Len(d))) = Len(d)
             /\ SubSeq(p, 1, Len(d)) \in Seq(STRING)
  BY <1>1, SubSeqProperties, LenProperties
<1>2. SubSeq(d, 1, Len(d)) = d
  BY SubSeqFull
<1>3. ASSUME Len(d) <= Len(p), \A i \in 1 .. Len(d) : p[i] = d[i]
      PROVE  SubSeq(p, 1, Len(d)) = d
  BY <1>1, <1>3, SeqEqual
<1> QED
  BY <1>1, <1>2, <1>3 DEF Within, IsPrefix

LEMMA WithinOrder ==
  /\ \A p \in Places : Within(p, p) /\ Within(p, Root)
  /\ \A p, q, r \in Places : Within(p, q) /\ Within(q, r) => Within(p, r)
  /\ \A p \in Paths : ~Within(Root, p)
  /\ \A p, q \in Places : Within(p, q) /\ Len(p) <= Len(q) => p = q
<1>1. \A p \in Places : p \in Seq(STRING) /\ Len(p) \in Nat
  BY PathTypes, LenProperties
<1>2. Len(Root) = 0 /\ Root \in Places
  BY PathTypes, EmptySeq DEF Root
<1>3. \A p \in Places : Within(p, p) /\ Within(p, Root)
  BY <1>1, <1>2, WithinIs
<1>4. ASSUME NEW p \in Places, NEW q \in Places, NEW r \in Places,
             Within(p, q), Within(q, r)
      PROVE  Within(p, r)
  BY <1>1, <1>4, WithinIs
<1>5. ASSUME NEW p \in Paths PROVE ~Within(Root, p)
  BY <1>1, <1>2, <1>5, WithinIs, PathTypes DEF Places
<1>6. ASSUME NEW p \in Places, NEW q \in Places, Within(p, q), Len(p) <= Len(q)
      PROVE  p = q
  <2>1. Len(p) = Len(q) /\ \A i \in 1 .. Len(p) : p[i] = q[i]
    BY <1>1, <1>6, WithinIs
  <2> QED
    BY <2>1, <1>1, SeqEqual
<1> QED
  BY <1>3, <1>4, <1>5, <1>6

\* A path is right below its parent, which is a folder, and what is below the
\* path is below the parent too.
LEMMA ParentIsAbove ==
  ASSUME NEW p \in Paths
  PROVE  /\ Parent(p) \in Folders /\ p \in Children(Parent(p))
         /\ Len(Parent(p)) = Len(p) - 1
         /\ \A q \in Places : Within(q, p) => Within(q, Parent(p))
<1>1. p \in Seq(STRING) /\ Len(p) \in Nat /\ Len(p) >= 1 /\ p \in Places
  BY PathTypes, LenProperties DEF Places
<1>2. Parent(p) = SubSeq(p, 1, Len(p) - 1) /\ Parent(p) \in Folders
  BY <1>1, PathsAssumption DEF Parent, Front
<1>3. /\ Len(Parent(p)) = Len(p) - 1
      /\ \A i \in 1 .. Len(p) - 1 : Parent(p)[i] = p[i]
  <2> DEFINE m == Len(p) - 1
  <2>1. m \in Nat /\ m <= Len(p)
    BY <1>1
  <2>2. /\ Len(SubSeq(p, 1, m)) = m
        /\ \A i \in 1 .. m : SubSeq(p, 1, m)[i] = p[i]
    <3> HIDE DEF m
    <3> QED
      BY <2>1, <1>1, SubSeqProperties
  <2> QED
    BY <2>2, <1>2
<1>4. Parent(p) \in Seq(STRING) /\ Parent(p) \in Places
  BY <1>2, PathTypes
<1>5. Within(p, Parent(p))
  BY <1>1, <1>3, <1>4, WithinIs
<1> QED
  BY <1>1, <1>2, <1>3, <1>4, <1>5, WithinOrder DEF Children

\* What a path is below, other than itself, its parent is at or below.
LEMMA ParentIsNext ==
  ASSUME NEW p \in Paths, NEW q \in Places, Within(p, q), p # q
  PROVE  Within(Parent(p), q)
<1>1. /\ p \in Places /\ Parent(p) \in Places /\ Len(Parent(p)) = Len(p) - 1
      /\ Within(p, Parent(p))
  BY ParentIsAbove, WithinOrder, PathTypes DEF Places
<1>2. /\ p \in Seq(STRING) /\ q \in Seq(STRING) /\ Parent(p) \in Seq(STRING)
      /\ Len(p) \in Nat /\ Len(q) \in Nat
  BY <1>1, PathTypes, LenProperties
<1>3. Len(q) < Len(p)
  BY <1>1, <1>2, WithinOrder
<1>4. \A i \in 1 .. Len(p) - 1 : p[i] = Parent(p)[i]
  BY <1>1, <1>2, WithinIs
<1>5. Len(q) <= Len(p) /\ \A i \in 1 .. Len(q) : p[i] = q[i]
  BY <1>2, WithinIs
<1>6. Len(q) <= Len(Parent(p)) /\ \A i \in 1 .. Len(q) : Parent(p)[i] = q[i]
  BY <1>1, <1>2, <1>3, <1>4, <1>5
<1> QED
  BY <1>2, <1>6, WithinIs

\* From a folder above the wanted one a child leads to it.
LEMMA WayOn ==
  ASSUME NEW k \in Folders, NEW d \in Folders, Within(k, d), d # k
  PROVE  \E q \in Children(d) \cap Dirs : Within(k, q) /\ StartsWith(k, q)
<1> DEFINE n == Len(d) + 1
           q == SubSeq(k, 1, n)
<1>1. /\ k \in Places /\ d \in Places /\ k \in Seq(STRING) /\ d \in Seq(STRING)
      /\ Len(k) \in Nat /\ Len(d) \in Nat
  BY PathTypes, LenProperties
<1>2. Len(d) < Len(k) /\ n \in 1 .. Len(k)
  BY <1>1, WithinOrder
<1>3. k \in Paths
  <2>1. Root \in Places /\ Len(Root) = 0
    BY PathTypes, EmptySeq DEF Root
  <2> QED
    BY <2>1, <1>1, <1>2, PathTypes
<1>4. /\ q \in Seq(STRING) /\ Len(q) = n
      /\ \A i \in 1 .. n : q[i] = k[i]
  BY <1>1, <1>2, SubSeqProperties
<1>5. q \in Folders
  <2>1. CASE n = Len(k)
    BY <2>1, <1>1, SubSeqFull
  <2>2. CASE n < Len(k)
    BY <2>2, <1>1, <1>2, <1>3, PathsAssumption
  <2> QED
    BY <2>1, <2>2, <1>1, <1>2
<1>6. q # Root
  <2>1. Len(Root) = 0
    BY EmptySeq DEF Root
  <2> HIDE DEF q
  <2> QED
    BY <2>1, <1>4, <1>1
<1>7. q \in Dirs /\ q \in Paths
  BY <1>5, <1>6, PathsAssumption DEF Folders
<1> HIDE DEF q
<1>8. Within(k, q)
  BY <1>1, <1>2, <1>4, WithinIs
<1>9. Parent(q) = d
  <2>1. /\ Len(Parent(q)) = Len(d) /\ Parent(q) \in Folders
    BY <1>4, <1>7, <1>1, ParentIsAbove
  <2>2. Within(k, Parent(q))
    BY <1>1, <1>7, <1>8, ParentIsAbove
  <2>3. Parent(q) \in Seq(STRING)
    BY <2>1, PathTypes
  <2>4. \A i \in 1 .. Len(d) : Parent(q)[i] = k[i] /\ d[i] = k[i]
    BY <2>1, <2>2, <2>3, <1>1, WithinIs
  <2> QED
    BY <2>1, <2>3, <2>4, <1>1, SeqEqual
<1>10. StartsWith(k, q)
  <2>1. Last(q) = k[Len(q)]
    BY <1>4, <1>1 DEF Last
  <2> QED
    BY <2>1, <1>9, <1>4, <1>2, <1>1 DEF StartsWith
<1> QED
  BY <1>7, <1>8, <1>9, <1>10 DEF Children

\* A set put in some order as a sequence has each of its members in it.
LEMMA OrderHasAll ==
  ASSUME NEW S, IsFiniteSet(S), NEW s \in SetToSeqs(S)
  PROVE  /\ s \in Seq(S)
         /\ \A x \in S : \E i \in 1 .. Len(s) : s[i] = x
<1> DEFINE D == 1 .. Cardinality(S)
<1>1. Cardinality(S) \in Nat
  BY FS_CardinalityType
<1>2. s \in [D -> S] /\ \A i, j \in D : i # j => s[i] # s[j]
  BY DEF SetToSeqs
<1>3. s \in Injection(D, S)
  BY <1>2 DEF Injection, IsInjective
<1>4. Cardinality(D) = Cardinality(S)
  BY <1>1, FS_Interval
<1> HIDE DEF D
<1>5. s \in Surjection(D, S)
  BY <1>3, <1>4, FS_Injection
<1> USE DEF D
<1>6. s \in Seq(S)
  BY <1>1, <1>2
<1>7. Len(s) = Cardinality(S)
  BY <1>1, <1>2
<1> QED
  BY <1>5, <1>6, <1>7 DEF Surjection
-----------------------------------------------------------------------------
\* Types.

Calls == [path : Folders, fid : RootFid .. MaxFids]

CloudTypes ==
    /\ cloud \in [Places -> None .. MaxFids]
    /\ lagging \in BOOLEAN
    /\ fids \in RootFid .. MaxFids
    /\ had \in [Paths -> SUBSET (RootFid .. MaxFids)]

CacheTypes == faults \in 0 .. MaxFaults /\ moka \subseteq Folders /\ excused \subseteq Clients

RequestTypes ==
    /\ pc \in [Clients -> Pc]
    /\ op \in [Clients -> Ops]
    /\ path \in [Clients -> Places]
    /\ fid \in [Clients -> None .. MaxFids]

LookupTypes ==
    /\ key \in [Clients -> Folders]
    /\ at \in [Clients -> Folders]
    /\ refreshed \in [Clients -> BOOLEAN]
    /\ todo \in [Clients -> Seq(Calls)]
    /\ page1 \in [Clients -> SUBSET Listings]
    /\ missed \in [Clients -> BOOLEAN]

LEMMA Typed ==
  TypeOK <=> CloudTypes /\ CacheTypes /\ RequestTypes /\ LookupTypes
BY DEF TypeOK, CloudTypes, CacheTypes, RequestTypes, LookupTypes, Calls

LEMMA CloudTypesStay ==
  ASSUME CloudTypes, UNCHANGED cloudVars PROVE CloudTypes' /\ (Tree => Tree')
BY DEF CloudTypes, cloudVars, Tree

LEMMA LookupTypesStay ==
  ASSUME LookupTypes, UNCHANGED lookupVars PROVE LookupTypes'
BY DEF LookupTypes, lookupVars

\* A cached listing gives each child of its folder a fid or none.
LEMMA GetsFids ==
  ASSUME CloudTypes, NEW d \in Folders, NEW L \in Gets(d)
  PROVE  /\ L = {} => d \notin moka
         /\ L # {} => \A p \in Children(d) : FidIn(L, p) \in None .. MaxFids
         /\ \A p \in Paths : L = {} => FidIn(L, p) = None
<1>1. CASE L = {}
  BY <1>1 DEF Gets, FidIn
<1>2. ASSUME NEW l \in Plausible(d), L = {l}
      PROVE  \A p \in Children(d) : FidIn(L, p) \in None .. MaxFids
  <2>1. (CHOOSE x \in L : TRUE) = l
    BY <1>2
  <2>2. ASSUME NEW p \in Children(d) PROVE l[p] \in None .. MaxFids
    <3>1. p \in Paths /\ l[p] \in had[p] \cup {None}
      BY <1>2, <2>2 DEF Plausible, Children
    <3>2. had[p] \subseteq RootFid .. MaxFids
      BY <3>1 DEF CloudTypes
    <3> QED
      BY <3>1, <3>2, BoundsAssumption DEF None, RootFid
  <2> QED
    BY <1>2, <2>1, <2>2 DEF FidIn
<1>3. L = {} \/ \E l \in Plausible(d) : L = {l}
  BY DEF Gets
<1> QED
  BY <1>1, <1>2, <1>3

\* What moka promotes is a folder's listing, and it drops nothing for it.
LEMMA PromoteKeeps ==
  ASSUME CacheTypes, NEW d \in Folders, NEW L, Promote(d, L)
  PROVE  moka \subseteq moka' /\ moka' \subseteq Folders /\ (L # {} => d \in moka')
BY DEF Promote, CacheTypes
-----------------------------------------------------------------------------
\* What a step leaves alone.

Stands(e) ==
    /\ pc'[e] = pc[e] /\ op'[e] = op[e] /\ path'[e] = path[e]
    /\ key'[e] = key[e] /\ at'[e] = at[e] /\ todo'[e] = todo[e]
    /\ missed'[e] = missed[e]

\* The excuses of e stay, and it gets one if its folder goes or its fresh
\* listing is dropped.
Regards(e) ==
    /\ e \in excused => e \in excused'
    /\ pc[e] \in Looking /\ cloud[key[e]] # None =>
         cloud'[key[e]] # None \/ e \in excused'
    /\ pc[e] \in {"walk", "reget"} /\ key[e] \in moka =>
         key[e] \in moka' \/ e \in excused'

\* A request that a step leaves alone and regards goes on as it did.
LEMMA GoesOn ==
  ASSUME NEW e \in Clients, Goes(e), Stands(e), Regards(e)
  PROVE  Goes(e)'
<1>1. Aims(e)'
  BY DEF Goes, Stands, Aims
<1>2. Sought(e)'
  BY DEF Goes, Stands, Regards, Sought
<1>3. Climbs(e)'
  BY DEF Goes, Stands, Climbs
<1>4. Walks(e)'
  BY DEF Goes, Stands, Regards, Walks
<1>5. Fetched(e)'
  BY DEF Goes, Stands, Regards, Fetched
<1>6. Fair(e)'
  BY DEF Goes, Stands, Regards, Fair
<1> QED
  BY <1>1, <1>2, <1>3, <1>4, <1>5, <1>6 DEF Goes

\* The other requests stand when one changes its own state alone.
LEMMA OthersStand ==
  ASSUME RequestTypes, LookupTypes, NEW c \in Clients,
         \A e \in Clients \ {c} :
            pc'[e] = pc[e] /\ op'[e] = op[e] /\ path'[e] = path[e],
         \A e \in Clients \ {c} :
            key'[e] = key[e] /\ at'[e] = at[e] /\ todo'[e] = todo[e],
         \A e \in Clients \ {c} : missed'[e] = missed[e]
  PROVE  \A e \in Clients \ {c} : Stands(e)
BY DEF Stands

\* Who drops a listing excuses those it is taken from.
LEMMA DropRegards ==
  ASSUME NEW d, moka' = moka \ {d}, Excuse(Regetting(d)),
         UNCHANGED cloud
  PROVE  \A e \in Clients : Regards(e)
BY DEF Excuse, Regetting, Regards

\* A listing that is added takes nothing from anybody.
LEMMA AddRegards ==
  ASSUME moka \subseteq moka', excused \subseteq excused', UNCHANGED cloud
  PROVE  \A e \in Clients : Regards(e)
BY DEF Regards
-----------------------------------------------------------------------------
\* Steps of a request.

LEMMA InvTypes ==
  ASSUME WInv
  PROVE  CloudTypes /\ CacheTypes /\ RequestTypes /\ LookupTypes /\ Tree
BY Typed DEF WInv

\* A step of c keeps the invariant if c goes on and the others are regarded.
LEMMA StepKeeps ==
  ASSUME WInv, NEW c \in Clients,
         CloudTypes', CacheTypes', RequestTypes', LookupTypes', Tree',
         Goes(c)', \A e \in Clients \ {c} : Stands(e), 
         \A e \in Clients \ {c} : Regards(e)
  PROVE  WInv'
<1>1. TypeOK'
  BY DEF TypeOK, CloudTypes, CacheTypes, RequestTypes, LookupTypes, Calls
<1>2. ASSUME NEW e \in Clients PROVE Goes(e)'
  <2>1. CASE e = c
    BY <2>1
  <2>2. CASE e # c
    <3>1. Goes(e) /\ Stands(e) /\ Regards(e)
      BY <2>2 DEF WInv
    <3> QED
      BY <3>1, GoesOn
  <2> QED
    BY <2>1, <2>2
<1> QED
  BY <1>1, <1>2 DEF WInv

\* A request that is answered has nothing left to be wrong.
LEMMA AnswerIs ==
  ASSUME RequestTypes, LookupTypes, NEW c \in Clients, Answer(c)
  PROVE  /\ RequestTypes'
         /\ key' \in [Clients -> Folders] /\ at' \in [Clients -> Folders]
         /\ refreshed' \in [Clients -> BOOLEAN]
         /\ pc'[c] = "idle" /\ op'[c] = "read"
         /\ \A e \in Clients \ {c} :
              pc'[e] = pc[e] /\ op'[e] = op[e] /\ path'[e] = path[e]
         /\ \A e \in Clients \ {c} : key'[e] = key[e] /\ at'[e] = at[e]
<1>1. Root \in Folders /\ Root \in Places
  BY PathTypes
<1>2. pc' \in [Clients -> Pc] /\ pc'[c] = "idle" /\ \A e \in Clients \ {c} : pc'[e] = pc[e]
  BY DEF Answer, Goto, RequestTypes, Pc
<1>3. op' \in [Clients -> Ops] /\ op'[c] = "read" /\ \A e \in Clients \ {c} : op'[e] = op[e]
  BY DEF Answer, RequestTypes, Ops
<1>4. path' \in [Clients -> Places] /\ \A e \in Clients \ {c} : path'[e] = path[e]
  BY <1>1 DEF Answer, RequestTypes
<1>5. fid' \in [Clients -> None .. MaxFids]
  BY BoundsAssumption DEF Answer, RequestTypes, None
<1>6. key' \in [Clients -> Folders] /\ \A e \in Clients \ {c} : key'[e] = key[e]
  BY <1>1 DEF Answer, LookupTypes
<1>7. at' \in [Clients -> Folders] /\ \A e \in Clients \ {c} : at'[e] = at[e]
  BY <1>1 DEF Answer, LookupTypes
<1>8. refreshed' \in [Clients -> BOOLEAN]
  BY DEF Answer, LookupTypes
<1> QED
  BY <1>2, <1>3, <1>4, <1>5, <1>6, <1>7, <1>8 DEF RequestTypes

LEMMA GoOnIs ==
  ASSUME RequestTypes, LookupTypes, NEW c \in Clients, NEW w \in Pc,
         NEW f \in None .. MaxFids, GoOn(c, w, f)
  PROVE  /\ RequestTypes'
         /\ key' \in [Clients -> Folders] /\ at' \in [Clients -> Folders]
         /\ refreshed' \in [Clients -> BOOLEAN]
         /\ pc'[c] = w /\ op' = op /\ path' = path /\ key' = key /\ at' = at
         /\ \A e \in Clients \ {c} : pc'[e] = pc[e]
BY DEF GoOn, Goto, RequestTypes, LookupTypes

\* The types of the lookup when only missed changes besides an answer.
LEMMA DeliveredTypes ==
  ASSUME LookupTypes, NEW c \in Clients, NEW L,
         missed' = [missed EXCEPT ![c] = L = {}], UNCHANGED <<todo, page1>>,
         key' \in [Clients -> Folders], at' \in [Clients -> Folders],
         refreshed' \in [Clients -> BOOLEAN]
  PROVE  /\ LookupTypes' /\ (missed'[c] => L = {})
         /\ \A e \in Clients \ {c} : missed'[e] = missed[e] /\ todo'[e] = todo[e]
<1>1. (L = {}) \in BOOLEAN
  OBVIOUS
<1>2. missed' \in [Clients -> BOOLEAN]
  BY <1>1 DEF LookupTypes
<1>3. missed'[c] = (L = {})
  BY DEF LookupTypes
<1>4. \A e \in Clients \ {c} : missed'[e] = missed[e]
  BY DEF LookupTypes
<1> QED
  BY <1>2, <1>3, <1>4 DEF LookupTypes

\* A request with the answer of its lookup goes on fairly.
LEMMA DeliverGoes ==
  ASSUME WInv, NEW c \in Clients, NEW L \in Gets(key[c]), Deliver(c, L),
         L = {} => c \in excused, excused' = excused
  PROVE  /\ RequestTypes' /\ LookupTypes' /\ Goes(c)'
         /\ \A e \in Clients \ {c} : Stands(e)
<1>1. CloudTypes /\ RequestTypes /\ LookupTypes /\ Aims(c)
  BY InvTypes DEF WInv, Goes
<1>2. key[c] \in Folders /\ path[c] \in Places /\ fid[c] \in None .. MaxFids
  BY <1>1 DEF LookupTypes, RequestTypes
<1>3. ASSUME NEW p \in Children(key[c]) PROVE FidIn(L, p) \in None .. MaxFids
  BY <1>1, <1>2, <1>3, GetsFids, BoundsAssumption DEF Children, None
<1>4. missed' = [missed EXCEPT ![c] = L = {}] /\ UNCHANGED <<todo, page1>>
  BY DEF Deliver
<1>5. CASE Answer(c)
  <2>1. /\ RequestTypes' /\ pc'[c] = "idle" /\ op'[c] = "read"
        /\ \A e \in Clients \ {c} :
             pc'[e] = pc[e] /\ op'[e] = op[e] /\ path'[e] = path[e]
        /\ \A e \in Clients \ {c} : key'[e] = key[e] /\ at'[e] = at[e]
    BY <1>1, <1>5, AnswerIs
  <2>2. /\ LookupTypes' /\ (missed'[c] => L = {})
        /\ \A e \in Clients \ {c} : missed'[e] = missed[e] /\ todo'[e] = todo[e]
    BY <1>1, <1>4, <1>5, AnswerIs, DeliveredTypes
  <2>3. Goes(c)'
    BY <2>1, <2>2 DEF Goes, Aims, Sought, Climbs, Walks, Fetched, Fair, Looking
  <2> QED
    BY <2>1, <2>2, <2>3 DEF Stands
<1>6. ASSUME NEW w \in {"self", "pre", "remove"}, NEW f \in None .. MaxFids,
             GoOn(c, w, f),
             w \in {"self", "pre"} => op[c] = "mkdir",
             w = "remove" => op[c] # "read"
      PROVE  /\ RequestTypes' /\ LookupTypes' /\ Goes(c)'
             /\ \A e \in Clients \ {c} : Stands(e)
  <2>0. w \in Pc
    BY DEF Pc
  <2>1. /\ RequestTypes' /\ pc'[c] = w /\ op' = op /\ path' = path
        /\ key' = key /\ at' = at
        /\ \A e \in Clients \ {c} : pc'[e] = pc[e]
    BY <2>0, <1>1, <1>6, GoOnIs
  <2>2. /\ LookupTypes' /\ (missed'[c] => L = {})
        /\ \A e \in Clients \ {c} : missed'[e] = missed[e] /\ todo'[e] = todo[e]
    BY <2>0, <1>1, <1>4, <1>6, GoOnIs, DeliveredTypes
  <2>3. Aims(c)'
    BY <2>1, <1>1, <1>6 DEF Aims
  <2>4. Goes(c)'
    BY <2>1, <2>2, <2>3 DEF Goes, Sought, Climbs, Walks, Fetched, Fair, Looking
  <2> QED
    BY <2>1, <2>2, <2>4 DEF Stands
<1>7. CASE op[c] = "read" /\ Answer(c)
  BY <1>7, <1>5
<1>8. ASSUME op[c] = "mkdir", key[c] # Parent(path[c]),
             GoOn(c, "self", FidIn(L, Parent(path[c])))
      PROVE  /\ RequestTypes' /\ LookupTypes' /\ Goes(c)'
             /\ \A e \in Clients \ {c} : Stands(e)
  <2>1. /\ Parent(path[c]) # Root /\ key[c] = Parent(Parent(path[c]))
        /\ path[c] \in Paths
    BY <1>8, <1>1, PathsAssumption DEF Aims
  <2>2. Parent(path[c]) \in Paths
    BY <2>1, ParentIsAbove, PathTypes
  <2>3. Parent(path[c]) \in Children(key[c])
    BY <2>1, <2>2 DEF Children
  <2> QED
    BY <2>3, <1>3, <1>6, <1>8
<1>9. ASSUME op[c] = "mkdir", GoOn(c, "pre", fid[c])
      PROVE  /\ RequestTypes' /\ LookupTypes' /\ Goes(c)'
             /\ \A e \in Clients \ {c} : Stands(e)
  BY <1>9, <1>2, <1>6
<1>10. ASSUME op[c] \in {"rmdir", "rmfile"}, GoOn(c, "remove", FidIn(L, path[c]))
      PROVE  /\ RequestTypes' /\ LookupTypes' /\ Goes(c)'
             /\ \A e \in Clients \ {c} : Stands(e)
  <2>1. path[c] \in Children(key[c])
    BY <1>10, <1>1 DEF Aims, Children
  <2> QED
    BY <2>1, <1>3, <1>6, <1>10
<1> QED
  BY <1>5, <1>7, <1>8, <1>9, <1>10 DEF Deliver

\* A step that leaves the requests' own state but pc and the search's state.
LEMMA SearchTypes ==
  ASSUME RequestTypes, LookupTypes, pc' \in [Clients -> Pc],
         at' \in [Clients -> Folders], refreshed' \in [Clients -> BOOLEAN],
         todo' \in [Clients -> Seq(Calls)],
         page1' \in [Clients -> SUBSET Listings],
         UNCHANGED <<op, path, fid, key, missed>>
  PROVE  RequestTypes' /\ LookupTypes'
BY DEF RequestTypes, LookupTypes

\* A lookup that starts and has an excuse if its folder is not there.
LEMMA SeekKeeps ==
  ASSUME WInv, NEW c \in Clients, NEW d \in Folders, Seek(c, d),
         op' \in [Clients -> Ops], path' \in [Clients -> Places],
         fid' \in [Clients -> None .. MaxFids],
         \A e \in Clients \ {c} : op'[e] = op[e] /\ path'[e] = path[e],
         op'[c] \in {"rmdir", "rmfile"} => path'[c] \in Paths /\ d = Parent(path'[c]),
         op'[c] = "mkdir" =>
            /\ path'[c] \in Dirs
            /\ \/ d = Parent(path'[c])
               \/ Parent(path'[c]) # Root /\ d = Parent(Parent(path'[c])),
         UNCHANGED <<cloudVars, faults, moka>>
  PROVE  WInv'
<1>1. CloudTypes /\ CacheTypes /\ RequestTypes /\ LookupTypes /\ Tree
  BY InvTypes
<1>2. /\ pc' \in [Clients -> Pc] /\ pc'[c] = "get"
      /\ \A e \in Clients \ {c} : pc'[e] = pc[e]
  BY <1>1 DEF Seek, Goto, RequestTypes, Pc
<1>3. RequestTypes'
  BY <1>2 DEF RequestTypes
<1>4. /\ key' \in [Clients -> Folders] /\ key'[c] = d
      /\ \A e \in Clients \ {c} : key'[e] = key[e]
  BY <1>1 DEF Seek, LookupTypes
<1>5. /\ at' \in [Clients -> Folders] /\ at'[c] = d
      /\ \A e \in Clients \ {c} : at'[e] = at[e]
  BY <1>1 DEF Seek, LookupTypes
<1>6. /\ missed' \in [Clients -> BOOLEAN] /\ ~missed'[c]
      /\ \A e \in Clients \ {c} : missed'[e] = missed[e]
  BY <1>1 DEF Seek, LookupTypes
<1>7. refreshed' \in [Clients -> BOOLEAN] /\ todo' = todo /\ page1' = page1
  BY <1>1 DEF Seek, LookupTypes
<1>8. LookupTypes'
  BY <1>1, <1>4, <1>5, <1>6, <1>7 DEF LookupTypes
<1>9. CloudTypes' /\ Tree'
  BY <1>1, CloudTypesStay
<1>10. /\ excused' \subseteq Clients
       /\ cloud[d] = None => c \in excused'
       /\ \A e \in Clients \ {c} : e \in excused => e \in excused'
  BY <1>1 DEF Seek, CacheTypes
<1>11. CacheTypes'
  BY <1>1, <1>10 DEF CacheTypes
<1>12. Goes(c)'
  <2>1. Aims(c)'
    BY <1>2, <1>4 DEF Aims
  <2>2. Sought(c)'
    BY <1>4, <1>10 DEF Sought, cloudVars
  <2>3. Climbs(c)'
    BY <1>4, <1>5, WithinOrder, PathTypes DEF Climbs
  <2> QED
    BY <2>1, <2>2, <2>3, <1>2, <1>6 DEF Goes, Walks, Fetched, Fair
<1>13. \A e \in Clients \ {c} : Stands(e)
  BY <1>2, <1>4, <1>5, <1>6, <1>7 DEF Stands
<1>14. \A e \in Clients \ {c} : Regards(e)
  BY <1>10 DEF Regards, cloudVars
<1> QED
  BY <1>3, <1>8, <1>9, <1>11, <1>12, <1>13, <1>14, StepKeeps

LEMMA BeginIs ==
  ASSUME RequestTypes, NEW c \in Clients, NEW o \in Ops, NEW p \in Places,
         Begin(c, o, p)
  PROVE  /\ op' \in [Clients -> Ops] /\ path' \in [Clients -> Places]
         /\ fid' \in [Clients -> None .. MaxFids]
         /\ op'[c] = o /\ path'[c] = p
         /\ \A e \in Clients \ {c} : op'[e] = op[e] /\ path'[e] = path[e]
<1>1. RootFid \in None .. MaxFids
  <2>1. Len(Initial) \in Nat
    BY InitialAssumption, LenProperties
  <2> QED
    BY <2>1, BoundsAssumption DEF RootFid, None
<1> QED
  BY <1>1 DEF Begin, RequestTypes

LEMMA RequestKeeps ==
  ASSUME WInv, NEW c \in Clients, Request(c)
  PROVE  WInv'
<1>1. RequestTypes /\ LookupTypes
  BY InvTypes
<1>2. ASSUME Read(c) PROVE WInv'
  <2>1. PICK d \in Folders : Begin(c, "read", d) /\ Seek(c, d)
    BY <1>2 DEF Read
  <2>2. d \in Places /\ "read" \in Ops
    BY PathTypes DEF Ops
  <2>3. /\ op' \in [Clients -> Ops] /\ path' \in [Clients -> Places]
        /\ fid' \in [Clients -> None .. MaxFids]
        /\ op'[c] = "read" /\ path'[c] = d
        /\ \A e \in Clients \ {c} : op'[e] = op[e] /\ path'[e] = path[e]
    BY <2>1, <2>2, <1>1, BeginIs
  <2>4. UNCHANGED <<cloudVars, faults, moka>>
    BY <1>2 DEF Read
  <2> QED
    BY <2>1, <2>3, <2>4, SeekKeeps
<1>3. ASSUME Mkdir(c) PROVE WInv'
  <2> DEFINE above(p) == IF Parent(p) = Root THEN Root ELSE Parent(Parent(p))
  <2>1. PICK p \in Dirs : Begin(c, "mkdir", p) /\ Seek(c, above(p))
    BY <1>3 DEF Mkdir
  <2>2. p \in Paths /\ p \in Places /\ "mkdir" \in Ops
    BY PathsAssumption DEF Ops, Places
  <2>3. /\ op' \in [Clients -> Ops] /\ path' \in [Clients -> Places]
        /\ fid' \in [Clients -> None .. MaxFids]
        /\ op'[c] = "mkdir" /\ path'[c] = p
        /\ \A e \in Clients \ {c} : op'[e] = op[e] /\ path'[e] = path[e]
    BY <2>1, <2>2, <1>1, BeginIs
  <2>4. UNCHANGED <<cloudVars, faults, moka>>
    BY <1>3 DEF Mkdir
  <2>5. /\ above(p) \in Folders
        /\ \/ above(p) = Parent(p)
           \/ Parent(p) # Root /\ above(p) = Parent(Parent(p))
    <3>1. CASE Parent(p) = Root
      BY <3>1, PathTypes
    <3>2. CASE Parent(p) # Root
      <4>1. Parent(p) \in Paths
        BY <3>2, <2>2, ParentIsAbove, PathTypes
      <4> QED
        BY <4>1, <3>2, ParentIsAbove
    <3> QED
      BY <3>1, <3>2
  <2> HIDE DEF above
  <2> QED
    BY <2>1, <2>3, <2>4, <2>5, SeekKeeps
<1>4. ASSUME Delete(c) PROVE WInv'
  <2>1. PICK p \in Paths : /\ Begin(c, IF p \in Dirs THEN "rmdir" ELSE "rmfile", p)
                           /\ Seek(c, Parent(p))
    BY <1>4 DEF Delete
  <2>2. PICK o \in {"rmdir", "rmfile"} : Begin(c, o, p)
    BY <2>1
  <2>3. p \in Places /\ o \in Ops /\ Parent(p) \in Folders
    BY ParentIsAbove DEF Ops, Places
  <2>4. /\ op' \in [Clients -> Ops] /\ path' \in [Clients -> Places]
        /\ fid' \in [Clients -> None .. MaxFids]
        /\ op'[c] = o /\ path'[c] = p
        /\ \A e \in Clients \ {c} : op'[e] = op[e] /\ path'[e] = path[e]
    BY <2>2, <2>3, <1>1, BeginIs
  <2>5. UNCHANGED <<cloudVars, faults, moka>>
    BY <1>4 DEF Delete
  <2> QED
    BY <2>1, <2>3, <2>4, <2>5, SeekKeeps
<1> QED
  BY <1>2, <1>3, <1>4 DEF Request

LEMMA MkdirSelfKeeps ==
  ASSUME WInv, NEW c \in Clients, MkdirSelf(c)
  PROVE  WInv'
<1>1. RequestTypes /\ LookupTypes /\ Aims(c) /\ pc[c] = "self"
  BY InvTypes DEF WInv, Goes, MkdirSelf
<1>2. op[c] = "mkdir" /\ path[c] \in Dirs
  BY <1>1 DEF Aims
<1>3. Parent(path[c]) \in Folders
  BY <1>2, PathsAssumption, ParentIsAbove
<1>4. /\ op' = op /\ path' = path /\ fid' = fid /\ Seek(c, Parent(path[c]))
      /\ UNCHANGED <<cloudVars, faults, moka>>
  BY DEF MkdirSelf
<1>5. /\ op' \in [Clients -> Ops] /\ path' \in [Clients -> Places]
      /\ fid' \in [Clients -> None .. MaxFids]
  BY <1>1, <1>4 DEF RequestTypes
<1> QED
  BY <1>2, <1>3, <1>4, <1>5, SeekKeeps
-----------------------------------------------------------------------------
\* get_or_insert.

LEMMA GetKeeps ==
  ASSUME WInv, NEW c \in Clients, Get(c)
  PROVE  WInv'
<1>1. CloudTypes /\ CacheTypes /\ RequestTypes /\ LookupTypes /\ Tree
  BY InvTypes
<1>2. PICK L \in Gets(key[c]) :
        /\ Promote(key[c], L)
        /\ \/ L # {} /\ Deliver(c, L)
           \/ L = {} /\ Goto(c, "climb") /\ UNCHANGED <<lookupVars, op, path, fid>>
  BY DEF Get
<1>3. pc[c] = "get" /\ UNCHANGED <<cloudVars, faults, excused>> /\ key[c] \in Folders
  BY <1>1 DEF Get, LookupTypes
<1>4. moka \subseteq moka' /\ moka' \subseteq Folders
  BY <1>1, <1>2, <1>3, PromoteKeeps
<1>5. CacheTypes' /\ CloudTypes' /\ Tree'
  <2>1. CloudTypes' /\ Tree'
    BY <1>1, <1>3, CloudTypesStay
  <2> QED
    BY <2>1, <1>1, <1>3, <1>4 DEF CacheTypes
<1>6. \A e \in Clients : Regards(e)
  BY <1>3, <1>4, AddRegards DEF cloudVars
<1>7. CASE L # {} /\ Deliver(c, L)
  BY <1>7, <1>2, <1>3, <1>5, <1>6, DeliverGoes, StepKeeps
<1>8. ASSUME Goto(c, "climb"), UNCHANGED <<lookupVars, op, path, fid>>
      PROVE  WInv'
  <2>1. /\ pc' \in [Clients -> Pc] /\ pc'[c] = "climb"
        /\ \A e \in Clients \ {c} : pc'[e] = pc[e]
    BY <1>1, <1>8 DEF Goto, RequestTypes, Pc
  <2>2. RequestTypes' /\ LookupTypes'
    BY <1>1, <1>8, <2>1, LookupTypesStay DEF RequestTypes
  <2>3. Goes(c)'
    <3>1. Goes(c)
      BY DEF WInv
    <3> QED
      BY <3>1, <2>1, <1>3, <1>8
      DEF Goes, Aims, Sought, Climbs, Walks, Fetched, Fair, lookupVars, cloudVars, Looking
  <2>4. \A e \in Clients \ {c} : Stands(e)
    BY <2>1, <1>8 DEF Stands, lookupVars
  <2> QED
    BY <2>2, <2>3, <2>4, <1>5, <1>6, StepKeeps
<1> QED
  BY <1>2, <1>7, <1>8

LEMMA RegetKeeps ==
  ASSUME WInv, NEW c \in Clients, Reget(c)
  PROVE  WInv'
<1>1. CloudTypes /\ CacheTypes /\ RequestTypes /\ LookupTypes /\ Tree
  BY InvTypes
<1>2. PICK L \in Gets(key[c]) : Promote(key[c], L) /\ Deliver(c, L)
  BY DEF Reget
<1>3. pc[c] = "reget" /\ UNCHANGED <<cloudVars, faults, excused>> /\ key[c] \in Folders
  BY <1>1 DEF Reget, LookupTypes
<1>4. moka \subseteq moka' /\ moka' \subseteq Folders
  BY <1>1, <1>2, <1>3, PromoteKeeps
<1>5. CacheTypes' /\ CloudTypes' /\ Tree'
  <2>1. CloudTypes' /\ Tree'
    BY <1>1, <1>3, CloudTypesStay
  <2> QED
    BY <2>1, <1>1, <1>3, <1>4 DEF CacheTypes
<1>6. \A e \in Clients : Regards(e)
  BY <1>3, <1>4, AddRegards DEF cloudVars
<1>7. ASSUME L = {} PROVE c \in excused
  <2>1. key[c] \notin moka
    BY <1>1, <1>3, <1>7, GetsFids
  <2> QED
    BY <2>1, <1>3 DEF WInv, Goes, Fetched
<1> QED
  BY <1>2, <1>3, <1>5, <1>6, <1>7, DeliverGoes, StepKeeps

\* The climb ends and dfs starts at a folder on the way.
LEMMA WalkStarts ==
  ASSUME WInv, NEW c \in Clients, pc[c] = "climb",
         NEW p \in Folders, Within(key[c], p), NEW f \in RootFid .. MaxFids,
         Walk(c, p, f), UNCHANGED <<op, path, fid, key, page1, missed, excused>>,
         UNCHANGED <<cloudVars, faults>>,
         moka \subseteq moka', moka' \subseteq Folders
  PROVE  WInv'
<1>1. CloudTypes /\ CacheTypes /\ RequestTypes /\ LookupTypes /\ Tree
  BY InvTypes
<1>2. CacheTypes' /\ CloudTypes' /\ Tree'
  <2>1. CloudTypes' /\ Tree'
    BY <1>1, CloudTypesStay
  <2> QED
    BY <2>1, <1>1 DEF CacheTypes
<1>3. \A e \in Clients : Regards(e)
  BY AddRegards DEF cloudVars
<1>4. /\ pc' \in [Clients -> Pc] /\ pc'[c] = "walk"
      /\ \A e \in Clients \ {c} : pc'[e] = pc[e]
  BY <1>1 DEF Walk, Goto, RequestTypes, Pc
<1> DEFINE call == [path |-> p, fid |-> f]
<1>5. /\ call \in Calls /\ call.path = p
  BY DEF Calls
<1>6. todo' = [todo EXCEPT ![c] = <<call>>]
  BY DEF Walk
<1> HIDE DEF call
<1>7. <<call>> \in Seq(Calls) /\ Len(<<call>>) = 1 /\ <<call>>[1] = call
  BY <1>5
<1>8. /\ todo' \in [Clients -> Seq(Calls)] /\ todo'[c] = <<call>>
      /\ \A e \in Clients \ {c} : todo'[e] = todo[e]
  BY <1>1, <1>6, <1>7 DEF LookupTypes
<1>9. RequestTypes' /\ LookupTypes'
  BY <1>1, <1>4, <1>8, SearchTypes DEF Walk, LookupTypes
<1>10. Walks(c)'
  BY <1>5, <1>7, <1>8 DEF Walks
<1>11. Goes(c)'
  <2>1. Goes(c)
    BY DEF WInv
  <2>2. Aims(c)'
    BY <2>1, <1>4 DEF Goes, Aims
  <2> QED
    BY <2>1, <2>2, <1>4, <1>10 DEF Goes, Sought, Climbs, Fetched, Fair, cloudVars, Looking
<1>12. \A e \in Clients \ {c} : Stands(e)
  BY <1>4, <1>8 DEF Stands, Walk
<1> QED
  BY <1>2, <1>3, <1>9, <1>11, <1>12, StepKeeps

\* The climb goes on, at a folder on the way.
LEMMA ClimbGoesOn ==
  ASSUME WInv, NEW c \in Clients, pc[c] = "climb",
         NEW p \in Folders, Within(key[c], p), at' = [at EXCEPT ![c] = p],
         refreshed' \in [Clients -> BOOLEAN],
         UNCHANGED <<pc, todo, page1, op, path, fid, key, missed, cloudVars, faults>>,
         moka' \subseteq Folders, excused' \subseteq Clients,
         excused \subseteq excused', \A e \in Clients : Regards(e)
  PROVE  WInv'
<1>1. CloudTypes /\ CacheTypes /\ RequestTypes /\ LookupTypes /\ Tree
  BY InvTypes
<1>2. CacheTypes' /\ CloudTypes' /\ Tree'
  <2>1. CloudTypes' /\ Tree'
    BY <1>1, CloudTypesStay
  <2> QED
    BY <2>1, <1>1 DEF CacheTypes
<1>3. /\ at' \in [Clients -> Folders] /\ at'[c] = p
      /\ \A e \in Clients \ {c} : at'[e] = at[e]
  BY <1>1 DEF LookupTypes
<1>4. RequestTypes' /\ LookupTypes'
  <2>1. /\ pc' \in [Clients -> Pc] /\ todo' \in [Clients -> Seq(Calls)]
        /\ page1' \in [Clients -> SUBSET Listings]
    BY <1>1 DEF RequestTypes, LookupTypes
  <2> QED
    BY <2>1, <1>1, <1>3, SearchTypes
<1>5. Goes(c)'
  <2>1. Goes(c)
    BY DEF WInv
  <2>2. Aims(c)' /\ Fair(c)' /\ Sought(c)'
    BY <2>1 DEF Goes, Aims, Fair, Sought, cloudVars
  <2>3. Climbs(c)'
    BY <1>3 DEF Climbs
  <2> QED
    BY <2>2, <2>3 DEF Goes, Walks, Fetched
<1>6. \A e \in Clients \ {c} : Stands(e)
  BY <1>3 DEF Stands
<1> QED
  BY <1>2, <1>4, <1>5, <1>6, StepKeeps

LEMMA FidBounds == RootFid \in RootFid .. MaxFids /\ None \notin RootFid .. MaxFids
<1>1. Len(Initial) \in Nat
  BY InitialAssumption, LenProperties
<1> QED
  BY <1>1, BoundsAssumption DEF RootFid, None

LEMMA ClimbEndsKeeps ==
  ASSUME WInv, NEW c \in Clients, ClimbEnds(c)
  PROVE  WInv'
<1>1. CacheTypes /\ LookupTypes
  BY InvTypes
<1>2. Root \in Folders /\ Within(key[c], Root)
  BY <1>1, PathTypes, WithinOrder DEF LookupTypes
<1> QED
  BY <1>1, <1>2, FidBounds, WalkStarts DEF ClimbEnds, CacheTypes

LEMMA ClimbKeeps ==
  ASSUME WInv, NEW c \in Clients, Climb(c)
  PROVE  WInv'
<1>1. CloudTypes /\ CacheTypes /\ RequestTypes /\ LookupTypes /\ Climbs(c)
  BY InvTypes DEF WInv, Goes
<1>2. /\ pc[c] = "climb" /\ at[c] # Root
      /\ UNCHANGED <<cloudVars, faults, op, path, fid, key, page1, missed>>
  BY DEF Climb
<1>3. at[c] \in Folders /\ at[c] \in Paths /\ key[c] \in Folders /\ key[c] \in Places
  BY <1>1, <1>2, PathTypes DEF LookupTypes
<1>4. /\ Parent(at[c]) \in Folders /\ at[c] \in Children(Parent(at[c]))
      /\ Within(key[c], at[c]) /\ Within(key[c], Parent(at[c]))
      /\ Within(key[c], key[c])
  BY <1>1, <1>2, <1>3, ParentIsAbove, WithinOrder DEF Climbs
<1>5. PICK L \in Gets(Parent(at[c])) :
         Found(c, L) \/ Uncached(c, L) \/ DropStale(c, L) \/ PassStale(c, L)
  BY DEF Climb
<1>6. CASE Promote(Parent(at[c]), L) /\ UNCHANGED excused
  <2>1. moka \subseteq moka' /\ moka' \subseteq Folders
    BY <1>1, <1>4, <1>6, PromoteKeeps
  <2>2. /\ \A e \in Clients : Regards(e)
        /\ excused' \subseteq Clients /\ excused \subseteq excused'
    BY <1>1, <1>2, <1>6, <2>1, AddRegards DEF cloudVars, CacheTypes
  <2>3. CASE Found(c, L)
    <3>1. L # {}
      BY <2>3, <1>3, <1>4, <1>1, GetsFids DEF Found
    <3>2. FidIn(L, at[c]) \in None .. MaxFids /\ FidIn(L, at[c]) # None
      BY <3>1, <2>3, <1>4, <1>1, GetsFids DEF Found
    <3>3. FidIn(L, at[c]) \in RootFid .. MaxFids
      BY <3>2, BoundsAssumption DEF None, RootFid
    <3> QED
      BY <3>3, <2>3, <2>1, <1>2, <1>3, <1>4, <1>6, WalkStarts DEF Found
  <2>4. CASE Uncached(c, L) \/ PassStale(c, L)
    <3>1. /\ at' = [at EXCEPT ![c] = Parent(at[c])]
          /\ UNCHANGED <<pc, refreshed, todo>>
      BY <2>4 DEF Uncached, PassStale
    <3>2. refreshed' \in [Clients -> BOOLEAN]
      BY <3>1, <1>1 DEF LookupTypes
    <3> QED
      BY <3>1, <3>2, <2>1, <2>2, <1>2, <1>4, ClimbGoesOn
  <2>5. CASE DropStale(c, L)
    <3>1. /\ at' = [at EXCEPT ![c] = key[c]]
          /\ refreshed' = [refreshed EXCEPT ![c] = TRUE]
          /\ UNCHANGED <<pc, todo>>
      BY <2>5 DEF DropStale
    <3>2. refreshed' \in [Clients -> BOOLEAN]
      BY <3>1, <1>1 DEF LookupTypes
    <3> QED
      BY <3>1, <3>2, <2>1, <2>2, <1>2, <1>3, <1>4, ClimbGoesOn
  <2> QED
    BY <1>5, <2>3, <2>4, <2>5
<1>7. CASE DropStale(c, L)
  <2>1. /\ at' = [at EXCEPT ![c] = key[c]]
        /\ refreshed' = [refreshed EXCEPT ![c] = TRUE]
        /\ UNCHANGED <<pc, todo>>
        /\ moka' = moka \ {Parent(at[c])} /\ Excuse(Regetting(Parent(at[c])))
    BY <1>7 DEF DropStale
  <2>2. refreshed' \in [Clients -> BOOLEAN]
    BY <2>1, <1>1 DEF LookupTypes
  <2>3. \A e \in Clients : Regards(e)
    BY <2>1, <1>2, DropRegards DEF cloudVars
  <2>4. /\ moka' \subseteq Folders /\ excused' \subseteq Clients
        /\ excused \subseteq excused'
    BY <2>1, <1>1 DEF CacheTypes, Excuse, Regetting
  <2> QED
    BY <2>1, <2>2, <2>3, <2>4, <1>2, <1>3, <1>4, ClimbGoesOn
<1> QED
  BY <1>5, <1>6, <1>7 DEF Found, Uncached, PassStale
-----------------------------------------------------------------------------
\* dfs.

LEMMA HeadAndTail ==
  ASSUME LookupTypes, NEW c \in Clients, todo[c] # <<>>
  PROVE  /\ Head1(c) \in Calls /\ Head1(c).path \in Folders
         /\ Head1(c) = todo[c][1]
         /\ Tail(todo[c]) \in Seq(Calls) /\ Len(todo[c]) \in Nat
         /\ Len(Tail(todo[c])) = Len(todo[c]) - 1
         /\ \A i \in 2 .. Len(todo[c]) : Tail(todo[c])[i - 1] = todo[c][i]
<1>1. todo[c] \in Seq(Calls)
  BY DEF LookupTypes
<1>2. /\ Head(todo[c]) \in Calls /\ Head(todo[c]) = todo[c][1]
      /\ Tail(todo[c]) \in Seq(Calls)
      /\ Len(todo[c]) \in Nat
      /\ Len(Tail(todo[c])) = Len(todo[c]) - 1
      /\ \A i \in 2 .. Len(todo[c]) : Tail(todo[c])[i - 1] = todo[c][i]
  BY <1>1
<1>3. Head(todo[c]).path \in Folders
  BY <1>2 DEF Calls
<1> QED
  BY <1>2, <1>3 DEF Head1

\* A step of dfs that leaves c calls to make on the way to its folder, has
\* the folder listed or finds an excuse.
LEMMA WalkGoesOn ==
  ASSUME WInv, NEW c \in Clients, Walking(c),
         NEW s \in Seq(Calls), todo' = [todo EXCEPT ![c] = s],
         UNCHANGED <<cloudVars, pc, op, path, fid, key, at, refreshed, missed>>,
         page1' \in [Clients -> SUBSET Listings],
         faults' \in 0 .. MaxFaults, moka' \subseteq Folders, 
         excused' \subseteq Clients, excused \subseteq excused',
         \A e \in Clients \ {c} : Regards(e),
         \/ c \in excused' \/ key[c] \in moka'
         \/ \E i \in 1 .. Len(s) : Within(key[c], s[i].path)
  PROVE  WInv'
<1>1. CloudTypes /\ CacheTypes /\ RequestTypes /\ LookupTypes /\ Tree
  BY InvTypes
<1>2. CacheTypes' /\ CloudTypes' /\ Tree'
  <2>1. CloudTypes' /\ Tree'
    BY <1>1, CloudTypesStay
  <2> QED
    BY <2>1 DEF CacheTypes
<1>3. /\ todo' \in [Clients -> Seq(Calls)] /\ todo'[c] = s
      /\ \A e \in Clients \ {c} : todo'[e] = todo[e]
  BY <1>1 DEF LookupTypes
<1>4. RequestTypes' /\ LookupTypes'
  <2>1. /\ pc' \in [Clients -> Pc] /\ at' \in [Clients -> Folders]
        /\ refreshed' \in [Clients -> BOOLEAN]
    BY <1>1 DEF RequestTypes, LookupTypes
  <2> QED
    BY <2>1, <1>1, <1>3, SearchTypes
<1>5. Goes(c)'
  <2>1. Goes(c)
    BY DEF WInv
  <2>2. Aims(c)' /\ Fair(c)' /\ Sought(c)' /\ Climbs(c)'
    BY <2>1 DEF Goes, Aims, Fair, Sought, Climbs, cloudVars
  <2>3. Walks(c)'
    BY <1>3 DEF Walks
  <2>4. Fetched(c)'
    BY DEF Fetched, Walking
  <2> QED
    BY <2>2, <2>3, <2>4 DEF Goes
<1>6. \A e \in Clients \ {c} : Stands(e)
  BY <1>3 DEF Stands
<1> QED
  BY <1>2, <1>4, <1>5, <1>6, StepKeeps

\* The calls that dfs adds for a listing are of folders with a fid.
LEMMA OnwardIs ==
  ASSUME LookupTypes, NEW c \in Clients, Walking(c), NEW l,
         \A q \in Children(Head1(c).path) : l[q] \in None .. MaxFids
  PROVE  IsFiniteSet(Onward(c, l)) /\ Onward(c, l) \subseteq Calls
<1> DEFINE d == Head1(c).path
           Q == {q \in Children(d) \cap Dirs : l[q] # None /\ StartsWith(key[c], q)}
           f == [q \in Q |-> [path |-> q, fid |-> l[q]]]
<1>1. Q \subseteq Paths /\ Q \subseteq Folders
  BY DEF Children, Folders
<1>2. IsFiniteSet(Q)
  BY <1>1, PathsAssumption, FS_Subset
<1>3. Onward(c, l) = {[path |-> q, fid |-> l[q]] : q \in Q}
  BY DEF Onward
<1>4. f \in Surjection(Q, Onward(c, l))
  <2>1. f \in [Q -> Onward(c, l)]
    BY <1>3
  <2>2. \A x \in Onward(c, l) : \E q \in Q : f[q] = x
    BY <1>3
  <2> QED
    BY <2>1, <2>2 DEF Surjection
<1>5. IsFiniteSet(Onward(c, l))
  <2> HIDE DEF f, Q
  <2> QED
    BY <1>2, <1>4, FS_Surjection
<1>6. ASSUME NEW q \in Q PROVE [path |-> q, fid |-> l[q]] \in Calls
  <2>1. l[q] \in RootFid .. MaxFids
    BY BoundsAssumption DEF None, RootFid
  <2> QED
    BY <2>1, <1>1 DEF Calls
<1> QED
  BY <1>3, <1>5, <1>6

\* Dfs goes on with calls of folders, those of the listing first.
LEMMA ListedCalls ==
  ASSUME LookupTypes, NEW c \in Clients, Walking(c), NEW l, Listed(c, l),
         \A q \in Children(Head1(c).path) : l[q] \in None .. MaxFids
  PROVE  \E s \in Seq(Calls) :
            /\ todo' = [todo EXCEPT ![c] = s]
            /\ Head1(c).path # key[c] =>
                 \A x \in Onward(c, l) : \E i \in 1 .. Len(s) : s[i] = x
            /\ \A k \in 1 .. Len(Tail(todo[c])) :
                 \E i \in 1 .. Len(s) : s[i] = Tail(todo[c])[k]
<1> DEFINE S == IF Head1(c).path = key[c] THEN {} ELSE Onward(c, l)
<1>1. PICK order \in SetToSeqs(S) : todo' = [todo EXCEPT ![c] = order \o Tail(todo[c])]
  BY DEF Listed
<1>2. IsFiniteSet(S) /\ S \subseteq Calls
  BY OnwardIs, FS_EmptySet
<1>3. Head1(c).path # key[c] => S = Onward(c, l)
  OBVIOUS
<1> HIDE DEF S
<1>4. /\ order \in Seq(S)
      /\ \A x \in S : \E i \in 1 .. Len(order) : order[i] = x
  BY <1>2, OrderHasAll
<1>5. order \in Seq(Calls)
  BY <1>2, <1>4, SeqMonotonic
<1>6. Tail(todo[c]) \in Seq(Calls)
  BY HeadAndTail DEF Walking
<1> DEFINE t == Tail(todo[c])
           s == order \o t
<1>7. /\ s \in Seq(Calls) /\ Len(s) = Len(order) + Len(t)
      /\ \A i \in 1 .. Len(s) : s[i] = IF i <= Len(order) THEN order[i]
                                       ELSE t[i - Len(order)]
  <2>1. t \in Seq(Calls)
    BY <1>6
  <2> HIDE DEF t
  <2> QED
    BY <2>1, <1>5, ConcatProperties
<1>8. Len(s) \in Nat /\ Len(order) \in Nat /\ Len(t) \in Nat
  BY <1>5, <1>6, <1>7, LenProperties
<1>9. todo' = [todo EXCEPT ![c] = s]
  BY <1>1
<1> HIDE DEF s
<1>10. \A x \in S : \E i \in 1 .. Len(s) : s[i] = x
  <2> HIDE DEF t
  <2>1. \A i \in 1 .. Len(order) : i \in 1 .. Len(s) /\ s[i] = order[i]
    BY <1>7, <1>8
  <2> QED
    BY <1>4, <2>1
<1>11. ASSUME NEW k \in 1 .. Len(t)
       PROVE  \E i \in 1 .. Len(s) : s[i] = t[k]
  <2> HIDE DEF t
  <2>1. Len(order) + k \in 1 .. Len(s) /\ s[Len(order) + k] = t[k]
    BY <1>7, <1>8
  <2> QED
    BY <2>1
<1> QED
  BY <1>3, <1>7, <1>9, <1>10, <1>11

LEMMA PlausibleFids ==
  ASSUME CloudTypes, NEW d \in Folders, NEW l \in Plausible(d)
  PROVE  DOMAIN l = Children(d) /\ \A q \in Children(d) : l[q] \in None .. MaxFids
<1>1. l \in [Children(d) -> {None} \cup UNION {had[p] : p \in Children(d)}]
  BY DEF Plausible
<1>2. ASSUME NEW q \in Children(d) PROVE l[q] \in None .. MaxFids
  <2>1. q \in Paths /\ l[q] \in had[q] \cup {None}
    BY <1>2 DEF Plausible, Children
  <2>2. had[q] \subseteq RootFid .. MaxFids
    BY <2>1 DEF CloudTypes
  <2> QED
    BY <2>1, <2>2, BoundsAssumption DEF None, RootFid
<1> QED
  BY <1>1, <1>2

LEMMA ShownFids ==
  ASSUME CloudTypes, NEW d \in Folders, NEW l \in Shown(d)
  PROVE  /\ DOMAIN l = Children(d) /\ \A q \in Children(d) : l[q] \in None .. MaxFids
         /\ l \in [Children(d) -> None .. MaxFids]
<1>1. CASE l \in Plausible(d)
  <2>1. l \in [Children(d) -> {None} \cup UNION {had[p] : p \in Children(d)}]
    BY <1>1 DEF Plausible
  <2> QED
    BY <1>1, <2>1, PlausibleFids
<1>2. CASE l = [q \in Children(d) |-> cloud[q]]
  BY <1>2 DEF CloudTypes, Children, Places
<1> QED
  BY <1>1, <1>2 DEF Shown

\* A listing that is cached, however it came about, leads on, or it hides a folder
\* that is there.
LEMMA ListedKeeps ==
  ASSUME WInv, NEW c \in Clients, Walking(c), NEW l, Listed(c, l),
         DOMAIN l = Children(Head1(c).path),
         \A q \in Children(Head1(c).path) : l[q] \in None .. MaxFids,
         page1' \in [Clients -> SUBSET Listings],
         UNCHANGED <<cloudVars, faults, pc, op, path, fid, key, at, refreshed, missed>>
  PROVE  WInv'
<1>1. CloudTypes /\ CacheTypes /\ RequestTypes /\ LookupTypes /\ Tree /\ Walks(c) /\ Sought(c)
  BY InvTypes DEF WInv, Goes
<1> DEFINE d == Head1(c).path
<1>2. Insert(d) /\ Excuse(IF Hides(c, l) THEN {c} ELSE {})
  BY DEF Listed
<1>4. /\ d \in Folders /\ Head1(c) = todo[c][1] /\ Len(todo[c]) \in Nat
      /\ Len(Tail(todo[c])) = Len(todo[c]) - 1
      /\ \A i \in 2 .. Len(todo[c]) : Tail(todo[c])[i - 1] = todo[c][i]
      /\ Tail(todo[c]) \in Seq(Calls)
  BY <1>1, HeadAndTail DEF Walking
<1>5. DOMAIN l = Children(d) /\ \A q \in Children(d) : l[q] \in None .. MaxFids
  OBVIOUS
<1>6. PICK s \in Seq(Calls) :
         /\ todo' = [todo EXCEPT ![c] = s]
         /\ d # key[c] => \A x \in Onward(c, l) : \E i \in 1 .. Len(s) : s[i] = x
         /\ \A k \in 1 .. Len(Tail(todo[c])) :
              \E i \in 1 .. Len(s) : s[i] = Tail(todo[c])[k]
  BY <1>1, ListedCalls
<1>7. /\ moka' = moka \cup {d} /\ moka' \subseteq Folders
      /\ excused' \subseteq Clients /\ excused \subseteq excused'
      /\ Hides(c, l) => c \in excused'
  BY <1>1, <1>2, <1>4 DEF Insert, Excuse, CacheTypes
<1>8. \A e \in Clients \ {c} : Regards(e)
  BY <1>7, AddRegards DEF cloudVars
<1>9. ASSUME c \notin excused', key[c] \notin moka'
      PROVE  \E i \in 1 .. Len(s) : Within(key[c], s[i].path)
  <2>1. key[c] \in Folders /\ cloud[key[c]] # None /\ key[c] \in Places
    BY <1>1, <1>7, <1>9, PathTypes DEF LookupTypes, Sought, Walking, Looking
  <2>2. d # key[c] /\ key[c] \notin moka
    BY <1>7, <1>9
  <2>3. PICK i \in 1 .. Len(todo[c]) : Within(key[c], todo[c][i].path)
    BY <1>1, <1>7, <1>9, <2>2 DEF Walks, Walking
  <2>4. CASE i = 1
    <3>1. Within(key[c], d)
      BY <1>4, <2>3, <2>4
    <3>2. PICK q \in Children(d) \cap Dirs : Within(key[c], q) /\ StartsWith(key[c], q)
      BY <1>4, <2>1, <2>2, <3>1, WayOn
    <3>3. cloud[q] # None
      <4>1. q \in Places
        BY DEF Children, Places
      <4> QED
        BY <4>1, <3>2, <2>1, <1>1 DEF Tree
    <3>4. l[q] # None
      BY <3>2, <3>3, <1>5, <1>7, <1>9 DEF Hides
    <3> DEFINE x == [path |-> q, fid |-> l[q]]
    <3>5. x \in Onward(c, l) /\ x.path = q
      BY <3>2, <3>4 DEF Onward
    <3> HIDE DEF x
    <3>6. PICK j \in 1 .. Len(s) : s[j] = x
      BY <1>6, <2>2, <3>5
    <3> QED
      BY <3>2, <3>5, <3>6
  <2>5. CASE i # 1
    <3>1. i - 1 \in 1 .. Len(Tail(todo[c])) /\ Tail(todo[c])[i - 1] = todo[c][i]
      BY <1>4, <2>5
    <3>2. PICK j \in 1 .. Len(s) : s[j] = Tail(todo[c])[i - 1]
      BY <3>1, <1>6
    <3> QED
      BY <3>1, <3>2, <2>3
  <2> QED
    BY <2>4, <2>5
<1> HIDE DEF d
<1>10. faults' \in 0 .. MaxFaults
  BY <1>1 DEF CacheTypes
<1> QED
  BY <1>6, <1>7, <1>8, <1>9, <1>10, WalkGoesOn

LEMMA ListShortKeeps ==
  ASSUME WInv, NEW c \in Clients, ListShort(c)
  PROVE  WInv'
<1>1. CloudTypes /\ LookupTypes
  BY InvTypes
<1> DEFINE d == Head1(c).path
<1>2. /\ Walking(c)
      /\ UNCHANGED <<cloudVars, faults, pc, op, path, fid, key, at, refreshed, missed>>
      /\ page1' = page1
  BY DEF ListShort, Asks
<1>3. PICK l \in Shown(d) : Listed(c, l)
  BY DEF ListShort
<1>4. d \in Folders
  BY <1>1, <1>2, HeadAndTail DEF Walking
<1>5. DOMAIN l = Children(d) /\ \A q \in Children(d) : l[q] \in None .. MaxFids
  BY <1>1, <1>3, <1>4, ShownFids
<1>6. page1' \in [Clients -> SUBSET Listings]
  BY <1>1, <1>2 DEF LookupTypes
<1> QED
  BY <1>2, <1>3, <1>5, <1>6, ListedKeeps

\* Between its pages a listing is neither cached nor followed.
LEMMA ListPage1Keeps ==
  ASSUME WInv, NEW c \in Clients, ListPage1(c)
  PROVE  WInv'
<1>1. CloudTypes /\ CacheTypes /\ RequestTypes /\ LookupTypes /\ Tree
  BY InvTypes
<1> DEFINE d == Head1(c).path
<1>2. /\ Walking(c)
      /\ UNCHANGED <<cloudVars, faults, moka, pc, op, path, fid, key, at, refreshed,
                     todo, missed, excused>>
  BY DEF ListPage1, Asks
<1>3. PICK l \in Shown(d) : page1' = [page1 EXCEPT ![c] = {l}]
  BY DEF ListPage1
<1>4. d \in Folders
  BY <1>1, <1>2, HeadAndTail DEF Walking
<1>5. l \in Listings
  BY <1>1, <1>3, <1>4, ShownFids DEF Listings
<1>6. page1' \in [Clients -> SUBSET Listings]
  BY <1>1, <1>3, <1>5 DEF LookupTypes
<1>7. RequestTypes' /\ LookupTypes'
  BY <1>1, <1>2, <1>6 DEF RequestTypes, LookupTypes
<1>8. CloudTypes' /\ CacheTypes' /\ Tree'
  BY <1>1, <1>2, CloudTypesStay DEF CacheTypes
<1>9. \A e \in Clients : Regards(e) /\ Stands(e)
  BY <1>2, AddRegards DEF cloudVars, Stands
<1>10. Goes(c)'
  BY <1>9, GoesOn DEF WInv
<1> QED
  BY <1>7, <1>8, <1>9, <1>10, StepKeeps

LEMMA ListPagesKeeps ==
  ASSUME WInv, NEW c \in Clients, ListPages(c)
  PROVE  WInv'
<1>1. CloudTypes /\ LookupTypes
  BY InvTypes
<1> DEFINE d == Head1(c).path
<1>2. /\ Walking(c)
      /\ UNCHANGED <<cloudVars, faults, pc, op, path, fid, key, at, refreshed, missed>>
      /\ page1' = [page1 EXCEPT ![c] = {}]
  BY DEF ListPages
<1>3. PICK l \in Plausible(d) : Listed(c, l)
  BY DEF ListPages
<1>4. d \in Folders
  BY <1>1, <1>2, HeadAndTail DEF Walking
<1>5. DOMAIN l = Children(d) /\ \A q \in Children(d) : l[q] \in None .. MaxFids
  BY <1>1, <1>4, PlausibleFids
<1>6. page1' \in [Clients -> SUBSET Listings]
  BY <1>1, <1>2 DEF LookupTypes
<1> QED
  BY <1>2, <1>3, <1>5, <1>6, ListedKeeps

LEMMA ListNothingKeeps ==
  ASSUME WInv, NEW c \in Clients, ListNothing(c)
  PROVE  WInv'
<1>1. LookupTypes
  BY InvTypes
<1> DEFINE d == Head1(c).path
           l == [p \in Children(d) |-> None]
<1>2. /\ Walking(c) /\ Listed(c, l) /\ page1' = page1
      /\ UNCHANGED <<cloudVars, faults, pc, op, path, fid, key, at, refreshed, missed>>
  BY DEF ListNothing, Asks
<1>3. DOMAIN l = Children(d) /\ \A q \in Children(d) : l[q] \in None .. MaxFids
  BY BoundsAssumption DEF None
<1>4. page1' \in [Clients -> SUBSET Listings]
  BY <1>1, <1>2 DEF LookupTypes
<1> HIDE DEF l
<1> QED
  BY <1>2, <1>3, <1>4, ListedKeeps

LEMMA ListFailsKeeps ==
  ASSUME WInv, NEW c \in Clients, ListFails(c)
  PROVE  WInv'
<1>1. CacheTypes /\ LookupTypes
  BY InvTypes
<1>2. /\ Walking(c) /\ Excuse({c}) /\ todo' = [todo EXCEPT ![c] = Tail(todo[c])]
      /\ faults > 0 /\ faults' = faults - 1 /\ moka' = moka
      /\ UNCHANGED <<cloudVars, pc, op, path, fid, key, at, refreshed, page1, missed>>
  BY DEF ListFails, Asks
<1>3. Tail(todo[c]) \in Seq(Calls)
  BY <1>1, <1>2, HeadAndTail DEF Walking
<1>4. /\ moka' \subseteq Folders /\ moka \subseteq moka'
      /\ excused' \subseteq Clients /\ excused \subseteq excused' /\ c \in excused'
  BY <1>1, <1>2 DEF Excuse, CacheTypes
<1>5. \A e \in Clients \ {c} : Regards(e)
  BY <1>2, <1>4, AddRegards DEF cloudVars
<1>6. faults' \in 0 .. MaxFaults /\ page1' \in [Clients -> SUBSET Listings]
  BY <1>1, <1>2, BoundsAssumption DEF CacheTypes, LookupTypes
<1> QED
  BY <1>2, <1>3, <1>4, <1>5, <1>6, WalkGoesOn

LEMMA List404Keeps ==
  ASSUME WInv, NEW c \in Clients, List404(c)
  PROVE  WInv'
<1>1. CacheTypes /\ LookupTypes
  BY InvTypes
<1> DEFINE d == Head1(c).path
           root == [path |-> Root, fid |-> RootFid]
           t == Tail(todo[c])
           s == <<root>> \o t
<1>2. /\ Walking(c) /\ moka' = moka \ {d} /\ Excuse(Regetting(d) \ {c})
      /\ todo' = [todo EXCEPT ![c] = s] /\ faults' = faults
      /\ UNCHANGED <<cloudVars, pc, op, path, fid, key, at, refreshed, page1, missed>>
  BY DEF List404, Asks
<1>3. t \in Seq(Calls)
  BY <1>1, <1>2, HeadAndTail DEF Walking
<1>4. root \in Calls /\ root.path = Root
  BY PathTypes, FidBounds DEF Calls
<1>5. s \in Seq(Calls) /\ Len(s) >= 1 /\ s[1] = root /\ Len(s) \in Nat
  <2> HIDE DEF t, root
  <2>1. <<root>> \in Seq(Calls) /\ Len(<<root>>) = 1 /\ <<root>>[1] = root
    BY <1>4
  <2>2. Len(t) \in Nat
    BY <1>3, LenProperties
  <2> QED
    BY <1>3, <2>1, <2>2, ConcatProperties
<1>6. Within(key[c], Root)
  BY <1>1, PathTypes, WithinOrder DEF LookupTypes
<1>7. \E i \in 1 .. Len(s) : Within(key[c], s[i].path)
  <2> HIDE DEF s, root
  <2> QED
    BY <1>4, <1>5, <1>6
<1>8. /\ moka' \subseteq Folders
      /\ excused' \subseteq Clients /\ excused \subseteq excused'
  BY <1>1, <1>2 DEF Excuse, CacheTypes, Regetting
<1>9. \A e \in Clients \ {c} : Regards(e)
  BY <1>2 DEF Excuse, Regetting, Regards, cloudVars
<1>10. faults' \in 0 .. MaxFaults /\ page1' \in [Clients -> SUBSET Listings]
  BY <1>1, <1>2 DEF CacheTypes, LookupTypes
<1> HIDE DEF s
<1> QED
  BY <1>2, <1>5, <1>7, <1>8, <1>9, <1>10, WalkGoesOn

\* A step that changes only where request c stands, and moka or excuses.
LEMMA MovesOn ==
  ASSUME WInv, NEW c \in Clients, NEW w \in Pc, Goto(c, w),
         UNCHANGED <<cloudVars, faults, op, path, fid, lookupVars>>,
         moka' \subseteq Folders, excused' \subseteq Clients, 
         excused \subseteq excused', \A e \in Clients : Regards(e), Aims(c)',
         w \in Looking =>
           w = "reget" /\ pc[c] = "walk" /\ (c \in excused' \/ key[c] \in moka')
  PROVE  WInv'
<1>1. CloudTypes /\ CacheTypes /\ RequestTypes /\ LookupTypes /\ Tree
  BY InvTypes
<1>2. CacheTypes' /\ CloudTypes' /\ Tree'
  <2>1. CloudTypes' /\ Tree'
    BY <1>1, CloudTypesStay
  <2> QED
    BY <2>1, <1>1 DEF CacheTypes
<1>3. /\ pc' \in [Clients -> Pc] /\ pc'[c] = w
      /\ \A e \in Clients \ {c} : pc'[e] = pc[e]
  BY <1>1 DEF Goto, RequestTypes
<1>4. RequestTypes' /\ LookupTypes'
  BY <1>1, <1>3, LookupTypesStay DEF RequestTypes
<1>5. Goes(c)'
  <2>1. Goes(c)
    BY DEF WInv
  <2>2. Fair(c)'
    BY <2>1 DEF Goes, Fair, lookupVars
  <2>3. CASE w \notin Looking
    BY <2>2, <2>3, <1>3 DEF Goes, Sought, Climbs, Walks, Fetched, Looking
  <2>4. ASSUME w = "reget", pc[c] = "walk", c \in excused' \/ key[c] \in moka'
        PROVE  Goes(c)'
    BY <2>1, <2>2, <2>4, <1>3
    DEF Goes, Sought, Climbs, Walks, Fetched, Looking, lookupVars, cloudVars
  <2> QED
    BY <2>3, <2>4
<1>6. \A e \in Clients \ {c} : Stands(e)
  BY <1>3 DEF Stands, lookupVars
<1> QED
  BY <1>2, <1>4, <1>5, <1>6, StepKeeps

LEMMA WalkEndsKeeps ==
  ASSUME WInv, NEW c \in Clients, WalkEnds(c)
  PROVE  WInv'
<1>1. CacheTypes /\ LookupTypes /\ Aims(c) /\ Walks(c) /\ RequestTypes
  BY InvTypes DEF WInv, Goes
<1>2. /\ pc[c] = "walk" /\ todo[c] = <<>> /\ Goto(c, "reget") /\ moka' = moka
      /\ excused' = excused /\ "reget" \in Pc
      /\ UNCHANGED <<cloudVars, faults, op, path, fid, lookupVars>>
  BY DEF WalkEnds, Pc
<1>3. c \notin excused => key[c] \in moka
  BY <1>1, <1>2 DEF Walks
<1>4. \A e \in Clients : Regards(e)
  BY <1>2, AddRegards DEF cloudVars
<1>5. Aims(c)'
  BY <1>1, <1>2 DEF Aims, Goto, RequestTypes, lookupVars
<1>6. moka' \subseteq Folders /\ excused' \subseteq Clients
  BY <1>1, <1>2 DEF CacheTypes
<1> QED
  BY <1>2, <1>3, <1>4, <1>5, <1>6, MovesOn
-----------------------------------------------------------------------------
\* MKCOL and DELETE.

LEMMA MkdirInvalidatesKeeps ==
  ASSUME WInv, NEW c \in Clients, MkdirInvalidates(c)
  PROVE  WInv'
<1>1. CacheTypes /\ LookupTypes /\ Aims(c) /\ RequestTypes
  BY InvTypes DEF WInv, Goes
<1> DEFINE d == Parent(path[c])
<1>2. /\ pc[c] = "pre" /\ moka' = moka \ {d} /\ Excuse(Regetting(d))
      /\ Goto(c, "create") /\ "create" \in Pc /\ "create" \notin Looking
      /\ UNCHANGED <<cloudVars, faults, op, path, fid, lookupVars>>
  BY DEF MkdirInvalidates, Invalidate, Pc, Looking
<1>3. \A e \in Clients : Regards(e)
  BY <1>2, DropRegards DEF cloudVars
<1>4. Aims(c)'
  BY <1>1, <1>2 DEF Aims, Goto, RequestTypes, lookupVars
<1>5. moka' \subseteq Folders /\ excused' \subseteq Clients /\ excused \subseteq excused'
  BY <1>1, <1>2 DEF CacheTypes, Excuse, Regetting
<1> QED
  BY <1>2, <1>3, <1>4, <1>5, MovesOn

LEMMA MkdirPushesKeeps ==
  ASSUME WInv, NEW c \in Clients, MkdirPushes(c)
  PROVE  WInv'
<1>1. CacheTypes /\ LookupTypes /\ Aims(c) /\ RequestTypes
  BY InvTypes DEF WInv, Goes
<1> DEFINE d == Parent(path[c])
<1>2. /\ pc[c] = "push" /\ Goto(c, "own") /\ "own" \in Pc /\ "own" \notin Looking
      /\ UNCHANGED <<cloudVars, faults, op, path, fid, lookupVars>>
      /\ excused' = excused
  BY DEF MkdirPushes, Pc, Looking
<1>3. op[c] = "mkdir" /\ d \in Folders
  <2>1. op[c] = "mkdir" /\ path[c] \in Paths
    BY <1>1, <1>2, PathsAssumption DEF Aims
  <2> QED
    BY <2>1, ParentIsAbove
<1>4. moka \subseteq moka' /\ moka' \subseteq Folders
  <2>1. PICK L \in Gets(d) : Promote(d, L) \/ Insert(d)
    BY DEF MkdirPushes
  <2> HIDE DEF d
  <2>2. CASE Promote(d, L)
    BY <1>1, <1>3, <2>2, PromoteKeeps
  <2>3. CASE Insert(d)
    BY <1>1, <1>3, <2>3 DEF Insert, CacheTypes
  <2> QED
    BY <2>1, <2>2, <2>3
<1>5. \A e \in Clients : Regards(e)
  BY <1>2, <1>4, AddRegards DEF cloudVars
<1>6. Aims(c)'
  BY <1>1, <1>2, <1>3 DEF Aims, Goto, RequestTypes, lookupVars
<1>7. excused' \subseteq Clients
  BY <1>1, <1>2 DEF CacheTypes
<1> QED
  BY <1>2, <1>4, <1>5, <1>6, <1>7, MovesOn

LEMMA InvalidateOwnKeeps ==
  ASSUME WInv, NEW c \in Clients, InvalidateOwn(c)
  PROVE  WInv'
<1>1. CacheTypes /\ LookupTypes /\ Aims(c) /\ RequestTypes
  BY InvTypes DEF WInv, Goes
<1>2. /\ pc[c] = "own" /\ moka' = moka \ {path[c]} /\ Excuse(Regetting(path[c]))
      /\ Goto(c, "above") /\ "above" \in Pc /\ "above" \notin Looking
      /\ UNCHANGED <<cloudVars, faults, op, path, fid, lookupVars>>
  BY DEF InvalidateOwn, Invalidate, Pc, Looking
<1>3. \A e \in Clients : Regards(e)
  BY <1>2, DropRegards DEF cloudVars
<1>4. Aims(c)'
  BY <1>1, <1>2 DEF Aims, Goto, RequestTypes, lookupVars
<1>5. moka' \subseteq Folders /\ excused' \subseteq Clients /\ excused \subseteq excused'
  BY <1>1, <1>2 DEF CacheTypes, Excuse, Regetting
<1> QED
  BY <1>2, <1>3, <1>4, <1>5, MovesOn

\* A request that is answered while the cloud or the cache may change.
LEMMA Answered ==
  ASSUME WInv, NEW c \in Clients, Answer(c), UNCHANGED <<todo, page1, missed>>,
         CloudTypes', CacheTypes', Tree', excused \subseteq excused',
         \A e \in Clients : Regards(e)
  PROVE  WInv'
<1>1. RequestTypes /\ LookupTypes
  BY InvTypes
<1>2. /\ RequestTypes'
      /\ key' \in [Clients -> Folders] /\ at' \in [Clients -> Folders]
      /\ refreshed' \in [Clients -> BOOLEAN]
      /\ pc'[c] = "idle" /\ op'[c] = "read"
      /\ \A e \in Clients \ {c} :
           pc'[e] = pc[e] /\ op'[e] = op[e] /\ path'[e] = path[e]
      /\ \A e \in Clients \ {c} : key'[e] = key[e] /\ at'[e] = at[e]
  BY <1>1, AnswerIs
<1>3. LookupTypes'
  BY <1>1, <1>2 DEF LookupTypes
<1>4. Goes(c)'
  <2>1. Fair(c)'
    BY DEF WInv, Goes, Fair
  <2> QED
    BY <2>1, <1>2 DEF Goes, Aims, Sought, Climbs, Walks, Fetched, Looking
<1>5. \A e \in Clients \ {c} : Stands(e)
  BY <1>2 DEF Stands
<1> QED
  BY <1>2, <1>3, <1>4, <1>5, StepKeeps

LEMMA InvalidateParentKeeps ==
  ASSUME WInv, NEW c \in Clients, InvalidateParent(c)
  PROVE  WInv'
<1>1. CloudTypes /\ CacheTypes /\ Tree
  BY InvTypes
<1> DEFINE d == Parent(path[c])
<1>2. /\ moka' = moka \ {d} /\ Excuse(Regetting(d)) /\ Answer(c)
      /\ UNCHANGED <<cloudVars, faults, todo, page1, missed>>
  BY DEF InvalidateParent, Invalidate
<1>3. \A e \in Clients : Regards(e)
  BY <1>2, DropRegards DEF cloudVars
<1>4. CacheTypes' /\ excused \subseteq excused'
  BY <1>1, <1>2 DEF CacheTypes, Excuse, Regetting
<1>5. CloudTypes' /\ Tree'
  BY <1>1, <1>2, CloudTypesStay
<1> QED
  BY <1>2, <1>3, <1>4, <1>5, Answered

\* What is put at a free path leaves a tree and every lookup's folder.
LEMMA PutIs ==
  ASSUME CloudTypes, Tree, NEW p \in Paths, Put(p), moka' = moka
  PROVE  CloudTypes' /\ Tree' /\ excused' = excused /\ \A e \in Clients : Regards(e)
<1>1. /\ fids < MaxFids /\ cloud[p] = None /\ cloud[Parent(p)] # None
      /\ fids' = fids + 1 /\ cloud' = [cloud EXCEPT ![p] = fids + 1]
      /\ had' = [had EXCEPT ![p] = had[p] \cup {fids + 1}]
      /\ lagging' = TRUE /\ excused' = excused
  BY DEF Put
<1>2. /\ fids + 1 \in RootFid .. MaxFids /\ fids + 1 # None
      /\ fids + 1 \in None .. MaxFids
  BY <1>1, BoundsAssumption DEF CloudTypes, RootFid, None
<1>3. p \in Places
  BY DEF Places
<1>4. /\ cloud' \in [Places -> None .. MaxFids] /\ cloud'[p] # None
      /\ \A q \in Places \ {p} : cloud'[q] = cloud[q]
  BY <1>1, <1>2, <1>3 DEF CloudTypes
<1>5. had' \in [Paths -> SUBSET (RootFid .. MaxFids)]
  <2>1. had[p] \cup {fids + 1} \in SUBSET (RootFid .. MaxFids)
    BY <1>2 DEF CloudTypes
  <2> QED
    BY <1>1, <2>1 DEF CloudTypes
<1>6. CloudTypes'
  BY <1>1, <1>2, <1>4, <1>5 DEF CloudTypes
<1>7. Tree'
  <2> SUFFICES ASSUME NEW a \in Places, NEW b \in Places,
                      Within(a, b), cloud'[a] # None
               PROVE  cloud'[b] # None
    BY DEF Tree
  <2>1. CASE a = p /\ b # p
    <3>1. Parent(p) \in Places /\ Within(Parent(p), b)
      BY <2>1, ParentIsNext, ParentIsAbove, PathTypes
    <3>2. cloud[b] # None
      BY <1>1, <3>1 DEF Tree
    <3> QED
      BY <2>1, <3>2, <1>4
  <2>2. CASE a # p
    BY <2>2, <1>4 DEF Tree
  <2>3. CASE b = p
    BY <2>3, <1>4
  <2> QED
    BY <2>1, <2>2, <2>3
<1>8. \A e \in Clients : Regards(e)
  <2>1. \A q \in Places : cloud[q] # None => cloud'[q] # None
    BY <1>4
  <2> SUFFICES ASSUME NEW e \in Clients PROVE Regards(e)
    OBVIOUS
  <2>2. cloud[key[e]] # None => cloud'[key[e]] # None
    <3>1. cloud'[key[e]] = IF key[e] = p THEN fids + 1 ELSE cloud[key[e]]
      BY <1>1, <1>3 DEF CloudTypes
    <3> QED
      BY <3>1, <1>2
  <2> QED
    BY <2>2, <1>1 DEF Regards
<1> QED
  BY <1>1, <1>6, <1>7, <1>8

\* What is taken away with all below it leaves a tree, and the lookups of
\* what it was have an excuse.
LEMMA TakeAwayIs ==
  ASSUME CloudTypes, CacheTypes, LookupTypes, Tree, NEW p \in Paths, TakeAway(p),
         moka' = moka
  PROVE  /\ CloudTypes' /\ Tree' /\ excused \subseteq excused' /\ excused' \subseteq Clients
         /\ \A e \in Clients : Regards(e)
<1>1. /\ cloud' = [q \in Places |-> IF Within(q, p) THEN None ELSE cloud[q]]
      /\ lagging' = TRUE /\ excused' = excused \cup Below(p)
      /\ UNCHANGED <<had, fids>>
  BY DEF TakeAway, Excuse
<1>2. p \in Places
  BY DEF Places
<1>3. CloudTypes'
  BY <1>1, BoundsAssumption DEF CloudTypes, None
<1>4. Tree'
  <2> SUFFICES ASSUME NEW a \in Places, NEW b \in Places,
                      Within(a, b), cloud'[a] # None
               PROVE  cloud'[b] # None
    BY DEF Tree
  <2>1. ~Within(a, p) /\ cloud[a] # None
    BY <1>1
  <2>2. ~Within(b, p) /\ cloud[b] # None
    BY <2>1, <1>2, WithinOrder DEF Tree
  <2> QED
    BY <2>2, <1>1
<1>5. ASSUME NEW e \in Clients PROVE Regards(e)
  <2>1. key[e] \in Places
    BY PathTypes DEF LookupTypes
  <2>2. CASE Within(key[e], p)
    BY <2>2, <1>1 DEF Below, Regards, Looking
  <2>3. CASE ~Within(key[e], p)
    BY <2>1, <2>3, <1>1 DEF Regards
  <2> QED
    BY <2>2, <2>3
<1> QED
  BY <1>1, <1>3, <1>4, <1>5 DEF CacheTypes, Below

\* A request that has changed the cloud goes on to its next step.
LEMMA GoesToNext ==
  ASSUME WInv, NEW c \in Clients, NEW w \in Pc \ Looking, Goto(c, w),
         UNCHANGED <<op, path, fid, key, at, refreshed, todo, page1, missed>>,
         CloudTypes', CacheTypes', Tree', excused \subseteq excused',
         \A e \in Clients : Regards(e), 
         w \in {"self", "pre", "create", "push"} => op[c] = "mkdir",
         w \in {"remove", "own", "above"} => op[c] # "read"
  PROVE  WInv'
<1>1. RequestTypes /\ LookupTypes
  BY InvTypes
<1>2. /\ pc' \in [Clients -> Pc] /\ pc'[c] = w
      /\ \A e \in Clients \ {c} : pc'[e] = pc[e]
  BY <1>1 DEF Goto, RequestTypes
<1>3. RequestTypes' /\ LookupTypes'
  BY <1>1, <1>2 DEF RequestTypes, LookupTypes
<1>4. Goes(c)'
  <2>1. Goes(c)
    BY DEF WInv
  <2>2. Fair(c)'
    BY <2>1 DEF Goes, Fair
  <2>3. Aims(c)'
    BY <2>1, <1>2 DEF Goes, Aims
  <2> QED
    BY <2>2, <2>3, <1>2 DEF Goes, Sought, Climbs, Walks, Fetched, Looking
<1>5. \A e \in Clients \ {c} : Stands(e)
  BY <1>2 DEF Stands
<1> QED
  BY <1>2, <1>3, <1>4, <1>5, StepKeeps

LEMMA CreateFolderKeeps ==
  ASSUME WInv, NEW c \in Clients, CreateFolder(c)
  PROVE  WInv'
<1>1. CloudTypes /\ CacheTypes /\ Tree /\ Aims(c)
  BY InvTypes DEF WInv, Goes
<1>2. pc[c] = "create" /\ UNCHANGED <<faults, moka, todo, page1, missed>>
  BY DEF CreateFolder
<1>3. op[c] = "mkdir" /\ path[c] \in Paths
  BY <1>1, <1>2, PathsAssumption DEF Aims
<1>4. ASSUME Put(path[c]), Goto(c, "push"), UNCHANGED <<op, path, fid, key, at, refreshed>>
      PROVE  WInv'
  <2>1. CloudTypes' /\ Tree' /\ excused' = excused /\ \A e \in Clients : Regards(e)
    BY <1>1, <1>2, <1>3, <1>4, PutIs
  <2>2. CacheTypes'
    BY <1>1, <1>2, <2>1 DEF CacheTypes
  <2>3. "push" \in Pc \ Looking
    BY DEF Pc, Looking
  <2> QED
    BY <2>1, <2>2, <2>3, <1>2, <1>3, <1>4, GoesToNext
<1>5. ASSUME Answer(c), UNCHANGED <<cloudVars, excused>> PROVE WInv'
  <2>1. CloudTypes' /\ Tree' /\ CacheTypes'
    BY <1>1, <1>2, <1>5, CloudTypesStay DEF CacheTypes
  <2>2. \A e \in Clients : Regards(e)
    BY <1>2, <1>5, AddRegards DEF cloudVars
  <2> QED
    BY <2>1, <2>2, <1>2, <1>5, Answered
<1> QED
  BY <1>4, <1>5 DEF CreateFolder

LEMMA RemoveInCloudKeeps ==
  ASSUME WInv, NEW c \in Clients, RemoveInCloud(c)
  PROVE  WInv'
<1>1. CloudTypes /\ CacheTypes /\ RequestTypes /\ LookupTypes /\ Tree /\ Aims(c)
  BY InvTypes DEF WInv, Goes
<1>2. pc[c] = "remove" /\ UNCHANGED <<faults, moka, todo, page1, missed>>
  BY DEF RemoveInCloud
<1>3. op[c] # "read" /\ path[c] \in Paths
  BY <1>1, <1>2, PathsAssumption DEF Aims, RequestTypes, Ops
<1>4. ASSUME TakeAway(path[c]), NEW w \in {"own", "above"}, Goto(c, w),
             UNCHANGED <<op, path, fid, key, at, refreshed>>
      PROVE  WInv'
  <2>1. /\ CloudTypes' /\ Tree' /\ excused \subseteq excused' /\ excused' \subseteq Clients
        /\ \A e \in Clients : Regards(e)
    BY <1>1, <1>2, <1>3, <1>4, TakeAwayIs
  <2>2. CacheTypes'
    BY <1>1, <1>2, <2>1 DEF CacheTypes
  <2>3. w \in Pc \ Looking
    BY DEF Pc, Looking
  <2> QED
    BY <2>1, <2>2, <2>3, <1>2, <1>3, <1>4, GoesToNext
<1>5. ASSUME Answer(c), UNCHANGED <<cloudVars, excused>> PROVE WInv'
  <2>1. CloudTypes' /\ Tree' /\ CacheTypes'
    BY <1>1, <1>2, <1>5, CloudTypesStay DEF CacheTypes
  <2>2. \A e \in Clients : Regards(e)
    BY <1>2, <1>5, AddRegards DEF cloudVars
  <2> QED
    BY <2>1, <2>2, <1>2, <1>5, Answered
<1> QED
  BY <1>4, <1>5 DEF RemoveInCloud
-----------------------------------------------------------------------------
\* Other clients, time and the disk.

LEMMA NobodyMoves ==
  ASSUME WInv, UNCHANGED requestVars, CloudTypes', CacheTypes', Tree',
         \A e \in Clients : Regards(e)
  PROVE  WInv'
<1>1. RequestTypes /\ LookupTypes
  BY InvTypes
<1>2. RequestTypes' /\ LookupTypes'
  BY <1>1 DEF RequestTypes, LookupTypes, requestVars, lookupVars
<1>3. TypeOK'
  BY <1>2 DEF TypeOK, CloudTypes, CacheTypes, RequestTypes, LookupTypes, Calls
<1>4. ASSUME NEW e \in Clients PROVE Goes(e)'
  <2>1. Goes(e) /\ Stands(e) /\ Regards(e)
    BY DEF WInv, Stands, requestVars, lookupVars
  <2> QED
    BY <2>1, GoesOn
<1> QED
  BY <1>3, <1>4 DEF WInv

LEMMA OthersKeep ==
  ASSUME WInv, OthersPut \/ OthersRemove \/ CatchUp \/ Expire \/ UNCHANGED vars
  PROVE  WInv'
<1>1. CloudTypes /\ CacheTypes /\ LookupTypes /\ Tree
  BY InvTypes
<1>2. CASE OthersPut
  <2>1. PICK p \in Paths : Put(p)
    BY <1>2 DEF OthersPut
  <2>2. UNCHANGED <<faults, moka, requestVars>>
    BY <1>2 DEF OthersPut
  <2>3. CloudTypes' /\ Tree' /\ excused' = excused /\ \A e \in Clients : Regards(e)
    BY <1>1, <2>1, <2>2, PutIs
  <2>4. CacheTypes'
    BY <1>1, <2>2, <2>3 DEF CacheTypes
  <2> QED
    BY <2>2, <2>3, <2>4, NobodyMoves
<1>3. CASE OthersRemove
  <2>1. PICK p \in Paths : TakeAway(p)
    BY <1>3 DEF OthersRemove
  <2>2. UNCHANGED <<faults, moka, requestVars>>
    BY <1>3 DEF OthersRemove
  <2>3. /\ CloudTypes' /\ Tree' /\ excused' \subseteq Clients
        /\ \A e \in Clients : Regards(e)
    BY <1>1, <2>1, <2>2, TakeAwayIs
  <2>4. CacheTypes'
    BY <1>1, <2>2, <2>3 DEF CacheTypes
  <2> QED
    BY <2>2, <2>3, <2>4, NobodyMoves
<1>4. CASE CatchUp
  <2>1. /\ lagging' = FALSE
        /\ UNCHANGED <<cloud, had, fids, faults, moka, requestVars, excused>>
    BY <1>4 DEF CatchUp
  <2>2. CloudTypes' /\ CacheTypes' /\ Tree'
    BY <1>1, <2>1 DEF CloudTypes, CacheTypes, Tree
  <2>3. \A e \in Clients : Regards(e)
    BY <2>1, AddRegards
  <2> QED
    BY <2>1, <2>2, <2>3, NobodyMoves
<1>5. CASE Expire
  <2>1. PICK d \in Folders : moka' = moka \ {d} /\ Excuse(Regetting(d))
    BY <1>5 DEF Expire
  <2>2. UNCHANGED <<cloudVars, faults, requestVars>>
    BY <1>5 DEF Expire
  <2>3. \A e \in Clients : Regards(e)
    BY <2>1, <2>2, DropRegards DEF cloudVars
  <2>4. CloudTypes' /\ CacheTypes' /\ Tree'
    <3>1. CloudTypes' /\ Tree'
      BY <1>1, <2>2, CloudTypesStay
    <3> QED
      BY <3>1, <1>1, <2>1, <2>2 DEF CacheTypes, Excuse, Regetting
  <2> QED
    BY <2>2, <2>3, <2>4, NobodyMoves
<1>6. CASE UNCHANGED vars
  <2>1. UNCHANGED <<cloudVars, requestVars, faults, moka, excused>>
    BY <1>6 DEF vars
  <2>2. CloudTypes' /\ CacheTypes' /\ Tree'
    BY <1>1, <2>1, CloudTypesStay DEF CacheTypes
  <2>3. \A e \in Clients : Regards(e)
    BY <2>1, AddRegards DEF cloudVars
  <2> QED
    BY <2>1, <2>2, <2>3, NobodyMoves
<1> QED
  BY <1>2, <1>3, <1>4, <1>5, <1>6
-----------------------------------------------------------------------------
LEMMA InitIsSound == Init => WInv
<1> SUFFICES ASSUME Init PROVE WInv
  OBVIOUS
<1>1. Len(Initial) \in Nat /\ DOMAIN Initial = 1 .. Len(Initial)
  BY InitialAssumption, LenProperties
<1>2. ASSUME NEW p \in ToSet(Initial)
      PROVE  (CHOOSE i \in DOMAIN Initial : Initial[i] = p) \in 1 .. Len(Initial)
  BY <1>1, <1>2 DEF ToSet
<1>3. /\ Root \in Folders /\ Root \in Places
      /\ \A p \in Places : p # Root => p \in Paths
  BY PathTypes
<1>4. ASSUME NEW p \in Places
      PROVE  /\ cloud[p] \in None .. MaxFids
             /\ cloud[p] # None <=> p = Root \/ p \in ToSet(Initial)
  <2>1. cloud[p] = IF p = Root THEN RootFid
                   ELSE IF p \in ToSet(Initial)
                     THEN RootFid + (CHOOSE i \in DOMAIN Initial : Initial[i] = p)
                     ELSE None
    BY DEF Init
  <2>2. CASE p = Root
    BY <2>1, <2>2, <1>1, BoundsAssumption DEF RootFid, None
  <2>3. CASE p # Root /\ p \in ToSet(Initial)
    <3> DEFINE n == CHOOSE i \in DOMAIN Initial : Initial[i] = p
    <3>1. n \in 1 .. Len(Initial)
      BY <2>3, <1>2
    <3>2. cloud[p] = RootFid + n
      BY <2>1, <2>3
    <3> HIDE DEF n
    <3> QED
      BY <3>1, <3>2, <2>3, <1>1, BoundsAssumption DEF RootFid, None
  <2>4. CASE p # Root /\ p \notin ToSet(Initial)
    BY <2>1, <2>4, BoundsAssumption DEF None
  <2> QED
    BY <2>2, <2>3, <2>4
<1>5. CloudTypes
  <2>1. cloud \in [Places -> None .. MaxFids]
    BY <1>4 DEF Init
  <2>2. ASSUME NEW p \in Paths PROVE {cloud[p]} \ {None} \subseteq RootFid .. MaxFids
    BY <1>4, BoundsAssumption DEF Places, RootFid, None
  <2>3. had \in [Paths -> SUBSET (RootFid .. MaxFids)]
    BY <2>2 DEF Init
  <2>4. fids = RootFid + Len(Initial) /\ lagging = FALSE
    BY DEF Init
  <2>5. fids \in RootFid .. MaxFids /\ lagging \in BOOLEAN
    <3>1. RootFid <= fids /\ fids <= MaxFids /\ fids \in Nat
      BY <2>4, <1>1, BoundsAssumption DEF RootFid
    <3>2. lagging \in BOOLEAN
      BY <2>4
    <3> HIDE DEF RootFid
    <3> QED
      BY <3>1, <3>2, FidBounds, BoundsAssumption DEF RootFid
  <2> QED
    BY <2>1, <2>3, <2>5 DEF CloudTypes
<1>6. CacheTypes
  BY BoundsAssumption DEF Init, CacheTypes
<1>7. RequestTypes
  BY <1>3, BoundsAssumption DEF Init, RequestTypes, Pc, Ops, None
<1>8. LookupTypes
  BY <1>3 DEF Init, LookupTypes
<1>9. Tree
  <2> SUFFICES ASSUME NEW a \in Places, NEW b \in Places,
                      Within(a, b), cloud[a] # None
               PROVE  cloud[b] # None
    BY DEF Tree
  <2>1. CASE b = Root
    BY <2>1, <1>3, <1>4
  <2>2. CASE b # Root
    <3>1. b \in Paths
      BY <2>2, <1>3
    <3>2. a # Root
      BY <3>1, WithinOrder
    <3>3. a \in ToSet(Initial)
      BY <3>2, <1>4
    <3>4. b \in ToSet(Initial)
      BY <3>1, <3>3, InitialAssumption DEF ToSet
    <3> QED
      BY <3>4, <1>4
  <2> QED
    BY <2>1, <2>2
<1>10. ASSUME NEW c \in Clients PROVE Goes(c)
  <2>1. pc[c] = "idle" /\ op[c] = "read" /\ ~missed[c]
    BY DEF Init
  <2> QED
    BY <2>1 DEF Goes, Aims, Sought, Climbs, Walks, Fetched, Fair, Looking
<1> QED
  BY <1>5, <1>6, <1>7, <1>8, <1>9, <1>10, Typed DEF WInv

LEMMA StepIsSound == WInv /\ [Next]_vars => WInv'
<1> SUFFICES ASSUME WInv, [Next]_vars PROVE WInv'
  OBVIOUS
<1>1. ASSUME NEW c \in Clients, Lookup(c) PROVE WInv'
  BY <1>1, GetKeeps, ClimbEndsKeeps, ClimbKeeps, ListShortKeeps, ListPage1Keeps,
     ListPagesKeeps, ListFailsKeeps, List404Keeps, ListNothingKeeps, WalkEndsKeeps,
     RegetKeeps DEF Lookup
<1>2. ASSUME NEW c \in Clients, Handle(c) PROVE WInv'
  BY <1>1, <1>2, MkdirSelfKeeps, MkdirInvalidatesKeeps, CreateFolderKeeps,
     MkdirPushesKeeps, RemoveInCloudKeeps, InvalidateOwnKeeps,
     InvalidateParentKeeps DEF Handle
<1> QED
  BY <1>2, RequestKeeps, OthersKeep DEF Next

\* Inductive invariant of the lookups beside MKCOL, DELETE, other clients and
\* expiry: the drive is a tree, and a lookup without an excuse is of a folder
\* in it and has it listed or a call of dfs to make on the way to it (cache.rs,
\* get_or_insert and dfs).
THEOREM LookupInvariant == Spec => []WInv
<1> QED
  BY InitIsSound, StepIsSound, PTL DEF Spec

\* Type correctness of the lookups and the requests that need them.
THEOREM WalkTypeCorrect == Spec => []TypeOK
<1>1. WInv => TypeOK
  BY DEF WInv
<1> QED
  BY <1>1, LookupInvariant, PTL

\* For every tree and any number of requests at once, get_or_insert answers
\* None only for a folder that was not in the drive or not shown at some moment
\* of the lookup, or when a list call of it failed or its listing was dropped.
THEOREM NotFoundIsFair == Spec => []NotFoundOnlyIfAbsent
<1>1. WInv => NotFoundOnlyIfAbsent
  BY DEF WInv, Goes, Fair, NotFoundOnlyIfAbsent
<1> QED
  BY <1>1, LookupInvariant, PTL
=============================================================================
