---------------------------- MODULE CookiesProofs ----------------------------
(***************************************************************************)
(* Proofs about Cookies for every set of names, browsers, profiles,        *)
(* databases and refreshers: type correctness, and that replaces, however  *)
(* they interleave, leave the store whole.                                 *)
(* Then about the service they keep running, Supervision, for every bound  *)
(* on its mishaps: type correctness, when mounts are stacked, and what the *)
(* mount supervisor tears down.                                            *)
(***************************************************************************)
EXTENDS Cookies, Supervision, TLAPS

USE DEF vars, reading

\* Whatever a browser answers is a jar of values that were decrypted.
LEMMA LoadedType ==
  ASSUME TypeOK, NEW b \in BrowserNames
  PROVE  Loaded(b) \in Jars
<1>1. ASSUME NEW db \in Databases PROVE FilterQuark(db) \in Jars
  <2>1. ASSUME NEW n \in Names, LastOf(db, n) # {}
        PROVE  db.rows[CHOOSE i \in LastOf(db, n) : TRUE].value \in Values
    <3>1. PICK i \in LastOf(db, n) : i = CHOOSE k \in LastOf(db, n) : TRUE
      BY <2>1
    <3>2. i \in DOMAIN db.rows /\ Decrypts(db.rows[i], db.version)
      BY <3>1 DEF LastOf, Rows
    <3>3. QED
      BY <3>1, <3>2, DatabasesAssumption
  <2>2. QED
    BY <2>1 DEF FilterQuark, Jars
<1>2. Located(b) \in Databases \cup {None}
  <2> DEFINE there == {i \in DOMAIN Profiles : database[b][Profiles[i]] # None}
             first == {i \in there : \A k \in there : i <= k}
  <2>1. Located(b) = IF first = {} THEN None
                     ELSE database[b][Profiles[CHOOSE i \in first : TRUE]]
    BY DEF Located
  <2>2. ASSUME first # {} PROVE (CHOOSE i \in first : TRUE) \in DOMAIN Profiles
    BY <2>2
  <2>3. ASSUME NEW i \in DOMAIN Profiles
        PROVE  database[b][Profiles[i]] \in Databases \cup {None}
    <3>1. database \in [BrowserNames -> [ProfileNames -> Databases \cup {None}]]
      BY DEF TypeOK, Disks
    <3>2. Profiles[i] \in ProfileNames
      BY DEF ProfileNames
    <3>3. QED
      BY <3>1, <3>2
  <2> HIDE DEF first
  <2>4. QED
    BY <2>1, <2>2, <2>3
<1>3. Empty \in Jars
  BY DEF Empty, Jars
<1>4. QED
  BY <1>1, <1>2, <1>3 DEF Loaded, CookiesIn

\* Type correctness of the cookie store and of those who refresh it.
THEOREM CookieTypeCorrect == Spec => []TypeOK
<1>1. Init => TypeOK
  <2> SUFFICES ASSUME Init PROVE TypeOK
    OBVIOUS
  <2>1. Empty \in Jars
    BY DEF Empty, Jars
  <2>2. 1 \in 1 .. Len(Browsers)
    <3>1. Len(Browsers) \in Nat /\ Len(Browsers) # 0
      BY CookiesAssumption
    <3>2. QED
      BY <3>1
  <2>3. database \in Disks /\ store \in Jars /\ faults \in 0 .. MaxFaults
    BY <2>1, CookiesAssumption DEF Init
  <2>4. QED
    BY <2>1, <2>2, <2>3 DEF Init, TypeOK, Tasks
<1>2. TypeOK /\ [Next]_vars => TypeOK'
  <2> SUFFICES ASSUME TypeOK, [Next]_vars PROVE TypeOK'
    OBVIOUS
  <2>0. Empty \in Jars /\ 1 \in 1 .. Len(Browsers) /\ Len(Browsers) \in Nat
    <3>1. Empty \in Jars
      BY DEF Empty, Jars
    <3>2. Len(Browsers) \in Nat /\ Len(Browsers) # 0
      BY CookiesAssumption
    <3>3. QED
      BY <3>1, <3>2
  <2> USE DEF TypeOK, Goto, Done
  <2>1. ASSUME NEW t \in Tasks, TryNext(t), UNCHANGED <<database, store, todo, last, overlapped>>,
               faults' \in 0 .. MaxFaults
        PROVE  TypeOK'
    <3>1. at' \in [Tasks -> 1 .. Len(Browsers)]
      BY <2>0, <2>1 DEF TryNext
    <3>2. pc' \in [Tasks -> {"idle", "read", "clear", "fill", "running", "ended"}]
      BY <2>1 DEF TryNext
    <3>3. jar' \in [Tasks -> Jars]
      BY <2>0, <2>1 DEF TryNext
    <3>4. QED
      BY <2>1, <3>1, <3>2, <3>3
  <2>2. ASSUME NEW r \in Refreshers, Begin(r), faults' \in 0 .. MaxFaults PROVE TypeOK'
    BY <2>2 DEF Begin, Tasks
  <2>3. ASSUME NEW t \in Tasks, LoadFromBrowser(t) PROVE TypeOK'
    <3> DEFINE found == Loaded(Browsers[at[t]])
    <3>1. found \in Jars
      <4>1. Browsers[at[t]] \in BrowserNames
        BY CookiesAssumption DEF BrowserNames
      <4>2. QED
        BY <4>1, LoadedType
    <3>2. CASE TryNext(t) /\ UNCHANGED <<store, todo, last, overlapped>>
      BY <2>1, <2>3, <3>2 DEF LoadFromBrowser
    <3>3. CASE /\ t = "main" /\ Goto(t, "running") /\ store' = found /\ last' = found
               /\ UNCHANGED <<reading, todo, overlapped>>
      BY <2>3, <3>1, <3>3 DEF LoadFromBrowser
    <3>4. CASE /\ t # "main" /\ Goto(t, "clear") /\ todo' = [todo EXCEPT ![t] = Names]
               /\ jar' = [jar EXCEPT ![t] = found] /\ overlapped' = ~Quiet
               /\ UNCHANGED <<store, at, last>>
      <4>1. t \in Refreshers
        BY <3>4 DEF Tasks
      <4>2. overlapped' \in BOOLEAN
        BY <3>4 DEF Quiet
      <4> HIDE DEF found
      <4>3. QED
        BY <2>3, <3>1, <3>4, <4>1, <4>2 DEF LoadFromBrowser
    <3>5. QED
      BY <2>3, <3>2, <3>3, <3>4 DEF LoadFromBrowser
  <2>4. ASSUME NEW t \in Tasks, LoadFails(t) PROVE TypeOK'
    BY <2>1, <2>4, CookiesAssumption DEF LoadFails, Fault
  <2>5. ASSUME NEW r \in Refreshers, Clear(r) PROVE TypeOK'
    <3>1. CASE \E n \in todo[r] : /\ store' = [store EXCEPT ![n] = None]
                                  /\ todo' = [todo EXCEPT ![r] = @ \ {n}]
                                  /\ UNCHANGED <<pc, last>>
      BY <2>5, <3>1 DEF Clear, Jars
    <3>2. CASE Goto(r, "fill") /\ todo' = [todo EXCEPT ![r] = Held(jar[r])]
               /\ last' = jar[r] /\ UNCHANGED store
      BY <2>5, <3>2 DEF Clear, Held, Tasks
    <3>3. QED
      BY <2>5, <3>1, <3>2 DEF Clear
  <2>6. ASSUME NEW r \in Refreshers, Fill(r) PROVE TypeOK'
    <3>1. CASE \E n \in todo[r] : /\ store' = [store EXCEPT ![n] = jar[r][n]]
                                  /\ todo' = [todo EXCEPT ![r] = @ \ {n}]
                                  /\ UNCHANGED <<pc, reading>>
      <4>1. r \in Tasks
        BY DEF Tasks
      <4>2. QED
        BY <2>6, <3>1, <4>1 DEF Fill, Jars
    <3>2. CASE Done(r) /\ UNCHANGED <<store, todo>>
      BY <2>0, <2>6, <3>2 DEF Fill, Tasks
    <3>3. QED
      BY <2>6, <3>1, <3>2 DEF Fill
  <2>7. ASSUME Change PROVE TypeOK'
    BY <2>7, CookiesAssumption DEF Change, Fault, Disks
  <2>8. CASE UNCHANGED vars
    BY <2>8
  <2>9. QED
    BY <2>2, <2>3, <2>4, <2>5, <2>6, <2>7, <2>8
       DEF Next, Ticks, Asked, Repair, Refresh, Tasks
<1>3. QED
  BY <1>1, <1>2, PTL DEF Spec

-----------------------------------------------------------------------------
\* What makes ReplacedWhole inductive: once no clear is under way, whoever has
\* cleared last puts in what the store still lacks, ...
LastOnItsWay ==
    \/ \E r \in Refreshers : pc[r] = "clear"
    \/ \A n \in Held(last) :
         \/ store[n] # None
         \/ \E r \in Refreshers : pc[r] = "fill" /\ jar[r] = last /\ n \in todo[r]

\* ... and a replace that has met no other knows all there is in the store.
AloneKnowsStore ==
    ~overlapped =>
        /\ \A r, s \in Replacing : r = s
        /\ \A r \in Refreshers :
             /\ pc[r] = "clear" => \A n \in Names \ todo[r] : store[n] = None
             /\ pc[r] = "fill" =>
                  /\ jar[r] = last
                  /\ store = [n \in Names |-> IF n \in todo[r] THEN None ELSE last[n]]
        /\ Quiet => store = last

ReplaceInv ==
    /\ \A r \in Refreshers : pc[r] = "fill" => todo[r] \subseteq Held(jar[r])
    /\ ~Started => \A r \in Refreshers : pc[r] = "idle"
    /\ LastOnItsWay
    /\ AloneKnowsStore

\* A step beside the replaces disturbs nothing of them.
LEMMA BesideReplaces ==
  ASSUME ReplaceInv, UNCHANGED <<store, todo, last, overlapped>>,
         ~Started' => \A r \in Refreshers : pc'[r] = "idle",
         \A r \in Refreshers :
             pc[r] \in {"clear", "fill"} \/ pc'[r] \in {"clear", "fill"} =>
                 pc'[r] = pc[r] /\ jar'[r] = jar[r]
  PROVE  ReplaceInv'
<1>1. Replacing' = Replacing /\ (Quiet <=> Quiet')
  BY DEF Replacing, Quiet
<1>2. \A r \in Refreshers : /\ pc[r] = "clear" <=> pc'[r] = "clear"
                            /\ pc[r] = "fill" <=> pc'[r] = "fill"
                            /\ pc[r] = "fill" => jar'[r] = jar[r]
  OBVIOUS
<1>3. (\A r \in Refreshers : pc[r] = "fill" => todo[r] \subseteq Held(jar[r]))'
  BY <1>2 DEF ReplaceInv, Held
<1>4. LastOnItsWay'
  BY <1>2 DEF ReplaceInv, LastOnItsWay, Held
<1>5. AloneKnowsStore'
  BY <1>1, <1>2 DEF ReplaceInv, AloneKnowsStore
<1>6. QED
  BY <1>1, <1>3, <1>4, <1>5 DEF ReplaceInv

LEMMA PassingBrowser ==
  ASSUME TypeOK, ReplaceInv, NEW t \in Tasks, pc[t] = "read", TryNext(t),
         UNCHANGED <<store, todo, last, overlapped>>
  PROVE  ReplaceInv'
<1>1. "main" \notin Refreshers
  BY CookiesAssumption
<1>2. ~Started' => \A r \in Refreshers : pc'[r] = "idle"
  BY <1>1 DEF ReplaceInv, TypeOK, Started, TryNext, Goto, Done, Tasks
<1>3. \A r \in Refreshers :
        pc[r] \in {"clear", "fill"} \/ pc'[r] \in {"clear", "fill"} =>
            pc'[r] = pc[r] /\ jar'[r] = jar[r]
  BY <1>1 DEF TypeOK, TryNext, Goto, Done, Tasks
<1>4. QED
  BY <1>2, <1>3, BesideReplaces

LEMMA ReplaceLoads ==
  ASSUME TypeOK, ReplaceInv, NEW t \in Tasks, LoadFromBrowser(t)
  PROVE  ReplaceInv'
<1> DEFINE found == Loaded(Browsers[at[t]])
<1>0. "main" \notin Refreshers /\ pc[t] = "read"
  BY CookiesAssumption DEF LoadFromBrowser
<1>1. CASE TryNext(t) /\ UNCHANGED <<store, todo, last, overlapped>>
  BY <1>0, <1>1, PassingBrowser
<1>2. CASE /\ t = "main" /\ Goto(t, "running") /\ store' = found /\ last' = found
           /\ UNCHANGED <<reading, todo, overlapped>>
  <2>1. Quiet
    BY <1>0, <1>2 DEF ReplaceInv, Started, Quiet, Replacing
  <2>2. \A r \in Refreshers : pc'[r] = pc[r]
    BY <1>0, <1>2 DEF Goto, TypeOK
  <2>3. Replacing' = {} /\ Quiet'
    BY <2>1, <2>2 DEF Quiet, Replacing
  <2>4. \A r \in Refreshers : pc'[r] \notin {"clear", "fill"}
    BY <2>3 DEF Replacing
  <2>5. LastOnItsWay'
    BY <1>2 DEF LastOnItsWay, Held
  <2>6. AloneKnowsStore'
    BY <1>2, <2>3, <2>4 DEF AloneKnowsStore
  <2>7. Started'
    BY <1>2 DEF Started, Goto, TypeOK
  <2>8. QED
    BY <2>3, <2>4, <2>5, <2>6, <2>7 DEF ReplaceInv
<1>3. CASE /\ t # "main" /\ Goto(t, "clear") /\ todo' = [todo EXCEPT ![t] = Names]
           /\ jar' = [jar EXCEPT ![t] = found] /\ overlapped' = ~Quiet
           /\ UNCHANGED <<store, at, last>>
  <2>1. t \in Refreshers
    BY <1>3 DEF Tasks
  <2>2. /\ pc'[t] = "clear" /\ todo'[t] = Names
        /\ \A r \in Refreshers \ {t} : pc'[r] = pc[r] /\ todo'[r] = todo[r] /\ jar'[r] = jar[r]
    BY <1>3, <2>1 DEF Goto, TypeOK, Tasks
  <2>3. (\A r \in Refreshers : pc[r] = "fill" => todo[r] \subseteq Held(jar[r]))'
    BY <2>2 DEF ReplaceInv, Held
  <2>4. LastOnItsWay'
    BY <2>1, <2>2 DEF LastOnItsWay
  <2>5. AloneKnowsStore'
    <3> SUFFICES ASSUME ~overlapped' PROVE AloneKnowsStore'
      BY DEF AloneKnowsStore
    <3>1. Quiet
      BY <1>3
    <3>2. Replacing' = {t}
      BY <2>1, <2>2, <3>1 DEF Quiet, Replacing
    <3>3. \A r \in Refreshers \ {t} : pc'[r] \notin {"clear", "fill"}
      BY <3>2 DEF Replacing
    <3>4. ~Quiet'
      BY <3>2 DEF Quiet
    <3>5. QED
      BY <2>2, <3>2, <3>3, <3>4 DEF AloneKnowsStore
  <2>6. Started => Started'
    BY <1>0, <1>3 DEF Started, Goto, TypeOK
  <2>7. Started
    BY <1>0, <2>1 DEF ReplaceInv
  <2>8. QED
    BY <2>3, <2>4, <2>5, <2>6, <2>7 DEF ReplaceInv
<1>4. QED
  BY <1>1, <1>2, <1>3 DEF LoadFromBrowser

LEMMA ClearsKeep ==
  ASSUME TypeOK, ReplaceInv, NEW r \in Refreshers, Clear(r)
  PROVE  ReplaceInv'
<1>0. /\ pc[r] = "clear" /\ r \in Tasks /\ r # "main" /\ r \in Replacing
      /\ UNCHANGED <<database, reading, faults, overlapped>>
  BY CookiesAssumption DEF Clear, Tasks, Replacing
<1>1. ASSUME NEW n \in todo[r], store' = [store EXCEPT ![n] = None],
             todo' = [todo EXCEPT ![r] = @ \ {n}], UNCHANGED <<pc, last>>
      PROVE  ReplaceInv'
  <2>1. /\ n \in Names /\ todo'[r] = todo[r] \ {n} /\ store'[n] = None
        /\ \A m \in Names \ {n} : store'[m] = store[m]
        /\ \A s \in Refreshers \ {r} : todo'[s] = todo[s]
    BY <1>1 DEF TypeOK, Jars
  <2>2. (\A s \in Refreshers : pc[s] = "fill" => todo[s] \subseteq Held(jar[s]))'
    BY <1>0, <1>1, <2>1 DEF ReplaceInv, Held
  <2>3. LastOnItsWay'
    BY <1>0, <1>1 DEF LastOnItsWay
  <2>4. AloneKnowsStore'
    <3> SUFFICES ASSUME ~overlapped' PROVE AloneKnowsStore'
      BY DEF AloneKnowsStore
    <3>1. \A s \in Replacing : s = r
      BY <1>0 DEF ReplaceInv, AloneKnowsStore
    <3>2. \A m \in Names \ todo'[r] : store'[m] = None
      BY <1>0, <2>1 DEF ReplaceInv, AloneKnowsStore
    <3>3. Replacing' = Replacing /\ ~Quiet'
      BY <1>0, <1>1 DEF Replacing, Quiet
    <3>4. \A s \in Refreshers : pc'[s] \in {"clear", "fill"} => s = r
      BY <3>1, <1>1 DEF Replacing
    <3>5. QED
      BY <1>0, <1>1, <3>1, <3>2, <3>3, <3>4 DEF AloneKnowsStore
  <2>5. QED
    BY <1>1, <2>2, <2>3, <2>4 DEF ReplaceInv, Started
<1>2. ASSUME todo[r] = {}, Goto(r, "fill"), todo' = [todo EXCEPT ![r] = Held(jar[r])],
             last' = jar[r], UNCHANGED store
      PROVE  ReplaceInv'
  <2>1. /\ pc'[r] = "fill" /\ todo'[r] = Held(jar[r])
        /\ \A s \in Refreshers \ {r} : pc'[s] = pc[s] /\ todo'[s] = todo[s]
    BY <1>0, <1>2 DEF Goto, TypeOK, Tasks
  <2>2. (\A s \in Refreshers : pc[s] = "fill" => todo[s] \subseteq Held(jar[s]))'
    BY <1>0, <2>1 DEF ReplaceInv, Held
  <2>3. LastOnItsWay'
    BY <1>0, <1>2, <2>1 DEF LastOnItsWay, Held
  <2>4. AloneKnowsStore'
    <3> SUFFICES ASSUME ~overlapped' PROVE AloneKnowsStore'
      BY DEF AloneKnowsStore
    <3>1. /\ \A s \in Replacing : s = r
          /\ \A n \in Names : store[n] = None
      BY <1>0, <1>2 DEF ReplaceInv, AloneKnowsStore
    <3>2. Replacing' = {r} /\ ~Quiet'
      BY <2>1, <3>1 DEF Replacing, Quiet
    <3>3. \A s \in Refreshers : pc'[s] \in {"clear", "fill"} => s = r
      BY <3>2 DEF Replacing
    <3>4. store' = [n \in Names |-> IF n \in todo'[r] THEN None ELSE last'[n]]
      <4>1. store \in [Names -> Values \cup {None}]
        BY DEF TypeOK, Jars
      <4>2. \A n \in Names : n \notin Held(jar[r]) => jar[r][n] = None
        BY DEF Held
      <4>3. QED
        BY <1>2, <2>1, <3>1, <4>1, <4>2
    <3>5. jar'[r] = last'
      BY <1>0, <1>2
    <3>6. QED
      BY <2>1, <3>2, <3>3, <3>4, <3>5 DEF AloneKnowsStore
  <2>5. ~Started' => \A s \in Refreshers : pc'[s] = "idle"
    BY <1>0, <1>2 DEF ReplaceInv, Started, Goto, TypeOK, Tasks
  <2>6. QED
    BY <2>2, <2>3, <2>4, <2>5 DEF ReplaceInv
<1>3. QED
  BY <1>1, <1>2 DEF Clear

LEMMA FillsKeep ==
  ASSUME TypeOK, ReplaceInv, NEW r \in Refreshers, Fill(r)
  PROVE  ReplaceInv'
<1>0. /\ pc[r] = "fill" /\ r \in Tasks /\ r # "main" /\ r \in Replacing
      /\ todo[r] \subseteq Held(jar[r])
      /\ UNCHANGED <<database, faults, last, overlapped>>
  BY CookiesAssumption DEF Fill, Tasks, Replacing, ReplaceInv
<1>1. ASSUME NEW n \in todo[r], store' = [store EXCEPT ![n] = jar[r][n]],
             todo' = [todo EXCEPT ![r] = @ \ {n}], UNCHANGED <<pc, reading>>
      PROVE  ReplaceInv'
  <2>1. /\ n \in Names /\ todo'[r] = todo[r] \ {n}
        /\ store'[n] = jar[r][n] /\ store'[n] # None
        /\ \A m \in Names \ {n} : store'[m] = store[m]
        /\ \A s \in Refreshers \ {r} : todo'[s] = todo[s]
    BY <1>0, <1>1 DEF TypeOK, Jars, Held
  <2>2. (\A s \in Refreshers : pc[s] = "fill" => todo[s] \subseteq Held(jar[s]))'
    BY <1>0, <1>1, <2>1 DEF ReplaceInv, Held
  <2>3. LastOnItsWay'
    <3>1. CASE \E s \in Refreshers : pc[s] = "clear"
      BY <1>1, <3>1 DEF LastOnItsWay
    <3>2. CASE \A m \in Held(last) :
                 \/ store[m] # None
                 \/ \E s \in Refreshers : pc[s] = "fill" /\ jar[s] = last /\ m \in todo[s]
      <4> SUFFICES ASSUME NEW m \in Held(last)
                   PROVE  \/ store'[m] # None
                          \/ \E s \in Refreshers : /\ pc[s] = "fill" /\ jar[s] = last
                                                   /\ m \in todo'[s]
        BY <1>0, <1>1 DEF LastOnItsWay, Held
      <4>1. CASE m = n
        BY <2>1, <4>1
      <4>2. CASE m # n
        BY <2>1, <3>2, <4>2 DEF Held
      <4>3. QED
        BY <4>1, <4>2
    <3>3. QED
      BY <3>1, <3>2 DEF ReplaceInv, LastOnItsWay
  <2>4. AloneKnowsStore'
    <3> SUFFICES ASSUME ~overlapped' PROVE AloneKnowsStore'
      BY DEF AloneKnowsStore
    <3>1. /\ \A s \in Replacing : s = r
          /\ jar[r] = last
          /\ store = [m \in Names |-> IF m \in todo[r] THEN None ELSE last[m]]
      BY <1>0 DEF ReplaceInv, AloneKnowsStore
    <3>2. store' = [m \in Names |-> IF m \in todo'[r] THEN None ELSE last'[m]]
      BY <1>0, <1>1, <2>1, <3>1
    <3>3. Replacing' = Replacing /\ ~Quiet'
      BY <1>0, <1>1 DEF Replacing, Quiet
    <3>4. \A s \in Refreshers : pc'[s] \in {"clear", "fill"} => s = r
      BY <3>1, <1>1 DEF Replacing
    <3>5. QED
      BY <1>0, <1>1, <3>1, <3>2, <3>3, <3>4 DEF AloneKnowsStore
  <2>5. QED
    BY <1>1, <2>2, <2>3, <2>4 DEF ReplaceInv, Started
<1>2. ASSUME todo[r] = {}, Done(r), UNCHANGED <<store, todo>>
      PROVE  ReplaceInv'
  <2>1. /\ pc'[r] = "idle"
        /\ \A s \in Refreshers \ {r} : pc'[s] = pc[s] /\ jar'[s] = jar[s]
    BY <1>0, <1>2 DEF Done, Goto, TypeOK, Tasks
  <2>2. (\A s \in Refreshers : pc[s] = "fill" => todo[s] \subseteq Held(jar[s]))'
    BY <1>2, <2>1 DEF ReplaceInv, Held
  <2>3. LastOnItsWay'
    <3>1. CASE \E s \in Refreshers : pc[s] = "clear"
      BY <1>0, <2>1, <3>1 DEF LastOnItsWay
    <3>2. CASE \A m \in Held(last) :
                 \/ store[m] # None
                 \/ \E s \in Refreshers : pc[s] = "fill" /\ jar[s] = last /\ m \in todo[s]
      <4>1. \A m \in Held(last) :
              \/ store[m] # None
              \/ \E s \in Refreshers \ {r} : pc[s] = "fill" /\ jar[s] = last /\ m \in todo[s]
        BY <1>2, <3>2
      <4>2. QED
        BY <1>0, <1>2, <2>1, <4>1 DEF LastOnItsWay, Held
    <3>3. QED
      BY <3>1, <3>2 DEF ReplaceInv, LastOnItsWay
  <2>4. AloneKnowsStore'
    <3> SUFFICES ASSUME ~overlapped' PROVE AloneKnowsStore'
      BY DEF AloneKnowsStore
    <3>1. /\ \A s \in Replacing : s = r
          /\ store = [m \in Names |-> IF m \in todo[r] THEN None ELSE last[m]]
      BY <1>0 DEF ReplaceInv, AloneKnowsStore
    <3>2. store' = last'
      <4>1. last \in [Names -> Values \cup {None}]
        BY DEF TypeOK, Jars
      <4>2. QED
        BY <1>0, <1>2, <3>1, <4>1
    <3>3. Replacing' = {}
      BY <2>1, <3>1 DEF Replacing
    <3>4. \A s \in Refreshers : pc'[s] \notin {"clear", "fill"}
      BY <3>3 DEF Replacing
    <3>5. QED
      BY <3>2, <3>3, <3>4 DEF AloneKnowsStore
  <2>5. ~Started' => \A s \in Refreshers : pc'[s] = "idle"
    BY <1>0, <1>2 DEF ReplaceInv, Started, Done, Goto, TypeOK, Tasks
  <2>6. QED
    BY <2>2, <2>3, <2>4, <2>5 DEF ReplaceInv
<1>3. QED
  BY <1>1, <1>2 DEF Fill

-----------------------------------------------------------------------------
\* The inductive invariant: what the last to clear has read is in the store or on its
\* way there, and a replace that has met no other knows all the store holds.
THEOREM ReplacesOnTheirWay == Spec => []ReplaceInv
<1>1. Init => ReplaceInv
  <2> SUFFICES ASSUME Init PROVE ReplaceInv
    OBVIOUS
  <2>1. \A r \in Refreshers : pc[r] = "idle"
    BY CookiesAssumption DEF Init, Tasks
  <2>2. LastOnItsWay
    BY DEF Init, LastOnItsWay, Held
  <2>3. AloneKnowsStore
    BY <2>1 DEF Init, AloneKnowsStore, Replacing
  <2>4. QED
    BY <2>1, <2>2, <2>3 DEF ReplaceInv
<1>2. TypeOK /\ ReplaceInv /\ [Next]_vars => ReplaceInv'
  <2> SUFFICES ASSUME TypeOK, ReplaceInv, [Next]_vars PROVE ReplaceInv'
    OBVIOUS
  <2>1. ASSUME NEW r \in Refreshers, Begin(r) PROVE ReplaceInv'
    <3>1. r # "main" /\ r \in Tasks
      BY CookiesAssumption DEF Tasks
    <3>2. Started'
      BY <2>1, <3>1 DEF Begin, Goto, Started, TypeOK
    <3>3. \A s \in Refreshers :
            pc[s] \in {"clear", "fill"} \/ pc'[s] \in {"clear", "fill"} =>
                pc'[s] = pc[s] /\ jar'[s] = jar[s]
      BY <2>1, <3>1 DEF Begin, Goto, TypeOK
    <3>4. QED
      BY <2>1, <3>2, <3>3, BesideReplaces DEF Begin
  <2>2. ASSUME NEW t \in Tasks, LoadFails(t) PROVE ReplaceInv'
    BY <2>2, PassingBrowser DEF LoadFails
  <2>3. CASE Change
    <3>1. UNCHANGED <<store, pc, jar, todo, last, overlapped>>
      BY <2>3 DEF Change
    <3>2. QED
      BY <3>1, BesideReplaces DEF ReplaceInv, Started
  <2>4. CASE UNCHANGED vars
    BY <2>4, BesideReplaces DEF ReplaceInv, Started
  <2>5. QED
    BY <2>1, <2>2, <2>3, <2>4, ReplaceLoads, ClearsKeep, FillsKeep
       DEF Next, Ticks, Asked, Repair, Refresh, Tasks
<1>3. QED
  BY <1>1, <1>2, CookieTypeCorrect, PTL DEF Spec

\* However replaces interleave, a store nobody is replacing has all that was read by
\* the one whose clear came last, and just that unless replaces have met.
THEOREM StoreEndsWhole == Spec => []ReplacedWhole
<1>1. TypeOK /\ ReplaceInv => ReplacedWhole
  <2> SUFFICES ASSUME ReplaceInv, Quiet
               PROVE  Held(last) \subseteq Held(store) /\ (overlapped \/ store = last)
    BY DEF ReplacedWhole
  <2>1. \A r \in Refreshers : pc[r] \notin {"clear", "fill"}
    BY DEF Quiet, Replacing
  <2>2. Held(last) \subseteq Held(store)
    BY <2>1 DEF ReplaceInv, LastOnItsWay, Held
  <2>3. overlapped \/ store = last
    BY DEF ReplaceInv, AloneKnowsStore
  <2>4. QED
    BY <2>2, <2>3
<1>2. QED
  BY <1>1, CookieTypeCorrect, ReplacesOnTheirWay, PTL

-----------------------------------------------------------------------------
\* The service whose cookies these are (Supervision): it sees of the store whether it
\* holds one of the expected keys.

\* Before main runs.
Early == {"backend", "proxy", "warming", "mounting"}

\* Until main runs, nobody else mounts but the launcher, and that in serve-only mode;
\* the supervisor works in serve-only mode alone, main mounts in full mode.
StartsAlone ==
    /\ main \in Early =>
         /\ \A c \in Checkers : checker[c] = "idle"
         /\ supervisor = "grace"
         /\ mode = "full" => mounts = 0
    /\ mode = "full" => launcher = "done" /\ supervisor = "grace"
    /\ main = "mounting" => mode = "full"

\* Unless mounters have worked at the same time, at most one has set out, and
\* nothing is mounted then.
OneAtATime ==
    ~crossed =>
        /\ mounts <= 1
        /\ \A m, n \in Mounting : m = n
        /\ Mounting # {} => mounts = 0

\* What is mounted when the supervisor is about to unmount.
ClearExcused == supervisor = "clear" /\ mounts > 0 => excused

\* The inductive invariant.
SupInv == ServiceTypeOK /\ StartsAlone /\ OneAtATime /\ ClearExcused

\* The steps of the service, one by one.
LEMMA SupSteps ==
  ASSUME [ServiceNext]_serviceVars
  PROVE  \/ BackendReady \/ ProxyReady \/ WarmRoot \/ MainMounts
         \/ ServerExited \/ QuitUnmounts
         \/ Quit \/ Signal \/ SignalUnmounts
         \/ AbortServers \/ Respawn \/ PortsAwaited
         \/ SupervisorLooks \/ LookAgain \/ ForceUnmount
         \/ SupervisorMounts \/ CoolDown
         \/ BindBackend \/ BindProxy
         \/ (\E s \in Servers : Breaks(s))
         \/ (\E c \in Checkers :
                CheckCookies(c) \/ ProbeWebdav(c) \/ LookForMount(c)
                    \/ RefreshCookies(c) \/ RestartWebdav(c) \/ Remount(c)
                    \/ CheckerMounts(c))
         \/ ReplaceClears \/ ReplaceFills
         \/ LauncherLooks \/ LauncherMounts \/ MountLost
         \/ UNCHANGED serviceVars
BY DEF ServiceNext, MainStep, StopStep, WatchStep, SuperviseStep, CheckStep

\* Every step keeps the types.
LEMMA SupTypesStep ==
  ASSUME ServiceTypeOK, [ServiceNext]_serviceVars
  PROVE  ServiceTypeOK'
<1> USE SupervisionAssumption DEF SupervisionAssumption, ServiceTypeOK, servers, cookies,
            mounter, serviceVars, Servers,
            Checkers
<1>1. CASE BackendReady
  BY <1>1 DEF BackendReady, MainGoto
<1>2. CASE ProxyReady
  <2>1. slots' \in BOOLEAN
    BY <1>2 DEF ProxyReady, MainGoto
  <2>2. QED
    BY <1>2, <2>1 DEF ProxyReady, MainGoto
<1>3. CASE WarmRoot
  BY <1>3 DEF WarmRoot, MainGoto, IsMounted, Mishap
<1>4. CASE MainMounts
  <2>1. excused' \in BOOLEAN
    BY <1>4 DEF MainMounts, MainGoto, MountWebdav, Mishap
  <2>2. mounts' \in 0 .. 2
    BY <1>4 DEF MainMounts, MainGoto, MountWebdav, Mishap
  <2>3. QED
    BY <1>4, <2>1, <2>2 DEF MainMounts, MainGoto, MountWebdav, Mishap
<1>5. CASE ServerExited
  BY <1>5 DEF ServerExited, MainGoto
<1>6. CASE QuitUnmounts
  <2>1. slots' \in BOOLEAN
    BY <1>6 DEF QuitUnmounts, MainGoto, Unmount, Mishap
  <2>2. mounts' \in 0 .. 2
    BY <1>6 DEF QuitUnmounts, MainGoto, Unmount, Mishap
  <2>3. QED
    BY <1>6, <2>1, <2>2 DEF QuitUnmounts, MainGoto, Unmount, Mishap
<1>7. CASE Quit
  BY <1>7 DEF Quit, MainGoto
<1>8. CASE Signal
  BY <1>8 DEF Signal, MainGoto, Running
<1>9. CASE SignalUnmounts
  BY <1>9 DEF SignalUnmounts, Running, Unmount, Mishap
<1>10. CASE AbortServers
  <2>1. slots' \in BOOLEAN
    BY <1>10 DEF AbortServers, Running, WatchdogGoto
  <2>2. QED
    BY <1>10, <2>1 DEF AbortServers, Running, WatchdogGoto
<1>11. CASE Respawn
  BY <1>11 DEF Respawn, Running, WatchdogGoto
<1>12. CASE PortsAwaited
  BY <1>12 DEF PortsAwaited, Running, WatchdogGoto
<1>13. CASE SupervisorLooks
  BY <1>13 DEF SupervisorLooks, IsMounted, SupervisorGoto, Mishap
<1>14. CASE LookAgain
  <2>1. crossed' \in BOOLEAN
    BY <1>14
       DEF LookAgain, IsMounted, SetOut, SupervisorGoto, Mounting,
           Mishap
  <2>2. excused' \in BOOLEAN
    BY <1>14
       DEF LookAgain, IsMounted, SetOut, SupervisorGoto, Mounting,
           Mishap
  <2>3. cooling' \in BOOLEAN
    BY <1>14
       DEF LookAgain, IsMounted, SetOut, SupervisorGoto, Mounting,
           Mishap
  <2>4. QED
    BY <1>14, <2>1, <2>2, <2>3
       DEF LookAgain, IsMounted, SetOut, SupervisorGoto, Mounting,
           Mishap
<1>15. CASE ForceUnmount
  BY <1>15 DEF ForceUnmount, SupervisorGoto, Mishap
<1>16. CASE SupervisorMounts
  BY <1>16 DEF SupervisorMounts, MountWebdav, SupervisorGoto, Mishap
<1>17. CASE CoolDown
  <2>1. cooling' \in BOOLEAN
    BY <1>17 DEF CoolDown
  <2>2. QED
    BY <1>17, <2>1 DEF CoolDown
<1>18. CASE BindBackend
  BY <1>18 DEF BindBackend, Bind, Mishap
<1>19. CASE BindProxy
  BY <1>19 DEF BindProxy, Bind, Mishap
<1>20. ASSUME NEW s \in Servers, Breaks(s) PROVE ServiceTypeOK'
  BY <1>20 DEF Breaks, Mishap, Broken
<1>21. ASSUME NEW c \in Checkers, CheckCookies(c) PROVE ServiceTypeOK'
  BY <1>21
     DEF CheckCookies, Running, CheckerGoto, Starts, LoopTicks,
         AdminAsks, Mishap, Settled
<1>22. ASSUME NEW c \in Checkers, ProbeWebdav(c) PROVE ServiceTypeOK'
  BY <1>22 DEF ProbeWebdav, Running, CheckerGoto, Serving
<1>23. ASSUME NEW c \in Checkers, LookForMount(c) PROVE ServiceTypeOK'
  BY <1>23 DEF LookForMount, IsMounted, Running, CheckerGoto, Mishap
<1>24. ASSUME NEW c \in Checkers, RefreshCookies(c) PROVE ServiceTypeOK'
  <2>1. cookies_ok' \in BOOLEAN
    BY <1>24 DEF RefreshCookies, Running, CheckerGoto
  <2>2. QED
    BY <1>24, <2>1 DEF RefreshCookies, Running, CheckerGoto
<1>25. ASSUME NEW c \in Checkers, RestartWebdav(c) PROVE ServiceTypeOK'
  BY <1>25 DEF RestartWebdav, Running, WatchdogGoto, CheckerGoto
<1>26. ASSUME NEW c \in Checkers, Remount(c) PROVE ServiceTypeOK'
  <2>1. crossed' \in BOOLEAN
    BY <1>26
       DEF Remount, IsMounted, SetOut, Running, CheckerGoto,
           Mounting, Mishap
  <2>2. QED
    BY <1>26, <2>1
       DEF Remount, IsMounted, SetOut, Running, CheckerGoto,
           Mounting, Mishap
<1>27. ASSUME NEW c \in Checkers, CheckerMounts(c) PROVE ServiceTypeOK'
  <2>1. excused' \in BOOLEAN
    BY <1>27 DEF CheckerMounts, MountWebdav, CheckerGoto, Mishap
  <2>2. mounts' \in 0 .. 2
    BY <1>27 DEF CheckerMounts, MountWebdav, CheckerGoto, Mishap
  <2>3. QED
    BY <1>27, <2>1, <2>2 DEF CheckerMounts, MountWebdav, CheckerGoto, Mishap
<1>28. CASE ReplaceClears
  BY <1>28 DEF ReplaceClears, Mishap, Running
<1>29. CASE ReplaceFills
  <2>1. refreshing' \in BOOLEAN
    BY <1>29 DEF ReplaceFills
  <2>2. cookies_ok' \in BOOLEAN
    BY <1>29 DEF ReplaceFills
  <2>3. QED
    BY <1>29, <2>1, <2>2 DEF ReplaceFills
<1>30. CASE LauncherLooks
  <2>1. crossed' \in BOOLEAN
    BY <1>30
       DEF LauncherLooks, IsMounted, SetOut, Running, Mounting,
           Mishap
  <2>2. QED
    BY <1>30, <2>1
       DEF LauncherLooks, IsMounted, SetOut, Running, Mounting,
           Mishap
<1>31. CASE LauncherMounts
  <2>1. excused' \in BOOLEAN
    BY <1>31 DEF LauncherMounts, MountWebdav, Mishap
  <2>2. mounts' \in 0 .. 2
    BY <1>31 DEF LauncherMounts, MountWebdav, Mishap
  <2>3. QED
    BY <1>31, <2>1, <2>2 DEF LauncherMounts, MountWebdav, Mishap
<1>32. CASE MountLost
  BY <1>32 DEF MountLost, Mishap, Running
<1>33. CASE UNCHANGED serviceVars
  BY <1>33 DEF Mounting
<1>34. QED
  BY <1>1, <1>2, <1>3, <1>4, <1>5, <1>6, <1>7, <1>8, <1>9, <1>10, <1>11, <1>12, <1>13,
     <1>14, <1>15, <1>16, <1>17, <1>18, <1>19, <1>20, <1>21, <1>22, <1>23, <1>24, <1>25,
     <1>26, <1>27, <1>28, <1>29, <1>30, <1>31, <1>32, <1>33, SupSteps

\* Main starts alone.
LEMMA StartsAloneStep ==
  ASSUME ServiceTypeOK, StartsAlone, [ServiceNext]_serviceVars
  PROVE  StartsAlone'
<1> USE DEF ServiceTypeOK, StartsAlone, Early, servers, cookies, mounter,
            serviceVars, Servers, Checkers
<1>1. CASE BackendReady
  BY <1>1 DEF BackendReady, MainGoto
<1>2. CASE ProxyReady
  BY <1>2 DEF ProxyReady, MainGoto
<1>3. CASE WarmRoot
  BY <1>3 DEF WarmRoot, MainGoto, IsMounted, Mishap
<1>4. CASE MainMounts
  BY <1>4 DEF MainMounts, MainGoto, MountWebdav, Mishap
<1>5. CASE ServerExited
  BY <1>5 DEF ServerExited, MainGoto
<1>6. CASE QuitUnmounts
  BY <1>6 DEF QuitUnmounts, MainGoto, Unmount, Mishap
<1>7. CASE Quit
  BY <1>7 DEF Quit, MainGoto
<1>8. CASE Signal
  BY <1>8 DEF Signal, MainGoto, Running
<1>9. CASE SignalUnmounts
  BY <1>9 DEF SignalUnmounts, Running, Unmount, Mishap
<1>10. CASE AbortServers
  BY <1>10 DEF AbortServers, Running, WatchdogGoto
<1>11. CASE Respawn
  BY <1>11 DEF Respawn, Running, WatchdogGoto
<1>12. CASE PortsAwaited
  BY <1>12 DEF PortsAwaited, Running, WatchdogGoto
<1>13. CASE SupervisorLooks
  BY <1>13 DEF SupervisorLooks, IsMounted, SupervisorGoto, Mishap
<1>14. CASE LookAgain
  BY <1>14
     DEF LookAgain, IsMounted, SetOut, SupervisorGoto, Mounting,
         Mishap
<1>15. CASE ForceUnmount
  BY <1>15 DEF ForceUnmount, SupervisorGoto, Mishap
<1>16. CASE SupervisorMounts
  BY <1>16 DEF SupervisorMounts, MountWebdav, SupervisorGoto, Mishap
<1>17. CASE CoolDown
  BY <1>17 DEF CoolDown
<1>18. CASE BindBackend
  BY <1>18 DEF BindBackend, Bind, Mishap
<1>19. CASE BindProxy
  BY <1>19 DEF BindProxy, Bind, Mishap
<1>20. ASSUME NEW s \in Servers, Breaks(s) PROVE StartsAlone'
  BY <1>20 DEF Breaks, Mishap, Broken
<1>21. ASSUME NEW c \in Checkers, CheckCookies(c) PROVE StartsAlone'
  BY <1>21
     DEF CheckCookies, Running, CheckerGoto, Starts, LoopTicks,
         AdminAsks, Mishap, Settled
<1>22. ASSUME NEW c \in Checkers, ProbeWebdav(c) PROVE StartsAlone'
  BY <1>22 DEF ProbeWebdav, Running, CheckerGoto, Serving
<1>23. ASSUME NEW c \in Checkers, LookForMount(c) PROVE StartsAlone'
  BY <1>23 DEF LookForMount, IsMounted, Running, CheckerGoto, Mishap
<1>24. ASSUME NEW c \in Checkers, RefreshCookies(c) PROVE StartsAlone'
  BY <1>24 DEF RefreshCookies, Running, CheckerGoto
<1>25. ASSUME NEW c \in Checkers, RestartWebdav(c) PROVE StartsAlone'
  BY <1>25 DEF RestartWebdav, Running, WatchdogGoto, CheckerGoto
<1>26. ASSUME NEW c \in Checkers, Remount(c) PROVE StartsAlone'
  BY <1>26
     DEF Remount, IsMounted, SetOut, Running, CheckerGoto,
         Mounting, Mishap
<1>27. ASSUME NEW c \in Checkers, CheckerMounts(c) PROVE StartsAlone'
  BY <1>27 DEF CheckerMounts, MountWebdav, CheckerGoto, Mishap
<1>28. CASE ReplaceClears
  BY <1>28 DEF ReplaceClears, Mishap, Running
<1>29. CASE ReplaceFills
  BY <1>29 DEF ReplaceFills
<1>30. CASE LauncherLooks
  BY <1>30
     DEF LauncherLooks, IsMounted, SetOut, Running, Mounting, Mishap
<1>31. CASE LauncherMounts
  BY <1>31 DEF LauncherMounts, MountWebdav, Mishap
<1>32. CASE MountLost
  BY <1>32 DEF MountLost, Mishap, Running
<1>33. CASE UNCHANGED serviceVars
  BY <1>33 DEF Mounting
<1>34. QED
  BY <1>1, <1>2, <1>3, <1>4, <1>5, <1>6, <1>7, <1>8, <1>9, <1>10, <1>11, <1>12, <1>13,
     <1>14, <1>15, <1>16, <1>17, <1>18, <1>19, <1>20, <1>21, <1>22, <1>23, <1>24, <1>25,
     <1>26, <1>27, <1>28, <1>29, <1>30, <1>31, <1>32, <1>33, SupSteps

\* A mount the supervisor is about to unmount is excused.
LEMMA ClearExcusedStep ==
  ASSUME ServiceTypeOK, ClearExcused, [ServiceNext]_serviceVars
  PROVE  ClearExcused'
<1> USE DEF ServiceTypeOK, ClearExcused, servers, cookies, mounter, serviceVars,
            Servers, Checkers
<1>1. CASE BackendReady
  BY <1>1 DEF BackendReady, MainGoto
<1>2. CASE ProxyReady
  BY <1>2 DEF ProxyReady, MainGoto
<1>3. CASE WarmRoot
  BY <1>3 DEF WarmRoot, MainGoto, IsMounted, Mishap
<1>4. CASE MainMounts
  BY <1>4 DEF MainMounts, MainGoto, MountWebdav, Mishap
<1>5. CASE ServerExited
  BY <1>5 DEF ServerExited, MainGoto
<1>6. CASE QuitUnmounts
  BY <1>6 DEF QuitUnmounts, MainGoto, Unmount, Mishap
<1>7. CASE Quit
  BY <1>7 DEF Quit, MainGoto
<1>8. CASE Signal
  BY <1>8 DEF Signal, MainGoto, Running
<1>9. CASE SignalUnmounts
  BY <1>9 DEF SignalUnmounts, Running, Unmount, Mishap
<1>10. CASE AbortServers
  BY <1>10 DEF AbortServers, Running, WatchdogGoto
<1>11. CASE Respawn
  BY <1>11 DEF Respawn, Running, WatchdogGoto
<1>12. CASE PortsAwaited
  BY <1>12 DEF PortsAwaited, Running, WatchdogGoto
<1>13. CASE SupervisorLooks
  BY <1>13 DEF SupervisorLooks, IsMounted, SupervisorGoto, Mishap
<1>14. CASE LookAgain
  BY <1>14
     DEF LookAgain, IsMounted, SetOut, SupervisorGoto, Mounting,
         Mishap
<1>15. CASE ForceUnmount
  BY <1>15 DEF ForceUnmount, SupervisorGoto, Mishap
<1>16. CASE SupervisorMounts
  BY <1>16 DEF SupervisorMounts, MountWebdav, SupervisorGoto, Mishap
<1>17. CASE CoolDown
  BY <1>17 DEF CoolDown
<1>18. CASE BindBackend
  BY <1>18 DEF BindBackend, Bind, Mishap
<1>19. CASE BindProxy
  BY <1>19 DEF BindProxy, Bind, Mishap
<1>20. ASSUME NEW s \in Servers, Breaks(s) PROVE ClearExcused'
  BY <1>20 DEF Breaks, Mishap, Broken
<1>21. ASSUME NEW c \in Checkers, CheckCookies(c) PROVE ClearExcused'
  BY <1>21
     DEF CheckCookies, Running, CheckerGoto, Starts, LoopTicks,
         AdminAsks, Mishap, Settled
<1>22. ASSUME NEW c \in Checkers, ProbeWebdav(c) PROVE ClearExcused'
  BY <1>22 DEF ProbeWebdav, Running, CheckerGoto, Serving
<1>23. ASSUME NEW c \in Checkers, LookForMount(c) PROVE ClearExcused'
  BY <1>23 DEF LookForMount, IsMounted, Running, CheckerGoto, Mishap
<1>24. ASSUME NEW c \in Checkers, RefreshCookies(c) PROVE ClearExcused'
  BY <1>24 DEF RefreshCookies, Running, CheckerGoto
<1>25. ASSUME NEW c \in Checkers, RestartWebdav(c) PROVE ClearExcused'
  BY <1>25 DEF RestartWebdav, Running, WatchdogGoto, CheckerGoto
<1>26. ASSUME NEW c \in Checkers, Remount(c) PROVE ClearExcused'
  BY <1>26
     DEF Remount, IsMounted, SetOut, Running, CheckerGoto,
         Mounting, Mishap
<1>27. ASSUME NEW c \in Checkers, CheckerMounts(c) PROVE ClearExcused'
  BY <1>27 DEF CheckerMounts, MountWebdav, CheckerGoto, Mishap
<1>28. CASE ReplaceClears
  BY <1>28 DEF ReplaceClears, Mishap, Running
<1>29. CASE ReplaceFills
  BY <1>29 DEF ReplaceFills
<1>30. CASE LauncherLooks
  BY <1>30
     DEF LauncherLooks, IsMounted, SetOut, Running, Mounting, Mishap
<1>31. CASE LauncherMounts
  BY <1>31 DEF LauncherMounts, MountWebdav, Mishap
<1>32. CASE MountLost
  BY <1>32 DEF MountLost, Mishap, Running
<1>33. CASE UNCHANGED serviceVars
  BY <1>33 DEF Mounting
<1>34. QED
  BY <1>1, <1>2, <1>3, <1>4, <1>5, <1>6, <1>7, <1>8, <1>9, <1>10, <1>11, <1>12, <1>13,
     <1>14, <1>15, <1>16, <1>17, <1>18, <1>19, <1>20, <1>21, <1>22, <1>23, <1>24, <1>25,
     <1>26, <1>27, <1>28, <1>29, <1>30, <1>31, <1>32, <1>33, SupSteps

\* Who sets out is alone, or has met another or a mount.
LEMMA SetsOut ==
  ASSUME ServiceTypeOK, SetOut, UNCHANGED mounts,
         NEW x, Mounting' \subseteq Mounting \cup {x}
  PROVE  OneAtATime'
<1> SUFFICES ASSUME ~crossed' PROVE mounts = 0 /\ Mounting = {}
  BY DEF OneAtATime
<1>1. ~(crossed \/ Mounting # {} \/ mounts > 0)
  BY Zenon DEF SetOut
<1>2. mounts \in Nat
  BY DEF ServiceTypeOK
<1>3. QED
  BY <1>1, <1>2

LEMMA SomeoneSetsOut ==
  ASSUME ServiceTypeOK, OneAtATime,
         \/ LookAgain \/ LauncherLooks
         \/ \E c \in Checkers : Remount(c)
  PROVE  OneAtATime'
<1> DEFINE Passes == Mounting' \subseteq Mounting /\ UNCHANGED <<mounts, crossed>>
           Goes(x) == /\ Mounting' \subseteq Mounting \cup {x}
                      /\ SetOut /\ UNCHANGED mounts
<1>1. CASE Passes
  BY <1>1 DEF OneAtATime
<1>2. ASSUME NEW x, Goes(x) PROVE OneAtATime'
  BY <1>2, SetsOut
<1> HIDE DEF Goes, Passes
<1>3. CASE LookAgain
  <2>1. Passes \/ Goes("supervisor")
    BY <1>3 DEF Passes, Goes, LookAgain, SupervisorGoto, Mounting
  <2>2. QED
    BY <2>1, <1>1, <1>2
<1>4. CASE LauncherLooks
  <2>1. Passes \/ Goes("launcher")
    BY <1>4 DEF Passes, Goes, LauncherLooks, Mounting
  <2>2. QED
    BY <2>1, <1>1, <1>2
<1>5. ASSUME NEW c \in Checkers, Remount(c) PROVE OneAtATime'
  <2>1. Passes \/ Goes(c)
    BY <1>5 DEF Passes, Goes, Remount, CheckerGoto, Mounting, ServiceTypeOK,
                servers, cookies
  <2>2. QED
    BY <2>1, <1>1, <1>2
<1>6. QED
  BY <1>3, <1>4, <1>5

\* Mounters stay alone unless they have met.
LEMMA OneAtATimeStep ==
  ASSUME ServiceTypeOK, StartsAlone, OneAtATime, [ServiceNext]_serviceVars
  PROVE  OneAtATime'
<1> USE DEF ServiceTypeOK, StartsAlone, Early, OneAtATime, Mounting, servers,
            cookies, mounter, serviceVars, Servers, Checkers
<1>1. CASE BackendReady
  BY <1>1 DEF BackendReady, MainGoto
<1>2. CASE ProxyReady
  BY <1>2 DEF ProxyReady, MainGoto
<1>3. CASE WarmRoot
  BY <1>3 DEF WarmRoot, MainGoto, IsMounted, Mishap
<1>4. CASE MainMounts
  BY <1>4 DEF MainMounts, MainGoto, MountWebdav, Mishap
<1>5. CASE ServerExited
  BY <1>5 DEF ServerExited, MainGoto
<1>6. CASE QuitUnmounts
  BY <1>6 DEF QuitUnmounts, MainGoto, Unmount, Mishap
<1>7. CASE Quit
  BY <1>7 DEF Quit, MainGoto
<1>8. CASE Signal
  BY <1>8 DEF Signal, MainGoto, Running
<1>9. CASE SignalUnmounts
  BY <1>9 DEF SignalUnmounts, Running, Unmount, Mishap
<1>10. CASE AbortServers
  BY <1>10 DEF AbortServers, Running, WatchdogGoto
<1>11. CASE Respawn
  BY <1>11 DEF Respawn, Running, WatchdogGoto
<1>12. CASE PortsAwaited
  BY <1>12 DEF PortsAwaited, Running, WatchdogGoto
<1>13. CASE SupervisorLooks
  BY <1>13 DEF SupervisorLooks, IsMounted, SupervisorGoto, Mishap
<1>14. CASE LookAgain
  BY <1>14, SomeoneSetsOut
<1>15. CASE ForceUnmount
  BY <1>15 DEF ForceUnmount, SupervisorGoto, Mishap
<1>16. CASE SupervisorMounts
  BY <1>16 DEF SupervisorMounts, MountWebdav, SupervisorGoto, Mishap
<1>17. CASE CoolDown
  BY <1>17 DEF CoolDown
<1>18. CASE BindBackend
  BY <1>18 DEF BindBackend, Bind, Mishap
<1>19. CASE BindProxy
  BY <1>19 DEF BindProxy, Bind, Mishap
<1>20. ASSUME NEW s \in Servers, Breaks(s) PROVE OneAtATime'
  BY <1>20 DEF Breaks, Mishap, Broken
<1>21. ASSUME NEW c \in Checkers, CheckCookies(c) PROVE OneAtATime'
  BY <1>21
     DEF CheckCookies, Running, CheckerGoto, Starts, LoopTicks,
         AdminAsks, Mishap, Settled
<1>22. ASSUME NEW c \in Checkers, ProbeWebdav(c) PROVE OneAtATime'
  BY <1>22 DEF ProbeWebdav, Running, CheckerGoto, Serving
<1>23. ASSUME NEW c \in Checkers, LookForMount(c) PROVE OneAtATime'
  BY <1>23 DEF LookForMount, IsMounted, Running, CheckerGoto, Mishap
<1>24. ASSUME NEW c \in Checkers, RefreshCookies(c) PROVE OneAtATime'
  BY <1>24 DEF RefreshCookies, Running, CheckerGoto
<1>25. ASSUME NEW c \in Checkers, RestartWebdav(c) PROVE OneAtATime'
  BY <1>25 DEF RestartWebdav, Running, WatchdogGoto, CheckerGoto
<1>26. ASSUME NEW c \in Checkers, Remount(c) PROVE OneAtATime'
  BY <1>26, SomeoneSetsOut
<1>27. ASSUME NEW c \in Checkers, CheckerMounts(c) PROVE OneAtATime'
  BY <1>27 DEF CheckerMounts, MountWebdav, CheckerGoto, Mishap
<1>28. CASE ReplaceClears
  BY <1>28 DEF ReplaceClears, Mishap, Running
<1>29. CASE ReplaceFills
  BY <1>29 DEF ReplaceFills
<1>30. CASE LauncherLooks
  BY <1>30, SomeoneSetsOut
<1>31. CASE LauncherMounts
  BY <1>31 DEF LauncherMounts, MountWebdav, Mishap
<1>32. CASE MountLost
  BY <1>32 DEF MountLost, Mishap, Running
<1>33. CASE UNCHANGED serviceVars
  BY <1>33 DEF Mounting
<1>34. QED
  BY <1>1, <1>2, <1>3, <1>4, <1>5, <1>6, <1>7, <1>8, <1>9, <1>10, <1>11, <1>12, <1>13,
     <1>14, <1>15, <1>16, <1>17, <1>18, <1>19, <1>20, <1>21, <1>22, <1>23, <1>24, <1>25,
     <1>26, <1>27, <1>28, <1>29, <1>30, <1>31, <1>32, <1>33, SupSteps

\* What the steps above keep, from the start on.
THEOREM SupervisionInvariant == ServiceSpec => []SupInv
<1>1. ServiceInit => SupInv
  <2> SUFFICES ASSUME ServiceInit PROVE SupInv
    OBVIOUS
  <2>1. ServiceTypeOK
    <3>1. slots \in BOOLEAN /\ cookies_ok \in BOOLEAN /\ refreshing \in BOOLEAN
      BY DEF ServiceInit
    <3>2. cooling \in BOOLEAN /\ crossed \in BOOLEAN /\ excused \in BOOLEAN
      BY DEF ServiceInit
    <3>3. QED
      BY <3>1, <3>2, SupervisionAssumption
         DEF ServiceInit, ServiceTypeOK, Spawned, Servers, Checkers, SupervisionAssumption
  <2>2. StartsAlone /\ ClearExcused
    BY DEF ServiceInit, StartsAlone, ClearExcused
  <2>3. OneAtATime
    <3>1. \A m, n \in Mounting : m = n
      BY DEF ServiceInit, Mounting
    <3>2. QED
      BY <3>1 DEF ServiceInit, OneAtATime
  <2>4. QED
    BY <2>1, <2>2, <2>3 DEF SupInv
<1>2. SupInv /\ [ServiceNext]_serviceVars => SupInv'
  BY SupTypesStep, StartsAloneStep, OneAtATimeStep, ClearExcusedStep DEF SupInv
<1>3. QED
  BY <1>1, <1>2, PTL DEF ServiceSpec

\* Every variable of the service has its type, whatever the environment does to it
\* and however often.
THEOREM ServiceTypeCorrect == ServiceSpec => []ServiceTypeOK
<1>1. SupInv => ServiceTypeOK
  BY DEF SupInv
<1>2. QED
  BY <1>1, SupervisionInvariant, PTL

\* One mount lies on another only where two have worked on it at the same time, or
\* one could not look.
THEOREM StacksByOverlap == ServiceSpec => []StackedOnlyByOverlap
<1>1. SupInv => StackedOnlyByOverlap
  BY DEF SupInv, OneAtATime, StackedOnlyByOverlap
<1>2. QED
  BY <1>1, SupervisionInvariant, PTL

\* A forced unmount of the supervisor takes only mounts that have come since it
\* looked, or at which it could not look.
THEOREM LiveMountSpared == ServiceSpec => SparesLiveMount
<1>1. SupInv => (supervisor = "clear" /\ supervisor' = "cleared" /\ mounts > 0 => excused)
  BY DEF SupInv, ClearExcused
<1>2. QED
  BY <1>1, SupervisionInvariant, PTL DEF SparesLiveMount

\* In full mode nothing stirs the watchdog until both servers have been spawned and
\* their handles kept; from then on it has them, but between the abort, which leaves
\* neither server running, and the respawn.
HandlesKept ==
    mode = "full" =>
        /\ main \in {"backend", "proxy"} => watchdog = "waiting"
        /\ main \in {"warming", "mounting"} \cup {"running", "quitting"}
             => slots \/ watchdog = "aborted"
        /\ watchdog = "aborted" => \A s \in Servers : server[s] = "none"

\* Every step keeps the handles.
LEMMA HandlesKeptStep ==
  ASSUME ServiceTypeOK, HandlesKept, [ServiceNext]_serviceVars
  PROVE  HandlesKept'
<1> USE DEF ServiceTypeOK, HandlesKept, servers, cookies, mounter, serviceVars, Servers,
            Checkers, Running, MainGoto, WatchdogGoto
<1>1. CASE BackendReady
  BY <1>1 DEF BackendReady
<1>2. CASE ProxyReady
  BY <1>2 DEF ProxyReady
<1>3. CASE WarmRoot
  BY <1>3 DEF WarmRoot
<1>4. CASE MainMounts
  BY <1>4 DEF MainMounts
<1>5. CASE ServerExited
  BY <1>5 DEF ServerExited
<1>6. CASE QuitUnmounts
  BY <1>6 DEF QuitUnmounts
<1>7. CASE Quit
  BY <1>7 DEF Quit
<1>8. CASE Signal
  BY <1>8 DEF Signal
<1>9. CASE SignalUnmounts
  BY <1>9 DEF SignalUnmounts
<1>10. CASE AbortServers
  BY <1>10 DEF AbortServers
<1>11. CASE Respawn
  BY <1>11 DEF Respawn
<1>12. CASE PortsAwaited
  BY <1>12 DEF PortsAwaited
<1>13. CASE SupervisorLooks
  BY <1>13 DEF SupervisorLooks
<1>14. CASE LookAgain
  BY <1>14 DEF LookAgain
<1>15. CASE ForceUnmount
  BY <1>15 DEF ForceUnmount, Mishap
<1>16. CASE SupervisorMounts
  BY <1>16 DEF SupervisorMounts
<1>17. CASE CoolDown
  BY <1>17 DEF CoolDown
<1>18. CASE BindBackend
  BY <1>18 DEF BindBackend, Bind
<1>19. CASE BindProxy
  BY <1>19 DEF BindProxy, Bind
<1>20. ASSUME NEW s \in Servers, Breaks(s) PROVE HandlesKept'
  BY <1>20 DEF Breaks
<1>21. ASSUME NEW c \in Checkers, CheckCookies(c) PROVE HandlesKept'
  BY <1>21 DEF CheckCookies
<1>22. ASSUME NEW c \in Checkers, ProbeWebdav(c) PROVE HandlesKept'
  BY <1>22 DEF ProbeWebdav
<1>23. ASSUME NEW c \in Checkers, LookForMount(c) PROVE HandlesKept'
  BY <1>23 DEF LookForMount
<1>24. ASSUME NEW c \in Checkers, RefreshCookies(c) PROVE HandlesKept'
  BY <1>24 DEF RefreshCookies
<1>25. ASSUME NEW c \in Checkers, RestartWebdav(c) PROVE HandlesKept'
  BY <1>25 DEF RestartWebdav
<1>26. ASSUME NEW c \in Checkers, Remount(c) PROVE HandlesKept'
  BY <1>26 DEF Remount
<1>27. ASSUME NEW c \in Checkers, CheckerMounts(c) PROVE HandlesKept'
  BY <1>27 DEF CheckerMounts
<1>28. CASE ReplaceClears
  BY <1>28 DEF ReplaceClears
<1>29. CASE ReplaceFills
  BY <1>29 DEF ReplaceFills
<1>30. CASE LauncherLooks
  BY <1>30 DEF LauncherLooks
<1>31. CASE LauncherMounts
  BY <1>31 DEF LauncherMounts
<1>32. CASE MountLost
  BY <1>32 DEF MountLost
<1>33. CASE UNCHANGED serviceVars
  BY <1>33
<1>34. QED
  BY <1>1, <1>2, <1>3, <1>4, <1>5, <1>6, <1>7, <1>8, <1>9, <1>10, <1>11, <1>12, <1>13,
     <1>14, <1>15, <1>16, <1>17, <1>18, <1>19, <1>20, <1>21, <1>22, <1>23, <1>24, <1>25,
     <1>26, <1>27, <1>28, <1>29, <1>30, <1>31, <1>32, <1>33, SupSteps

\* When the watchdog wakes up to restart the servers, it has both handles to abort,
\* and when it spawns them anew, neither port is taken by one that lives on.
RestartPrepared ==
    mode = "full" /\ Running =>
        /\ watchdog = "woken" => slots
        /\ watchdog = "aborted" => \A s \in Servers : server[s] \notin {"up", "hung"}

\* No restart of full mode comes upon a server whose handle was lost, however often
\* servers break, restarts are asked for and replies come late.
THEOREM RestartsArePrepared == ServiceSpec => []RestartPrepared
<1>1. ServiceInit => HandlesKept
  BY DEF ServiceInit, HandlesKept
<1>2. SupInv /\ HandlesKept /\ [ServiceNext]_serviceVars => HandlesKept'
  BY HandlesKeptStep DEF SupInv
<1>3. HandlesKept => RestartPrepared
  BY DEF HandlesKept, RestartPrepared, Running
<1>4. QED
  BY <1>1, <1>2, <1>3, SupervisionInvariant, PTL DEF ServiceSpec

=============================================================================
