-------------------------------- MODULE Cookies --------------------------------
(***************************************************************************)
(* The cookie store and those who refresh it in full mode: main at the     *)
(* start, the timer, the tray, the admin page and the health checker's     *)
(* repair.  Each reads the browsers in order of priority until one has     *)
(* cookies of Quark (from_chromium), then replaces what the store holds.   *)
(*                                                                         *)
(* replace holds nothing locked: the store, a map in shards, is emptied    *)
(* shard by shard and filled name by name, beside other replaces.          *)
(***************************************************************************)
EXTENDS Naturals, Sequences, FiniteSets

CONSTANTS
    Names,          \* of cookies
    Watched,        \* those of which the health check wants one
    Values,
    None,
    Browsers,       \* DEFAULT_BROWSERS, in order of priority
    Profiles,       \* the profiles looked into, in this order
    Databases,      \* cookie databases that a profile may have
    AtFirst,        \* those that the profiles of each browser may have at first
    CommandLine,    \* what --quark-cookie may give
    Refreshers,     \* those who refresh beside main
    MaxFaults       \* bound on what changes and what fails

Jars == [Names -> Values \cup {None}]

BrowserNames == {Browsers[i] : i \in DOMAIN Browsers}
ProfileNames == {Profiles[i] : i \in DOMAIN Profiles}
Disks == [BrowserNames -> [ProfileNames -> Databases \cup {None}]]

ASSUME CookiesAssumption ==
    /\ Watched \subseteq Names
    /\ None \notin Values /\ None \notin Databases
    /\ Browsers \in Seq(STRING) /\ Browsers # <<>> /\ Profiles \in Seq(STRING)
    /\ Refreshers \subseteq {"timer", "tray", "admin", "repair"}
    /\ AtFirst \subseteq Disks
    /\ CommandLine \subseteq Jars
    /\ MaxFaults \in Nat

VARIABLES
    database,       \* of each browser's profiles, or None
    store,          \* value of each cookie, or None
    pc,             \* where main and each refresher stand
    at,             \* the browser it is about to read
    jar,            \* what it has read
    todo,           \* names it has yet to drop, or to put in
    faults,
    last,           \* history: what the replace has read whose clear ended last
    overlapped      \* history: replaces have met since the store last lay idle

reading == <<at, jar>>
vars == <<database, store, pc, reading, todo, faults, last, overlapped>>

Tasks  == Refreshers \cup {"main"}
Empty  == [n \in Names |-> None]
Held(j) == {n \in Names : j[n] # None}

Replacing == {r \in Refreshers : pc[r] \in {"clear", "fill"}}
Quiet     == Replacing = {}
Started   == pc["main"] = "running"

Fault == faults < MaxFaults /\ faults' = faults + 1

-----------------------------------------------------------------------------
\* What is read from a browser.

\* A value is encrypted with the browser's key, and follows a hash of its host
\* from version 24 of the database on; whatever differs is left out.  The
\* remains of a hash are no text.
Decrypts(row, version) ==
    IF version >= 24 THEN row.form = "hashed" ELSE row.form = "plain"

ASSUME DatabasesAssumption ==
    \A db \in Databases :
        /\ db.rows \in Seq([name : STRING, value : STRING, form : {"plain", "hashed"},
                            quark : BOOLEAN])
        /\ \A i \in DOMAIN db.rows :
             Decrypts(db.rows[i], db.version) => db.rows[i].value \in Values

\* Mutation: rows are kept as they were decrypted, however that went.
EveryRow(db) == DOMAIN db.rows

\* The rows that decrypt.
Rows(db) == {i \in DOMAIN db.rows : Decrypts(db.rows[i], db.version)}

\* Of several cookies of one name, for different hosts of Quark, the last one.
LastOf(db, n) ==
    LET of == {i \in Rows(db) : db.rows[i].name = n /\ db.rows[i].quark}
    IN  {i \in of : \A k \in of : k <= i}

FilterQuark(db) ==
    [n \in Names |-> IF LastOf(db, n) = {} THEN None
                     ELSE db.rows[CHOOSE i \in LastOf(db, n) : TRUE].value]

CookiesIn == [db \in Databases |-> FilterQuark(db)]

\* The first profile that has a database, whatever is in it.
Located(b) ==
    LET there == {i \in DOMAIN Profiles : database[b][Profiles[i]] # None}
        first == {i \in there : \A k \in there : i <= k}
    IN  IF first = {} THEN None ELSE database[b][Profiles[CHOOSE i \in first : TRUE]]

\* What load_from_browser answers, errors as no cookies.
Loaded(b) == IF Located(b) = None THEN Empty ELSE CookiesIn[Located(b)]

-----------------------------------------------------------------------------
\* A store of main's own is filled, from the command line or by from_chromium.
Init ==
    /\ database \in AtFirst
    /\ \/ store \in CommandLine /\ pc = [t \in Tasks |-> IF t = "main" THEN "running" ELSE "idle"]
       \/ store = Empty /\ pc = [t \in Tasks |-> IF t = "main" THEN "read" ELSE "idle"]
    /\ at = [t \in Tasks |-> 1]
    /\ jar = [t \in Tasks |-> Empty]
    /\ todo = [r \in Refreshers |-> {}]
    /\ faults = 0
    /\ last = store
    /\ overlapped = FALSE

Goto(t, p) == pc' = [pc EXCEPT ![t] = p]

\* Nothing of a refresh is left.
Done(r) ==
    /\ Goto(r, "idle")
    /\ at' = [at EXCEPT ![r] = 1] /\ jar' = [jar EXCEPT ![r] = Empty]

\* from_chromium is called.
Begin(r) ==
    /\ Started /\ pc[r] = "idle"
    /\ Goto(r, "read")
    /\ UNCHANGED <<database, store, reading, todo, last, overlapped>>

\* The timer's ticker goes on whatever became of the last refresh.
Ticks == "timer" \in Refreshers /\ Begin("timer") /\ UNCHANGED faults

\* By hand: the tray's entry, or POST /api/refresh.
Asked == \E r \in Refreshers \cap {"tray", "admin"} : Begin(r) /\ UNCHANGED faults

\* The check takes a snapshot, which may miss what a replace moves under it.
CookieMissing == Held(store) \cap Watched = {} \/ ~Quiet

Repair == "repair" \in Refreshers /\ CookieMissing /\ Begin("repair") /\ UNCHANGED faults

\* Mutation: a browser without cookies ends the search.
NoOtherBrowser(t) ==
    IF t = "main" THEN Goto(t, "ended") /\ UNCHANGED reading
                  ELSE Done(t)

\* A browser that has none, or fails, is passed; the last one ends the refresh, and
\* at the start the program.
TryNext(t) ==
    IF at[t] < Len(Browsers)
    THEN at' = [at EXCEPT ![t] = @ + 1] /\ UNCHANGED <<pc, jar>>
    ELSE IF t = "main" THEN Goto(t, "ended") /\ UNCHANGED reading
                       ELSE Done(t)

\* A browser's cookies end the search: main has them in its store, the others
\* replace what it holds.
LoadFromBrowser(t) ==
    LET found == Loaded(Browsers[at[t]]) IN
    /\ pc[t] = "read"
    /\ \/ found = Empty /\ TryNext(t) /\ UNCHANGED <<store, todo, last, overlapped>>
       \/ /\ found # Empty /\ t = "main"
          /\ Goto(t, "running") /\ store' = found /\ last' = found
          /\ UNCHANGED <<reading, todo, overlapped>>
       \/ /\ found # Empty /\ t # "main"
          /\ Goto(t, "clear") /\ todo' = [todo EXCEPT ![t] = Names]
          /\ jar' = [jar EXCEPT ![t] = found]
          /\ overlapped' = ~Quiet
          /\ UNCHANGED <<store, at, last>>
    /\ UNCHANGED <<database, faults>>

\* The keychain refuses, or the copy of the database cannot be read.
LoadFails(t) ==
    /\ pc[t] = "read" /\ Fault
    /\ TryNext(t)
    /\ UNCHANGED <<database, store, todo, last, overlapped>>

\* replace: clear, a shard at a time, ...
Clear(r) ==
    /\ pc[r] = "clear"
    /\ \/ \E n \in todo[r] :
            /\ store' = [store EXCEPT ![n] = None]
            /\ todo' = [todo EXCEPT ![r] = @ \ {n}]
            /\ UNCHANGED <<pc, last>>
       \/ /\ todo[r] = {}
          /\ Goto(r, "fill")
          /\ todo' = [todo EXCEPT ![r] = Held(jar[r])]
          /\ last' = jar[r]
          /\ UNCHANGED store
    /\ UNCHANGED <<database, reading, faults, overlapped>>

\* Mutation: only one cookie is put in.
FillOne(r) ==
    /\ pc[r] = "fill"
    /\ \E n \in todo[r] : store' = [store EXCEPT ![n] = jar[r][n]]
    /\ todo' = [todo EXCEPT ![r] = {}]
    /\ Done(r)
    /\ UNCHANGED <<database, faults, last, overlapped>>

\* ... then an insert for each cookie.
Fill(r) ==
    /\ pc[r] = "fill"
    /\ \/ \E n \in todo[r] :
            /\ store' = [store EXCEPT ![n] = jar[r][n]]
            /\ todo' = [todo EXCEPT ![r] = @ \ {n}]
            /\ UNCHANGED <<pc, reading>>
       \/ todo[r] = {} /\ Done(r) /\ UNCHANGED <<store, todo>>
    /\ UNCHANGED <<database, faults, last, overlapped>>

\* The user logs in or out, or a profile comes or goes.
Change ==
    /\ Fault
    /\ \E b \in BrowserNames, p \in ProfileNames :
         \E db \in Databases \cup {None} : database' = [database EXCEPT ![b][p] = db]
    /\ UNCHANGED <<store, pc, reading, todo, last, overlapped>>

-----------------------------------------------------------------------------
Refresh(r) == LoadFromBrowser(r) \/ LoadFails(r) \/ Clear(r) \/ Fill(r)

Next ==
    \/ Ticks \/ Asked \/ Repair
    \/ LoadFromBrowser("main") \/ LoadFails("main")
    \/ \E r \in Refreshers : Refresh(r)
    \/ Change

\* The ticker ticks, and a refresh once begun goes on.
Spec ==
    /\ Init /\ [][Next]_vars
    /\ WF_vars(Ticks)
    /\ \A t \in Tasks : WF_vars(LoadFromBrowser(t))
    /\ \A r \in Refreshers : WF_vars(Clear(r)) /\ WF_vars(Fill(r))

-----------------------------------------------------------------------------
\* Properties.

\* Every variable has its type; a store never holds what is no decrypted value.
TypeOK ==
    /\ database \in Disks
    /\ store \in Jars
    /\ pc \in [Tasks -> {"idle", "read", "clear", "fill", "running", "ended"}]
    /\ at \in [Tasks -> 1 .. Len(Browsers)]
    /\ jar \in [Tasks -> Jars]
    /\ todo \in [Refreshers -> SUBSET Names]
    /\ faults \in 0 .. MaxFaults
    /\ last \in Jars /\ overlapped \in BOOLEAN

\* However replaces interleave, a store that nobody is replacing has every cookie
\* that was read by the one whose clear came last; and it is exactly what was read,
\* from one browser's one database, unless two replaces have met.
ReplacedWhole ==
    Quiet => /\ Held(last) \subseteq Held(store)
             /\ overlapped \/ store = last

\* The cookies that the order of browsers and profiles selects now.
Selected ==
    LET with == {i \in DOMAIN Browsers : Loaded(Browsers[i]) # Empty}
    IN  IF with = {} THEN Empty
        ELSE Loaded(Browsers[CHOOSE i \in with : \A k \in with : i <= k])

\* Once browsers and keychain come to rest with Quark's cookies in one of them, the
\* store comes to hold just these and keeps them, however many refreshes met before:
\* the timer undoes what they mixed.
CatchesUp ==
    "timer" \in Refreshers =>
        <>[](Started /\ Selected # Empty /\ Quiet => store = Selected)
=============================================================================
