----------------------------- MODULE StaleListing -----------------------------
(***************************************************************************)
(* What a cached directory listing promises its readers: an answer shows   *)
(* only changes that have happened in the cloud, and misses only those     *)
(* that happened, or were left out by a partial reading of the directory,  *)
(* at most Bound time units ago.                                           *)
(***************************************************************************)
EXTENDS Integers

CONSTANTS
    Readers,    \* requests that ask for the listing
    Changes,    \* changes of the directory in the cloud
    Bound       \* how long an answer may miss a change

VARIABLES
    truth,      \* the changes that have happened
    since,      \* how long ago each of them did, or was left out of a reading
                \* (Bound + 1: longer than that)
    ans         \* the answer of each reader: {} or {set of changes shown}

vars == <<truth, since, ans>>

Init ==
    /\ truth = {}
    /\ since = [c \in Changes |-> 0]
    /\ ans = [r \in Readers |-> {}]

\* The directory changes in the cloud.
Change(c) ==
    /\ c \notin truth
    /\ truth' = truth \cup {c}
    /\ UNCHANGED <<since, ans>>

\* The directory is read without the changes in C.
LeaveOut(C) ==
    /\ since' = [c \in Changes |-> IF c \in C THEN 0 ELSE since[c]]
    /\ UNCHANGED <<truth, ans>>

\* The listing shows nothing invented and misses nothing older than Bound.
Acceptable(l) ==
    /\ l \subseteq truth
    /\ \A c \in truth \ l : since[c] <= Bound

\* A reader asks, and is answered (or not: the request may fail).
Ask(r) ==
    /\ ans' = [ans EXCEPT ![r] = {}]
    /\ UNCHANGED <<truth, since>>

Answer(r) ==
    /\ \E l \in SUBSET truth : Acceptable(l) /\ ans' = [ans EXCEPT ![r] = {l}]
    /\ UNCHANGED <<truth, since>>

Tick ==
    /\ since' = [c \in Changes |->
                   IF c \in truth /\ since[c] <= Bound THEN since[c] + 1
                                                       ELSE since[c]]
    /\ UNCHANGED <<truth, ans>>

Next ==
    \/ \E c \in Changes : Change(c)
    \/ \E r \in Readers : Ask(r) \/ Answer(r)
    \/ \E C \in SUBSET truth : LeaveOut(C)
    \/ Tick

Spec == Init /\ [][Next]_vars
=============================================================================
