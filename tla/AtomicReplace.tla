----------------------------- MODULE AtomicReplace -----------------------------
(***************************************************************************)
(* What one upload promises about its path, whatever happens within: there *)
(* is no moment without the old or the new file, Ok is answered only where *)
(* the new one is there and an error only where the old one still is, and  *)
(* once it has ended the upload touches neither.                           *)
(***************************************************************************)

CONSTANT HasOld     \* the upload replaces a file

VARIABLES
    old,            \* the file that was there is there
    new,            \* a file with the new content is there
    answer          \* "none" until the upload ends

Init ==
    /\ old = HasOld /\ new \in BOOLEAN
    /\ answer = "none"

Replace ==
    /\ answer = "none"
    /\ old' \in {old, FALSE} /\ new' \in BOOLEAN
    /\ answer' \in {"none", "ok", "failed", "gone"}
    /\ HasOld => old' \/ new'
    /\ answer' = "ok" => new'
    /\ answer' = "failed" => old' = HasOld

Spec == Init /\ [][Replace]_<<old, new, answer>>
=============================================================================
