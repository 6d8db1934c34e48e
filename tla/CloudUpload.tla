------------------------------ MODULE CloudUpload ------------------------------
(***************************************************************************)
(* One upload as the cloud client carries it out (do_flush in vfs.rs over  *)
(* drive/mod.rs): up_pre, up_hash, then for each part auth and up_part,    *)
(* then auth and commit, finish, and the removal of the replaced file, or  *)
(* of the new one where commit or finish fail.                             *)
(*                                                                         *)
(* A call is sent once and, while it meets lost requests, lost answers or  *)
(* transient statuses, up to MaxRetries times again by the middleware; a   *)
(* status that remains is retried once more by hand, without the cookies,  *)
(* the authorization and the body, which the cloud refuses.  The cloud     *)
(* cannot tell a repeated request from a new one.                          *)
(*                                                                         *)
(* Requests carry the cookies the drive copied when the process started.   *)
(***************************************************************************)
EXTENDS Naturals, Sequences

CONSTANTS
    Size,           \* bytes of the body
    PartSize,       \* part_size of up_pre's answer
    HasOld,         \* the upload replaces a file
    MaxRetries,     \* build_with_max_retries
    MaxFaults       \* bound on what goes wrong

ASSUME CloudUploadAssumption ==
    /\ Size \in Nat \ {0} /\ PartSize \in Nat \ {0}
    /\ HasOld \in BOOLEAN
    /\ MaxRetries \in Nat /\ MaxFaults \in Nat

VARIABLES
    at,             \* the call being made, or the outcome
    tries,          \* retries of the middleware so far
    spent,          \* it has failed, but for a retry by hand
    etags,          \* the parts answered so far, by their content
    same,           \* the old file has the content of the body
    \* The cloud.
    parts,          \* parts stored for the upload
    committed,
    object,         \* content of the new file: the parts it is made of
    live,           \* files of the path: the old one, the new one, and one whose
                    \* fid no answer has told
    session,        \* login the cloud accepts
    \* Cookies, by their login.
    drive_cookies,  \* DriveConfig.cookie
    faults,
    unremoved       \* history: the removal of the new file has failed

client   == <<tries, spent, etags, same>>
upload   == <<parts, committed, object>>
sessions == <<session, drive_cookies>>
vars == <<at, client, upload, live, sessions, faults, unremoved>>

Bytes    == 0 .. (Size - 1)
Outcomes == {"ok", "failed", "gone"}
InFlush  == {"pre", "hash", "instant"}
Oss      == {"part", "commit"}      \* authorized by a key, not by cookies

Init ==
    /\ at = "pre" /\ tries = 0 /\ spent = FALSE /\ etags = <<>>
    /\ same \in (IF HasOld THEN BOOLEAN ELSE {FALSE})
    /\ parts = <<>> /\ committed = FALSE /\ object = <<>>
    /\ live = IF HasOld THEN {"old"} ELSE {}
    /\ session = 0 /\ drive_cookies = 0
    /\ faults = 0 /\ unremoved = FALSE

Fault == faults < MaxFaults /\ faults' = faults + 1

-----------------------------------------------------------------------------
\* The parts of the body.

\* Mutation: what is left over has no part of its own.
WholeParts == Size \div PartSize

ChunkCount == Size \div PartSize + (IF Size % PartSize # 0 THEN 1 ELSE 0)

BytesToRead(n) ==
    LET remaining == Size - (n - 1) * PartSize
    IN  IF n = ChunkCount /\ remaining < PartSize THEN remaining ELSE PartSize

Chunk(n) ==
    LET offset == (n - 1) * PartSize
    IN  offset .. (offset + BytesToRead(n) - 1)

\* Mutation: the parts are numbered from 0.
PartNumberFromZero == Len(etags)

PartNumber == Len(etags) + 1

-----------------------------------------------------------------------------
\* The cloud, on a request it accepts.

\* Each up_pre begins an upload of its own; it may find that it has the content,
\* and answers with a new file or with the old one.
Prepares(instant) ==
    /\ live' = (live \ {"new"})
                 \cup {f \in {"stray"} : "new" \in live}
                 \cup {f \in {"new"} : instant /\ ~same}
    /\ object' = IF instant THEN <<Bytes>> ELSE <<>>
    /\ parts' = <<>> /\ committed' = FALSE

\* So may up_hash.
Hashes(instant) ==
    /\ live' = live \cup {f \in {"new"} : instant}
    /\ object' = IF instant THEN <<Bytes>> ELSE object
    /\ UNCHANGED <<parts, committed>>

\* Parts are taken in order; a part sent again replaces itself.
Stores ==
    /\ PartNumber <= Len(parts) + 1
    /\ parts' = [n \in 1 .. (IF PartNumber > Len(parts) THEN PartNumber ELSE Len(parts)) |->
                   IF n = PartNumber THEN Chunk(n) ELSE parts[n]]
    /\ UNCHANGED <<committed, object, live>>

\* CompleteMultipartUpload compares the etags with the parts; done twice, it may be
\* accepted again.
Commits ==
    /\ etags = parts
    /\ committed' = TRUE /\ object' = parts
    /\ UNCHANGED <<parts, live>>

Finishes ==
    /\ committed
    /\ live' = live \cup {"new"}
    /\ UNCHANGED upload

Removes(f) ==
    /\ live' = live \ {f}
    /\ UNCHANGED upload

Executes(instant) ==
    \/ at = "pre" /\ Prepares(instant)
    \/ at = "hash" /\ Hashes(instant)
    \/ at \in {"auth", "commit_auth"} /\ ~instant /\ UNCHANGED <<upload, live>>
    \/ at = "part" /\ ~instant /\ Stores
    \/ at = "commit" /\ ~instant /\ Commits
    \/ at = "finish" /\ ~instant /\ Finishes
    \/ at = "remove_new" /\ ~instant /\ Removes("new")
    \/ at \in {"instant", "remove_old"} /\ ~instant /\ Removes("old")

Accepted == at \in Oss \/ drive_cookies = session

-----------------------------------------------------------------------------
\* The client.

Goto(c) == at' = c /\ tries' = 0 /\ spent' = FALSE

\* The call that follows one that succeeds.
Follow(instant) ==
    CASE at \in {"pre", "hash"} /\ instant ->
           IF HasOld /\ (at = "pre" => ~same) THEN "instant" ELSE "ok"
      [] at = "pre"         -> "hash"
      [] at = "hash"        -> "auth"
      [] at = "auth"        -> "part"
      [] at = "part"        -> IF PartNumber = ChunkCount THEN "commit_auth" ELSE "auth"
      [] at = "commit_auth" -> "commit"
      [] at = "commit"      -> "finish"
      [] at = "finish"      -> IF HasOld THEN "remove_old" ELSE "ok"
      [] at = "remove_new"  -> "failed"
      [] at \in {"instant", "remove_old"} -> "ok"

\* Mutation: the outcome of finish is not looked at.
FollowAnyFinish ==
    CASE at = "commit" -> "remove_new"
      [] at = "finish" -> "remove_old"
      [] at \in {"instant", "remove_old"} -> "ok"
      [] OTHER -> "failed"

\* Mutation: only a failed commit is cleaned up after.
OrphanOfCommitOnly ==
    CASE at = "commit" -> "remove_new"
      [] at \in {"instant", "remove_old"} -> "ok"
      [] OTHER -> "failed"

\* What follows one that fails: commit and finish clean up their orphan, the old
\* file may stay, and the rest gives up; the auth of the commit panics, which ends
\* the task.
Recover ==
    CASE at \in {"commit", "finish"} -> "remove_new"
      [] at \in {"instant", "remove_old"} -> "ok"
      [] OTHER -> "failed"

\* The request arrives and so does its answer.
Answered ==
    /\ at \notin Outcomes /\ ~spent /\ Accepted
    /\ \E instant \in BOOLEAN : Executes(instant) /\ Goto(Follow(instant))
    /\ etags' = IF at = "part" THEN Append(etags, Chunk(PartNumber)) ELSE etags
    /\ UNCHANGED <<same, sessions, faults, unremoved>>

\* The answer cannot be used: no Etag, no content, no JSON, or the connection ends
\* within its body.
Garbled ==
    /\ at \notin Outcomes /\ ~spent /\ Accepted /\ Fault
    /\ \E instant \in BOOLEAN : Executes(instant)
    /\ spent' = TRUE
    /\ UNCHANGED <<at, tries, etags, same, sessions, unremoved>>

\* The cloud refuses: the cookies are of another login, the upload has been
\* committed already, or for a reason of its own.
Refused ==
    /\ at \notin Outcomes /\ ~spent
    /\ \/ (~Accepted \/ (at = "commit" /\ committed)) /\ UNCHANGED faults
       \/ Fault
    /\ spent' = TRUE
    /\ UNCHANGED <<at, tries, etags, same, upload, live, sessions, unremoved>>

\* The request or its answer is lost, or the answer is a transient status: the
\* middleware sends it again, while it has retries left.
Transient ==
    /\ at \notin Outcomes /\ ~spent /\ Fault
    /\ \/ Accepted /\ \E instant \in BOOLEAN : Executes(instant)
       \/ UNCHANGED <<upload, live>>
    /\ IF tries < MaxRetries
       THEN tries' = tries + 1 /\ UNCHANGED spent
       ELSE spent' = TRUE /\ UNCHANGED tries
    /\ UNCHANGED <<at, etags, same, sessions, unremoved>>

\* Mutation: the retry by hand is repeated until it succeeds.
InsistsByHand ==
    /\ spent
    /\ tries' = IF tries = 0 THEN 1 ELSE 0
    /\ UNCHANGED <<at, spent, etags, same, upload, live, sessions, faults, unremoved>>

\* Some statuses are retried by hand, which the cloud refuses; the call fails.
GivesUp ==
    /\ spent
    /\ Goto(Recover)
    /\ unremoved' = (unremoved \/ at = "remove_new")
    /\ UNCHANGED <<etags, same, upload, live, sessions, faults>>

\* The client of the PUT is gone before the task that uploads is spawned.
Dropped ==
    /\ at \in InFlush /\ Fault
    /\ Goto("gone")
    /\ UNCHANGED <<etags, same, upload, live, sessions, unremoved>>

\* The process ends, and starts with the cookies of the browser.
Restart ==
    /\ Fault
    /\ Goto(IF at \in Outcomes THEN at ELSE "gone")
    /\ drive_cookies' = session
    /\ UNCHANGED <<etags, same, upload, live, session, unremoved>>

\* The user logs in again, which ends the login before.
Login ==
    /\ Fault
    /\ session' = session + 1
    /\ UNCHANGED <<at, client, upload, live, drive_cookies, unremoved>>

-----------------------------------------------------------------------------
Exchange == Answered \/ Garbled \/ Refused \/ Transient \/ GivesUp

Next == Exchange \/ Dropped \/ Restart \/ Login

\* Requests time out.
Spec == Init /\ [][Next]_vars /\ WF_vars(Exchange)

-----------------------------------------------------------------------------
\* Properties.

\* Every variable has its type; the client never has more etags than the file has
\* parts, nor the cloud parts the client has not sent.
TypeOK ==
    /\ at \in {"pre", "hash", "instant", "auth", "part", "commit_auth", "commit",
               "finish", "remove_new", "remove_old"} \cup Outcomes
    /\ tries \in 0 .. MaxRetries /\ spent \in BOOLEAN /\ same \in BOOLEAN
    /\ Len(etags) <= ChunkCount /\ Len(parts) <= ChunkCount
    /\ \A n \in 1 .. Len(etags) : etags[n] \subseteq Bytes
    /\ committed \in BOOLEAN
    /\ live \subseteq {"old", "new", "stray"}
    /\ session \in 0 .. MaxFaults
    /\ drive_cookies \in 0 .. session
    /\ faults \in 0 .. MaxFaults /\ unremoved \in BOOLEAN

\* Every byte of the body, once and in order.
Whole(o) ==
    /\ UNION {o[n] : n \in 1 .. Len(o)} = Bytes
    /\ \A m, n \in 1 .. Len(o) :
         m < n => \A b \in o[m], c \in o[n] : b < c

\* The new file is the body, however often its parts have been sent and whichever
\* answers were lost.
PublishedIsWhole == "new" \in live => Whole(object)

\* An upload that fails at commit or finish leaves no new file behind, even if the
\* cloud had carried out what it did not answer, unless the removal fails too.
FailedLeavesNothing ==
    at = "failed" /\ committed /\ "new" \in live => unremoved

\* The upload keeps what AtomicReplace promises: it is never without the old or the
\* new file, answers Ok only with the new one and an error only with the old one.
Promise == INSTANCE AtomicReplace WITH
    old <- "old" \in live,
    new <- {"new", "stray"} \cap live # {} \/ (same /\ "old" \in live),
    answer <- IF at \in Outcomes THEN at ELSE "none"
Replaces == Promise!Spec

\* Every upload comes to an end, whatever the cloud refuses and the network loses.
UploadEnds == <>(at \in Outcomes)
=============================================================================
