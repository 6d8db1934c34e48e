-------------------------------- MODULE GetFile --------------------------------
(***************************************************************************)
(* A GET of one path: the proxy forwards it, the backend opens what the    *)
(* listing, the overlay of recent writes or the placeholders of uploads    *)
(* show there, dav-server answers with the length found then, a Digest is  *)
(* looked up, and the body is read chunk by chunk, from the disk or the    *)
(* cloud, while PUTs and DELETEs of the path go on.                        *)
(*                                                                         *)
(* A file of the cloud never changes: an upload makes a new one, with a    *)
(* fid of its own, so that its fid stands for its content and its md5.     *)
(* A body is counted in chunks.  The chunk cache is taken at its worst:    *)
(* what has ever been stored for the path may still be found, and need not *)
(* be.  When chunks are stored, removed and locked, and the bytes in a     *)
(* chunk, are the subject of ChunkRead.                                    *)
(***************************************************************************)
EXTENDS Naturals, Sequences

CONSTANTS
    Fids,           \* files that come to the path, one after the other
    SizeOf,         \* of each, in chunks
    Md5Told,        \* those of which the cloud tells the md5
    None, NoFid,
    Ranges,         \* first chunk and number of chunks that clients ask for, or None
    MaxFaults       \* bound on what happens at the path and what goes wrong in between

ASSUME GetFileAssumption ==
    /\ SizeOf \in [Fids -> Nat] /\ Md5Told \subseteq Fids
    /\ None \notin Fids /\ NoFid \notin Fids /\ None # NoFid
    /\ None \notin Nat \X Nat /\ Ranges \subseteq (Nat \X (Nat \ {0})) \cup {None}
    /\ MaxFaults \in Nat

VARIABLES
    \* The path.
    here,           \* file the cloud has there
    gone,           \* files it had there before
    listed,         \* file that lookups find: the listing may lag
    entry,          \* active_writes: fid, size and body, or None
    uploading,      \* placeholder: the file to come and the size told, or None
    \* The GET.
    get,
    range, browser, want_md5,
    opened,         \* what has been opened, and for a placeholder the file to come
    pos, end,       \* of the part to be read
    digest_fid, digest,
    url,            \* a valid download_url is at hand
    retries,        \* of read_bytes, for this chunk
    attempts,       \* of download
    body,           \* chunks sent
    disk,           \* chunks stored for the path: set of <<position, chunk>>
    md5_cache,      \* of the drive
    faults,
    moved,          \* history: lookups find something else than at the open
    ignored,        \* history: the cloud has once answered a Range from the beginning
    overtaken       \* history: another file than the one to come has been registered
                    \* since the open

placeVars   == <<here, gone, listed, entry, uploading>>
requestVars == <<range, browser, want_md5>>
digestVars  == <<digest_fid, digest>>
readVars    == <<pos, end, url, retries, attempts, body>>
histories   == <<moved, ignored, overtaken>>
getVars     == <<placeVars, get, requestVars, opened, digestVars, readVars, disk, md5_cache,
                 faults, histories>>

\* A chunk: the file it is of, and its number there; or zeros.
Chunks == (Fids \cup {NoFid}) \X Nat
Zero == <<NoFid, 0>>
Units(f, first, n) == [i \in 1 .. n |-> <<f, first + i - 1>>]
AtMost(m, n) == IF m < n THEN m ELSE n
Nothing == [fid |-> NoFid, size |-> 0, coming |-> None]

GetInit ==
    /\ here \in Fids \cup {None} /\ gone = {} /\ listed = here
    /\ entry = None /\ uploading = None
    /\ get = "idle" /\ range = None /\ browser = FALSE /\ want_md5 = FALSE
    /\ opened = Nothing
    /\ pos = 0 /\ end = 0 /\ digest_fid = None /\ digest = None
    /\ url = FALSE /\ retries = 0 /\ attempts = 0 /\ body = <<>> /\ disk = {}
    /\ md5_cache = [f \in Fids |-> None]
    /\ faults = 0 /\ moved = FALSE /\ ignored = FALSE /\ overtaken = FALSE

\* The files that are or were at the path.
Present == gone \cup ({here} \ {None})

Fault == faults < MaxFaults /\ faults' = faults + 1

-----------------------------------------------------------------------------
\* To the backend.

\* The proxy takes a GET and forwards it as it is.
HandleRequest ==
    /\ get = "idle"
    /\ range' \in Ranges /\ browser' \in BOOLEAN /\ want_md5' \in BOOLEAN
    /\ get' = "backend"
    /\ UNCHANGED <<placeVars, opened, digestVars, readVars, disk, md5_cache, faults,
                   histories>>

\* A browser may ask for a directory; ...
IsBrowser == browser

\* ... get_or_insert finds that the path is none, but may have listed the parent again.
HandleBrowserRequest ==
    /\ get = "backend" /\ IsBrowser
    /\ listed' \in {listed} \cup {f \in {here} : listed = None}
    /\ get' = "open"
    /\ UNCHANGED <<here, gone, entry, uploading, requestVars, opened, digestVars,
                   readVars, disk, md5_cache, faults, histories>>

HandleWith ==
    /\ get = "backend" /\ ~IsBrowser
    /\ get' = "open"
    /\ UNCHANGED <<placeVars, requestVars, opened, digestVars, readVars, disk,
                   md5_cache, faults, histories>>

\* The client or the proxy gives up, or a lookup fails; the body ends where it is.
Cut ==
    /\ get # "idle" /\ Fault
    /\ get' = "cut"
    /\ UNCHANGED <<placeVars, requestVars, opened, digestVars, readVars, disk,
                   md5_cache, histories>>

\* Nothing of a request is left behind, but what is cached.
Rests ==
    /\ get \in {"sent", "cut"}
    /\ get' = "idle"
    /\ range' = None /\ browser' = FALSE /\ want_md5' = FALSE
    /\ opened' = Nothing
    /\ digest_fid' = None /\ digest' = None
    /\ pos' = 0 /\ end' = 0 /\ url' = FALSE /\ retries' = 0 /\ attempts' = 0 /\ body' = <<>>
    /\ moved' = FALSE /\ overtaken' = FALSE
    /\ UNCHANGED <<placeVars, disk, md5_cache, faults, ignored>>

-----------------------------------------------------------------------------
\* open and the headers.

\* The listing first, then the overlay, then the placeholders.
Opened ==
    IF listed # None
    THEN [fid |-> listed, size |-> SizeOf[listed], coming |-> None]
    ELSE IF entry # None
    THEN [fid |-> entry.fid, size |-> entry.size, coming |-> None]
    ELSE IF uploading # None
    THEN [fid |-> NoFid, size |-> uploading.size, coming |-> uploading.fid]
    ELSE None

OpenFile ==
    /\ get = "open"
    /\ IF Opened = None THEN get' = "cut" /\ UNCHANGED opened      \* 404
                        ELSE get' = "headers" /\ opened' = Opened
    /\ moved' = FALSE /\ overtaken' = FALSE
    /\ UNCHANGED <<placeVars, requestVars, digestVars, readVars, disk, md5_cache,
                   faults, ignored>>

\* Mutation: read_bytes starts from the beginning.
SeekNowhere(first) == pos' = 0

Seek(first) == pos' = first

\* dav-server answers 200, or seeks and answers 206, with the length found at the
\* open; there is no redirect to the cloud.  A range beyond the end is refused.
Headers ==
    /\ get = "headers"
    /\ IF range = None
       THEN /\ pos' = 0 /\ end' = opened.size
            /\ get' = (IF want_md5 THEN "digest" ELSE "body")
       ELSE /\ Seek(range[1]) /\ end' = AtMost(range[1] + range[2], opened.size)
            /\ get' = IF range[1] < opened.size THEN "body" ELSE "cut"
    /\ UNCHANGED <<placeVars, requestVars, opened, digestVars, url, retries, attempts,
                   body, disk, md5_cache, faults, histories>>

-----------------------------------------------------------------------------
\* The Digest of a 200, once dav-server has answered and before its body is read.

\* get_file_md5_for_path looks the path up again.
LookUpDigest ==
    /\ get = "digest"
    /\ digest_fid' = listed
    /\ get' = IF listed = None THEN "body" ELSE "md5"
    /\ UNCHANGED <<placeVars, requestVars, opened, digest, readVars, disk, md5_cache,
                   faults, histories>>

\* Mutation: any md5 that has been cached will do.
AnyMd5(f) ==
    IF \E g \in Fids : md5_cache[g] # None
    THEN md5_cache[CHOOSE g \in Fids : md5_cache[g] # None] ELSE None

CachedMd5(f) == md5_cache[f]

\* What the cloud tells is not cached here.
Md5 ==
    /\ get = "md5"
    /\ digest' \in IF CachedMd5(digest_fid) # None THEN {CachedMd5(digest_fid)}
                   ELSE {None} \cup ({digest_fid} \cap Md5Told)
    /\ get' = "body"
    /\ UNCHANGED <<placeVars, requestVars, opened, digest_fid, readVars, disk,
                   md5_cache, faults, histories>>

-----------------------------------------------------------------------------
\* The body: dav-server calls read_bytes until it has the length it announced.

Unread == get = "body" /\ pos < end

BodySent ==
    /\ get = "body" /\ pos >= end
    /\ get' = "sent"
    /\ UNCHANGED <<placeVars, requestVars, opened, digestVars, readVars, disk,
                   md5_cache, faults, histories>>

Sends(chunk) ==
    /\ body' = Append(body, chunk) /\ pos' = pos + 1
    /\ retries' = 0 /\ attempts' = 0

\* read_bytes of what has no fid: from the body of the entry that is there by now,
\* and where that is too short, dav-server puts zeros.
ReadOverlay ==
    /\ Unread /\ opened.fid = NoFid
    /\ IF entry # None /\ entry.body # None
       THEN /\ Sends(IF pos < SizeOf[entry.body] THEN <<entry.body, pos>> ELSE Zero)
            /\ UNCHANGED get
       ELSE get' = "cut" /\ UNCHANGED <<body, pos, retries, attempts>>
    /\ UNCHANGED <<placeVars, requestVars, opened, digestVars, end, url, disk,
                   md5_cache, faults, histories>>

\* read_chunk finds a chunk that is stored for the path at this position, of whatever
\* file, ...
ReadStored ==
    /\ Unread /\ opened.fid # NoFid
    /\ \E x \in disk : x[1] = pos /\ Sends(x[2])
    /\ UNCHANGED <<placeVars, get, requestVars, opened, digestVars, end, url, disk,
                   md5_cache, faults, histories>>

\* ... or none: it has not been stored, or is too old, or has been removed.
MissChunk ==
    /\ Unread /\ opened.fid # NoFid
    /\ get' = "fetch"
    /\ UNCHANGED <<placeVars, requestVars, opened, digestVars, readVars, disk,
                   md5_cache, faults, histories>>

\* get_download_urls caches the md5 that comes with the URL; if it fails or takes 3 s,
\* so does read_bytes.
GetDownloadUrl ==
    /\ get = "fetch" /\ ~url
    /\ \/ /\ url' = TRUE /\ UNCHANGED get
          /\ md5_cache' = IF opened.fid \in Md5Told
                          THEN [md5_cache EXCEPT ![opened.fid] = opened.fid] ELSE md5_cache
       \/ get' = "cut" /\ UNCHANGED <<url, md5_cache>>
    /\ UNCHANGED <<placeVars, requestVars, opened, digestVars, pos, end, retries,
                   attempts, body, disk, faults, histories>>

UrlExpires ==
    /\ get \in {"body", "fetch"} /\ url /\ Fault
    /\ url' = FALSE
    /\ UNCHANGED <<placeVars, get, requestVars, opened, digestVars, pos, end, retries,
                   attempts, body, disk, md5_cache, histories>>

StartDownload ==
    /\ get = "fetch" /\ url
    /\ get' = "download"
    /\ UNCHANGED <<placeVars, requestVars, opened, digestVars, readVars, disk,
                   md5_cache, faults, histories>>

\* Mutation: the downloads of a chunk are not counted.
RetryPieceForEver ==
    /\ url' = FALSE /\ attempts' = 0
    /\ get' = "fetch"
    /\ UNCHANGED <<retries, pos, end, body>>

\* Two downloads, each with a URL of its own.
RetryPiece ==
    /\ url' = FALSE /\ attempts' = 0
    /\ retries' = retries + 1
    /\ get' = IF retries + 1 < 2 THEN "fetch" ELSE "cut"
    /\ UNCHANGED <<pos, end, body>>

\* What arrives is stored for the path, by and by, and sent.
Arrives(chunk) ==
    /\ Sends(chunk)
    /\ disk' = disk \cup {<<pos, chunk>>}
    /\ get' = "body"
    /\ UNCHANGED <<end, url>>

\* The body of the answer comes to its end: of the chunk asked for, of as much from
\* the beginning where the Range is ignored, or before it is complete.
Delivered ==
    /\ get = "download"
    /\ \/ Arrives(<<opened.fid, pos>>) /\ UNCHANGED <<faults, ignored>>
       \/ Arrives(<<opened.fid, 0>>) /\ Fault /\ ignored' = TRUE
       \/ RetryPiece /\ UNCHANGED <<disk, faults, ignored>>
    /\ UNCHANGED <<placeVars, requestVars, opened, digestVars, md5_cache, moved, overtaken>>

\* Mutation: an attempt too many.
AttemptTooMany == attempts >= 3

LastAttempt == attempts + 1 >= 3

\* It cannot be sent, has an error status, or its body breaks off, for a reason that
\* download retries or not.
DownloadFails ==
    /\ get = "download"
    /\ \/ ~LastAttempt /\ attempts' = attempts + 1
          /\ UNCHANGED <<get, pos, end, url, retries, body>>
       \/ RetryPiece
    /\ UNCHANGED <<placeVars, requestVars, opened, digestVars, disk, md5_cache, faults,
                   histories>>

-----------------------------------------------------------------------------
\* What others do at the path.

Lists(f) == listed' = f /\ moved' = (moved \/ f # listed)

Place == UNCHANGED <<get, requestVars, opened, digestVars, readVars, disk, md5_cache,
                     ignored>>

\* A listing expires and the list API answers, with what it may still show.
Relists ==
    /\ Fault
    /\ \E f \in {here} \cup gone \cup {None} : Lists(f)
    /\ UNCHANGED <<here, gone, entry, uploading, overtaken>> /\ Place

\* A PUT of a path that shows no file leaves a placeholder; the size may be unknown.
PutOpens ==
    /\ Fault /\ listed = None /\ entry = None /\ uploading = None
    /\ \E f \in Fids \ (gone \cup {here}) : \E n \in {0, SizeOf[f]} :
         uploading' = [fid |-> f, size |-> n]
    /\ UNCHANGED <<here, gone, listed, entry, moved, overtaken>> /\ Place

\* An upload fails: its placeholder goes.
PutFails ==
    /\ uploading # None
    /\ uploading' = None
    /\ UNCHANGED <<here, gone, listed, entry, faults, moved, overtaken>> /\ Place

\* An empty PUT is registered without a fid; so is what a MOVE finds in the overlay
\* only, with its size.
RegisterWithoutFid ==
    /\ Fault
    /\ \E n \in {0} \cup {SizeOf[f] : f \in Fids} :
         entry' = [fid |-> NoFid, size |-> n, body |-> None]
    /\ UNCHANGED <<here, gone, listed, uploading, moved, overtaken>> /\ Place

\* An upload is complete and registered, with its body if the temporary file is small
\* enough and still there; the listing is dropped.
PutPublishes ==
    /\ Fault
    /\ \E f \in Fids \ (gone \cup {here}) : \E b \in {f, None} :
         /\ here' = f /\ gone' = gone \cup ({here} \ {None})
         /\ entry' = [fid |-> f, size |-> SizeOf[f], body |-> b]
         /\ \E g \in {f, here} : Lists(g)
         /\ overtaken' = (overtaken \/ f # opened.coming)
    /\ uploading' = None
    /\ Place

EntryExpires ==
    /\ entry # None
    /\ entry' = None
    /\ UNCHANGED <<here, gone, listed, uploading, faults, moved, overtaken>> /\ Place

RemoveFile ==
    /\ Fault /\ here # None
    /\ here' = None /\ gone' = gone \cup {here}
    /\ entry' = None /\ uploading' = None
    /\ \E g \in {None, here} : Lists(g)
    /\ UNCHANGED overtaken /\ Place

\* Another GET of the path has downloaded a chunk of what it has opened.
OtherGetStores ==
    /\ Fault
    /\ \E f \in Present : \E i \in 0 .. SizeOf[f] - 1 :
         disk' = disk \cup {<<i, <<f, i>>>>}
    /\ UNCHANGED <<placeVars, get, requestVars, opened, digestVars, readVars, md5_cache,
                   histories>>

-----------------------------------------------------------------------------
GetStep ==
    \/ HandleBrowserRequest \/ HandleWith \/ OpenFile \/ Headers \/ LookUpDigest \/ Md5
    \/ BodySent \/ ReadOverlay \/ ReadStored \/ MissChunk
    \/ GetDownloadUrl \/ StartDownload \/ Delivered \/ DownloadFails
    \/ Rests

GetNext ==
    \/ HandleRequest \/ GetStep \/ Cut \/ UrlExpires
    \/ Relists \/ PutOpens \/ PutFails \/ RegisterWithoutFid \/ PutPublishes \/ EntryExpires
    \/ RemoveFile \/ OtherGetStores

\* Every call of a GET returns: each has a timeout.
GetSpec == GetInit /\ [][GetNext]_getVars /\ WF_getVars(GetStep)

-----------------------------------------------------------------------------
\* Properties.

ChunksOK == body \in Seq(Chunks) /\ disk \subseteq Nat \X (Fids \X Nat)

\* Every variable has its type; a download ends at its third attempt, a chunk at its
\* second download.
GetTypeOK ==
    /\ here \in Fids \cup {None} /\ gone \subseteq Fids /\ listed \in Fids \cup {None}
    /\ entry \in [fid : Fids \cup {NoFid}, size : Nat, body : Fids \cup {None}] \cup {None}
    /\ uploading \in [fid : Fids, size : Nat] \cup {None}
    /\ get \in {"idle", "backend", "open", "headers", "digest", "md5", "body", "fetch",
                "download", "sent", "cut"}
    /\ range \in Ranges \cup {None} /\ browser \in BOOLEAN /\ want_md5 \in BOOLEAN
    /\ opened \in [fid : Fids \cup {NoFid}, size : Nat, coming : Fids \cup {None}]
    /\ pos \in Nat /\ end \in Nat
    /\ digest_fid \in Fids \cup {None} /\ digest \in Fids \cup {None}
    /\ url \in BOOLEAN /\ retries \in 0 .. 2 /\ attempts \in 0 .. 2
    /\ ChunksOK
    /\ md5_cache \in [Fids -> Fids \cup {None}]
    /\ faults \in 0 .. MaxFaults
    /\ moved \in BOOLEAN /\ ignored \in BOOLEAN /\ overtaken \in BOOLEAN

\* The Digest of an answer belongs to the file that was opened for its body, although
\* both are looked up on their own, unless the listing has changed in between.
DigestOfBody == digest # None => digest = opened.fid \/ moved

Part(f) == IF range = None THEN Units(f, 0, SizeOf[f])
           ELSE Units(f, range[1], AtMost(range[2], SizeOf[f] - range[1]))

\* A body sent to its end has the length of the part asked for of one file that is or
\* was at the path, and every chunk is in its place: of that file, or of another one
\* that was at the path when a GET stored the chunk.  So it is that file's part unless
\* the disk has chunks of another one, whatever came to the path meanwhile.  Or it is
\* nothing, of what had no size yet.  But not once the cloud has ignored a Range, or
\* where another file has overtaken the one whose placeholder was opened.
SentInPlace ==
    get = "sent" =>
        \/ ignored \/ (overtaken /\ opened.fid = NoFid)
        \/ \E f \in Present :
             /\ Len(body) = Len(Part(f))
             /\ \A i \in 1 .. Len(body) :
                  body[i] # Part(f)[i] =>
                      \E g \in Present : /\ body[i] = <<g, Part(f)[i][2]>>
                                         /\ <<Part(f)[i][2], body[i]>> \in disk
        \/ body = <<>> /\ opened.size = 0

\* Every GET comes to an end, however often the cloud's answers fail.
GetEnds == get # "idle" ~> get = "idle"
=============================================================================
