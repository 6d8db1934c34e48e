------------------------------ MODULE CacheWalk ------------------------------
(***************************************************************************)
(* How a path is found: get_or_insert climbs from the wanted directory to  *)
(* the nearest ancestor with a cached listing, and dfs lists directories   *)
(* from there down to it, filling the cache (cache.rs); read_dir,          *)
(* create_dir, remove_dir and remove_file (vfs.rs) are built from such     *)
(* lookups.  Other clients change the cloud's tree meanwhile, and its list *)
(* API lags.                                                               *)
(*                                                                         *)
(* How old a cached listing may get is DirCache's subject; here a cached   *)
(* listing is at its worst: any listing its folder may ever have had.      *)
(* moka says which folders have one in memory; for another folder the disk *)
(* may have one (its writes are spawned, also by the process before a      *)
(* restart) or not.  One get, insert or invalidate is one step.            *)
(***************************************************************************)
EXTENDS Naturals, FiniteSets, SequencesExt

CONSTANTS
    Paths,          \* paths below the root, as sequences of names
    Dirs,           \* those of them that name directories, whenever they exist
    Long,           \* folders whose listing takes more than one page
    NamePrefixes,   \* <<x, y>>: the string x is the beginning of y
    Initial,        \* sequence of the paths that exist at first
    Clients,        \* requests that run at the same time
    MaxFids,        \* bound: fids the cloud gives out, the root's included
    MaxFaults,      \* bound: list calls that fail
    MaxTodo         \* bound: calls of dfs pending while the list API lags

Root == <<>>
Parent(p) == Front(p)
Places == Paths \cup {Root}
Folders == Dirs \cup {Root}
Children(d) == {p \in Paths : Parent(p) = d}

Within(p, d) == IsPrefix(d, p)

None == 0
RootFid == 1

\* What a path leads through are folders.
ASSUME PathsAssumption ==
    /\ Paths \subseteq Seq(STRING) /\ IsFiniteSet(Paths)
    /\ Root \notin Paths
    /\ Dirs \subseteq Paths /\ Long \subseteq Folders
    /\ \A p \in Paths : \A n \in 0 .. Len(p) - 1 : SubSeq(p, 1, n) \in Folders

\* The drive begins as a tree whose fids are within the bound.
ASSUME InitialAssumption ==
    /\ Initial \in Seq(Paths) /\ IsInjective(Initial)
    /\ \A i \in DOMAIN Initial : \A q \in Paths :
         Within(Initial[i], q) => q \in ToSet(Initial)

ASSUME BoundsAssumption ==
    /\ MaxFids \in Nat /\ RootFid + Len(Initial) <= MaxFids
    /\ MaxFaults \in Nat /\ MaxTodo \in Nat

VARIABLES
    cloud,      \* fid of what is at each path in the drive, or None
    lagging,    \* the list API does not show the latest changes yet
    had,        \* fids that have ever been at each path
    fids,       \* number of fids given out
    faults,     \* failures left
    moka,       \* folders with a listing in memory
    pc,         \* where each request stands
    op,         \* its operation
    path,       \* its path
    fid,        \* fid it has looked up
    key,        \* folder its get_or_insert wants
    at,         \* `path` of get_or_insert's climb
    refreshed,  \* stale_parent_refreshed
    todo,       \* calls of dfs still to make, the next one first
    page1,      \* {} or {listing}: the next one has read its first page, when the
                \* cloud showed this
    missed,     \* the last lookup answered None
    excused     \* history: those for whose lookup None is a fair answer

cloudVars  == <<cloud, lagging, had, fids>>
lookupVars == <<key, at, refreshed, todo, page1, missed>>
requestVars == <<pc, op, path, fid, lookupVars>>
vars == <<cloudVars, faults, moka, requestVars, excused>>

Ops == {"read", "mkdir", "rmdir", "rmfile"}
Pc == {"idle", "get", "climb", "walk", "reget", "self", "pre", "create",
       "push", "remove", "own", "above"}

Init ==
    /\ cloud = [p \in Places |-> IF p = Root THEN RootFid
                ELSE IF p \in ToSet(Initial) THEN RootFid + (CHOOSE i \in DOMAIN Initial : Initial[i] = p)
                ELSE None]
    /\ lagging = FALSE
    /\ had = [p \in Paths |-> {cloud[p]} \ {None}]
    /\ fids = RootFid + Len(Initial)
    /\ faults = MaxFaults
    /\ moka = {}
    /\ pc = [c \in Clients |-> "idle"]
    /\ op = [c \in Clients |-> "read"]
    /\ path = [c \in Clients |-> Root]
    /\ fid = [c \in Clients |-> None]
    /\ key = path
    /\ at = path
    /\ refreshed = [c \in Clients |-> FALSE]
    /\ todo = [c \in Clients |-> <<>>]
    /\ page1 = [c \in Clients |-> {}]
    /\ missed = refreshed
    /\ excused = {}

-----------------------------------------------------------------------------
\* The tree and the cache.

\* A listing gives each child of its folder a fid, or None.
Listings == UNION {[Children(d) -> None .. MaxFids] : d \in Folders}

Goto(c, where) == pc' = [pc EXCEPT ![c] = where]

\* Listings that may be cached for folder d.
Plausible(d) ==
    {l \in [Children(d) -> {None} \cup UNION {had[p] : p \in Children(d)}] :
       \A p \in Children(d) : l[p] \in had[p] \cup {None}}

\* What get may find: moka's listing, else the disk's or nothing, ...
Gets(d) == {{l} : l \in Plausible(d)} \cup (IF d \in moka THEN {} ELSE {{}})

\* ... and what it finds on disk is promoted to moka.
Promote(d, L) == moka' = IF L = {} THEN moka ELSE moka \cup {d}

\* insert: moka at once, the disk by a spawned write.
Insert(d) == moka' = moka \cup {d}

\* target_path.starts_with(file_path) compares strings, so "/ab/c" also
\* "starts with" the path of a sibling "/a" of "/ab".
StartsWith(target, p) ==
    /\ Within(target, Parent(p))
    /\ Len(target) >= Len(p)
    /\ \/ Last(p) = target[Len(p)]
       \/ <<Last(p), target[Len(p)]>> \in NamePrefixes

\* The lookups of folder d that have filled the cache and not read it yet.
Regetting(d) == {c \in Clients : pc[c] \in {"walk", "reget"} /\ key[c] = d}

\* Whoever drops the listing of d takes it from these lookups.
Excuse(C) == excused' = excused \cup C

\* invalidate drops the listing from moka, and from a disk where a spawned
\* write may bring it back.
Invalidate(d) ==
    /\ moka' = moka \ {d}
    /\ Excuse(Regetting(d))

-----------------------------------------------------------------------------
\* get_or_insert.

\* A lookup of folder d starts.
Seek(c, d) ==
    /\ Goto(c, "get")
    /\ key' = [key EXCEPT ![c] = d]
    /\ at' = [at EXCEPT ![c] = d]
    /\ refreshed' = [refreshed EXCEPT ![c] = FALSE]
    /\ excused' = IF cloud[d] # None THEN excused \ {c} ELSE excused \cup {c}
    /\ missed' = [missed EXCEPT ![c] = FALSE]
    /\ UNCHANGED <<todo, page1>>

\* find_in_cache takes the entry of the path from the parent's listing.
FidIn(L, p) == IF L = {} THEN None ELSE (CHOOSE l \in L : TRUE)[p]

\* The request is answered, and its state is gone.
Answer(c) ==
    /\ Goto(c, "idle")
    /\ op' = [op EXCEPT ![c] = "read"]
    /\ path' = [path EXCEPT ![c] = Root]
    /\ fid' = [fid EXCEPT ![c] = None]
    /\ key' = [key EXCEPT ![c] = Root]
    /\ at' = [at EXCEPT ![c] = Root]
    /\ refreshed' = [refreshed EXCEPT ![c] = FALSE]

GoOn(c, where, f) ==
    /\ f # None
    /\ Goto(c, where)
    /\ fid' = [fid EXCEPT ![c] = f]
    /\ UNCHANGED <<op, path, key, at, refreshed>>

\* What the request does with the listing its lookup has found, or with None:
\* read_dir answers, create_dir's first get_file wants the parent and its
\* second one the path not to be there, DELETE wants the path.
Deliver(c, L) ==
    /\ missed' = [missed EXCEPT ![c] = L = {}]
    /\ \/ op[c] = "read" /\ Answer(c)
       \/ /\ op[c] = "mkdir" /\ key[c] # Parent(path[c])
          /\ LET f == FidIn(L, Parent(path[c])) IN
               \/ GoOn(c, "self", f)
               \/ f = None /\ Answer(c)
       \/ /\ op[c] = "mkdir" /\ key[c] = Parent(path[c])
          /\ IF FidIn(L, path[c]) = None THEN GoOn(c, "pre", fid[c]) ELSE Answer(c)
       \/ /\ op[c] \in {"rmdir", "rmfile"}
          /\ LET f == FidIn(L, path[c]) IN
               \/ GoOn(c, "remove", f)
               \/ f = None /\ Answer(c)
    /\ UNCHANGED <<todo, page1>>

Get(c) ==
    /\ pc[c] = "get"
    /\ \E L \in Gets(key[c]) :
         /\ Promote(key[c], L)
         /\ \/ L # {} /\ Deliver(c, L)
            \/ L = {} /\ Goto(c, "climb") /\ UNCHANGED <<lookupVars, op, path, fid>>
    /\ UNCHANGED <<cloudVars, faults, excused>>

\* dfs starts at path p, which has fid f.
Walk(c, p, f) ==
    /\ todo' = [todo EXCEPT ![c] = <<[path |-> p, fid |-> f]>>]
    /\ Goto(c, "walk")
    /\ UNCHANGED <<at, refreshed>>

\* The climb is at the root: dfs starts there.
ClimbEnds(c) ==
    /\ pc[c] = "climb"
    /\ at[c] = Root
    /\ Walk(c, Root, RootFid)
    /\ UNCHANGED <<cloudVars, faults, moka, op, path, fid, key,
                   page1, missed, excused>>

\* Mutation: a child that the listing lacks is taken for found.
FoundUnchecked(c, L) ==
    /\ L # {}
    /\ Walk(c, at[c], FidIn(L, at[c]))
    /\ Promote(Parent(at[c]), L)
    /\ UNCHANGED excused

\* One step of the climb: the parent's cached listing, L, has the child, and
\* dfs starts there ...
Found(c, L) ==
    /\ FidIn(L, at[c]) # None
    /\ Walk(c, at[c], FidIn(L, at[c]))
    /\ Promote(Parent(at[c]), L)
    /\ UNCHANGED excused

\* ... or there is no listing of the parent, and the climb goes on ...
Uncached(c, L) ==
    /\ L = {}
    /\ at' = [at EXCEPT ![c] = Parent(at[c])]
    /\ Promote(Parent(at[c]), L)
    /\ UNCHANGED <<pc, refreshed, todo, excused>>

Lacks(c, L) == L # {} /\ FidIn(L, at[c]) = None

\* Mutation: every listing that lacks the child is dropped and the climb
\* starts again, not for the first one only.
DropAlways(c, L) ==
    /\ Lacks(c, L)
    /\ moka' = moka \ {Parent(at[c])}
    /\ Excuse(Regetting(Parent(at[c])))
    /\ at' = [at EXCEPT ![c] = key[c]]
    /\ UNCHANGED <<pc, refreshed, todo>>

\* Mutation: a child that its parent's cached listing lacks is not looked for.
Believe(c, L) ==
    /\ Lacks(c, L)
    /\ Promote(Parent(at[c]), L)
    /\ Goto(c, "reget")
    /\ UNCHANGED <<at, refreshed, todo, excused>>

\* ... or it lacks the child.  The first time that listing is dropped from
\* moka and the climb starts again (from disk it may come back) ...
DropStale(c, L) ==
    /\ Lacks(c, L)
    /\ ~refreshed[c]
    /\ moka' = moka \ {Parent(at[c])}
    /\ Excuse(Regetting(Parent(at[c])))
    /\ refreshed' = [refreshed EXCEPT ![c] = TRUE]
    /\ at' = [at EXCEPT ![c] = key[c]]
    /\ UNCHANGED <<pc, todo>>

\* ... and later the climb goes on past it.
PassStale(c, L) ==
    /\ Lacks(c, L)
    /\ refreshed[c]
    /\ Promote(Parent(at[c]), L)
    /\ at' = [at EXCEPT ![c] = Parent(at[c])]
    /\ UNCHANGED <<pc, refreshed, todo, excused>>

Climb(c) ==
    /\ pc[c] = "climb"
    /\ at[c] # Root
    /\ \E L \in Gets(Parent(at[c])) :
         Found(c, L) \/ Uncached(c, L) \/ DropStale(c, L) \/ PassStale(c, L)
    /\ UNCHANGED <<cloudVars, faults, op, path, fid, key, page1, missed>>

-----------------------------------------------------------------------------
\* dfs, directory by directory and, where there are several, in two steps for the
\* first page and for the others, which are read concurrently.

Head1(c) == Head(todo[c])

Walking(c) == pc[c] = "walk" /\ todo[c] # <<>>

\* The next directory is asked for; its fid may be that of a folder long gone.
Asks(c)   == Walking(c) /\ page1[c] = {}
Exists(c) == Head1(c).fid = cloud[Head1(c).path]

\* The children in listing l that the target's path starts with.
Onward(c, l) ==
    {[path |-> p, fid |-> l[p]] :
       p \in {q \in Children(Head1(c).path) \cap Dirs :
                l[q] # None /\ StartsWith(key[c], q)}}

\* What the list API answers for d: the truth, or while it lags what there may
\* have been before.
Shown(d) == IF lagging THEN Plausible(d) ELSE {[p \in Children(d) |-> cloud[p]]}

\* Listing l hides a folder on the way to the one that c wants.
Hides(c, l) == \E p \in DOMAIN l : Within(key[c], p) /\ cloud[p] # None /\ l[p] = None

\* Listing l is cached, and dfs of the children on the way follows, in the order of
\* the listing, then what was left to do.
Listed(c, l) ==
    /\ Insert(Head1(c).path)
    /\ \E order \in SetToSeqs(IF Head1(c).path = key[c] THEN {} ELSE Onward(c, l)) :
         todo' = [todo EXCEPT ![c] = order \o Tail(todo[c])]
    /\ Excuse(IF Hides(c, l) THEN {c} ELSE {})

\* A listing of one page.
ListShort(c) ==
    /\ Asks(c) /\ Exists(c) /\ Head1(c).path \notin Long
    /\ \E l \in Shown(Head1(c).path) : Listed(c, l)
    /\ UNCHANGED <<cloudVars, faults, pc, op, path, fid, key, at, refreshed,
                   page1, missed>>

\* The first of several pages.
ListPage1(c) ==
    /\ Asks(c) /\ Exists(c) /\ Head1(c).path \in Long
    /\ \E l \in Shown(Head1(c).path) : page1' = [page1 EXCEPT ![c] = {l}]
    /\ UNCHANGED <<cloudVars, faults, moka, pc, op, path, fid, key, at,
                   refreshed, todo, missed, excused>>

\* What the other pages show by now: nothing new, when the folder is gone.
ShownLater(c, l) == IF Exists(c) THEN Shown(Head1(c).path) ELSE {l}

\* ... and the others.  A child is listed as the cloud showed it for the first page
\* or shows it now, or it is missing: on a page that failed three times, after the
\* 20th page, or moved by a change to a page that had been read.  The listing is
\* cached as if it were complete.
ListPages(c) ==
    /\ Walking(c)
    /\ \E l \in page1[c] : \E m \in ShownLater(c, l) :
         \E r \in Plausible(Head1(c).path) :
           /\ \A p \in DOMAIN r : r[p] \in {l[p], m[p], None}
           /\ Listed(c, r)
    /\ page1' = [page1 EXCEPT ![c] = {}]
    /\ UNCHANGED <<cloudVars, faults, pc, op, path, fid, key, at, refreshed, missed>>

\* The first page fails: this dfs returns and leaves the cache alone.
ListFails(c) ==
    /\ Asks(c)
    /\ faults > 0 /\ faults' = faults - 1
    /\ todo' = [todo EXCEPT ![c] = Tail(todo[c])]
    /\ Excuse({c})
    /\ UNCHANGED <<cloudVars, moka, pc, op, path, fid, key, at, refreshed,
                   page1, missed>>

\* The directory with this fid is gone (404): its listing leaves moka and dfs
\* starts again at the root, with no limit to how often: each time the calls
\* still to make get more.  (The model's lag ends when there are MaxTodo.)
List404(c) ==
    LET d == Head1(c).path IN
    /\ Asks(c) /\ ~Exists(c)
    /\ lagging => Len(todo[c]) < MaxTodo
    /\ moka' = moka \ {d}
    /\ Excuse(Regetting(d) \ {c})
    /\ todo' = [todo EXCEPT ![c] =
                  <<[path |-> Root, fid |-> RootFid]>> \o Tail(todo[c])]
    /\ UNCHANGED <<cloudVars, faults, pc, op, path, fid, key, at,
                   refreshed, page1, missed>>

\* Or the list API answers an empty list for it, as the test of a nonexistent
\* directory admits (drive/mod.rs:1225), and that is cached for the path.
ListNothing(c) ==
    /\ Asks(c) /\ ~Exists(c)
    /\ Listed(c, [p \in Children(Head1(c).path) |-> None])
    /\ UNCHANGED <<cloudVars, faults, pc, op, path, fid, key, at, refreshed,
                   page1, missed>>

\* All calls of dfs have returned.
WalkEnds(c) ==
    /\ pc[c] = "walk" /\ todo[c] = <<>>
    /\ Goto(c, "reget")
    /\ UNCHANGED <<cloudVars, faults, moka, op, path, fid, lookupVars, excused>>

\* get_or_insert answers what get finds now.
Reget(c) ==
    /\ pc[c] = "reget"
    /\ \E L \in Gets(key[c]) : Promote(key[c], L) /\ Deliver(c, L)
    /\ UNCHANGED <<cloudVars, faults, excused>>

-----------------------------------------------------------------------------
\* The requests.

Begin(c, o, p) ==
    /\ pc[c] = "idle"
    /\ op' = [op EXCEPT ![c] = o]
    /\ path' = [path EXCEPT ![c] = p]
    /\ fid' = [fid EXCEPT ![c] = RootFid]

\* read_dir
Read(c) ==
    /\ \E d \in Folders : Begin(c, "read", d) /\ Seek(c, d)
    /\ UNCHANGED <<cloudVars, faults, moka>>

\* create_dir: get_file of the parent, which for the root looks nothing up.
Mkdir(c) ==
    /\ \E p \in Dirs :
         /\ Begin(c, "mkdir", p)
         /\ Seek(c, IF Parent(p) = Root THEN Root ELSE Parent(Parent(p)))
    /\ UNCHANGED <<cloudVars, faults, moka>>

\* create_dir: get_file of the path itself.
MkdirSelf(c) ==
    /\ pc[c] = "self"
    /\ Seek(c, Parent(path[c]))
    /\ UNCHANGED <<cloudVars, faults, moka, op, path, fid>>

\* remove_dir and remove_file: get_file of the path.
Delete(c) ==
    /\ \E p \in Paths :
         /\ Begin(c, IF p \in Dirs THEN "rmdir" ELSE "rmfile", p)
         /\ Seek(c, Parent(p))
    /\ UNCHANGED <<cloudVars, faults, moka>>

\* Lookups in progress of a folder at or below d.
Below(d) == {c \in Clients : /\ pc[c] \in {"get", "climb", "walk", "reget"}
                             /\ Within(key[c], d)}

\* A folder or file is put at the free path p.
Put(p) ==
    /\ fids < MaxFids
    /\ cloud[p] = None /\ cloud[Parent(p)] # None
    /\ fids' = fids + 1
    /\ cloud' = [cloud EXCEPT ![p] = fids + 1]
    /\ had' = [had EXCEPT ![p] = had[p] \cup {fids + 1}]
    /\ lagging' = TRUE
    /\ UNCHANGED excused

\* What is at d is taken away, with what is in it.
TakeAway(d) ==
    /\ cloud' = [p \in Places |-> IF Within(p, d) THEN None ELSE cloud[p]]
    /\ lagging' = TRUE
    /\ Excuse(Below(d))
    /\ UNCHANGED <<had, fids>>

\* create_dir drops the parent's listing before the cloud call ...
MkdirInvalidates(c) ==
    /\ pc[c] = "pre"
    /\ Invalidate(Parent(path[c]))
    /\ Goto(c, "create")
    /\ UNCHANGED <<cloudVars, faults, op, path, fid, lookupVars>>

\* ... which fails for a parent that is gone or a name that is taken, or
\* answers the new fid ...
CreateFolder(c) ==
    /\ pc[c] = "create"
    /\ \/ /\ cloud[Parent(path[c])] = fid[c]
          /\ Put(path[c])
          /\ Goto(c, "push")
          /\ UNCHANGED <<op, path, fid, key, at, refreshed>>
       \/ Answer(c) /\ UNCHANGED <<cloudVars, excused>>
    /\ UNCHANGED <<faults, moka, todo, page1, missed>>

\* ... which is pushed onto a listing of the parent that is cached again.
MkdirPushes(c) ==
    LET d == Parent(path[c]) IN
    /\ pc[c] = "push"
    /\ \E L \in Gets(d) :
         \/ L = {} /\ Promote(d, L)
         \/ L # {} /\ Insert(d)
    /\ Goto(c, "own")
    /\ UNCHANGED <<cloudVars, faults, op, path, fid, lookupVars, excused>>

\* remove_file of the client: the cloud takes away what has the fid, or fails,
\* also because nothing has it any more.
RemoveInCloud(c) ==
    /\ pc[c] = "remove"
    /\ \/ /\ cloud[path[c]] = fid[c]
          /\ TakeAway(path[c])
          /\ Goto(c, IF op[c] = "rmdir" THEN "own" ELSE "above")
          /\ UNCHANGED <<op, path, fid, key, at, refreshed>>
       \/ Answer(c) /\ UNCHANGED <<cloudVars, excused>>
    /\ UNCHANGED <<faults, moka, todo, page1, missed>>

\* create_dir and remove_dir drop the listing of the path, but of nothing
\* below it ...
InvalidateOwn(c) ==
    /\ pc[c] = "own"
    /\ Invalidate(path[c])
    /\ Goto(c, "above")
    /\ UNCHANGED <<cloudVars, faults, op, path, fid, lookupVars>>

\* ... and with remove_file the listing above it, and answer.
InvalidateParent(c) ==
    /\ pc[c] = "above"
    /\ Invalidate(Parent(path[c]))
    /\ Answer(c)
    /\ UNCHANGED <<cloudVars, faults, todo, page1, missed>>

-----------------------------------------------------------------------------
\* Other clients, time and the disk.

OthersPut ==
    /\ \E p \in Paths : Put(p)
    /\ UNCHANGED <<faults, moka, requestVars>>

OthersRemove ==
    /\ \E p \in Paths : cloud[p] # None /\ TakeAway(p)
    /\ UNCHANGED <<faults, moka, requestVars>>

\* The list API shows what there is.
CatchUp ==
    /\ lagging
    /\ lagging' = FALSE
    /\ UNCHANGED <<cloud, had, fids, faults, moka, requestVars, excused>>

\* moka drops a listing: its time_to_live, or for room.
Expire ==
    /\ \E d \in Folders :
         /\ d \in moka
         /\ moka' = moka \ {d}
         /\ Excuse(Regetting(d))
    /\ UNCHANGED <<cloudVars, faults, requestVars>>

-----------------------------------------------------------------------------
Lookup(c) ==
    \/ Get(c)
    \/ ClimbEnds(c) \/ Climb(c)
    \/ ListShort(c) \/ ListPage1(c) \/ ListPages(c) \/ ListFails(c)
    \/ List404(c) \/ ListNothing(c)
    \/ WalkEnds(c) \/ Reget(c)

Handle(c) ==
    \/ Lookup(c)
    \/ MkdirSelf(c) \/ MkdirInvalidates(c) \/ CreateFolder(c) \/ MkdirPushes(c)
    \/ RemoveInCloud(c) \/ InvalidateOwn(c) \/ InvalidateParent(c)

Request(c) == Read(c) \/ Mkdir(c) \/ Delete(c)

Next ==
    \/ \E c \in Clients : Request(c) \/ Handle(c)
    \/ OthersPut \/ OthersRemove \/ CatchUp
    \/ Expire

\* Requests go on as long as they can, and the list API catches up.
Spec ==
    /\ Init /\ [][Next]_vars
    /\ \A c \in Clients : WF_vars(Handle(c))
    /\ WF_vars(CatchUp)
-----------------------------------------------------------------------------
\* Properties.

\* Every variable has its type, and each tier has at most one listing a folder.
TypeOK ==
    /\ cloud \in [Places -> None .. MaxFids]
    /\ lagging \in BOOLEAN
    /\ fids \in RootFid .. MaxFids
    /\ faults \in 0 .. MaxFaults
    /\ had \in [Paths -> SUBSET (RootFid .. MaxFids)]
    /\ moka \subseteq Folders
    /\ pc \in [Clients -> Pc]
    /\ op \in [Clients -> Ops]
    /\ path \in [Clients -> Places]
    /\ fid \in [Clients -> None .. MaxFids]
    /\ key \in [Clients -> Folders]
    /\ at \in [Clients -> Folders]
    /\ refreshed \in [Clients -> BOOLEAN]
    /\ todo \in [Clients -> Seq([path : Folders, fid : RootFid .. MaxFids])]
    /\ page1 \in [Clients -> SUBSET Listings]
    /\ missed \in [Clients -> BOOLEAN]
    /\ excused \subseteq Clients

\* get_or_insert answers None only for a folder that at some moment of the
\* lookup was not in the drive, when a list call of this lookup failed or hid a
\* folder on the way (by the API's lag, on a lost page, or with an empty list for
\* a fid that is gone, to which an old cached listing may lead), or when its fresh
\* listing was dropped under it.  The old listings it comes across do not hide a
\* folder by themselves (cache.rs:134, "force a refresh of the parent").
NotFoundOnlyIfAbsent == \A c \in Clients : missed[c] => c \in excused

\* Every lookup ends, although stale listings come back from disk and a 404
\* sends dfs back to the root without a limit.
LookupsEnd ==
    \A c \in Clients :
        pc[c] \in {"get", "climb", "walk", "reget"} ~>
        pc[c] \notin {"get", "climb", "walk", "reget"}
=============================================================================
