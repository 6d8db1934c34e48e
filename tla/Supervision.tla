------------------------------ MODULE Supervision ------------------------------
(***************************************************************************)
(* What keeps the service running: main starts the two servers and the     *)
(* mount; in full mode the health loop and its repair, the watchdog that   *)
(* respawns the servers, the tray and the signal handler; in serve-only    *)
(* mode the mount supervisor.  The admin server runs the same check and    *)
(* repair beside the loop.                                                 *)
(*                                                                         *)
(* Timers are not counted: a step that waits for one may come at any time. *)
(* Connections outlive the accept loops the watchdog aborts, and hold none *)
(* of the state here.                                                      *)
(***************************************************************************)
EXTENDS Naturals

CONSTANT MaxMishaps     \* bound on what the environment does to the service

ASSUME SupervisionAssumption == MaxMishaps \in Nat

Servers  == {"backend", "proxy"}
Checkers == {"loop", "admin"}

VARIABLES
    mode,
    main,           \* where main stands
    server,         \* the task of each server
    slots,          \* server_slots holds the tasks' handles
    watchdog,
    checker,        \* check and repair, in the health loop and for /api/repair
    cookies_ok,     \* the cookie store holds one of the expected keys
    refreshing,     \* or is being replaced
    mounts,         \* mounts on the mount point, one on top of the other
    supervisor,     \* mount_supervisor_loop
    cooling,        \* less than 8 s since last_action
    signal,         \* the signal handler
    launcher,       \* where the launcher of serve-only mode stands
    mishaps,
    crossed,        \* history: two mounters have worked at the same time, or one
                    \* could not look
    excused         \* history: the supervisor's last check could not run, or a
                    \* mount has come after it

servers     == <<server, slots, watchdog>>
cookies     == <<cookies_ok, refreshing>>
mounter     == <<mounts, supervisor, cooling, launcher, crossed, excused>>
serviceVars == <<mode, main, servers, checker, cookies, mounter, signal, mishaps>>

Running == main \in {"running", "quitting"}

-----------------------------------------------------------------------------
\* Serve-only mode spawns both servers first, full mode the proxy once the
\* backend listens.
Spawned(m) == [s \in Servers |-> IF s = "proxy" /\ m = "full" THEN "none" ELSE "starting"]

\* The cookies are those of the command line or of a browser.
ServiceInit ==
    /\ mode \in {"full", "serve_only"}
    /\ main = "backend"
    /\ server = Spawned(mode)
    /\ slots = FALSE /\ watchdog = "waiting"
    /\ checker = [c \in Checkers |-> "idle"]
    /\ cookies_ok \in BOOLEAN /\ refreshing = FALSE
    /\ mounts = 0
    /\ supervisor = "grace" /\ cooling = FALSE
    /\ launcher = IF mode = "serve_only" THEN "started" ELSE "done"
    /\ signal = "armed"
    /\ mishaps = 0
    /\ crossed = FALSE /\ excused = FALSE

Mishap == mishaps < MaxMishaps /\ mishaps' = mishaps + 1

\* /sbin/mount: that it cannot be run reads as "not mounted".
IsMounted(b) ==
    \/ b = (mounts > 0) /\ UNCHANGED mishaps
    \/ ~b /\ mounts > 0 /\ Mishap

\* Those that have found nothing mounted and are about to mount.
Mounting ==
    {c \in Checkers : checker[c] = "mounting"}
        \cup {m \in {"main"} : main = "mounting"}
        \cup {s \in {"supervisor"} : supervisor \in {"clear", "cleared"}}
        \cup {l \in {"launcher"} : launcher = "mounting"}

SetOut == crossed' = (crossed \/ Mounting # {} \/ mounts > 0)

\* mount_webdav succeeds, on top of what is mounted, or fails.
MountWebdav ==
    \/ /\ mounts' = IF mounts < 2 THEN mounts + 1 ELSE mounts
       /\ excused' = (excused \/ supervisor = "clear")
       /\ UNCHANGED mishaps
    \/ Mishap /\ UNCHANGED <<mounts, excused>>

-----------------------------------------------------------------------------
\* main, up to the point where it blocks.

MainGoto(m) == main' = m

\* wait_for_port on the backend; what happens to the backend meanwhile is a fault.
BackendReady ==
    /\ main = "backend"
    /\ \/ /\ server["backend"] = "up"
          /\ MainGoto("proxy")
          /\ server' = IF mode = "full" THEN [server EXCEPT !["proxy"] = "starting"]
                                        ELSE server
       \/ server["backend"] = "ended" /\ MainGoto("ended") /\ UNCHANGED server
    /\ UNCHANGED <<mode, slots, watchdog, checker, cookies, mounter, signal, mishaps>>

\* wait_for_port on the proxy.  Full mode keeps the handles.
ProxyReady ==
    /\ main = "proxy"
    /\ \/ /\ server["proxy"] = "up"
          /\ MainGoto("warming")
          /\ slots' = (mode = "full")
       \/ server["proxy"] = "ended" /\ MainGoto("ended") /\ UNCHANGED slots
    /\ UNCHANGED <<mode, server, watchdog, checker, cookies, mounter, signal, mishaps>>

\* PROPFINDs of the root come to an end, answered or not.  Full mode then looks
\* whether something is mounted already, serve-only mode starts the supervisor.
WarmRoot ==
    /\ main = "warming"
    /\ \/ mode = "serve_only" /\ MainGoto("running") /\ UNCHANGED mishaps
       \/ mode = "full" /\ IsMounted(TRUE) /\ MainGoto("running")
       \/ mode = "full" /\ IsMounted(FALSE) /\ MainGoto("mounting")
    /\ UNCHANGED <<mode, servers, checker, cookies, mounter, signal>>

\* The mount of the start; that it fails blocks nothing.
MainMounts ==
    /\ main = "mounting"
    /\ MountWebdav
    /\ MainGoto("running")
    /\ UNCHANGED <<mode, servers, checker, cookies, supervisor, cooling, launcher,
                   crossed, signal>>

\* Serve-only mode ends with either of its servers.
ServerExited ==
    /\ main = "running" /\ mode = "serve_only"
    /\ \E s \in Servers : server[s] = "ended"
    /\ MainGoto("ended")
    /\ UNCHANGED <<mode, servers, checker, cookies, mounter, signal, mishaps>>

\* The tray's quit entry: the mount point is unmounted, whether that works or not,
\* and the handles are aborted with the process.
Quit ==
    /\ main = "running" /\ mode = "full"
    /\ MainGoto("quitting")
    /\ UNCHANGED <<mode, servers, checker, cookies, mounter, signal, mishaps>>

\* Mutation: umount without a look at what is mounted.
UnmountBlindly == mounts' = mounts - 1 /\ UNCHANGED mishaps

\* unmount: umount takes the topmost mount, if the look finds one.
Unmount ==
    \/ mounts' = (IF mounts = 0 THEN 0 ELSE mounts - 1) /\ UNCHANGED mishaps
    \/ Mishap /\ UNCHANGED mounts

QuitUnmounts ==
    /\ main = "quitting"
    /\ Unmount
    /\ MainGoto("ended")
    /\ server' = [s \in Servers |-> "none"]
    /\ slots' = FALSE
    /\ UNCHANGED <<mode, watchdog, checker, cookies, supervisor, cooling, launcher,
                   crossed, excused, signal>>

\* SIGTERM or SIGINT, the first one in full mode: unmount, and notify_waiters on
\* shutdown, on which nobody waits.  In serve-only mode no handler is installed.
Signal ==
    /\ signal = "armed" /\ Running
    /\ signal' = "received"
    /\ IF mode = "serve_only" THEN MainGoto("ended") ELSE UNCHANGED main
    /\ UNCHANGED <<mode, servers, checker, cookies, mounter, mishaps>>

SignalUnmounts ==
    /\ signal = "received" /\ mode = "full" /\ Running
    /\ Unmount
    /\ signal' = "notified"
    /\ UNCHANGED <<mode, main, servers, checker, cookies, supervisor, cooling, launcher,
                   crossed, excused>>

-----------------------------------------------------------------------------
\* The servers.

\* A server binds its port and accepts; the bind may fail.
Bind(s) ==
    /\ server[s] = "starting" /\ main # "ended"
    /\ \/ server' = [server EXCEPT ![s] = "up"] /\ UNCHANGED mishaps
       \/ server' = [server EXCEPT ![s] = "ended"] /\ Mishap
    /\ UNCHANGED <<mode, main, slots, watchdog, checker, cookies, mounter, signal>>

\* serve reads the certificates, binds, accepts ...
BindBackend == Bind("backend")

\* ... and so does run.
BindProxy == Bind("proxy")

\* Either may stop answering.  An error of accept ends the backend; the proxy
\* accepts on, as long as it lives.
Broken(s) == IF s = "backend" THEN {"ended", "hung"} ELSE {"hung"}

Breaks(s) ==
    /\ server[s] = "up" /\ main \in {"warming", "mounting", "running", "quitting"} /\ Mishap
    /\ \E x \in Broken(s) : server' = [server EXCEPT ![s] = x]
    /\ UNCHANGED <<mode, main, slots, watchdog, checker, cookies, mounter, signal>>

WatchdogGoto(w) == watchdog' = w

\* The handles are taken and aborted.
AbortServers ==
    /\ watchdog = "woken" /\ Running
    /\ server' = IF slots THEN [s \in Servers |-> "none"] ELSE server
    /\ slots' = FALSE
    /\ WatchdogGoto("aborted")
    /\ UNCHANGED <<mode, main, checker, cookies, mounter, signal, mishaps>>

\* Mutation: the new handles are not kept.
RespawnUnkept ==
    /\ watchdog = "aborted" /\ Running
    /\ server' = [s \in Servers |->
                    IF server[s] \in {"up", "hung"} THEN server[s] ELSE "starting"]
    /\ WatchdogGoto("ports")
    /\ UNCHANGED <<mode, main, slots, checker, cookies, mounter, signal, mishaps>>

\* A second later both are spawned again from their templates; where a task still
\* holds the port, the new one cannot bind and only its handle is kept.
Respawn ==
    /\ watchdog = "aborted" /\ Running
    /\ server' = [s \in Servers |->
                    IF server[s] \in {"up", "hung"} THEN server[s] ELSE "starting"]
    /\ slots' = TRUE
    /\ WatchdogGoto("ports")
    /\ UNCHANGED <<mode, main, checker, cookies, mounter, signal, mishaps>>

\* wait_for_port, twice, long enough for the binds; a timeout is only logged.
PortsAwaited ==
    /\ watchdog = "ports" /\ Running
    /\ \A s \in Servers : server[s] # "starting"
    /\ WatchdogGoto("waiting")
    /\ UNCHANGED <<mode, main, server, slots, checker, cookies, mounter, signal, mishaps>>

-----------------------------------------------------------------------------
\* check and repair.

CheckerGoto(c, p) == checker' = [checker EXCEPT ![c] = p]

Serving == \A s \in Servers : server[s] = "up"
Settled == watchdog = "waiting" /\ \A s \in Servers : server[s] # "starting"

\* The loop of full mode ticks, its period longer than a respawn takes, but ticks it
\* has missed come at once; ...
LoopTicks ==
    /\ mode = "full"
    /\ \/ Settled /\ UNCHANGED mishaps
       \/ ~Settled /\ Mishap

\* ... or the admin server is asked for a repair.
AdminAsks == Mishap

Starts(c) == (c = "loop" /\ LoopTicks) \/ (c = "admin" /\ AdminAsks)

\* Missing cookies come first: nothing else is repaired then.  A replace under way
\* shows an empty store.
CheckCookies(c) ==
    /\ checker[c] = "idle" /\ Running
    /\ Starts(c)
    /\ \/ cookies_ok /\ CheckerGoto(c, "probe")
       \/ (~cookies_ok \/ refreshing) /\ CheckerGoto(c, "CookieMissing")
    /\ UNCHANGED <<mode, main, servers, cookies, mounter, signal>>

\* OPTIONS, through the proxy, to the backend.
ProbeWebdav(c) ==
    /\ checker[c] = "probe" /\ Running
    /\ CheckerGoto(c, IF Serving THEN "look" ELSE "WebDavUnreachable")
    /\ UNCHANGED <<mode, main, servers, cookies, mounter, signal, mishaps>>

LookForMount(c) ==
    /\ checker[c] = "look" /\ Running
    /\ \/ IsMounted(TRUE) /\ CheckerGoto(c, "idle")
       \/ IsMounted(FALSE) /\ CheckerGoto(c, "MountMissing")
    /\ UNCHANGED <<mode, main, servers, cookies, mounter, signal>>

\* repair of CookieMissing: a browser has cookies, which replace those of the
\* store, or none has.
RefreshCookies(c) ==
    /\ checker[c] = "CookieMissing" /\ Running
    /\ CheckerGoto(c, "idle")
    /\ cookies_ok' \in {cookies_ok, TRUE}
    /\ UNCHANGED <<mode, main, servers, refreshing, mounter, signal, mishaps>>

\* The refresh task, the tray's and the admin page's entries: replace clears the
\* store, then fills it.
ReplaceClears ==
    /\ Running /\ ~refreshing /\ Mishap
    /\ refreshing' = TRUE
    /\ UNCHANGED <<mode, main, servers, checker, cookies_ok, mounter, signal>>

ReplaceFills ==
    /\ refreshing
    /\ refreshing' = FALSE /\ cookies_ok' = TRUE
    /\ UNCHANGED <<mode, main, servers, checker, mounter, signal, mishaps>>

\* repair of WebDavUnreachable: notify_waiters reaches the watchdog only where it
\* waits, and in serve-only mode there is none.
RestartWebdav(c) ==
    /\ checker[c] = "WebDavUnreachable" /\ Running
    /\ CheckerGoto(c, "idle")
    /\ IF watchdog = "waiting" /\ mode = "full" THEN WatchdogGoto("woken")
                                              ELSE UNCHANGED watchdog
    /\ UNCHANGED <<mode, main, server, slots, cookies, mounter, signal, mishaps>>

\* Mutation: mount without a look at what is mounted.
RemountBlindly(c) ==
    /\ checker[c] = "MountMissing" /\ Running
    /\ CheckerGoto(c, "mounting")
    /\ UNCHANGED <<mode, main, servers, cookies, mounts, supervisor, cooling, launcher,
                   crossed, excused, signal, mishaps>>

\* repair of MountMissing: mount looks once more, prepares the keychain, mounts.
Remount(c) ==
    /\ checker[c] = "MountMissing" /\ Running
    /\ \/ IsMounted(TRUE) /\ CheckerGoto(c, "idle") /\ UNCHANGED crossed
       \/ IsMounted(FALSE) /\ CheckerGoto(c, "mounting") /\ SetOut
    /\ UNCHANGED <<mode, main, servers, cookies, mounts, supervisor, cooling, launcher,
                   excused, signal>>

CheckerMounts(c) ==
    /\ checker[c] = "mounting"
    /\ MountWebdav
    /\ CheckerGoto(c, "idle")
    /\ UNCHANGED <<mode, main, servers, cookies, supervisor, cooling, launcher,
                   crossed, signal>>

-----------------------------------------------------------------------------
\* mount_supervisor_loop.

SupervisorGoto(p) == supervisor' = p

\* 15 s after its start it looks for the first time, then every 3 s; what it finds
\* missing it looks for again 2 s later, unless it has just acted.
SupervisorLooks ==
    /\ supervisor \in {"grace", "watch"} /\ main = "running" /\ mode = "serve_only"
    /\ \/ IsMounted(TRUE) /\ SupervisorGoto("watch")
       \/ IsMounted(FALSE) /\ SupervisorGoto(IF cooling THEN "watch" ELSE "missing")
    /\ UNCHANGED <<mode, main, servers, checker, cookies, mounts, cooling, launcher,
                   crossed, excused, signal>>

\* Mutation: no second look.
ActAtOnce ==
    /\ supervisor = "missing" /\ main = "running"
    /\ SupervisorGoto("clear") /\ SetOut /\ excused' = FALSE
    /\ UNCHANGED <<mode, main, servers, checker, cookies, mounts, cooling, launcher,
                   signal, mishaps>>

LookAgain ==
    /\ supervisor = "missing" /\ main = "running"
    /\ \/ /\ IsMounted(TRUE)
          /\ SupervisorGoto("watch") /\ cooling' = TRUE
          /\ UNCHANGED <<crossed, excused>>
       \/ /\ IsMounted(FALSE)
          /\ SupervisorGoto("clear") /\ SetOut /\ excused' = (mounts > 0)
          /\ UNCHANGED cooling
    /\ UNCHANGED <<mode, main, servers, checker, cookies, mounts, launcher, signal>>

\* pkill of the agent and a forced unmount: no mount survives, or the unmount fails,
\* which is ignored.
ForceUnmount ==
    /\ supervisor = "clear" /\ main = "running"
    /\ \/ mounts' = 0 /\ UNCHANGED mishaps
       \/ mounts > 0 /\ Mishap /\ UNCHANGED mounts
    /\ SupervisorGoto("cleared")
    /\ UNCHANGED <<mode, main, servers, checker, cookies, cooling, launcher, crossed,
                   excused, signal>>

\* Mutation: the supervisor ends where it cannot mount.
MountOrGiveUp ==
    /\ supervisor = "cleared" /\ main = "running"
    /\ MountWebdav
    /\ SupervisorGoto(IF mounts' = 0 THEN "ended" ELSE "watch") /\ cooling' = TRUE
    /\ UNCHANGED <<mode, main, servers, checker, cookies, launcher, crossed, signal>>

\* 1.5 s later the helper prepares the mount point, and it is mounted.
SupervisorMounts ==
    /\ supervisor = "cleared" /\ main = "running"
    /\ MountWebdav
    /\ SupervisorGoto("watch") /\ cooling' = TRUE
    /\ UNCHANGED <<mode, main, servers, checker, cookies, launcher, crossed, signal>>

CoolDown ==
    /\ cooling /\ main = "running"
    /\ cooling' = FALSE
    /\ UNCHANGED <<mode, main, servers, checker, cookies, mounts, supervisor, launcher,
                   crossed, excused, signal, mishaps>>

\* The script that starts serve-only mode mounts once it sees the proxy listen, sooner
\* or later, if it finds nothing mounted.
LauncherLooks ==
    /\ launcher = "started" /\ server["proxy"] = "up"
    /\ Running \/ main = "warming"
    /\ \/ IsMounted(TRUE) /\ launcher' = "done" /\ UNCHANGED crossed
       \/ IsMounted(FALSE) /\ launcher' = "mounting" /\ SetOut
    /\ UNCHANGED <<mode, main, servers, checker, cookies, mounts, supervisor, cooling,
                   excused, signal>>

LauncherMounts ==
    /\ launcher = "mounting"
    /\ launcher' = "done"
    /\ MountWebdav
    /\ UNCHANGED <<mode, main, servers, checker, cookies, supervisor, cooling,
                   crossed, signal>>

\* The user or the system takes a mount away.
MountLost ==
    /\ mounts > 0 /\ Running /\ Mishap
    /\ mounts' = mounts - 1
    /\ UNCHANGED <<mode, main, servers, checker, cookies, supervisor, cooling, launcher,
                   crossed, excused, signal>>

-----------------------------------------------------------------------------
MainStep ==
    BackendReady \/ ProxyReady \/ WarmRoot \/ MainMounts \/ ServerExited \/ QuitUnmounts
StopStep  == Quit \/ Signal \/ SignalUnmounts
WatchStep == AbortServers \/ Respawn \/ PortsAwaited
CheckStep(c) ==
    CheckCookies(c) \/ ProbeWebdav(c) \/ LookForMount(c) \/ RefreshCookies(c)
        \/ RestartWebdav(c) \/ Remount(c) \/ CheckerMounts(c)
SuperviseStep ==
    SupervisorLooks \/ LookAgain \/ ForceUnmount \/ SupervisorMounts

ServiceNext ==
    \/ MainStep \/ StopStep \/ WatchStep \/ SuperviseStep \/ CoolDown
    \/ BindBackend \/ BindProxy
    \/ \E s \in Servers : Breaks(s)
    \/ \E c \in Checkers : CheckStep(c)
    \/ ReplaceClears \/ ReplaceFills
    \/ LauncherLooks \/ LauncherMounts \/ MountLost

\* The tasks run, the loops' timers fire and the commands they start end.
Fairness ==
    /\ WF_serviceVars(MainStep) /\ WF_serviceVars(SignalUnmounts)
    /\ WF_serviceVars(WatchStep) /\ WF_serviceVars(SuperviseStep)
    /\ WF_serviceVars(CoolDown) /\ WF_serviceVars(ReplaceFills)
    /\ WF_serviceVars(BindBackend) /\ WF_serviceVars(BindProxy)
    /\ \A c \in Checkers : WF_serviceVars(CheckStep(c))

ServiceSpec == ServiceInit /\ [][ServiceNext]_serviceVars /\ Fairness

-----------------------------------------------------------------------------
\* Properties.

\* Every variable has its type, and a mount is stacked at most once.
ServiceTypeOK ==
    /\ mode \in {"full", "serve_only"}
    /\ main \in {"backend", "proxy", "warming", "mounting", "running", "quitting", "ended"}
    /\ server \in [Servers -> {"none", "starting", "up", "hung", "ended"}]
    /\ slots \in BOOLEAN /\ watchdog \in {"waiting", "woken", "aborted", "ports"}
    /\ checker \in [Checkers -> {"idle", "probe", "look", "CookieMissing",
                                 "WebDavUnreachable", "MountMissing", "mounting"}]
    /\ cookies_ok \in BOOLEAN /\ refreshing \in BOOLEAN
    /\ mounts \in 0 .. 2
    /\ supervisor \in {"grace", "watch", "missing", "clear", "cleared"}
    /\ cooling \in BOOLEAN /\ launcher \in {"started", "mounting", "done"}
    /\ signal \in {"armed", "received", "notified"}
    /\ mishaps \in 0 .. MaxMishaps
    /\ crossed \in BOOLEAN /\ excused \in BOOLEAN

\* Two mounts lie on the mount point only after two mounters have worked at the
\* same time, or one could not run /sbin/mount: each looks first, but nothing holds
\* the others back until it has mounted.
StackedOnlyByOverlap == mounts = 2 => crossed

\* The supervisor does not tear down a mount that was there when it looked for the
\* second time: only one that came in the moment after, or when it could not look.
SparesLiveMount ==
    [][supervisor = "clear" /\ supervisor' = "cleared" /\ mounts > 0 => excused]_serviceVars

\* In full mode servers that crash or hang serve again for good once nothing more
\* happens to them, also where a restart was requested while the watchdog was busy
\* and its signal is lost: if the cookies are there, which the loop repairs first.
ServersRecover ==
    mode = "full" /\ <>[]cookies_ok => <>[](Serving \/ main = "ended")

\* So does a mount that is lost, even after a signal: by the supervisor in
\* serve-only mode, by the health loop in full mode.
MountRecovers ==
    (mode = "full" => <>[]cookies_ok) => <>[](mounts > 0 \/ main = "ended")
=============================================================================
