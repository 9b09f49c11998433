------------------------------- MODULE Daemon --------------------------------
(***************************************************************************)
(* The life of shed-sidecard: main of cmd/sidecard, from loading the       *)
(* configuration to the shutdown, and what it shares with other daemons of *)
(* the machine: the TCP port, the socket file, the configuration file.     *)
(* One daemon is the systemd unit of install.sh; an operator may start     *)
(* others by hand.  gRPC's server, signals and systemd are external; what  *)
(* systemd does to its unit is what the unit asks of it, and its defaults. *)
(***************************************************************************)
EXTENDS Config, FiniteSets

CONSTANTS
    Daemons,     \* the daemons
    Unit,        \* the one that systemd runs
    Files,       \* what the configuration file may hold
    Calls,       \* the gRPC calls that may be in flight
    StartLimit,  \* how often systemd starts the unit in an interval (5 in 10 s)
    MaxEvents,   \* bound: what operators do and what fails, in all
    None,        \* no daemon, no file
    NoDir,       \* no file, and no directory to make one in
    Stale,       \* a socket file nobody listens on
    Cut          \* a call that ended without an answer

ASSUME DaemonAssumption ==
    /\ Unit \in Daemons
    /\ {None, NoDir, Stale, Cut} \cap Daemons = {}
    /\ None \notin {NoDir, Cut}
ASSUME FilesAssumption == \A f \in Files : IsFile(f)
ASSUME EventsAssumption == MaxEvents \in Nat
ASSUME StartLimitAssumption == StartLimit \in Nat \ {0}

VARIABLES
    file,        \* what the configuration file holds
    loaded,      \* what it held when each daemon loaded it
    pc,          \* where each daemon is in main
    open,        \* the listeners it has open: "tcp", "unix"
    why,         \* what it has been sent to stop: "signal", "error"
    exit,        \* how it ended last
    socketFile,  \* at each path: the daemon listening there, Stale, None, NoDir
    call,        \* each call: the daemon that runs it, None or Cut
    events,      \* how many events there were
    robbed,      \* history: others took the socket file of this daemon away
    starts       \* how often systemd has started the unit in this interval

ownVars == <<loaded, pc, open, why, exit>>
vars == <<file, loaded, pc, open, why, exit, socketFile, call, events, robbed, starts>>

Sockets == {Load(f).socket : f \in {g \in Files : ~LoadFails(g)}}

Port(d) == Load(loaded[d]).port
Socket(d) == Load(loaded[d]).socket

RuntimeDir == <<"/", "run", "sidecar">>

\* path is dir, or lies somewhere below it.
Within(path, dir) == Len(path) >= Len(dir) /\ SubSeq(path, 1, Len(dir)) = dir

Dir(path) == SubSeq(path, 1, Len(path) - 1)

\* The paths once the directory dir has been made, and those it lies in.
WithDir(dir) ==
    [s \in Sockets |->
        IF socketFile[s] = NoDir /\ Within(dir, Dir(s)) THEN None ELSE socketFile[s]]

Init ==
    /\ file \in Files
    /\ loaded = [d \in Daemons |-> None]
    /\ pc = [d \in Daemons |-> "down"]
    /\ open = [d \in Daemons |-> {}]
    /\ why = [d \in Daemons |-> {}]
    /\ exit = [d \in Daemons |-> "none"]
    /\ socketFile = [s \in Sockets |-> NoDir]
    /\ call = [c \in Calls |-> None]
    /\ events = 0
    /\ robbed = [d \in Daemons |-> FALSE]
    /\ starts = 0

Event == events < MaxEvents /\ events' = events + 1

\* The process ends.  os.Exit and a kill run no deferred function: the socket
\* file stays behind, and the calls in flight are cut.  The unit is not down
\* before systemd has cleaned up after it.
Exit(d, how) ==
    /\ pc' = [pc EXCEPT ![d] = IF d = Unit THEN "ended" ELSE "down"]
    /\ exit' = [exit EXCEPT ![d] = how]
    /\ open' = [open EXCEPT ![d] = {}]
    /\ loaded' = [loaded EXCEPT ![d] = None]
    /\ socketFile' = [s \in Sockets |-> IF socketFile[s] = d THEN Stale ELSE socketFile[s]]
    /\ call' = [c \in Calls |-> IF call[c] = d THEN Cut ELSE call[c]]
    /\ robbed' = [robbed EXCEPT ![d] = FALSE]
    /\ UNCHANGED <<file, why, starts>>

\* main goes on to its next step.
Goto(d, step) == pc' = [pc EXCEPT ![d] = step]

-----------------------------------------------------------------------------
(* Starting. *)

\* systemd makes the runtime directory of its unit first, and counts its starts,
\* from one again if the interval is over.
Begin(d) ==
    /\ pc[d] = "down"
    /\ Goto(d, "prepare")
    /\ why' = [why EXCEPT ![d] = {}]
    /\ IF d = Unit
       THEN /\ \/ starts' = 1
               \/ starts < StartLimit /\ starts' = starts + 1
            /\ socketFile' = WithDir(RuntimeDir)
       ELSE UNCHANGED <<socketFile, starts>>
    /\ UNCHANGED <<file, loaded, open, exit, call, robbed>>

\* Mutant: the old socket file is removed before the port is bound.
PrepareRemoves(d) ==
    /\ pc[d] = "prepare"
    /\ ~LoadFails(file)
    /\ loaded' = [loaded EXCEPT ![d] = file]
    /\ socketFile' = [WithDir(Dir(Load(file).socket)) EXCEPT ![Load(file).socket] = None]
    /\ Goto(d, "tcp")
    /\ UNCHANGED <<file, open, why, exit, call, events, robbed, starts>>

\* The configuration is loaded; bus, database and Docker client are opened.
Prepare(d) ==
    /\ pc[d] = "prepare"
    /\ ~LoadFails(file)
    /\ loaded' = [loaded EXCEPT ![d] = file]
    /\ Goto(d, "tcp")
    /\ UNCHANGED <<file, open, why, exit, socketFile, call, events, robbed, starts>>

PrepareRefused(d) ==
    /\ pc[d] = "prepare"
    /\ LoadFails(file)
    /\ Exit(d, "failed")
    /\ UNCHANGED events

\* The ports that can be listened on by their number.
TCPPorts == 1..65535

PortFree(d) ==
    /\ Port(d) \in TCPPorts
    /\ \A e \in Daemons : "tcp" \in open[e] => Port(e) # Port(d)

ListenTCP(d) ==
    /\ pc[d] = "tcp"
    /\ PortFree(d)
    /\ open' = [open EXCEPT ![d] = @ \cup {"tcp"}]
    /\ Goto(d, "remove")
    /\ UNCHANGED <<file, loaded, why, exit, socketFile, call, events, robbed, starts>>

ListenTCPRefused(d) ==
    /\ pc[d] = "tcp"
    /\ ~PortFree(d)
    /\ Exit(d, "failed")
    /\ UNCHANGED events

\* Mutant: a socket file that is there is left alone.
KeepSocket(d) ==
    /\ pc[d] = "remove"
    /\ socketFile' = WithDir(Dir(Socket(d)))
    /\ Goto(d, "unix")
    /\ UNCHANGED <<file, loaded, open, why, exit, call, events, robbed, starts>>

\* The directory is made and the old socket file removed, whoever listens on
\* it.  History: a daemon on another port may be serving there.
RemoveSocket(d) ==
    /\ pc[d] = "remove"
    /\ socketFile' = [WithDir(Dir(Socket(d))) EXCEPT ![Socket(d)] = None]
    /\ Goto(d, "unix")
    /\ robbed' = [e \in Daemons |->
          robbed[e] \/ (socketFile[Socket(d)] = e /\ Port(e) # Port(d))]
    /\ UNCHANGED <<file, loaded, open, why, exit, call, events, starts>>

ListenUnix(d) ==
    /\ pc[d] = "unix"
    /\ socketFile[Socket(d)] = None
    /\ socketFile' = [socketFile EXCEPT ![Socket(d)] = d]
    /\ open' = [open EXCEPT ![d] = @ \cup {"unix"}]
    /\ Goto(d, "spawn")
    /\ UNCHANGED <<file, loaded, why, exit, call, events, robbed, starts>>

ListenUnixRefused(d) ==
    /\ pc[d] = "unix"
    /\ socketFile[Socket(d)] # None
    /\ Exit(d, "failed")
    /\ UNCHANGED events

\* There may be no file any more, or another daemon's.
HasFile(path) == socketFile[path] \notin {None, NoDir}

\* The mode is set and both listeners are served ...
Spawn(d) ==
    /\ pc[d] = "spawn"
    /\ HasFile(Socket(d))
    /\ Goto(d, "notify")
    /\ UNCHANGED <<file, loaded, open, why, exit, socketFile, call, events, robbed, starts>>

SpawnRefused(d) ==
    /\ pc[d] = "spawn"
    /\ ~HasFile(Socket(d))
    /\ Exit(d, "failed")
    /\ UNCHANGED events

\* ... before signals are asked for.
Notify(d) ==
    /\ pc[d] = "notify"
    /\ Goto(d, "serving")
    /\ UNCHANGED <<file, loaded, open, why, exit, socketFile, call, events, robbed, starts>>

\* Mutant: main returns, and the process ends with status 0.
StartFailsQuietly(d) ==
    /\ pc[d] \in {"prepare", "tcp", "remove", "unix", "spawn"}
    /\ Exit(d, "clean")
    /\ Event

\* A step fails for a reason of its own: os.Exit(1).
StartFails(d) ==
    /\ pc[d] \in {"prepare", "tcp", "remove", "unix", "spawn"}
    /\ Exit(d, "failed")
    /\ Event

-----------------------------------------------------------------------------
(* Serving and stopping. *)

Serves(d) == pc[d] \in {"notify", "serving"}

\* A call comes in by the port, or by the socket file.
Accept(c, d) ==
    /\ call[c] \in {None, Cut}
    /\ Serves(d)
    /\ "tcp" \in open[d] \/ ("unix" \in open[d] /\ socketFile[Socket(d)] = d)
    /\ call' = [call EXCEPT ![c] = d]
    /\ UNCHANGED <<file, ownVars, socketFile, events, robbed, starts>>

\* Its handler returns, and the client has its answer.
Answer(c) ==
    /\ call[c] \in Daemons
    /\ call' = [call EXCEPT ![c] = None]
    /\ UNCHANGED <<file, ownVars, socketFile, events, robbed, starts>>

\* Closing a Unix listener unlinks its path, whoever listens there by now.
Close(d, listener) ==
    /\ open' = [open EXCEPT ![d] = @ \ {listener}]
    /\ IF listener = "unix"
       THEN /\ socketFile' = [socketFile EXCEPT ![Socket(d)] = IF @ = NoDir THEN NoDir ELSE None]
            /\ robbed' = [e \in Daemons |-> robbed[e] \/ (e # d /\ socketFile[Socket(d)] = e)]
       ELSE UNCHANGED <<socketFile, robbed>>

\* Serve closes its listener and its error is sent to main.
ServeFails(d) ==
    /\ Serves(d)
    /\ \E listener \in open[d] : Close(d, listener)
    /\ why' = [why EXCEPT ![d] = @ \cup {"error"}]
    /\ Event
    /\ UNCHANGED <<file, loaded, pc, exit, call, starts>>

\* The first signal or error: GracefulStop begins, no call is accepted.
Stop(d) ==
    /\ pc[d] = "serving"
    /\ why[d] # {}
    /\ Goto(d, "stopping")
    /\ UNCHANGED <<file, loaded, open, why, exit, socketFile, call, events, robbed, starts>>

\* It closes the listeners, in any order.
CloseListener(d) ==
    /\ pc[d] = "stopping"
    /\ \E listener \in open[d] : Close(d, listener)
    /\ UNCHANGED <<file, loaded, pc, why, exit, call, events, starts>>

\* Mutant: main does not wait until GracefulStop has returned.
ReturnAtOnce(d) ==
    /\ pc[d] = "stopping"
    /\ open[d] = {}
    /\ Exit(d, "clean")
    /\ UNCHANGED events

\* The last call has been answered: main returns.
Return(d) ==
    /\ pc[d] = "stopping"
    /\ open[d] = {}
    /\ \A c \in Calls : call[c] # d
    /\ Exit(d, "clean")
    /\ UNCHANGED events

\* Mutant: there is no time limit.
WaitOn(d) == FALSE

\* Ten seconds have passed: Stop cuts the calls, and main returns.
TimeOut(d) ==
    /\ pc[d] = "stopping"
    /\ open[d] = {}
    /\ Exit(d, "late")
    /\ UNCHANGED events

-----------------------------------------------------------------------------
(* The machine. *)

\* RuntimeDirectory=sidecar: however the unit has ended, the directory goes, and
\* with it every socket file in it, whoever listens there.
CleanUp ==
    /\ pc[Unit] = "ended"
    /\ Goto(Unit, "down")
    /\ socketFile' = [s \in Sockets |->
          IF Within(Dir(s), RuntimeDir) THEN NoDir ELSE socketFile[s]]
    /\ robbed' = [d \in Daemons |->
          robbed[d] \/ \E s \in Sockets : Within(Dir(s), RuntimeDir) /\ socketFile[s] = d]
    /\ UNCHANGED <<file, loaded, open, why, exit, call, events, starts>>

\* systemd is about to start its unit again.
ToRestart == pc[Unit] = "down" /\ exit[Unit] \in {"failed", "killed"}

\* An operator starts a daemon, by hand or with systemctl.
Start(d) ==
    /\ d = Unit => ~ToRestart
    /\ Begin(d)
    /\ Event

\* Restart=on-failure.
Restart ==
    /\ ToRestart
    /\ Begin(Unit)
    /\ UNCHANGED events

\* ... unless the unit was started too often and the interval is not over: it
\* stays down until an operator starts it.
GiveUp ==
    /\ ToRestart
    /\ starts = StartLimit
    /\ exit' = [exit EXCEPT ![Unit] = "limit"]
    /\ UNCHANGED <<file, loaded, pc, open, why, socketFile, call, events, robbed, starts>>

Systemd == CleanUp \/ Restart \/ GiveUp

Runs(d) == pc[d] \notin {"down", "ended"}

\* SIGINT or SIGTERM: before signals are asked for it ends the process.
Terminate(d) ==
    /\ Runs(d)
    /\ Event
    /\ IF pc[d] \in {"serving", "stopping"}
       THEN /\ why' = [why EXCEPT ![d] = @ \cup {"signal"}]
            /\ UNCHANGED <<file, loaded, pc, open, exit, socketFile, call, robbed, starts>>
       ELSE Exit(d, "signal")

\* SIGKILL, a panic, the machine runs out of memory.
Kill(d) ==
    /\ Runs(d)
    /\ Event
    /\ Exit(d, "killed")

\* The configuration file is edited.
Edit ==
    /\ file' \in Files \ {file}
    /\ Event
    /\ UNCHANGED <<ownVars, socketFile, call, robbed, starts>>

\* The steps of main.
Step(d) ==
    \/ Prepare(d) \/ PrepareRefused(d) \/ ListenTCP(d) \/ ListenTCPRefused(d)
    \/ RemoveSocket(d) \/ ListenUnix(d) \/ ListenUnixRefused(d) \/ Spawn(d)
    \/ SpawnRefused(d) \/ Notify(d) \/ Stop(d) \/ CloseListener(d) \/ Return(d) \/ TimeOut(d)

Next ==
    \/ \E d \in Daemons :
          \/ Step(d) \/ StartFails(d) \/ ServeFails(d)
          \/ Start(d) \/ Terminate(d) \/ Kill(d)
          \/ \E c \in Calls : Accept(c, d)
    \/ \E c \in Calls : Answer(c)
    \/ Systemd \/ Edit

Spec == Init /\ [][Next]_vars

\* main goes on, the ten seconds pass, and systemd cleans up after its unit and
\* restarts it or gives up; a handler need not return.
FairSpec == Spec /\ WF_vars(Systemd) /\ \A d \in Daemons : WF_vars(Step(d))

-----------------------------------------------------------------------------
(* Properties. *)

\* Every variable has its type.  A daemon goes on only with a port range that
\* Open accepts and a database that does not depend on its working directory.
TypeOK ==
    /\ file \in Files
    /\ loaded \in [Daemons -> Files \cup {None}]
    /\ pc \in [Daemons -> {"down", "prepare", "tcp", "remove", "unix", "spawn", "notify",
                           "serving", "stopping", "ended"}]
    /\ open \in [Daemons -> SUBSET {"tcp", "unix"}]
    /\ why \in [Daemons -> SUBSET {"signal", "error"}]
    /\ exit \in [Daemons -> {"none", "clean", "late", "signal", "failed", "killed", "limit"}]
    /\ socketFile \in [Sockets -> Daemons \cup {None, NoDir, Stale}]
    /\ call \in [Calls -> Daemons \cup {None, Cut}]
    /\ events \in 0..MaxEvents
    /\ robbed \in [Daemons -> BOOLEAN]
    /\ starts \in 0..StartLimit
    /\ \A d \in Daemons : loaded[d] # None =>
          RangeValid(Load(loaded[d])) /\ IsAbs(Load(loaded[d]).database)

\* A daemon that serves can be reached by its socket file.  Whatever is killed,
\* fails or is started a second time, three things take the file away: the
\* start of a daemon with another port and the same socket path, the end of one
\* whose file another daemon has replaced (main.go:63-84), and the end of the
\* unit, after which systemd removes its runtime directory (install.sh:88).
SocketServed ==
    \A d \in Daemons :
        pc[d] \in {"spawn", "notify", "serving"} /\ why[d] = {} =>
            socketFile[Socket(d)] = d \/ robbed[d]

\* Restart=on-failure (install.sh:85) takes an exit with status 0 for the end of
\* the work, and os.Exit(1) for a failure: main returns only if it was sent a
\* signal or a listener failed, however far the start had come.
StaysDownForAReason ==
    ~Runs(Unit) /\ exit[Unit] \in {"clean", "late"} => why[Unit] # {}

\* A shutdown loses no call: one that a daemon accepted is cut only when the
\* daemon is killed, receives its signal before it asks for signals, or has
\* waited for ten seconds.
GracefulLosesNoCall ==
    [][\A c \in Calls, d \in Daemons :
        call[c] = d /\ call'[c] = Cut => exit'[d] \in {"killed", "signal", "late"}]_vars

\* A daemon that is told to stop, or whose listener failed, ends, although a
\* handler may never return.
StopEnds == \A d \in Daemons : (why[d] # {} /\ Runs(d)) ~> (pc[d] = "down")

Usable(f) == ~LoadFails(f) /\ Load(f).port \in TCPPorts

\* A unit that failed or was killed is replaced: if the configuration file is
\* usable in the end, some daemon serves again, unless the unit was started
\* StartLimit times in one interval and systemd has given up on it, or it was
\* sent a signal before it asked for signals.  What a killed daemon leaves
\* behind does not get in the way.
Recovers ==
    <>[]Usable(file) =>
        ToRestart ~> ((\E d \in Daemons : Serves(d)) \/ exit[Unit] \in {"signal", "limit"})
=============================================================================
