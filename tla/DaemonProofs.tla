----------------------------- MODULE DaemonProofs -----------------------------
(* The daemons of a machine, for any number of them, of configuration files *)
(* and of calls: the types, the socket file, the reasons to stay down, and   *)
(* the calls that a shutdown may lose.                                       *)
EXTENDS Daemon, TLAPS

Starting == {"prepare", "tcp", "remove", "unix", "spawn"}

\* What a daemon has loaded is a file that Load accepts, from the first
\* listener on.
FilesLoaded ==
    \A d \in Daemons :
        /\ loaded[d] # None => loaded[d] \in Files /\ ~LoadFails(loaded[d])
        /\ pc[d] \notin {"down", "ended", "prepare"} => loaded[d] \in Files /\ ~LoadFails(loaded[d])

\* A daemon has a reason to stop only from where it serves, and stops for one.
ReasonsKnown ==
    \A d \in Daemons :
        /\ pc[d] \in Starting => why[d] = {}
        /\ pc[d] = "stopping" => why[d] # {}

\* A daemon that nothing has stopped holds its port, one that has not yet asked
\* for it holds nothing.
PortsHeld ==
    \A d \in Daemons :
        /\ pc[d] \in {"down", "ended", "prepare", "tcp"} => open[d] = {}
        /\ pc[d] \in {"remove", "unix", "spawn", "notify", "serving"} /\ why[d] = {} =>
              "tcp" \in open[d]

\* No two daemons hold the same port.
PortsDiffer ==
    \A d, e \in Daemons :
        d # e /\ "tcp" \in open[d] /\ "tcp" \in open[e] => Port(d) # Port(e)

\* A call is in flight at a daemon that serves or waits for it.
CallsServed ==
    \A c \in Calls, d \in Daemons :
        call[c] = d => pc[d] \in {"notify", "serving", "stopping"}

Inv ==
    /\ TypeOK /\ FilesLoaded /\ ReasonsKnown /\ PortsHeld /\ PortsDiffer
    /\ CallsServed /\ SocketServed /\ StaysDownForAReason
-----------------------------------------------------------------------------
(* The configuration. *)

\* What is joined to an absolute path is one.
LEMMA JoinedIsAbs ==
    ASSUME NEW dir, NEW path, IsPath(dir), IsAbs(dir), IsPath(path)
    PROVE  IsAbs(dir \o path)
  <1> DEFINE A == {dir[i] : i \in DOMAIN dir}
             B == {path[i] : i \in DOMAIN path}
  <1>1. dir \in Seq(A) /\ path \in Seq(B)
    BY DEF IsPath
  <1> HIDE DEF A, B
  <1>2. dir # << >> /\ Head(dir) = "/"
    BY DEF IsAbs
  <1>3. dir \in Seq(A \cup B) /\ path \in Seq(A \cup B)
    BY <1>1
  <1>4. Len(dir) \in Nat /\ Len(dir) >= 1 /\ dir[1] = "/" /\ Len(path) \in Nat
    BY <1>1, <1>2
  <1>5. dir \o path \in Seq(A \cup B)
    BY <1>3
  <1>6. Len(dir \o path) >= 1 /\ (dir \o path)[1] = "/"
    BY <1>3, <1>4
  <1> QED BY <1>5, <1>6 DEF IsAbs

\* A configuration that Load accepts has a range that Open accepts, an absolute
\* database path, and a socket path among those of the files.
LEMMA LoadAccepts ==
    ASSUME NEW f \in Files, ~LoadFails(f)
    PROVE  RangeValid(Load(f)) /\ IsAbs(Load(f).database) /\ Load(f).socket \in Sockets
  <1> DEFINE given == IF f.kind = "missing" THEN Default ELSE WithDefaults(f.given)
  <1>1. /\ DOMAIN given = DOMAIN Default
        /\ {"min", "max", "database", "port", "socket"} = DOMAIN Default
    BY DEF WithDefaults, Default
  <1>2. f.kind = "missing" \/ f.kind = "toml"
    BY FilesAssumption DEF IsFile, LoadFails
  <1>3. RangeValid(given)
    <2>1. CASE f.kind = "missing"
      BY <2>1 DEF RangeValid, Default
    <2>2. CASE f.kind = "toml"
      BY <2>2 DEF LoadFails
    <2> QED BY <1>2, <2>1, <2>2
  <1>4. IsPath(given.database)
    <2>1. IsPath(Default.database)
      <3>1. IsPath(<<"sidecar.db">>)
        BY DEF IsPath
      <3> QED BY <3>1 DEF Default
    <2>2. CASE f.kind = "missing"
      BY <2>1, <2>2
    <2>3. CASE f.kind = "toml"
      <3>1. given = WithDefaults(f.given)
        BY <2>3
      <3>2. \/ "database" \in DOMAIN f.given /\ given.database = f.given.database
            \/ given.database = Default.database
        BY <1>1, <3>1 DEF WithDefaults
      <3> QED BY <2>1, <2>3, <3>2, FilesAssumption DEF IsFile
    <2> QED BY <1>2, <2>2, <2>3
  <1>5. Load(f) = Finalize(given)
    BY DEF Load
  <1> HIDE DEF given
  <1>6. RangeValid(Finalize(given))
    BY <1>1, <1>3 DEF RangeValid, Finalize
  <1>7. IsAbs(Finalize(given).database)
    <2>1. CASE IsAbs(given.database)
      BY <2>1 DEF Finalize
    <2>2. CASE ~IsAbs(given.database)
      <3>1. Finalize(given).database = ConfigDir \o given.database
        BY <1>1, <2>2 DEF Finalize
      <3> QED BY <1>4, <3>1, ConfigDirAssumption, JoinedIsAbs
    <2> QED BY <2>1, <2>2
  <1>8. Load(f).socket \in Sockets
    BY DEF Sockets
  <1> QED BY <1>5, <1>6, <1>7, <1>8
-----------------------------------------------------------------------------
(* The steps. *)

\* The types of pc, exit and socketFile.
Steps == {"down", "prepare", "tcp", "remove", "unix", "spawn", "notify", "serving", "stopping", "ended"}
Ends == {"none", "clean", "late", "signal", "failed", "killed", "limit"}
SocketValues == Daemons \cup {None, NoDir, Stale}

\* A directory that is made changes only the paths that lacked it.
LEMMA DirMade ==
    ASSUME TypeOK, NEW dir
    PROVE  /\ WithDir(dir) \in [Sockets -> SocketValues]
           /\ \A s \in Sockets : socketFile[s] # NoDir => WithDir(dir)[s] = socketFile[s]
  <1>1. \A s \in Sockets : socketFile[s] \in SocketValues
    BY DEF TypeOK, SocketValues
  <1>2. \A s \in Sockets : WithDir(dir)[s] \in {None, socketFile[s]}
    BY DEF WithDir
  <1> QED BY <1>1, <1>2 DEF WithDir, SocketValues

\* Where a daemon's file was loaded, its socket path is a path of the model.
LEMMA SocketTyped ==
    ASSUME FilesLoaded, NEW d \in Daemons, pc[d] \notin {"down", "ended", "prepare"}
    PROVE  Socket(d) \in Sockets
  BY LoadAccepts DEF FilesLoaded, Socket

\* A process that ends takes nothing from the others but the port and the
\* calls it had.
LEMMA ExitInv ==
    ASSUME Inv, NEW d \in Daemons,
           NEW how \in {"clean", "late", "signal", "failed", "killed"},
           Exit(d, how), events' \in 0..MaxEvents,
           how \in {"clean", "late"} => why[d] # {}
    PROVE  Inv'
  <1> USE DEF Inv
  <1>1. /\ pc'[d] \in {"down", "ended"} /\ open'[d] = {} /\ loaded'[d] = None
        /\ \A e \in Daemons \ {d} :
              pc'[e] = pc[e] /\ open'[e] = open[e] /\ loaded'[e] = loaded[e]
              /\ robbed'[e] = robbed[e] /\ exit'[e] = exit[e]
        /\ why' = why /\ file' = file /\ exit'[d] = how /\ starts' = starts
    BY DEF Exit, TypeOK
  <1>2. /\ \A c \in Calls : call'[c] = IF call[c] = d THEN Cut ELSE call[c]
        /\ \A s \in Sockets : socketFile'[s] = IF socketFile[s] = d THEN Stale ELSE socketFile[s]
    BY DEF Exit
  <1>3. TypeOK'
    <2>1. /\ pc' \in [Daemons -> Steps]
          /\ open' \in [Daemons -> SUBSET {"tcp", "unix"}]
          /\ exit' \in [Daemons -> Ends]
          /\ loaded' \in [Daemons -> Files \cup {None}]
          /\ robbed' \in [Daemons -> BOOLEAN]
      BY DEF Exit, TypeOK, Steps, Ends
    <2>2. socketFile' \in [Sockets -> SocketValues]
      BY DEF Exit, TypeOK, SocketValues
    <2>3. call' \in [Calls -> Daemons \cup {None, Cut}]
      BY DEF Exit, TypeOK
    <2>4. \A e \in Daemons : loaded'[e] # None =>
              RangeValid(Load(loaded'[e])) /\ IsAbs(Load(loaded'[e]).database)
      BY <1>1 DEF TypeOK
    <2> QED BY <1>1, <2>1, <2>2, <2>3, <2>4 DEF TypeOK, Steps, Ends, SocketValues
  <1>4. FilesLoaded'
    BY <1>1 DEF FilesLoaded
  <1>5. ReasonsKnown' /\ PortsHeld'
    BY <1>1 DEF ReasonsKnown, PortsHeld, Starting
  <1>6. PortsDiffer'
    BY <1>1 DEF PortsDiffer, Port
  <1>7. CallsServed'
    BY <1>1, <1>2, DaemonAssumption DEF CallsServed
  <1>8. SocketServed'
    <2> SUFFICES ASSUME NEW e \in Daemons, pc'[e] \in {"spawn", "notify", "serving"}, why'[e] = {}
                 PROVE  socketFile'[Socket(e)'] = e \/ robbed'[e]
      BY DEF SocketServed
    <2>1. e # d /\ Socket(e)' = Socket(e) /\ Socket(e) \in Sockets
      BY <1>1, SocketTyped DEF Socket
    <2> QED BY <1>1, <1>2, <2>1 DEF SocketServed
  <1>9. StaysDownForAReason'
    BY <1>1, DaemonAssumption DEF StaysDownForAReason, Runs
  <1> QED BY <1>3, <1>4, <1>5, <1>6, <1>7, <1>8, <1>9

\* A start that goes on takes nothing from the others but a socket file.
LEMMA StartInv ==
    ASSUME Inv, NEW d \in Daemons,
           \/ Begin(d) /\ events' \in 0..MaxEvents
           \/ Prepare(d) \/ ListenTCP(d) \/ RemoveSocket(d) \/ ListenUnix(d)
           \/ Spawn(d) \/ Notify(d)
    PROVE  Inv'
  <1> USE DEF Inv
  <1>1. CASE Begin(d) /\ events' \in 0..MaxEvents
    <2>1. /\ pc'[d] = "prepare" /\ why'[d] = {} /\ pc[d] = "down"
          /\ \A e \in Daemons \ {d} : pc'[e] = pc[e] /\ why'[e] = why[e]
          /\ UNCHANGED <<file, loaded, open, exit, call, robbed>>
      BY <1>1 DEF Begin, Goto, TypeOK
    <2>2. /\ socketFile' \in [Sockets -> SocketValues]
          /\ \A s \in Sockets : socketFile[s] \in Daemons => socketFile'[s] = socketFile[s]
          /\ starts' \in 0..StartLimit
      <3>1. CASE d = Unit
        <4>1. /\ socketFile' = WithDir(RuntimeDir)
              /\ starts' = 1 \/ (starts < StartLimit /\ starts' = starts + 1)
          BY <1>1, <3>1 DEF Begin
        <4>2. starts' \in 0..StartLimit
          BY <4>1, StartLimitAssumption DEF TypeOK
        <4> QED BY <4>1, <4>2, DirMade, DaemonAssumption
      <3>2. CASE d # Unit
        <4>1. UNCHANGED <<socketFile, starts>>
          BY <1>1, <3>2 DEF Begin
        <4> QED BY <4>1 DEF TypeOK, SocketValues
      <3> QED BY <3>1, <3>2
    <2>3. TypeOK'
      <3>1. pc' \in [Daemons -> Steps] /\ why' \in [Daemons -> SUBSET {"signal", "error"}]
        BY <1>1 DEF Begin, Goto, TypeOK, Steps
      <3> QED BY <1>1, <2>1, <2>2, <3>1 DEF TypeOK, Steps, SocketValues
    <2>4. FilesLoaded' /\ ReasonsKnown' /\ PortsHeld' /\ PortsDiffer' /\ CallsServed'
      BY <2>1 DEF FilesLoaded, ReasonsKnown, Starting, PortsHeld, PortsDiffer, Port, CallsServed
    <2>5. SocketServed'
      <3> SUFFICES ASSUME NEW e \in Daemons, pc'[e] \in {"spawn", "notify", "serving"}, why'[e] = {}
                   PROVE  socketFile'[Socket(e)'] = e \/ robbed'[e]
        BY DEF SocketServed
      <3>1. e # d /\ Socket(e)' = Socket(e) /\ Socket(e) \in Sockets /\ pc[e] = pc'[e] /\ why[e] = {}
        BY <2>1, SocketTyped DEF Socket
      <3> QED BY <2>1, <2>2, <3>1 DEF SocketServed
    <2>6. StaysDownForAReason'
      BY <2>1, DaemonAssumption DEF StaysDownForAReason, Runs
    <2> QED BY <2>3, <2>4, <2>5, <2>6
  <1>2. CASE Prepare(d)
    <2>1. /\ pc'[d] = "tcp" /\ loaded'[d] = file /\ pc[d] = "prepare" /\ file \in Files
          /\ ~LoadFails(file)
          /\ \A e \in Daemons \ {d} : pc'[e] = pc[e] /\ loaded'[e] = loaded[e]
          /\ UNCHANGED <<file, why, open, exit, socketFile, call, robbed, events, starts>>
      BY <1>2 DEF Prepare, Goto, TypeOK
    <2>2. TypeOK'
      <3>1. \A e \in Daemons : loaded'[e] # None =>
              RangeValid(Load(loaded'[e])) /\ IsAbs(Load(loaded'[e]).database)
        BY <2>1, LoadAccepts DEF TypeOK
      <3> QED BY <1>2, <2>1, <3>1 DEF Prepare, Goto, TypeOK
    <2>3. FilesLoaded' /\ ReasonsKnown' /\ PortsHeld' /\ CallsServed'
      BY <2>1 DEF FilesLoaded, ReasonsKnown, Starting, PortsHeld, CallsServed
    <2>4. PortsDiffer'
      BY <2>1 DEF PortsHeld, PortsDiffer, Port
    <2>5. SocketServed' /\ StaysDownForAReason'
      BY <2>1, DaemonAssumption DEF SocketServed, Socket, StaysDownForAReason, Runs
    <2> QED BY <2>2, <2>3, <2>4, <2>5
  <1>3. CASE ListenTCP(d)
    <2>1. /\ pc'[d] = "remove" /\ pc[d] = "tcp" /\ PortFree(d) /\ open'[d] = open[d] \cup {"tcp"}
          /\ \A e \in Daemons \ {d} : pc'[e] = pc[e] /\ open'[e] = open[e]
          /\ UNCHANGED <<file, loaded, why, exit, socketFile, call, robbed, events, starts>>
      BY <1>3 DEF ListenTCP, Goto, TypeOK
    <2>2. TypeOK'
      BY <1>3 DEF ListenTCP, Goto, TypeOK
    <2>3. FilesLoaded' /\ ReasonsKnown' /\ PortsHeld' /\ CallsServed'
      BY <2>1 DEF FilesLoaded, ReasonsKnown, Starting, PortsHeld, CallsServed
    <2>4. PortsDiffer'
      <3>1. /\ \A e \in Daemons : Port(e)' = Port(e)
            /\ \A e \in Daemons \ {d} : open'[e] = open[e]
        BY <2>1 DEF Port
      <3>2. \A e \in Daemons : "tcp" \in open[e] => Port(e) # Port(d)
        BY <2>1 DEF PortFree
      <3> QED BY <3>1, <3>2 DEF PortsDiffer
    <2>5. SocketServed' /\ StaysDownForAReason'
      BY <2>1, DaemonAssumption DEF SocketServed, Socket, StaysDownForAReason, Runs
    <2> QED BY <2>2, <2>3, <2>4, <2>5
  <1>4. CASE RemoveSocket(d)
    <2>1. /\ pc'[d] = "unix" /\ pc[d] = "remove"
          /\ \A e \in Daemons \ {d} : pc'[e] = pc[e]
          /\ \A e \in Daemons :
                robbed'[e] = (robbed[e] \/ (socketFile[Socket(d)] = e /\ Port(e) # Port(d)))
          /\ UNCHANGED <<file, loaded, open, why, exit, call, events, starts>>
      BY <1>4 DEF RemoveSocket, Goto, TypeOK
    <2>6. /\ socketFile' \in [Sockets -> SocketValues]
          /\ \A s \in Sockets : s # Socket(d) /\ socketFile[s] \in Daemons =>
                socketFile'[s] = socketFile[s]
      <3>1. socketFile' = [WithDir(Dir(Socket(d))) EXCEPT ![Socket(d)] = None]
        BY <1>4 DEF RemoveSocket
      <3>2. /\ WithDir(Dir(Socket(d))) \in [Sockets -> SocketValues]
            /\ \A s \in Sockets : socketFile[s] # NoDir => WithDir(Dir(Socket(d)))[s] = socketFile[s]
        BY DirMade
      <3>3. None \in SocketValues
        BY DEF SocketValues
      <3> QED BY <3>1, <3>2, <3>3, DaemonAssumption
    <2>2. TypeOK'
      <3>1. pc' \in [Daemons -> Steps]
        BY <1>4 DEF RemoveSocket, Goto, TypeOK, Steps
      <3>2. robbed' \in [Daemons -> BOOLEAN]
        BY <1>4 DEF RemoveSocket, TypeOK
      <3> QED BY <2>1, <2>6, <3>1, <3>2 DEF TypeOK, Steps, SocketValues
    <2>3. FilesLoaded' /\ ReasonsKnown' /\ PortsHeld' /\ CallsServed' /\ PortsDiffer'
      BY <2>1 DEF FilesLoaded, ReasonsKnown, Starting, PortsHeld, CallsServed, PortsDiffer, Port
    <2>4. SocketServed'
      <3> SUFFICES ASSUME NEW e \in Daemons, pc'[e] \in {"spawn", "notify", "serving"}, why'[e] = {}
                   PROVE  socketFile'[Socket(e)'] = e \/ robbed'[e]
        BY DEF SocketServed
      <3>1. e # d /\ Socket(e)' = Socket(e) /\ Socket(e) \in Sockets /\ Socket(d) \in Sockets
            /\ pc[e] = pc'[e] /\ why[e] = {}
        BY <2>1, SocketTyped DEF Socket
      <3>2. socketFile[Socket(e)] = e \/ robbed[e]
        BY <3>1 DEF SocketServed
      <3>3. Port(e) # Port(d)
        BY <2>1, <3>1 DEF PortsHeld, PortsDiffer, ReasonsKnown, Starting
      <3> QED BY <2>1, <2>6, <3>1, <3>2, <3>3
    <2>5. StaysDownForAReason'
      BY <2>1, DaemonAssumption DEF StaysDownForAReason, Runs
    <2> QED BY <2>2, <2>3, <2>4, <2>5
  <1>5. CASE ListenUnix(d)
    <2>1. /\ pc'[d] = "spawn" /\ pc[d] = "unix" /\ open'[d] = open[d] \cup {"unix"}
          /\ \A e \in Daemons \ {d} : pc'[e] = pc[e] /\ open'[e] = open[e]
          /\ Socket(d) \in Sockets /\ socketFile[Socket(d)] = None /\ socketFile'[Socket(d)] = d
          /\ \A s \in Sockets : s # Socket(d) => socketFile'[s] = socketFile[s]
          /\ UNCHANGED <<file, loaded, why, exit, call, robbed, events, starts>>
      BY <1>5, SocketTyped DEF ListenUnix, Goto, TypeOK
    <2>2. TypeOK'
      BY <1>5 DEF ListenUnix, Goto, TypeOK
    <2>3. FilesLoaded' /\ ReasonsKnown' /\ PortsHeld' /\ CallsServed'
      BY <2>1 DEF FilesLoaded, ReasonsKnown, Starting, PortsHeld, CallsServed
    <2>4. PortsDiffer'
      BY <2>1 DEF PortsDiffer, Port
    <2>5. SocketServed'
      <3> SUFFICES ASSUME NEW e \in Daemons, pc'[e] \in {"spawn", "notify", "serving"}, why'[e] = {}
                   PROVE  socketFile'[Socket(e)'] = e \/ robbed'[e]
        BY DEF SocketServed
      <3>1. Socket(e)' = Socket(e)
        BY <2>1 DEF Socket
      <3>2. CASE e # d
        <4>1. pc[e] = pc'[e] /\ why[e] = {} /\ Socket(e) \in Sockets
          BY <2>1, <3>2, SocketTyped
        <4>2. Socket(e) = Socket(d) => robbed[e]
          BY <2>1, <4>1, DaemonAssumption DEF SocketServed
        <4> QED BY <2>1, <3>1, <4>1, <4>2 DEF SocketServed
      <3> QED BY <2>1, <3>1, <3>2
    <2>6. StaysDownForAReason'
      BY <2>1, DaemonAssumption DEF StaysDownForAReason, Runs
    <2> QED BY <2>2, <2>3, <2>4, <2>5, <2>6
  <1>6. CASE Spawn(d) \/ Notify(d)
    <2>1. /\ \/ pc[d] = "spawn" /\ pc'[d] = "notify"
             \/ pc[d] = "notify" /\ pc'[d] = "serving"
          /\ \A e \in Daemons \ {d} : pc'[e] = pc[e]
          /\ UNCHANGED <<file, loaded, open, why, exit, socketFile, call, events, robbed, starts>>
      <3>1. CASE Spawn(d)
        BY <3>1 DEF Spawn, Goto, TypeOK
      <3>2. CASE Notify(d)
        BY <3>2 DEF Notify, Goto, TypeOK
      <3> QED BY <1>6, <3>1, <3>2
    <2>2. TypeOK'
      BY <1>6 DEF Spawn, Notify, Goto, TypeOK
    <2>3. FilesLoaded' /\ ReasonsKnown' /\ PortsHeld' /\ CallsServed' /\ PortsDiffer'
      BY <2>1 DEF FilesLoaded, ReasonsKnown, Starting, PortsHeld, CallsServed, PortsDiffer, Port
    <2>4. SocketServed' /\ StaysDownForAReason'
      BY <2>1, DaemonAssumption DEF SocketServed, Socket, StaysDownForAReason, Runs
    <2> QED BY <2>2, <2>3, <2>4
  <1> QED BY <1>1, <1>2, <1>3, <1>4, <1>5, <1>6

\* A listener that is closed may be another daemon's socket file by now.
LEMMA CloseInv ==
    ASSUME Inv, NEW d \in Daemons, NEW listener \in open[d], Close(d, listener),
           pc[d] \in {"notify", "serving", "stopping"}, why'[d] # {},
           why' \in [Daemons -> SUBSET {"signal", "error"}],
           \A e \in Daemons \ {d} : why'[e] = why[e],
           events' \in 0..MaxEvents,
           UNCHANGED <<file, loaded, pc, exit, call, starts>>
    PROVE  Inv'
  <1> USE DEF Inv
  <1>1. /\ open'[d] = open[d] \ {listener}
        /\ \A e \in Daemons \ {d} : open'[e] = open[e]
    BY DEF Close, TypeOK
  <1>2. Socket(d) \in Sockets
    BY SocketTyped
  <1>3. /\ \A s \in Sockets : s # Socket(d) => socketFile'[s] = socketFile[s]
        /\ \A e \in Daemons : robbed[e] => robbed'[e]
        /\ \A e \in Daemons : e # d /\ socketFile[Socket(d)] = e =>
              robbed'[e] \/ socketFile'[Socket(d)] = e
    <2>1. CASE listener = "unix"
      <3>1. /\ socketFile' = [socketFile EXCEPT ![Socket(d)] = IF @ = NoDir THEN NoDir ELSE None]
            /\ \A e \in Daemons : robbed'[e] = (robbed[e] \/ (e # d /\ socketFile[Socket(d)] = e))
        BY <2>1 DEF Close
      <3>2. \A s \in Sockets : s # Socket(d) => socketFile'[s] = socketFile[s]
        BY <3>1 DEF TypeOK
      <3> QED BY <3>1, <3>2
    <2>2. CASE listener # "unix"
      BY <2>2 DEF Close
    <2> QED BY <2>1, <2>2
  <1>4. TypeOK'
    <2>1. open' \in [Daemons -> SUBSET {"tcp", "unix"}]
      BY DEF Close, TypeOK
    <2>2. socketFile' \in [Sockets -> Daemons \cup {None, NoDir, Stale}] /\ robbed' \in [Daemons -> BOOLEAN]
      <3>1. CASE listener = "unix"
        <4>1. socketFile' \in [Sockets -> Daemons \cup {None, NoDir, Stale}]
          <5>1. socketFile' = [socketFile EXCEPT ![Socket(d)] = IF @ = NoDir THEN NoDir ELSE None]
            BY <3>1 DEF Close
          <5> QED BY <5>1 DEF TypeOK
        <4>2. robbed' \in [Daemons -> BOOLEAN]
          <5>1. robbed' = [e \in Daemons |-> robbed[e] \/ (e # d /\ socketFile[Socket(d)] = e)]
            BY <3>1 DEF Close
          <5>2. robbed \in [Daemons -> BOOLEAN]
            BY DEF TypeOK
          <5> QED BY <5>1, <5>2
        <4> QED BY <4>1, <4>2
      <3>2. CASE listener # "unix"
        BY <3>2 DEF Close, TypeOK
      <3> QED BY <3>1, <3>2
    <2> QED BY <2>1, <2>2 DEF TypeOK
  <1>5. FilesLoaded' /\ ReasonsKnown' /\ PortsHeld' /\ CallsServed'
    BY <1>1 DEF FilesLoaded, ReasonsKnown, Starting, PortsHeld, CallsServed
  <1>6. PortsDiffer'
    <2>1. \A e \in Daemons : Port(e)' = Port(e) /\ ("tcp" \in open'[e] => "tcp" \in open[e])
      BY <1>1 DEF Port
    <2> QED BY <2>1 DEF PortsDiffer
  <1>7. SocketServed'
    <2> SUFFICES ASSUME NEW e \in Daemons, pc'[e] \in {"spawn", "notify", "serving"}, why'[e] = {}
                 PROVE  socketFile'[Socket(e)'] = e \/ robbed'[e]
      BY DEF SocketServed
    <2>1. e # d /\ Socket(e)' = Socket(e) /\ Socket(e) \in Sockets /\ why[e] = {}
      BY SocketTyped DEF Socket
    <2> QED BY <1>3, <2>1 DEF SocketServed
  <1>8. StaysDownForAReason'
    BY DaemonAssumption DEF StaysDownForAReason, Runs
  <1> QED BY <1>4, <1>5, <1>6, <1>7, <1>8

\* Calls come and go only where they are served.
LEMMA CallInv ==
    ASSUME Inv, NEW c \in Calls,
           (\E d \in Daemons : Accept(c, d)) \/ Answer(c)
    PROVE  Inv'
  <1> USE DEF Inv
  <1>1. UNCHANGED <<file, loaded, pc, open, why, exit, socketFile, events, robbed, starts>>
    BY DEF Accept, Answer, ownVars
  <1>2. /\ call' \in [Calls -> Daemons \cup {None, Cut}]
        /\ \/ call'[c] = None
           \/ call'[c] \in Daemons /\ pc[call'[c]] \in {"notify", "serving"}
        /\ \A b \in Calls \ {c} : call'[b] = call[b]
    <2>1. CASE \E d \in Daemons : Accept(c, d)
      <3>1. PICK d \in Daemons : call' = [call EXCEPT ![c] = d] /\ pc[d] \in {"notify", "serving"}
        BY <2>1 DEF Accept, Serves
      <3> QED BY <3>1 DEF TypeOK
    <2>2. CASE Answer(c)
      <3>1. call' = [call EXCEPT ![c] = None]
        BY <2>2 DEF Answer
      <3> QED BY <3>1 DEF TypeOK
    <2> QED BY <2>1, <2>2
  <1>3. TypeOK'
    BY <1>1, <1>2 DEF TypeOK
  <1>4. CallsServed'
    BY <1>1, <1>2, DaemonAssumption DEF CallsServed
  <1>5. FilesLoaded' /\ ReasonsKnown' /\ PortsHeld'
    BY <1>1 DEF FilesLoaded, ReasonsKnown, PortsHeld
  <1>6. PortsDiffer' /\ SocketServed' /\ StaysDownForAReason'
    BY <1>1 DEF PortsDiffer, Port, SocketServed, Socket, StaysDownForAReason, Runs
  <1> QED BY <1>3, <1>4, <1>5, <1>6

\* A daemon is told to stop, or begins to.
LEMMA StopInv ==
    ASSUME Inv, NEW d \in Daemons,
           UNCHANGED <<file, loaded, open, exit, socketFile, call, robbed, starts>>,
           events' \in 0..MaxEvents,
           \/ /\ pc[d] = "serving" /\ why[d] # {} /\ why' = why
              /\ pc' = [pc EXCEPT ![d] = "stopping"]
           \/ /\ pc[d] \in {"serving", "stopping"} /\ pc' = pc
              /\ why' = [why EXCEPT ![d] = @ \cup {"signal"}]
    PROVE  Inv'
  <1> USE DEF Inv
  <1>1. /\ pc[d] \in {"serving", "stopping"} /\ pc'[d] \in {"serving", "stopping"}
        /\ why'[d] # {} /\ why[d] \subseteq why'[d]
        /\ \A e \in Daemons \ {d} : pc'[e] = pc[e] /\ why'[e] = why[e]
    <2>1. CASE pc[d] = "serving" /\ why[d] # {} /\ why' = why /\ pc' = [pc EXCEPT ![d] = "stopping"]
      BY <2>1 DEF TypeOK
    <2>2. CASE /\ pc[d] \in {"serving", "stopping"} /\ pc' = pc
               /\ why' = [why EXCEPT ![d] = @ \cup {"signal"}]
      <3>1. why'[d] = why[d] \cup {"signal"} /\ \A e \in Daemons \ {d} : why'[e] = why[e]
        BY <2>2 DEF TypeOK
      <3> QED BY <2>2, <3>1
    <2> QED BY <2>1, <2>2
  <1>2. TypeOK'
    BY DEF TypeOK
  <1>3. FilesLoaded' /\ ReasonsKnown' /\ PortsHeld' /\ CallsServed'
    BY <1>1 DEF FilesLoaded, ReasonsKnown, Starting, PortsHeld, CallsServed
  <1>4. PortsDiffer' /\ SocketServed' /\ StaysDownForAReason'
    BY <1>1, DaemonAssumption DEF PortsDiffer, Port, SocketServed, Socket, StaysDownForAReason, Runs
  <1> QED BY <1>2, <1>3, <1>4

\* systemd cleans up after its unit and gives up on it: every socket file that
\* it takes away is on record.
LEMMA SystemdInv ==
    ASSUME Inv, CleanUp \/ GiveUp
    PROVE  Inv'
  <1> USE DEF Inv
  <1>1. Unit \in Daemons
    BY DaemonAssumption
  <1>2. CASE CleanUp
    <2>1. /\ pc[Unit] = "ended" /\ pc'[Unit] = "down"
          /\ \A e \in Daemons \ {Unit} : pc'[e] = pc[e]
          /\ UNCHANGED <<file, loaded, open, why, exit, call, events, starts>>
      BY <1>1, <1>2 DEF CleanUp, Goto, TypeOK
    <2>2. /\ \A s \in Sockets : socketFile'[s] = IF Within(Dir(s), RuntimeDir) THEN NoDir ELSE socketFile[s]
          /\ \A e \in Daemons : robbed'[e] =
                (robbed[e] \/ \E s \in Sockets : Within(Dir(s), RuntimeDir) /\ socketFile[s] = e)
      BY <1>2 DEF CleanUp
    <2>3. TypeOK'
      <3>1. pc' \in [Daemons -> Steps]
        BY <1>2 DEF CleanUp, Goto, TypeOK, Steps
      <3>2. socketFile' \in [Sockets -> SocketValues]
        BY <1>2 DEF CleanUp, TypeOK, SocketValues
      <3>3. robbed' \in [Daemons -> BOOLEAN]
        BY <1>2 DEF CleanUp, TypeOK
      <3> QED BY <2>1, <3>1, <3>2, <3>3 DEF TypeOK, Steps, SocketValues
    <2>4. FilesLoaded' /\ ReasonsKnown' /\ PortsHeld' /\ CallsServed' /\ PortsDiffer'
      BY <2>1 DEF FilesLoaded, ReasonsKnown, Starting, PortsHeld, CallsServed, PortsDiffer, Port
    <2>5. SocketServed'
      <3> SUFFICES ASSUME NEW e \in Daemons, pc'[e] \in {"spawn", "notify", "serving"}, why'[e] = {}
                   PROVE  socketFile'[Socket(e)'] = e \/ robbed'[e]
        BY DEF SocketServed
      <3>1. Socket(e)' = Socket(e) /\ Socket(e) \in Sockets /\ pc[e] = pc'[e] /\ why[e] = {}
        BY <2>1, SocketTyped DEF Socket
      <3>2. socketFile[Socket(e)] = e \/ robbed[e]
        BY <3>1 DEF SocketServed
      <3> QED BY <2>2, <3>1, <3>2
    <2>6. StaysDownForAReason'
      BY <2>1, <1>1 DEF StaysDownForAReason, Runs
    <2> QED BY <2>3, <2>4, <2>5, <2>6, <2>1
  <1>3. CASE GiveUp
    <2>1. /\ exit'[Unit] = "limit"
          /\ UNCHANGED <<file, loaded, pc, open, why, socketFile, call, events, robbed, starts>>
      BY <1>1, <1>3 DEF GiveUp, TypeOK
    <2>2. TypeOK'
      <3>1. exit' \in [Daemons -> Ends]
        BY <1>3 DEF GiveUp, TypeOK, Ends
      <3> QED BY <2>1, <3>1 DEF TypeOK, Ends
    <2>3. FilesLoaded' /\ ReasonsKnown' /\ PortsHeld' /\ CallsServed' /\ PortsDiffer'
      BY <2>1 DEF FilesLoaded, ReasonsKnown, PortsHeld, CallsServed, PortsDiffer, Port
    <2>4. SocketServed' /\ StaysDownForAReason'
      BY <2>1 DEF SocketServed, Socket, StaysDownForAReason, Runs
    <2> QED BY <2>2, <2>3, <2>4
  <1> QED BY <1>2, <1>3

-----------------------------------------------------------------------------
(* Every step keeps the invariant. *)

\* The invariant holds before the daemon has been started.
LEMMA InvInit == Init => Inv
  <1> SUFFICES ASSUME Init PROVE Inv
    OBVIOUS
  <1>1. TypeOK
    BY EventsAssumption, StartLimitAssumption DEF Init, TypeOK
  <1>2. FilesLoaded /\ ReasonsKnown /\ PortsHeld /\ PortsDiffer
    BY DEF Init, FilesLoaded, ReasonsKnown, Starting, PortsHeld, PortsDiffer
  <1>3. CallsServed /\ SocketServed /\ StaysDownForAReason
    BY DaemonAssumption DEF Init, CallsServed, SocketServed, StaysDownForAReason, Runs
  <1> QED BY <1>1, <1>2, <1>3 DEF Inv

\* What an operator does, or what fails, is one event.
LEMMA EventTyped == TypeOK /\ Event => events' \in 0..MaxEvents
  BY EventsAssumption DEF TypeOK, Event

\* Every step of the daemon, and of those around it, keeps the invariant.
LEMMA InvNext ==
    ASSUME Inv, [Next]_vars
    PROVE  Inv'
  <1>1. TypeOK /\ events \in 0..MaxEvents
    BY DEF Inv, TypeOK
  <1>2. ASSUME NEW d \in Daemons, Step(d)
        PROVE  Inv'
    <2>1. CASE Prepare(d) \/ ListenTCP(d) \/ RemoveSocket(d) \/ ListenUnix(d) \/ Spawn(d) \/ Notify(d)
      BY <2>1, StartInv
    <2>2. CASE PrepareRefused(d) \/ ListenTCPRefused(d) \/ ListenUnixRefused(d) \/ SpawnRefused(d)
      <3>1. Exit(d, "failed") /\ events' \in 0..MaxEvents
        BY <1>1, <2>2 DEF PrepareRefused, ListenTCPRefused, ListenUnixRefused, SpawnRefused
      <3> QED BY <3>1, ExitInv
    <2>3. CASE Stop(d)
      BY <1>1, <2>3, StopInv DEF Stop, Goto
    <2>4. CASE CloseListener(d)
      <3>1. pc[d] = "stopping" /\ UNCHANGED <<file, loaded, pc, why, exit, call, events, starts>>
        BY <2>4 DEF CloseListener
      <3>2. PICK listener \in open[d] : Close(d, listener)
        BY <2>4 DEF CloseListener
      <3>3. why'[d] # {} /\ why' \in [Daemons -> SUBSET {"signal", "error"}] /\ events' \in 0..MaxEvents
        BY <1>1, <3>1 DEF Inv, ReasonsKnown, TypeOK
      <3> QED BY <3>1, <3>2, <3>3, CloseInv
    <2>5. CASE Return(d) \/ TimeOut(d)
      <3>1. /\ Exit(d, "clean") \/ Exit(d, "late")
            /\ why[d] # {} /\ events' \in 0..MaxEvents
        BY <1>1, <2>5 DEF Return, TimeOut, Inv, ReasonsKnown
      <3> QED BY <3>1, ExitInv
    <2> QED BY <1>2, <2>1, <2>2, <2>3, <2>4, <2>5 DEF Step
  <1>3. ASSUME NEW d \in Daemons, StartFails(d) \/ Kill(d)
        PROVE  Inv'
    <2>1. (Exit(d, "failed") \/ Exit(d, "killed")) /\ events' \in 0..MaxEvents
      BY <1>1, <1>3, EventTyped DEF StartFails, Kill
    <2> QED BY <2>1, ExitInv
  <1>4. ASSUME NEW d \in Daemons, ServeFails(d)
        PROVE  Inv'
    <2>1. /\ pc[d] \in {"notify", "serving", "stopping"}
          /\ why' = [why EXCEPT ![d] = @ \cup {"error"}]
          /\ events' \in 0..MaxEvents /\ UNCHANGED <<file, loaded, pc, exit, call, starts>>
      BY <1>1, <1>4, EventTyped DEF ServeFails, Serves
    <2>2. PICK listener \in open[d] : Close(d, listener)
      BY <1>4 DEF ServeFails
    <2>3. /\ why' \in [Daemons -> SUBSET {"signal", "error"}] /\ why'[d] # {}
          /\ \A e \in Daemons \ {d} : why'[e] = why[e]
      <3>1. why \in [Daemons -> SUBSET {"signal", "error"}]
        BY <1>1 DEF TypeOK
      <3>2. why'[d] = why[d] \cup {"error"} /\ \A e \in Daemons \ {d} : why'[e] = why[e]
        BY <2>1, <3>1
      <3> QED BY <2>1, <3>1, <3>2
    <2> QED BY <2>1, <2>2, <2>3, CloseInv
  <1>5. ASSUME NEW d \in Daemons, Start(d) \/ (d = Unit /\ Restart)
        PROVE  Inv'
    <2>1. Begin(d) /\ events' \in 0..MaxEvents
      BY <1>1, <1>5, EventTyped DEF Start, Restart
    <2> QED BY <2>1, StartInv
  <1>6. ASSUME NEW d \in Daemons, Terminate(d)
        PROVE  Inv'
    <2>1. events' \in 0..MaxEvents
      BY <1>1, <1>6, EventTyped DEF Terminate
    <2>2. CASE pc[d] \in {"serving", "stopping"}
      BY <1>6, <2>1, <2>2, StopInv DEF Terminate
    <2>3. CASE pc[d] \notin {"serving", "stopping"}
      <3>1. Exit(d, "signal")
        BY <1>6, <2>3 DEF Terminate
      <3> QED BY <2>1, <3>1, ExitInv
    <2> QED BY <2>2, <2>3
  <1>7. CASE Edit
    <2>1. /\ UNCHANGED <<loaded, pc, open, why, exit, socketFile, call, robbed, starts>>
          /\ file' \in Files /\ events' \in 0..MaxEvents
      BY <1>1, <1>7, EventTyped DEF Edit, ownVars
    <2>2. TypeOK' /\ FilesLoaded' /\ ReasonsKnown' /\ PortsHeld'
      BY <2>1 DEF Inv, TypeOK, FilesLoaded, ReasonsKnown, PortsHeld
    <2>3. PortsDiffer' /\ CallsServed' /\ SocketServed' /\ StaysDownForAReason'
      BY <2>1 DEF Inv, PortsDiffer, Port, CallsServed, SocketServed, Socket, StaysDownForAReason, Runs
    <2> QED BY <2>2, <2>3 DEF Inv
  <1>8. CASE UNCHANGED vars
    <2>1. UNCHANGED <<file, loaded, pc, open, why, exit, socketFile, call, events, robbed, starts>>
      BY <1>8 DEF vars
    <2>2. TypeOK' /\ FilesLoaded' /\ ReasonsKnown' /\ PortsHeld'
      BY <2>1 DEF Inv, TypeOK, FilesLoaded, ReasonsKnown, PortsHeld
    <2>3. PortsDiffer' /\ CallsServed' /\ SocketServed' /\ StaysDownForAReason'
      BY <2>1 DEF Inv, PortsDiffer, Port, CallsServed, SocketServed, Socket, StaysDownForAReason, Runs
    <2> QED BY <2>2, <2>3 DEF Inv
  <1>9. ASSUME NEW c \in Calls, Answer(c) \/ \E d \in Daemons : Accept(c, d)
        PROVE  Inv'
    BY <1>9, CallInv DEF Inv
  <1>10. CASE CleanUp \/ GiveUp
    BY <1>10, SystemdInv
  <1> QED
    BY <1>2, <1>3, <1>4, <1>5, <1>6, <1>7, <1>8, <1>9, <1>10, DaemonAssumption DEF Next, Systemd

\* A call is cut only by a process that ends, and ends as a shutdown does not.
LEMMA CutOnlyByEnd ==
    ASSUME Inv, [Next]_vars
    PROVE  \A c \in Calls, d \in Daemons :
               call[c] = d /\ call'[c] = Cut => exit'[d] \in {"killed", "signal", "late"}
  <1> SUFFICES ASSUME NEW c \in Calls, NEW d \in Daemons, call[c] = d, call'[c] = Cut
               PROVE  exit'[d] \in {"killed", "signal", "late"}
    OBVIOUS
  <1>1. Cut # d /\ call[c] # call'[c]
    BY DaemonAssumption
  <1>2. TypeOK /\ pc[d] \in {"notify", "serving", "stopping"}
    BY DEF Inv, CallsServed
  <1>3. ASSUME NEW e \in Daemons, NEW how, Exit(e, how),
               how \in {"failed", "clean"} => pc[e] \notin {"notify", "serving", "stopping"}
                                             \/ \A b \in Calls : call[b] # e,
               how \in {"failed", "clean", "killed", "signal", "late"}
        PROVE  exit'[d] \in {"killed", "signal", "late"}
    <2>1. e = d
      BY <1>1, <1>3 DEF Exit
    <2>2. exit'[d] = how /\ how \notin {"failed", "clean"}
      BY <1>2, <1>3, <2>1 DEF Exit, TypeOK
    <2> QED BY <1>3, <2>2
  <1>4. ASSUME NEW e \in Daemons, Step(e) \/ StartFails(e) \/ Terminate(e) \/ Kill(e)
        PROVE  exit'[d] \in {"killed", "signal", "late"}
    <2>1. PICK how \in {"failed", "clean", "killed", "signal", "late"} :
            /\ Exit(e, how)
            /\ how \in {"failed", "clean"} => pc[e] \notin {"notify", "serving", "stopping"}
                                             \/ \A b \in Calls : call[b] # e
      <3>1. CASE StartFails(e) \/ Terminate(e) \/ Kill(e)
        BY <1>1, <3>1 DEF StartFails, Terminate, Kill
      <3>2. CASE Step(e)
        <4>1. UNCHANGED call \/ PrepareRefused(e) \/ ListenTCPRefused(e) \/ ListenUnixRefused(e)
              \/ SpawnRefused(e) \/ Return(e) \/ TimeOut(e)
          BY <3>2 DEF Step, Prepare, ListenTCP, RemoveSocket, ListenUnix, Spawn, Notify, Stop, CloseListener
        <4>2. PrepareRefused(e) \/ ListenTCPRefused(e) \/ ListenUnixRefused(e)
              \/ SpawnRefused(e) \/ Return(e) \/ TimeOut(e)
          BY <1>1, <4>1
        <4> QED
          BY <4>2 DEF PrepareRefused, ListenTCPRefused, ListenUnixRefused, SpawnRefused, Return, TimeOut
      <3> QED BY <1>4, <3>1, <3>2
    <2> QED BY <1>3, <2>1
  <1>5. CASE \/ Edit \/ Systemd \/ UNCHANGED vars
             \/ \E e \in Daemons : Start(e) \/ ServeFails(e)
    <2>1. UNCHANGED call
      BY <1>5 DEF Edit, Systemd, CleanUp, Restart, GiveUp, Begin, Start, ServeFails, vars
    <2> QED BY <1>1, <2>1
  <1>6. ASSUME NEW b \in Calls, Answer(b) \/ \E e \in Daemons : Accept(b, e)
        PROVE  FALSE
    <2>1. PICK v \in Daemons \cup {None} : call' = [call EXCEPT ![b] = v]
      BY <1>6 DEF Answer, Accept
    <2> QED BY <1>1, <1>2, <2>1, DaemonAssumption DEF TypeOK
  <1> QED
    BY <1>4, <1>5, <1>6 DEF Next

\* The invariant holds in every behaviour.
THEOREM SpecInv == Spec => []Inv
  <1>1. Init => Inv
    BY InvInit
  <1>2. Inv /\ [Next]_vars => Inv'
    BY InvNext
  <1> QED BY <1>1, <1>2, PTL DEF Spec

\* Every variable has its type, and a daemon goes on only with a configuration
\* that it can work with, whatever the configuration file holds.
THEOREM DaemonTypes == Spec => []TypeOK
  <1>1. Inv => TypeOK
    BY DEF Inv
  <1> QED BY <1>1, SpecInv, PTL

\* A daemon that serves keeps its socket file, whatever fails, ends or starts,
\* unless a daemon on another port, the late end of one, or the end of the unit,
\* whose runtime directory systemd removes, takes it away.
THEOREM DaemonSocketServed == Spec => []SocketServed
  <1>1. Inv => SocketServed
    BY DEF Inv
  <1> QED BY <1>1, SpecInv, PTL

\* The unit ends with status 0, which systemd does not take for a failure, only
\* if it was sent a signal or a listener failed.
THEOREM DaemonStaysDown == Spec => []StaysDownForAReason
  <1>1. Inv => StaysDownForAReason
    BY DEF Inv
  <1> QED BY <1>1, SpecInv, PTL

\* A shutdown loses no call it accepted, of any number of calls.
THEOREM DaemonLosesNoCall == Spec => GracefulLosesNoCall
  <1>1. Inv /\ [Next]_vars =>
            [\A c \in Calls, d \in Daemons :
                call[c] = d /\ call'[c] = Cut => exit'[d] \in {"killed", "signal", "late"}]_vars
    BY CutOnlyByEnd
  <1> QED BY <1>1, SpecInv, PTL DEF Spec, GracefulLosesNoCall
=============================================================================
