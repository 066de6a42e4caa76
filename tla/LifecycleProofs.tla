--------------------------- MODULE LifecycleProofs ---------------------------
(***************************************************************************)
(* For every number of servers, ports, descriptors and reloads: a SIGHUP   *)
(* outside the unsafe points never harms the process, nothing stays open   *)
(* that no server owns, select() watches the servers there are, and a      *)
(* reload ends in one of the ways it should.                               *)
(***************************************************************************)
EXTENDS Lifecycle, Numbers, SequenceTheorems, TLAPS

-----------------------------------------------------------------------------
(* The inductive invariant.  While every SIGHUP came at a safe point the     *)
(* process is Calm.                                                          *)

InLoop == {"loop", "select", "blocked", "events", "serve", "rebuild"}

\* The handler runs on top of a main thread that stands at a safe point, and
\* knows what it has done to the servers.
HandlerWell ==
  /\ hpc # "none" => SafePoint
  /\ hpc \in {"reload", "validate", "parse"} => servers = before
  /\ hpc = "add" => servers = <<>>
  /\ hpc = "init" => servers = NewServers(hlines)
  /\ ~torn

\* Where an iterator, or the log's lock, may be in use.
IteratorWell ==
  /\ pc \in {"validate", "parse", "arm", "loop", "select", "blocked"} => at = 0
  /\ isLocked => at \in DOMAIN servers /\ pc \in {"init", "events", "serve"}

\* No descriptor belongs to two servers, or is a listener's and a client's.
Disjoint(ss) ==
  /\ \A i \in DOMAIN ss : ss[i].sock \notin ss[i].clients
  /\ \A i, j \in DOMAIN ss : i # j => SocketsOf(ss[i]) \cap SocketsOf(ss[j]) = {}

\* Before the loop is left the sockets of the servers are the open ones.
SocketsWell ==
  /\ Open \subseteq AllSockets(servers)
  /\ pc \in {"arm", "init"} \cup InLoop => AllSockets(servers) \subseteq Open /\ Disjoint(servers)
  /\ pc \in InLoop /\ hpc # "init" => Listening(servers, fdt)

Covers(m, F) == \A fd \in F : fd <= m
Fresh(s) == s.sock = NoFd /\ s.clients = {}

\* Starting: the servers before the iterator listen, the others have nothing.
StartWell ==
  /\ pc \in {"validate", "parse"} => servers = <<>>
  /\ pc = "arm" => \A i \in DOMAIN servers : Fresh(servers[i])
  /\ pc = "init" =>
       /\ \A i \in DOMAIN servers :
            /\ servers[i].clients = {}
            /\ i >= at => servers[i].sock = NoFd
            /\ i < at => servers[i].sock \in Fd /\ fdt[servers[i].sock] = servers[i].port
       /\ at > 0 => masterSet = AllSockets(servers) /\ Covers(maxFd, masterSet)

\* Stopping: the servers before the iterator have nothing open any more.
StopWell ==
  pc \in Stops => \A i \in DOMAIN servers : i < at => SocketsOf(servers[i]) \cap Open = {}

\* What select() is called with.
SetsWell ==
  /\ pc \in {"loop", "select", "blocked"} => masterSet = AllSockets(servers) /\ Covers(maxFd, masterSet)
  /\ pc \in {"select", "blocked"} /\ hpc = "none" => watch = masterSet /\ servers # <<>>
  /\ pc = "rebuild" /\ at # 0 => masterSet = {}

Calm == HandlerWell /\ IteratorWell /\ SocketsWell /\ StartWell /\ StopWell /\ SetsWell

IInv == TypeOK /\ ReloadSafe /\ (~exposed => Calm)

-----------------------------------------------------------------------------
(* Servers as sequences, and the numbers of their descriptors. *)

\* updateMaxFd finds a bound that is a descriptor, or 0.
LEMMA MaxFdBounds ==
  ASSUME NEW F \in SUBSET Fd
  PROVE  MaxFdOf(F) \in Fd \cup {0} /\ Covers(MaxFdOf(F), F)
<1>1. NFds \in Nat /\ F \cup {0} \in SUBSET (0..NFds) /\ F \cup {0} # {}
  BY LifecycleAssumption DEF Fd
<1>2. \E m \in F \cup {0} : \A k \in F \cup {0} : k <= m
  BY <1>1, GreatestExists
<1>3. \E m \in F \cup {0} : \A fd \in F : fd <= m
  BY <1>2
<1> QED BY <1>3 DEF MaxFdOf, Covers

\* While a descriptor is free there is a lowest one.
LEMMA LowestExists ==
  ASSUME TypeOK, Open # Fd
  PROVE  (CHOOSE fd \in Fd : Lowest(fd)) \in Fd /\ Lowest(CHOOSE fd \in Fd : Lowest(fd))
<1> DEFINE S == {fd \in Fd : fdt[fd] = Free}
<1>1. S \in SUBSET Nat /\ S # {}
  BY DEF Fd, Open
<1>2. PICK m \in S : \A k \in S : m <= k
  <2> HIDE DEF S
  <2> QED BY <1>1, LeastExists
<1>3. m \in Fd /\ Lowest(m)
  BY <1>2, LifecycleAssumption DEF Fd, Lowest
<1> QED BY <1>3

LEMMA InAllSockets ==
  ASSUME NEW ss, NEW fd
  PROVE  fd \in AllSockets(ss) <=> \E i \in DOMAIN ss : fd \in SocketsOf(ss[i])
BY DEF AllSockets

LEMMA SocketsAreFds ==
  ASSUME NEW ss \in Seq(Server)
  PROVE  /\ \A i \in DOMAIN ss : ss[i] \in Server /\ SocketsOf(ss[i]) \subseteq Fd
         /\ AllSockets(ss) \subseteq Fd
<1>1. ASSUME NEW i \in DOMAIN ss PROVE ss[i] \in Server
  OBVIOUS
<1>2. ASSUME NEW s \in Server PROVE SocketsOf(s) \subseteq Fd
  BY DEF Server, SocketsOf
<1> QED BY <1>1, <1>2, InAllSockets

\* Servers just made from the lines of a file.
LEMMA NewServersAreFresh ==
  ASSUME NEW ls \in Seq(Ports)
  PROVE  /\ NewServers(ls) \in Seq(Server) /\ DOMAIN NewServers(ls) = DOMAIN ls
         /\ \A i \in DOMAIN ls : Fresh(NewServers(ls)[i]) /\ NewServers(ls)[i].port = ls[i]
         /\ AllSockets(NewServers(ls)) = {}
<1>1. \A i \in DOMAIN ls : NewServer(ls[i]) \in Server /\ Fresh(NewServer(ls[i]))
  BY DEF NewServer, Server, Fresh
<1>2. \A i \in DOMAIN ls : NewServers(ls)[i] = NewServer(ls[i])
  BY DEF NewServers
<1>3. DOMAIN NewServers(ls) = DOMAIN ls /\ DOMAIN ls = 1..Len(ls) /\ Len(ls) \in Nat
  BY DEF NewServers
<1>4. NewServers(ls) \in [1..Len(ls) -> Server]
  BY <1>1, <1>3 DEF NewServers
<1>5. NewServers(ls) \in Seq(Server)
  BY <1>3, <1>4
<1>6. \A fd : fd \notin AllSockets(NewServers(ls))
  BY <1>1, <1>2, <1>3, InAllSockets DEF Fresh, SocketsOf
<1> QED BY <1>1, <1>2, <1>3, <1>5, <1>6 DEF NewServer

\* Another server in the place of one.
LEMMA PutServer ==
  ASSUME NEW ss \in Seq(Server), NEW i \in DOMAIN ss, NEW s \in Server
  PROVE  /\ [ss EXCEPT ![i] = s] \in Seq(Server)
         /\ DOMAIN [ss EXCEPT ![i] = s] = DOMAIN ss
         /\ \A j \in DOMAIN ss : [ss EXCEPT ![i] = s][j] = IF j = i THEN s ELSE ss[j]
  OBVIOUS

-----------------------------------------------------------------------------
(* Types. *)

FlagsOK == /\ isRunning \in BOOLEAN /\ shutdownRequested \in BOOLEAN /\ isLocked \in BOOLEAN
           /\ torn \in BOOLEAN /\ exposed \in BOOLEAN

LEMMA ClosedType ==
  ASSUME NEW t \in [Fd -> Ports \cup {Free, Client}], NEW F
  PROVE  Closed(t, F) \in [Fd -> Ports \cup {Free, Client}]
BY DEF Closed

LEMMA ReadType ==
  ASSUME NEW ls \in Seq(Ports), TypeOK
  PROVE  ReadInto(ls) \in Seq(Ports)
BY LifecycleAssumption DEF ReadInto, TypeOK

\* Steps that change neither a server nor a descriptor.
LEMMA PlainTypes ==
  ASSUME TypeOK,
         \/ Validate \/ Arm \/ LockLog \/ BeginInit \/ EndInit \/ CheckLoop \/ CallSelect
         \/ SelectReports \/ SelectTimeout \/ BeginEvents \/ EndEvents \/ BeginRebuild
         \/ BeginStop \/ ExitMain \/ SigTerm \/ SigHup \/ HandlerReload
         \/ HandlerValidate \/ HandlerSpins \/ Edit
  PROVE  TypeOK'
<1> USE DEF TypeOK, mainVars, groupVars, sysVars, handlerVars, envVars, restVars, Main, Exit,
            Begin, Leave, Stops, Handler, Return, Zeroed
<1>1. CASE Validate
  <2>1. lines' \in Seq(Ports)
    BY <1>1, ReadType DEF Validate
  <2>2. FlagsOK'
    BY <1>1 DEF Validate, FlagsOK
  <2> QED BY <1>1, <2>1, <2>2 DEF Validate, FlagsOK
<1>2. CASE Arm \/ LockLog \/ CheckLoop \/ CallSelect \/ SelectReports \/ SelectTimeout
  <2>1. CASE Arm
    BY <2>1 DEF Arm
  <2>2. CASE LockLog
    BY <2>2 DEF LockLog
  <2>3. CASE CheckLoop
    BY <2>3 DEF CheckLoop
  <2>4. CASE CallSelect
    BY <2>4 DEF CallSelect
  <2>5. CASE SelectReports
    BY <2>5 DEF SelectReports
  <2>6. CASE SelectTimeout
    BY <2>6 DEF SelectTimeout
  <2> QED BY <1>2, <2>1, <2>2, <2>3, <2>4, <2>5, <2>6
<1>3. CASE BeginInit \/ BeginEvents \/ BeginRebuild \/ BeginStop
  <2>1. CASE BeginInit
    BY <2>1 DEF BeginInit
  <2>2. CASE BeginEvents
    BY <2>2 DEF BeginEvents
  <2>3. CASE BeginRebuild
    BY <2>3 DEF BeginRebuild
  <2>4. CASE BeginStop
    <3>1. FlagsOK'
      BY <2>4 DEF BeginStop, FlagsOK
    <3> QED BY <2>4, <3>1 DEF BeginStop, FlagsOK
  <2> QED BY <1>3, <2>1, <2>2, <2>3, <2>4
<1>4. CASE EndInit \/ EndEvents \/ ExitMain
  BY <1>4 DEF EndInit, EndEvents, ExitMain
<1>5. CASE SigTerm
  BY <1>5 DEF SigTerm
<1>6. CASE SigHup
  <2>1. exposed' \in BOOLEAN
    BY <1>6 DEF SigHup
  <2>2. hups' \in 0..MaxReloads
    BY <1>6, LifecycleAssumption DEF SigHup
  <2>3. before' \in Seq(Server) /\ hlines' \in Seq(Ports)
    BY <1>6 DEF SigHup
  <2> QED BY <1>6, <2>1, <2>2, <2>3 DEF SigHup
<1>7. CASE HandlerReload \/ HandlerValidate \/ HandlerSpins
  <2>1. CASE HandlerReload
    <3>1. hlines' \in Seq(Ports)
      BY <2>1, ReadType DEF HandlerReload
    <3> QED BY <2>1, <3>1 DEF HandlerReload
  <2>2. CASE HandlerValidate
    <3>1. hlines' \in Seq(Ports)
      BY <2>2, ReadType DEF HandlerValidate
    <3>2. FlagsOK'
      BY <2>2 DEF HandlerValidate, FlagsOK
    <3> QED BY <2>2, <3>1, <3>2 DEF HandlerValidate, FlagsOK
  <2>3. CASE HandlerSpins
    BY <2>3 DEF HandlerSpins
  <2> QED BY <1>7, <2>1, <2>2, <2>3
<1>8. ASSUME Edit PROVE TypeOK'
  <2>1. edits' \in 0..MaxEdits
    BY ONLY Edit, TypeOK, LifecycleAssumption DEF Edit, TypeOK
  <2>3. taken' \in SUBSET Ports
    BY ONLY Edit, TypeOK DEF Edit, TypeOK
  <2>4. file' \in Contents \cup {Missing}
    BY ONLY Edit, TypeOK DEF Edit, TypeOK
  <2>2. FlagsOK'
    BY <1>8 DEF Edit, FlagsOK
  <2> QED BY ONLY <1>8, <2>1, <2>2, <2>3, <2>4, TypeOK DEF Edit, FlagsOK, TypeOK, mainVars, groupVars,
              sysVars, handlerVars
<1> QED BY <1>1, <1>2, <1>3, <1>4, <1>5, <1>6, <1>7, <1>8

\* Steps of the main thread that do.
LEMMA MainTypes ==
  ASSUME TypeOK,
         Parse \/ InitServer \/ InitFails \/ AcceptClients \/ ServeClients \/ Rebuild
         \/ StopServer \/ EndStop
  PROVE  TypeOK'
<1> USE DEF mainVars, groupVars, sysVars, restVars, Main, Exit, Leave, Visit, Stops, Zeroed
<1>1. CASE Parse
  <2>1. lines' \in Seq(Ports)
    BY <1>1, ReadType DEF Parse, TypeOK
  <2>2. servers' \in Seq(Server)
    BY <1>1, <2>1, NewServersAreFresh DEF Parse, TypeOK
  <2> QED BY <1>1, <2>1, <2>2 DEF Parse, TypeOK
<1>2. CASE InitServer
  <2> USE <1>2 DEF InitServer
  <2>1. PICK fd \in Fd : /\ servers' = [servers EXCEPT ![at].sock = fd]
                         /\ fdt' = [fdt EXCEPT ![fd] = servers[at].port]
                         /\ masterSet' = masterSet \cup {fd}
    OBVIOUS
  <2>2. at \in DOMAIN servers /\ servers[at] \in Server
    BY DEF TypeOK
  <2>3. [servers[at] EXCEPT !.sock = fd] \in Server /\ servers[at].port \in Ports
    BY <2>2 DEF Server
  <2>4. servers' \in Seq(Server) /\ DOMAIN servers' = DOMAIN servers
    BY <2>1, <2>2, <2>3, PutServer DEF TypeOK
  <2>5. fdt' \in [Fd -> Ports \cup {Free, Client}]
    BY <2>1, <2>3 DEF TypeOK
  <2>6. {servers'[i].sock : i \in DOMAIN servers} \ {NoFd} \in SUBSET Fd
    <3>1. \A i \in DOMAIN servers : servers'[i] \in Server
      BY ONLY <2>4
    <3>2. \A i \in DOMAIN servers : servers'[i].sock \in Fd \cup {NoFd}
      BY ONLY <3>1 DEF Server
    <3> QED BY ONLY <3>2
  <2>7. maxFd' \in Fd \cup {0}
    BY <2>6, MaxFdBounds
  <2>8. FlagsOK'
    BY DEF TypeOK, FlagsOK
  <2>9. at' \in Nat /\ masterSet' \in SUBSET Fd
    BY <2>1 DEF TypeOK
  <2> QED BY <2>1, <2>4, <2>5, <2>7, <2>8, <2>9 DEF TypeOK, FlagsOK
<1>3. CASE InitFails
  <2> DEFINE fd == IF Open = Fd THEN NoFd ELSE CHOOSE g \in Fd : Lowest(g)
  <2>1. fd \in Fd \cup {NoFd} /\ at \in DOMAIN servers /\ servers[at] \in Server
    BY <1>3, LowestExists DEF TypeOK, InitFails
  <2>2. servers' = [servers EXCEPT ![at] = [servers[at] EXCEPT !.sock = fd]]
    BY <1>3, <2>1 DEF InitFails, TypeOK
  <2> HIDE DEF fd
  <2>3. [servers[at] EXCEPT !.sock = fd] \in Server
    BY <2>1 DEF Server
  <2>4. servers' \in Seq(Server)
    BY <2>1, <2>2, <2>3, PutServer DEF TypeOK
  <2> QED BY <1>3, <2>4 DEF TypeOK, InitFails
<1>4. CASE AcceptClients
  <2> USE <1>4 DEF AcceptClients
  <2>1. at \in DOMAIN servers /\ servers[at] \in Server
    BY DEF TypeOK
  <2>2. servers' \in Seq(Server) /\ fdt' \in [Fd -> Ports \cup {Free, Client}]
    <3>1. CASE UNCHANGED <<servers, fdt>>
      BY <3>1 DEF TypeOK
    <3>2. ASSUME NEW fd \in Fd, fdt' = [fdt EXCEPT ![fd] = Client],
                 servers' = [servers EXCEPT ![at].clients = @ \cup {fd}]
          PROVE  servers' \in Seq(Server) /\ fdt' \in [Fd -> Ports \cup {Free, Client}]
      <4>1. [servers[at] EXCEPT !.clients = @ \cup {fd}] \in Server
        BY <2>1 DEF Server
      <4>2. servers' = [servers EXCEPT ![at] = [servers[at] EXCEPT !.clients = @ \cup {fd}]]
        BY <2>1, <3>2 DEF TypeOK
      <4> QED BY <2>1, <3>2, <4>1, <4>2, PutServer DEF TypeOK
    <3> QED BY <3>1, <3>2
  <2>3. FlagsOK'
    BY DEF TypeOK, FlagsOK
  <2> QED BY <2>2, <2>3 DEF TypeOK, FlagsOK
<1>5. CASE ServeClients
  <2>1. at \in DOMAIN servers /\ servers[at] \in Server
    BY <1>5 DEF TypeOK, ServeClients
  <2>2. PICK F : servers' = [servers EXCEPT ![at].clients = @ \ F] /\ fdt' = Closed(fdt, F)
    BY <1>5 DEF ServeClients
  <2>3. [servers[at] EXCEPT !.clients = @ \ F] \in Server
    BY <2>1 DEF Server
  <2>4. servers' = [servers EXCEPT ![at] = [servers[at] EXCEPT !.clients = @ \ F]]
    BY <2>1, <2>2 DEF TypeOK
  <2>5. servers' \in Seq(Server) /\ fdt' \in [Fd -> Ports \cup {Free, Client}]
    <3>1. servers \in Seq(Server) /\ fdt \in [Fd -> Ports \cup {Free, Client}]
      BY DEF TypeOK
    <3> QED BY ONLY <2>1, <2>2, <2>3, <2>4, <3>1, PutServer, ClosedType
  <2>6. FlagsOK'
    BY <1>5 DEF TypeOK, FlagsOK, ServeClients
  <2> QED BY <1>5, <2>5, <2>6 DEF TypeOK, FlagsOK, ServeClients
<1>6. CASE Rebuild
  <2>1. AllSockets(servers) \in SUBSET Fd
    BY SocketsAreFds DEF TypeOK
  <2> QED BY <1>6, <2>1, MaxFdBounds DEF TypeOK, Rebuild
<1>7. CASE StopServer
  <2>1. fdt' \in [Fd -> Ports \cup {Free, Client}]
    BY <1>7, ClosedType DEF TypeOK, StopServer
  <2>2. FlagsOK'
    BY <1>7 DEF TypeOK, FlagsOK, StopServer
  <2> QED BY <1>7, <2>1, <2>2 DEF TypeOK, FlagsOK, StopServer
<1>8. CASE EndStop
  BY <1>8 DEF TypeOK, EndStop
<1> QED BY <1>1, <1>2, <1>3, <1>4, <1>5, <1>6, <1>7, <1>8

\* What initializeServers opens for new servers, and what is then listening.
LEMMA StartedTypes ==
  ASSUME NEW ls \in Seq(Ports), NEW f \in [DOMAIN ls -> Fd], Startable(ls, f), TypeOK
  PROVE  /\ Started(ls, f) \in Seq(Server) /\ DOMAIN Started(ls, f) = DOMAIN ls
         /\ \A i \in DOMAIN ls : /\ Started(ls, f)[i].sock = f[i] /\ Started(ls, f)[i].clients = {}
                                 /\ Started(ls, f)[i].port = ls[i]
         /\ Bound(ls, f) \in [Fd -> Ports \cup {Free, Client}]
         /\ \A i \in DOMAIN ls : Bound(ls, f)[f[i]] = ls[i]
         /\ \A i, j \in DOMAIN ls : f[i] = f[j] => i = j
<1>1. DOMAIN ls = 1..Len(ls) /\ Len(ls) \in Nat /\ \A i \in DOMAIN ls : ls[i] \in Ports
  OBVIOUS
<1>2. \A i, j \in DOMAIN ls : f[i] = f[j] => i = j
  <2> SUFFICES ASSUME NEW i \in DOMAIN ls, NEW j \in DOMAIN ls, i < j PROVE f[i] # f[j]
    BY <1>1
  <2>1. f[i] < f[j] /\ f[i] \in Int /\ f[j] \in Int
    BY DEF Startable, Fd
  <2> QED BY <2>1
<1>3. \A i \in DOMAIN ls : [NewServer(ls[i]) EXCEPT !.sock = f[i]] \in Server
  BY <1>1 DEF NewServer, Server
<1>4. /\ Started(ls, f) \in [1..Len(ls) -> Server] /\ DOMAIN Started(ls, f) = DOMAIN ls
      /\ \A i \in DOMAIN ls : Started(ls, f)[i] = [NewServer(ls[i]) EXCEPT !.sock = f[i]]
  BY <1>1, <1>3 DEF Started
<1>5. Started(ls, f) \in Seq(Server)
  BY <1>1, <1>4
<1>6. \A i \in DOMAIN ls : Bound(ls, f)[f[i]] = ls[i]
  BY <1>2 DEF Bound
<1>7. Bound(ls, f) \in [Fd -> Ports \cup {Free, Client}]
  <2> SUFFICES ASSUME NEW fd \in Fd PROVE Bound(ls, f)[fd] \in Ports \cup {Free, Client}
    BY DEF Bound
  <2>1. CASE \E i \in DOMAIN ls : f[i] = fd
    BY <1>1, <1>6, <2>1
  <2>2. CASE ~ \E i \in DOMAIN ls : f[i] = fd
    BY <2>2 DEF Bound, TypeOK
  <2> QED BY <2>1, <2>2
<1>8. \A i \in DOMAIN ls : /\ Started(ls, f)[i].sock = f[i] /\ Started(ls, f)[i].clients = {}
                          /\ Started(ls, f)[i].port = ls[i]
  BY <1>4 DEF NewServer
<1> QED BY <1>2, <1>4, <1>5, <1>6, <1>7, <1>8

\* Steps of the handler that change the servers.
LEMMA HandlerTypes ==
  ASSUME TypeOK, HandlerParse \/ HandlerAdd \/ HandlerInit \/ HandlerInitFails
  PROVE  TypeOK'
<1> USE DEF TypeOK, mainVars, groupVars, sysVars, envVars, Handler, Return, Stop, Zeroed
<1>1. CASE HandlerParse
  <2>1. hlines' \in Seq(Ports) /\ fdt' \in [Fd -> Ports \cup {Free, Client}]
    BY <1>1, ReadType, ClosedType DEF HandlerParse
  <2>2. torn' \in BOOLEAN
    BY ONLY TypeOK, HandlerParse DEF HandlerParse, TypeOK
  <2>3. FlagsOK'
    BY <1>1, <2>2 DEF HandlerParse, FlagsOK
  <2>4. CASE hlines' = <<>>
    BY ONLY <1>1, <2>1, <2>3, <2>4, TypeOK DEF HandlerParse, FlagsOK, Return, TypeOK, groupVars, envVars
  <2>5. CASE hlines' # <<>>
    BY ONLY <1>1, <2>1, <2>3, <2>5, TypeOK DEF HandlerParse, FlagsOK, Stop, Zeroed, TypeOK, envVars
  <2> QED BY <2>4, <2>5
<1>2. CASE HandlerAdd
  BY <1>2, NewServersAreFresh DEF HandlerAdd
<1>3. CASE HandlerInit
  <2>1. PICK f \in [DOMAIN hlines -> Fd] :
          /\ Startable(hlines, f)
          /\ servers' = Started(hlines, f) /\ fdt' = Bound(hlines, f)
          /\ masterSet' = Zeroed \cup {f[i] : i \in DOMAIN hlines}
          /\ maxFd' = MaxFdOf({f[i] : i \in DOMAIN hlines})
    BY <1>3 DEF HandlerInit
  <2>2. {f[i] : i \in DOMAIN hlines} \in SUBSET Fd
    OBVIOUS
  <2>3. servers' \in Seq(Server) /\ fdt' \in [Fd -> Ports \cup {Free, Client}]
    BY <2>1, StartedTypes
  <2>4. masterSet' \in SUBSET Fd /\ maxFd' \in Fd \cup {0}
    BY <2>1, <2>2, MaxFdBounds
  <2> QED BY <1>3, <2>3, <2>4 DEF HandlerInit
<1>4. CASE HandlerInitFails
  <2>1. fdt' \in [Fd -> Ports \cup {Free, Client}] /\ servers' \in Seq(Server)
    BY <1>4, ClosedType DEF HandlerInitFails
  <2>2. FlagsOK'
    BY <1>4 DEF HandlerInitFails, FlagsOK
  <2> QED BY <1>4, <2>1, <2>2 DEF HandlerInitFails, FlagsOK
<1> QED BY <1>1, <1>2, <1>3, <1>4

LEMMA NextTypes ==
  ASSUME TypeOK, [Next]_vars
  PROVE  TypeOK'
<1>1. CASE UNCHANGED vars
  BY <1>1 DEF TypeOK, vars
<1>2. CASE Next
  BY <1>2, PlainTypes, MainTypes, HandlerTypes DEF Next, MainStep, HandlerStep
<1> QED BY <1>1, <1>2

-----------------------------------------------------------------------------
(* The steps, while every SIGHUP came at a safe point. *)

\* Nothing but the place of the main thread, or of its iterator, changes.
LEMMA PlainSteps ==
  ASSUME TypeOK, Calm,
         \/ Validate \/ Arm \/ LockLog \/ CheckLoop \/ CallSelect \/ SelectReports
         \/ SelectTimeout \/ BeginEvents \/ EndEvents \/ EndInit \/ BeginStop \/ ExitMain
         \/ SigTerm \/ Edit
  PROVE  Calm'
<1> DEFINE same == UNCHANGED <<servers, fdt, masterSet, maxFd, torn, before, hlines, hpc>>
<1>1. same /\ Open' = Open
  <2>1. same
    BY DEF Validate, Arm, LockLog, CheckLoop, CallSelect, SelectReports, SelectTimeout,
           BeginEvents, EndEvents, EndInit, BeginStop, ExitMain, SigTerm, Edit, Begin, Leave,
           mainVars, groupVars, sysVars, handlerVars, restVars
  <2> QED BY <2>1 DEF Open
<1>2. at \in Nat /\ DOMAIN servers = 1..Len(servers) /\ Len(servers) \in Nat
  BY DEF TypeOK
<1> HIDE DEF same
<1> USE DEF Main, Exit, Begin, Leave, Stops, InLoop
<1>3. HandlerWell' /\ IteratorWell'
  <2> USE <1>1, <1>2 DEF same, Calm, HandlerWell, IteratorWell, SafePoint, mainVars, groupVars, sysVars
  <2>1. CASE Validate \/ Arm \/ LockLog \/ CheckLoop \/ CallSelect
    BY <2>1 DEF Validate, Arm, LockLog, CheckLoop, CallSelect
  <2>2. CASE SelectReports \/ SelectTimeout \/ BeginEvents \/ EndEvents
    BY <2>2 DEF SelectReports, SelectTimeout, BeginEvents, EndEvents
  <2>3. CASE EndInit \/ BeginStop \/ ExitMain \/ SigTerm \/ Edit
    BY <2>3 DEF EndInit, BeginStop, ExitMain, SigTerm, Edit
  <2> QED BY <2>1, <2>2, <2>3
<1>4. SocketsWell' /\ StartWell'
  <2> USE <1>1, <1>2 DEF same, Calm, SocketsWell, StartWell, IteratorWell, mainVars, groupVars, sysVars
  <2>1. CASE Validate \/ Arm \/ LockLog \/ CheckLoop \/ CallSelect
    BY <2>1 DEF Validate, Arm, LockLog, CheckLoop, CallSelect, Fresh, Listening
  <2>2. CASE SelectReports \/ SelectTimeout \/ BeginEvents \/ EndEvents
    BY <2>2 DEF SelectReports, SelectTimeout, BeginEvents, EndEvents
  <2>3. CASE EndInit \/ BeginStop \/ ExitMain \/ SigTerm \/ Edit
    BY <2>3 DEF EndInit, BeginStop, ExitMain, SigTerm, Edit, Listening
  <2> QED BY <2>1, <2>2, <2>3
<1>5. StopWell' /\ SetsWell'
  <2> USE <1>1, <1>2 DEF same, Calm, StopWell, SetsWell, StartWell, IteratorWell, mainVars, groupVars, sysVars
  <2>1. CASE Validate \/ Arm \/ LockLog \/ CheckLoop \/ CallSelect
    BY <2>1 DEF Validate, Arm, LockLog, CheckLoop, CallSelect, LoopOn, Serving
  <2>2. CASE SelectReports \/ SelectTimeout \/ BeginEvents \/ EndEvents
    BY <2>2 DEF SelectReports, SelectTimeout, BeginEvents, EndEvents
  <2>3. CASE EndInit \/ BeginStop \/ ExitMain \/ SigTerm \/ Edit
    BY <2>3 DEF EndInit, BeginStop, ExitMain, SigTerm, Edit
  <2> QED BY <2>1, <2>2, <2>3
<1> QED BY <1>3, <1>4, <1>5 DEF Calm

\* parse() makes servers that have nothing.
LEMMA ParseStep ==
  ASSUME TypeOK, Calm, Parse
  PROVE  Calm'
<1> USE DEF Parse, Main, Calm
<1>1. /\ hpc = "none" /\ hpc' = "none" /\ torn' = torn /\ at = 0 /\ at' = 0 /\ isLocked' = isLocked
      /\ ~isLocked /\ servers = <<>> /\ Open' = Open
  BY DEF IteratorWell, StartWell, restVars, sysVars, Open
<1>2. CASE pc' = "exited" /\ servers' = servers
  <2>1. HandlerWell' /\ IteratorWell'
    BY <1>1, <1>2 DEF HandlerWell, IteratorWell
  <2>2. SocketsWell' /\ StartWell'
    BY <1>1, <1>2 DEF SocketsWell, StartWell, InLoop
  <2>3. StopWell' /\ SetsWell'
    BY <1>1, <1>2 DEF StopWell, SetsWell, Stops
  <2> QED BY <2>1, <2>2, <2>3
<1>3. CASE pc' = "arm" /\ servers' = NewServers(lines')
  <2>1. lines' \in Seq(Ports)
    BY ReadType DEF TypeOK
  <2>2. /\ \A i \in DOMAIN servers' : Fresh(servers'[i])
        /\ AllSockets(servers') = {}
    BY <1>3, <2>1, NewServersAreFresh
  <2>3. Open' = {}
    BY <1>1 DEF SocketsWell, AllSockets
  <2>4. Disjoint(servers')
    BY <2>2 DEF Disjoint, Fresh, SocketsOf
  <2>5. HandlerWell' /\ IteratorWell'
    BY <1>1, <1>3 DEF HandlerWell, IteratorWell
  <2>6. SocketsWell' /\ StartWell'
    BY <1>1, <1>3, <2>2, <2>3, <2>4 DEF SocketsWell, StartWell, InLoop
  <2>7. StopWell' /\ SetsWell'
    BY <1>1, <1>3 DEF StopWell, SetsWell, Stops
  <2> QED BY <2>5, <2>6, <2>7
<1> QED BY <1>2, <1>3 DEF Exit

\* A server gets one more socket, one that no server has.
Adds(ss, i, s, x, tt) ==
  /\ ss \in Seq(Server) /\ i \in DOMAIN ss /\ s \in Server /\ x \in Fd
  /\ SocketsOf(s) = SocketsOf(ss[i]) \cup {x} /\ s.sock \notin s.clients
  /\ x \notin AllSockets(ss) /\ Disjoint(ss)
  /\ tt = [ss EXCEPT ![i] = s]
LEMMA AddSocket ==
  ASSUME NEW ss, NEW i, NEW s, NEW x, NEW tt, Adds(ss, i, s, x, tt)
  PROVE  AllSockets(tt) = AllSockets(ss) \cup {x} /\ Disjoint(tt)
<1> USE DEF Adds
<1>1. /\ DOMAIN tt = DOMAIN ss /\ tt[i] = s
      /\ \A j \in DOMAIN ss : j # i => tt[j] = ss[j]
  BY PutServer
<1>2. \A fd : fd \in AllSockets(tt) <=> fd \in AllSockets(ss) \/ fd = x
  BY <1>1, InAllSockets
<1>3. \A j \in DOMAIN ss : x \notin SocketsOf(ss[j])
  BY InAllSockets
<1>4. Disjoint(tt)
  BY <1>1, <1>3 DEF Disjoint
<1> QED BY <1>2, <1>4

\* A server loses some of its sockets.
LEMMA DropSockets ==
  ASSUME NEW ss \in Seq(Server), NEW i \in DOMAIN ss, NEW s \in Server, NEW F,
         F \subseteq SocketsOf(ss[i]), SocketsOf(s) = SocketsOf(ss[i]) \ F,
         s.sock \notin s.clients, Disjoint(ss)
  PROVE  /\ AllSockets([ss EXCEPT ![i] = s]) = AllSockets(ss) \ F
         /\ Disjoint([ss EXCEPT ![i] = s])
<1> DEFINE tt == [ss EXCEPT ![i] = s]
<1>1. /\ DOMAIN tt = DOMAIN ss /\ tt[i] = s
      /\ \A j \in DOMAIN ss : j # i => tt[j] = ss[j]
  BY PutServer
<1> HIDE DEF tt
<1>2. \A j \in DOMAIN ss : j # i => SocketsOf(ss[j]) \cap F = {}
  BY DEF Disjoint
<1>3. \A fd : fd \in AllSockets(tt) <=> fd \in AllSockets(ss) /\ fd \notin F
  BY <1>1, <1>2, InAllSockets
<1>4. Disjoint(tt)
  BY <1>1 DEF Disjoint
<1> QED BY <1>3, <1>4 DEF tt

\* What Server::initialize and the loops over the servers do to one of them.
LEMMA InitServerStep ==
  ASSUME TypeOK, Calm, InitServer
  PROVE  Calm'
<1>1. PICK fd \in Fd : /\ Lowest(fd) /\ servers' = [servers EXCEPT ![at].sock = fd]
                      /\ fdt' = [fdt EXCEPT ![fd] = servers[at].port]
                      /\ masterSet' = masterSet \cup {fd}
                      /\ maxFd' = MaxFdOf({servers'[i].sock : i \in DOMAIN servers} \ {NoFd})
  BY DEF InitServer
<1>2. /\ pc = "init" /\ pc' = pc /\ hpc = "none" /\ hpc' = hpc /\ torn' = torn /\ ~isLocked'
      /\ at \in DOMAIN servers /\ at \in Nat /\ at' = at + 1 /\ at > 0
  BY DEF InitServer, Visit, Main, restVars, TypeOK
<1>3. servers \in Seq(Server) /\ servers[at] \in Server /\ DOMAIN servers \subseteq Nat
  BY <1>2 DEF TypeOK
<1> DEFINE s == [servers[at] EXCEPT !.sock = fd]
<1>4. s \in Server /\ s.sock = fd /\ s.clients = servers[at].clients /\ s.port = servers[at].port
  BY <1>3 DEF Server
<1>5. servers' = [servers EXCEPT ![at] = s]
  BY <1>1, <1>2
<1>6. servers[at].clients = {} /\ servers[at].sock = NoFd
  BY <1>2 DEF Calm, StartWell
<1> HIDE DEF s
<1>7. SocketsOf(s) = SocketsOf(servers[at]) \cup {fd} /\ s.sock \notin s.clients
  BY <1>4, <1>6 DEF SocketsOf, Fd, NoFd
<1>8. fd \notin Open /\ AllSockets(servers) \subseteq Open /\ Disjoint(servers)
      /\ Open \subseteq AllSockets(servers)
  BY <1>1, <1>2 DEF Calm, SocketsWell, Lowest, Open
<1>9. AllSockets(servers') = AllSockets(servers) \cup {fd} /\ Disjoint(servers')
  <2>1. fd \in Fd /\ fd \notin AllSockets(servers)
    BY <1>1, <1>8
  <2>2. servers \in Seq(Server) /\ at \in DOMAIN servers /\ s \in Server
    BY <1>2, <1>3, <1>4
  <2>3. s.sock \notin s.clients /\ SocketsOf(s) = SocketsOf(servers[at]) \cup {fd} /\ Disjoint(servers)
    BY <1>7, <1>8
  <2>4. Adds(servers, at, s, fd, servers')
    BY <1>5, <2>1, <2>2, <2>3 DEF Adds
  <2> QED BY <2>4, AddSocket
<1>10. Open' = Open \cup {fd} /\ \A g \in Fd : g # fd => fdt'[g] = fdt[g]
  <2>1. servers[at].port # Free
    BY <1>3, LifecycleAssumption DEF Server, Free
  <2>2. fdt \in [Fd -> Ports \cup {Free, Client}]
    BY DEF TypeOK
  <2> QED BY <1>1, <2>1, <2>2 DEF Open
<1>11. /\ DOMAIN servers' = DOMAIN servers /\ servers'[at] = s
       /\ \A i \in DOMAIN servers : i # at => servers'[i] = servers[i]
  BY <1>2, <1>3, <1>4, <1>5, PutServer
<1>12. HandlerWell' /\ IteratorWell' /\ StopWell'
  BY <1>2 DEF Calm, HandlerWell, IteratorWell, StopWell, Stops
<1>13. SocketsWell' /\ SetsWell'
  BY <1>2, <1>8, <1>9, <1>10 DEF SocketsWell, SetsWell, InLoop
<1>14. \A i \in DOMAIN servers' :
         /\ servers'[i].clients = {}
         /\ i >= at' => servers'[i].sock = NoFd
         /\ i < at' => servers'[i].sock \in Fd /\ fdt'[servers'[i].sock] = servers'[i].port
  <2> SUFFICES ASSUME NEW i \in DOMAIN servers
               PROVE  /\ servers'[i].clients = {}
                      /\ i >= at + 1 => servers'[i].sock = NoFd
                      /\ i < at + 1 => servers'[i].sock \in Fd /\ fdt'[servers'[i].sock] = servers'[i].port
    BY <1>2, <1>11
  <2>1. CASE i = at
    <3>1. fdt'[fd] = servers[at].port
      BY <1>1 DEF TypeOK
    <3> QED BY <1>2, <1>4, <1>6, <1>11, <2>1, <3>1
  <2>2. CASE i # at
    <3>1. servers'[i] = servers[i] /\ i \in Nat /\ servers[i].clients = {}
          /\ (i >= at => servers[i].sock = NoFd)
          /\ (i < at => servers[i].sock \in Fd /\ fdt[servers[i].sock] = servers[i].port)
      BY <1>2, <1>3, <1>11, <2>2 DEF Calm, StartWell
    <3>2. ASSUME i < at PROVE servers[i].sock # fd
      BY <1>1, <3>1, <3>2, <1>3, LifecycleAssumption, SocketsAreFds DEF Lowest, Free, Server
    <3> QED BY <1>2, <1>10, <2>2, <3>1, <3>2
  <2> QED BY <2>1, <2>2
<1>15. masterSet' = AllSockets(servers') /\ Covers(maxFd', masterSet')
  <2>1. masterSet = AllSockets(servers)
    BY <1>2 DEF Calm, StartWell
  <2>2. masterSet' = AllSockets(servers')
    BY <1>1, <1>9, <2>1
  <2> DEFINE S == {servers'[i].sock : i \in DOMAIN servers} \ {NoFd}
  <2>3. servers' \in Seq(Server)
    BY <1>2, <1>3, <1>4, <1>5, PutServer
  <2>4. \A i \in DOMAIN servers : servers'[i].sock \in Fd \cup {NoFd}
    BY <1>11, <2>3, SocketsAreFds DEF Server
  <2>5. S \in SUBSET Fd
    BY <2>4
  <2>6. Covers(maxFd', S)
    <3> HIDE DEF S
    <3> SUFFICES Covers(MaxFdOf(S), S)
      BY <1>1 DEF S
    <3> QED BY <2>5, MaxFdBounds
  <2>7. \A g \in AllSockets(servers') : g \in S
    BY <1>11, <1>14, InAllSockets DEF SocketsOf
  <2> QED BY <2>2, <2>6, <2>7 DEF Covers
<1>16. StartWell'
  BY <1>2, <1>14, <1>15 DEF StartWell
<1> QED BY <1>12, <1>13, <1>16 DEF Calm

LEMMA BeginInitStep ==
  ASSUME TypeOK, Calm, BeginInit
  PROVE  Calm'
<1>1. /\ pc = "init" /\ at = 0 /\ at' = 1 /\ masterSet' = {} /\ hpc = "none"
      /\ UNCHANGED <<pc, servers, fdt, torn, before, hlines, hpc, isLocked, maxFd, watch>>
      /\ Open' = Open /\ ~isLocked
  BY DEF BeginInit, Begin, Main, Zeroed, sysVars, restVars, Open, Calm, IteratorWell, TypeOK
<1>2. DOMAIN servers = 1..Len(servers) /\ Len(servers) \in Nat
  BY DEF TypeOK
<1>3. \A i \in DOMAIN servers : servers[i].clients = {} /\ servers[i].sock = NoFd /\ i >= 1
  BY <1>1, <1>2 DEF Calm, StartWell
<1>4. AllSockets(servers) = {}
  <2>1. \A fd : fd \notin AllSockets(servers)
    BY <1>3, InAllSockets DEF SocketsOf
  <2> QED BY <2>1
<1>5. HandlerWell' /\ IteratorWell' /\ StopWell' /\ SetsWell'
  BY <1>1 DEF Calm, HandlerWell, IteratorWell, StopWell, SetsWell, Stops
<1>6. SocketsWell' /\ StartWell'
  BY <1>1, <1>2, <1>3, <1>4 DEF Calm, SocketsWell, StartWell, InLoop, Covers
<1> QED BY <1>5, <1>6 DEF Calm

\* A start that fails leaves the server a number, yet nothing open.
LEMMA InitFailsStep ==
  ASSUME TypeOK, Calm, InitFails
  PROVE  Calm'
<1> DEFINE fd == IF Open = Fd THEN NoFd ELSE CHOOSE g \in Fd : Lowest(g)
<1>1. /\ pc = "init" /\ pc' = "cleanup" /\ hpc = "none" /\ hpc' = hpc /\ torn' = torn /\ ~isLocked'
      /\ at \in DOMAIN servers /\ at' = 0 /\ fdt' = fdt /\ Open' = Open
      /\ servers' = [servers EXCEPT ![at].sock = fd]
  BY DEF InitFails, Main, restVars, Open
<1>2. DOMAIN servers = 1..Len(servers) /\ Len(servers) \in Nat /\ servers[at] \in Server
  BY <1>1 DEF TypeOK
<1>3. servers[at].clients = {} /\ servers[at].sock = NoFd
  BY <1>1, <1>2 DEF Calm, StartWell
<1>4. SocketsOf(servers[at]) = {}
  BY <1>3 DEF SocketsOf
<1> HIDE DEF fd
<1>5. DOMAIN servers' = DOMAIN servers /\ \A i \in DOMAIN servers : i # at => servers'[i] = servers[i]
  BY <1>1, <1>2 DEF TypeOK
<1>6. AllSockets(servers) \subseteq AllSockets(servers')
  BY <1>4, <1>5, InAllSockets
<1>7. SocketsWell' /\ StartWell'
  BY <1>1, <1>6 DEF Calm, SocketsWell, StartWell, InLoop
<1>8. HandlerWell' /\ IteratorWell'
  BY <1>1 DEF Calm, HandlerWell, IteratorWell
<1>9. StopWell' /\ SetsWell'
  BY <1>1, <1>2, <1>5 DEF Calm, StopWell, SetsWell, Stops
<1> QED BY <1>7, <1>8, <1>9 DEF Calm

\* An accepted client gets a descriptor that was closed.
LEMMA AcceptClientsStep ==
  ASSUME TypeOK, Calm, AcceptClients
  PROVE  Calm'
<1>1. /\ pc = "events" /\ pc' = pc /\ hpc = "none" /\ hpc' = hpc /\ torn' = torn /\ ~isLocked'
      /\ at \in DOMAIN servers /\ at' = at + 1 /\ at \in Nat
  BY DEF AcceptClients, Visit, Main, restVars, TypeOK
<1>2. servers \in Seq(Server) /\ servers[at] \in Server /\ fdt \in [Fd -> Ports \cup {Free, Client}]
  BY <1>1 DEF TypeOK
<1>3. /\ Open \subseteq AllSockets(servers) /\ AllSockets(servers) \subseteq Open
      /\ Disjoint(servers) /\ Listening(servers, fdt)
  BY <1>1 DEF Calm, SocketsWell, InLoop
<1>4. HandlerWell' /\ IteratorWell' /\ StartWell' /\ StopWell' /\ SetsWell'
  BY <1>1 DEF Calm, HandlerWell, IteratorWell, StartWell, StopWell, SetsWell, Stops
<1>5. CASE UNCHANGED <<servers, fdt>>
  <2>1. SocketsWell'
    BY <1>1, <1>3, <1>5 DEF SocketsWell, InLoop, Open
  <2> QED BY <1>4, <2>1 DEF Calm
<1>6. ASSUME NEW fd \in Fd, Lowest(fd), fdt' = [fdt EXCEPT ![fd] = Client],
             servers' = [servers EXCEPT ![at].clients = @ \cup {fd}]
      PROVE  Calm'
  <2> DEFINE s == [servers[at] EXCEPT !.clients = @ \cup {fd}]
  <2>1. s \in Server /\ s.sock = servers[at].sock /\ s.clients = servers[at].clients \cup {fd}
        /\ s.port = servers[at].port
    BY <1>2 DEF Server
  <2>2. servers' = [servers EXCEPT ![at] = s]
    BY <1>1, <1>2, <1>6
  <2> HIDE DEF s
  <2>3. Open' = Open \cup {fd} /\ fd \notin Open /\ \A g \in Fd : g # fd => fdt'[g] = fdt[g]
    BY <1>2, <1>6 DEF Open, Lowest, Client, Free
  <2>4. fd \in Fd /\ fd \notin AllSockets(servers)
    BY <1>3, <2>3
  <2>5. servers[at].sock # fd /\ servers[at].sock \notin servers[at].clients
    <3>1. fdt[servers[at].sock] = servers[at].port /\ servers[at].port # Free
      BY <1>1, <1>2, <1>3, LifecycleAssumption DEF Listening, Server, Free
    <3>2. fdt[fd] = Free
      BY <1>6 DEF Lowest
    <3> QED BY <1>1, <1>3, <3>1, <3>2 DEF Disjoint
  <2>6. SocketsOf(s) = SocketsOf(servers[at]) \cup {fd} /\ s.sock \notin s.clients
    BY <2>1, <2>5, fd # NoFd DEF SocketsOf, Fd, NoFd
  <2>7. AllSockets(servers') = AllSockets(servers) \cup {fd} /\ Disjoint(servers')
    <3>1. servers \in Seq(Server) /\ at \in DOMAIN servers /\ s \in Server /\ Disjoint(servers)
      BY <1>1, <1>2, <1>3, <2>1
    <3>2. Adds(servers, at, s, fd, servers')
      BY <2>2, <2>4, <2>6, <3>1 DEF Adds
    <3> QED BY <3>2, AddSocket
  <2>8. /\ DOMAIN servers' = DOMAIN servers /\ servers'[at] = s
        /\ \A i \in DOMAIN servers : i # at => servers'[i] = servers[i]
    BY <1>1, <1>2, <2>1, <2>2, PutServer
  <2>9. Listening(servers', fdt')
    BY <1>3, <2>1, <2>3, <2>8, <1>6, LifecycleAssumption, SocketsAreFds, <1>2 DEF Listening, Server, Lowest, Free
  <2>10. SocketsWell'
    BY <1>1, <1>3, <2>3, <2>7, <2>9 DEF SocketsWell, InLoop
  <2> QED BY <1>4, <2>10 DEF Calm
<1> QED BY <1>5, <1>6 DEF AcceptClients

\* Closing clients closes nothing else.
LEMMA ServeClientsStep ==
  ASSUME TypeOK, Calm, ServeClients
  PROVE  Calm'
<1>1. /\ pc = "serve" /\ pc' = pc /\ hpc = "none" /\ hpc' = hpc /\ torn' = torn /\ ~isLocked'
      /\ at \in DOMAIN servers /\ at' = at + 1 /\ at \in Nat
  BY DEF ServeClients, Visit, Main, restVars, TypeOK
<1>2. PICK F \in SUBSET servers[at].clients :
        servers' = [servers EXCEPT ![at].clients = @ \ F] /\ fdt' = Closed(fdt, F)
  BY DEF ServeClients
<1>3. servers \in Seq(Server) /\ servers[at] \in Server /\ fdt \in [Fd -> Ports \cup {Free, Client}]
  BY <1>1 DEF TypeOK
<1>4. /\ Open \subseteq AllSockets(servers) /\ AllSockets(servers) \subseteq Open
      /\ Disjoint(servers) /\ Listening(servers, fdt)
  BY <1>1 DEF Calm, SocketsWell, InLoop
<1> DEFINE s == [servers[at] EXCEPT !.clients = @ \ F]
<1>5. s \in Server /\ s.sock = servers[at].sock /\ s.clients = servers[at].clients \ F
      /\ s.port = servers[at].port
  BY <1>3 DEF Server
<1>6. servers' = [servers EXCEPT ![at] = s]
  BY <1>1, <1>2, <1>3
<1> HIDE DEF s
<1>7. F \subseteq Fd /\ F \subseteq SocketsOf(servers[at]) /\ servers[at].sock \notin servers[at].clients
  BY <1>1, <1>3, <1>4 DEF Server, SocketsOf, Disjoint, Fd, NoFd
<1>8. SocketsOf(s) = SocketsOf(servers[at]) \ F /\ s.sock \notin s.clients
  BY <1>5, <1>7 DEF SocketsOf
<1>9. AllSockets(servers') = AllSockets(servers) \ F /\ Disjoint(servers')
  <2>1. servers \in Seq(Server) /\ at \in DOMAIN servers /\ s \in Server /\ Disjoint(servers)
        /\ F \subseteq SocketsOf(servers[at])
    BY <1>1, <1>3, <1>4, <1>5, <1>7
  <2> QED BY ONLY <1>6, <1>8, <2>1, DropSockets
<1>10. Open' = Open \ F /\ \A g \in Fd : g \notin F => fdt'[g] = fdt[g]
  BY <1>2 DEF Open, Closed
<1>11. /\ DOMAIN servers' = DOMAIN servers /\ servers'[at] = s
       /\ \A i \in DOMAIN servers : i # at => servers'[i] = servers[i]
  BY <1>1, <1>3, <1>5, <1>6, PutServer
<1>12. \A i \in DOMAIN servers : servers[i].sock \in Fd /\ servers[i].sock \notin F
  <2> TAKE i \in DOMAIN servers
  <2>1. servers[i].sock \in SocketsOf(servers[i]) /\ servers[i].sock \in Fd
    BY <1>4 DEF Listening, SocketsOf, Fd, NoFd
  <2> QED BY <1>1, <1>4, <1>7, <2>1 DEF Disjoint
<1>13. Listening(servers', fdt')
  BY <1>4, <1>5, <1>10, <1>11, <1>12 DEF Listening
<1>14. SocketsWell'
  BY <1>1, <1>4, <1>9, <1>10, <1>13 DEF SocketsWell, InLoop
<1>15. HandlerWell' /\ IteratorWell' /\ StartWell' /\ StopWell' /\ SetsWell'
  BY <1>1 DEF Calm, HandlerWell, IteratorWell, StartWell, StopWell, SetsWell, Stops
<1> QED BY <1>14, <1>15 DEF Calm

LEMMA RebuildSteps ==
  ASSUME TypeOK, Calm, BeginRebuild \/ Rebuild
  PROVE  Calm'
<1>1. /\ pc = "rebuild" /\ hpc = "none" /\ UNCHANGED <<hpc, servers, fdt, torn, isLocked, watch>>
      /\ Open' = Open /\ ~isLocked
  BY DEF BeginRebuild, Rebuild, Begin, Main, sysVars, restVars, Open, Calm, IteratorWell
<1>2. CASE BeginRebuild
  <2>1. pc' = pc /\ masterSet' = {}
    BY <1>2 DEF BeginRebuild, Begin, Zeroed
  <2>2. HandlerWell' /\ IteratorWell' /\ StartWell'
    BY <1>1, <2>1 DEF Calm, HandlerWell, IteratorWell, StartWell
  <2>3. SocketsWell' /\ StopWell' /\ SetsWell'
    BY <1>1, <2>1 DEF Calm, SocketsWell, StopWell, SetsWell, Stops, InLoop
  <2> QED BY <2>2, <2>3 DEF Calm
<1>3. CASE Rebuild
  <2>1. /\ pc' = "loop" /\ at' = 0 /\ at = 1 /\ masterSet' = masterSet \cup AllSockets(servers)
        /\ maxFd' = MaxFdOf(AllSockets(servers))
    BY <1>3 DEF Rebuild
  <2>2. masterSet' = AllSockets(servers)
    BY <1>1, <2>1 DEF Calm, SetsWell
  <2>3. AllSockets(servers) \in SUBSET Fd
    BY SocketsAreFds DEF TypeOK
  <2>4. Covers(maxFd', AllSockets(servers))
    BY <2>1, <2>3, MaxFdBounds
  <2>5. HandlerWell' /\ IteratorWell' /\ StartWell'
    BY <1>1, <2>1 DEF Calm, HandlerWell, IteratorWell, StartWell
  <2>6. SocketsWell' /\ StopWell' /\ SetsWell'
    BY <1>1, <2>1, <2>2, <2>4 DEF Calm, SocketsWell, StopWell, SetsWell, Stops, InLoop
  <2> QED BY <2>5, <2>6 DEF Calm
<1> QED BY <1>2, <1>3

\* When a server is stopped nothing of it stays open, and when all are nothing at all.
LEMMA StopSteps ==
  ASSUME TypeOK, Calm, StopServer \/ EndStop
  PROVE  Calm'
<1>1. pc \in Stops /\ hpc = "none" /\ UNCHANGED <<hpc, torn, before, hlines, watch, maxFd>>
  BY DEF StopServer, EndStop, Visit, Leave, Main, Stops, restVars, groupVars
<1>2. at \in Nat /\ DOMAIN servers = 1..Len(servers) /\ Len(servers) \in Nat
  BY DEF TypeOK
<1>3. CASE StopServer
  <2>1. /\ at \in DOMAIN servers /\ at' = at + 1 /\ pc' = pc /\ servers' = servers /\ ~isLocked'
        /\ fdt' = Closed(fdt, SocketsOf(servers[at]))
    BY <1>3 DEF StopServer, Visit, groupVars
  <2>2. Open' = Open \ SocketsOf(servers[at])
    BY <2>1 DEF Open, Closed
  <2>3. \A i \in DOMAIN servers : i < at + 1 => SocketsOf(servers[i]) \cap Open' = {}
    <3>1. \A i \in DOMAIN servers : i < at + 1 => i < at \/ i = at
      BY <1>2
    <3>2. \A i \in DOMAIN servers : i < at => SocketsOf(servers[i]) \cap Open = {}
      BY <1>1 DEF Calm, StopWell
    <3> QED BY <2>2, <3>1, <3>2
  <2>4. HandlerWell' /\ IteratorWell' /\ StartWell'
    BY <1>1, <2>1 DEF Calm, HandlerWell, IteratorWell, StartWell, Stops
  <2>5. SocketsWell' /\ StopWell' /\ SetsWell'
    BY <1>1, <2>1, <2>2, <2>3 DEF Calm, SocketsWell, StopWell, SetsWell, Stops, InLoop
  <2> QED BY <2>4, <2>5 DEF Calm
<1>4. CASE EndStop
  <2>1. /\ at = Len(servers) + 1 /\ pc' \in {"destroy", "leave"} /\ at' = 0 /\ servers' = <<>>
        /\ masterSet' = {} /\ isLocked' = isLocked /\ Open' = Open
    BY <1>4 DEF EndStop, Leave, Zeroed, sysVars, Open
  <2>2. \A i \in DOMAIN servers : SocketsOf(servers[i]) \cap Open = {}
    BY <1>1, <1>2, <2>1 DEF Calm, StopWell
  <2>3. Open = {}
    BY <2>2, InAllSockets DEF Calm, SocketsWell
  <2>4. HandlerWell' /\ IteratorWell' /\ StartWell'
    BY <1>1, <2>1 DEF Calm, HandlerWell, IteratorWell, StartWell, Stops
  <2>5. SocketsWell' /\ StopWell' /\ SetsWell'
    BY <1>1, <2>1, <2>3 DEF Calm, SocketsWell, StopWell, SetsWell, Stops, InLoop
  <2> QED BY <2>4, <2>5 DEF Calm
<1> QED BY <1>3, <1>4

-----------------------------------------------------------------------------
(* The handler. *)

\* A signal that comes at a safe point, and a file that is looked at.
LEMMA LookSteps ==
  ASSUME TypeOK, Calm, HandlerReload \/ HandlerValidate \/ (SigHup /\ SafePoint)
  PROVE  Calm'
<1> DEFINE same == UNCHANGED <<at, watch, servers, masterSet, maxFd, fdt, isLocked, torn>>
<1>1. same /\ Open' = Open
  <2>1. same
    BY DEF HandlerReload, HandlerValidate, SigHup, mainVars, groupVars, sysVars
  <2> QED BY <2>1 DEF Open
<1>2. hpc \in {"reload", "validate"} \/ hpc = "none"
  BY DEF HandlerReload, HandlerValidate, SigHup, Handler
<1>3. hpc' \in {"reload", "validate", "parse"} \/ hpc' = "none"
  BY DEF HandlerReload, HandlerValidate, SigHup, Return
<1>4. SafePoint /\ (pc' = pc \/ (pc = "blocked" /\ pc' = "loop" /\ hpc' = "none"))
  BY DEF HandlerReload, HandlerValidate, SigHup, Handler, Return, mainVars, Calm, HandlerWell
<1>5. hpc' # "none" => before' = servers
  BY DEF HandlerReload, HandlerValidate, SigHup, Handler, Return, Calm, HandlerWell
<1>6. hpc' = "none" => pc' # "blocked"
  BY <1>4 DEF HandlerReload, HandlerValidate, SigHup, Handler, Return, SafePoint
<1> HIDE DEF same
<1>7. HandlerWell' /\ IteratorWell'
  BY <1>1, <1>3, <1>4, <1>5 DEF same, Calm, HandlerWell, IteratorWell, SafePoint
<1>8. SocketsWell' /\ StartWell'
  BY <1>1, <1>2, <1>3, <1>4 DEF same, Calm, SocketsWell, StartWell, InLoop, SafePoint
<1>9. StopWell' /\ SetsWell'
  BY <1>1, <1>2, <1>3, <1>4, <1>6 DEF same, Calm, StopWell, SetsWell, Stops, SafePoint
<1> QED BY <1>7, <1>8, <1>9 DEF Calm

\* While no server has a socket, nothing is open and the sets are empty, all is well
\* wherever the main thread stands.
LEMMA NothingOpen ==
  ASSUME TypeOK, Calm, SafePoint, Open' = {}, AllSockets(servers') = {}, Disjoint(servers'),
         masterSet' = {}, pc' = pc \/ (pc = "blocked" /\ pc' = "loop"), hpc' = "none" => pc' # "blocked",
         UNCHANGED <<at, isLocked>>, hpc' # "init" => servers' = <<>>
  PROVE  IteratorWell' /\ SocketsWell' /\ StartWell' /\ StopWell' /\ SetsWell'
<1> USE DEF SafePoint
<1>1. IteratorWell' /\ StartWell'
  BY DEF Calm, IteratorWell, StartWell
<1>2. SocketsWell'
  BY DEF SocketsWell, InLoop, Listening
<1>3. StopWell' /\ SetsWell'
  BY DEF StopWell, SetsWell, Covers, Stops
<1> QED BY <1>1, <1>2, <1>3

\* Stopping all servers leaves nothing open.
LEMMA StopLeavesNothing ==
  ASSUME TypeOK, Calm, Stop
  PROVE  Open' = {} /\ AllSockets(servers') = {} /\ Disjoint(servers') /\ masterSet' = {}
<1>1. Open' = {}
  BY DEF Stop, Closed, Open, Calm, SocketsWell
<1> QED BY <1>1 DEF Stop, Zeroed, AllSockets, Disjoint

LEMMA HandlerParseStep ==
  ASSUME TypeOK, Calm, HandlerParse
  PROVE  Calm'
<1>1. SafePoint /\ at = 0 /\ ~torn /\ servers = before /\ UNCHANGED <<at, isLocked, before, watch>>
  BY DEF HandlerParse, Handler, Calm, HandlerWell, SafePoint
<1>2. CASE hlines' = <<>>
  <2>1. /\ UNCHANGED <<servers, masterSet, maxFd, fdt, torn>> /\ hpc' = "none" /\ hpc = "parse"
        /\ pc' = IF pc = "blocked" THEN "loop" ELSE pc
        /\ Open' = Open
    BY <1>2 DEF HandlerParse, Handler, Return, groupVars, Open
  <2>2. HandlerWell' /\ IteratorWell' /\ StartWell'
    BY <1>1, <2>1 DEF Calm, HandlerWell, IteratorWell, StartWell, SafePoint
  <2>3. SocketsWell' /\ StopWell' /\ SetsWell'
    BY <1>1, <2>1 DEF Calm, SocketsWell, StopWell, SetsWell, InLoop, Stops, SafePoint
  <2> QED BY <2>2, <2>3 DEF Calm
<1>3. CASE hlines' # <<>>
  <2>1. Stop /\ hpc' = "add" /\ torn' = (torn \/ at > 0) /\ pc' = pc
    BY <1>3 DEF HandlerParse
  <2>2. servers' = <<>>
    BY <2>1 DEF Stop
  <2>3. HandlerWell'
    <3>1. ~(at > 0)
      BY <1>1
    <3>2. ~torn'
      BY ONLY <1>1, <2>1, <3>1, Zenon
    <3> QED BY <1>1, <2>1, <2>2, <3>2 DEF HandlerWell, SafePoint
  <2>4. IteratorWell' /\ SocketsWell' /\ StartWell' /\ StopWell' /\ SetsWell'
    BY <1>1, <2>1, <2>2, StopLeavesNothing, NothingOpen
  <2> QED BY <2>3, <2>4 DEF Calm
<1> QED BY <1>2, <1>3

\* Between stopping the old servers and starting the new ones nothing is open.
LEMMA NothingWhileReloading ==
  ASSUME TypeOK, Calm, hpc \in {"add", "init"}
  PROVE  /\ Open = {} /\ SafePoint /\ at = 0 /\ ~torn /\ ~isLocked
         /\ pc \in {"loop", "blocked"} => masterSet = {}
<1>1. SafePoint /\ at = 0 /\ ~torn /\ hlines \in Seq(Ports)
  BY DEF Calm, HandlerWell, SafePoint, TypeOK
<1>2. AllSockets(servers) = {}
  BY <1>1, NewServersAreFresh DEF Calm, HandlerWell, AllSockets
<1>3. ~isLocked
  BY <1>1 DEF Calm, IteratorWell, TypeOK
<1> QED BY <1>1, <1>2, <1>3 DEF Calm, SocketsWell, SetsWell

LEMMA HandlerAddStep ==
  ASSUME TypeOK, Calm, HandlerAdd
  PROVE  Calm'
<1>1. /\ hpc = "add" /\ hpc' = "init" /\ servers' = NewServers(hlines)
      /\ UNCHANGED <<pc, at, watch, masterSet, maxFd, isLocked, fdt, hlines, torn>> /\ Open' = Open
  BY DEF HandlerAdd, Handler, mainVars, sysVars, Open
<1>2. /\ Open = {} /\ SafePoint /\ at = 0 /\ ~torn /\ ~isLocked
      /\ pc \in {"loop", "blocked"} => masterSet = {}
  BY <1>1, NothingWhileReloading
<1>3. AllSockets(servers') = {} /\ Disjoint(servers') /\ hlines \in Seq(Ports)
  <2>1. hlines \in Seq(Ports)
    BY DEF TypeOK
  <2> QED BY <1>1, <2>1, NewServersAreFresh DEF Disjoint, Fresh, SocketsOf
<1>4. HandlerWell' /\ IteratorWell' /\ StartWell'
  <2>1. HandlerWell'
    BY <1>1, <1>2 DEF HandlerWell, SafePoint
  <2>2. IteratorWell' /\ StartWell'
    BY <1>1, <1>2 DEF IteratorWell, StartWell, SafePoint
  <2> QED BY <2>1, <2>2
<1>5. SocketsWell' /\ StopWell' /\ SetsWell'
  BY <1>1, <1>2, <1>3 DEF SocketsWell, StopWell, SetsWell, Covers, InLoop, SafePoint, Stops
<1> QED BY <1>4, <1>5 DEF Calm

\* initializeServers succeeds: exactly the new listeners are open.
LEMMA HandlerInitStep ==
  ASSUME TypeOK, Calm, HandlerInit
  PROVE  /\ Calm'
         /\ [i \in DOMAIN servers' |-> servers'[i].port] = hlines' /\ Listening(servers', fdt')
<1>1. PICK f \in [DOMAIN hlines -> Fd] :
        /\ Startable(hlines, f)
        /\ servers' = Started(hlines, f) /\ fdt' = Bound(hlines, f)
        /\ masterSet' = {f[i] : i \in DOMAIN hlines}
        /\ maxFd' = MaxFdOf({f[i] : i \in DOMAIN hlines})
  BY DEF HandlerInit, Zeroed
<1>2. /\ hpc = "init" /\ hpc' = "none" /\ UNCHANGED <<at, watch, isLocked, hlines, torn>>
      /\ pc' = IF pc = "blocked" THEN "loop" ELSE pc
  BY DEF HandlerInit, Handler, Return
<1>3. /\ Open = {} /\ SafePoint /\ at = 0 /\ ~torn
  BY <1>2, NothingWhileReloading
<1>4. hlines \in Seq(Ports) /\ DOMAIN hlines = 1..Len(hlines) /\ \A i \in DOMAIN hlines : hlines[i] \in Ports
  BY DEF TypeOK
<1>5. /\ servers' \in Seq(Server) /\ DOMAIN servers' = DOMAIN hlines
      /\ \A i \in DOMAIN hlines : /\ servers'[i].sock = f[i] /\ servers'[i].clients = {}
                                 /\ servers'[i].port = hlines[i]
      /\ \A i \in DOMAIN hlines : fdt'[f[i]] = hlines[i]
      /\ \A i, j \in DOMAIN hlines : f[i] = f[j] => i = j
  BY <1>1, <1>4, StartedTypes
<1>6. \A i \in DOMAIN hlines : SocketsOf(servers'[i]) = {f[i]}
  BY <1>5 DEF SocketsOf, Fd, NoFd
<1>7. AllSockets(servers') = {f[i] : i \in DOMAIN hlines}
  BY <1>5, <1>6 DEF AllSockets
<1>8. Disjoint(servers')
  BY <1>5, <1>6 DEF Disjoint
<1>9. Listening(servers', fdt')
  BY <1>5 DEF Listening
<1>10. Open' = AllSockets(servers')
  <2>1. \A fd \in Fd : (\A i \in DOMAIN hlines : f[i] # fd) => fdt'[fd] = Free
    BY <1>1, <1>3 DEF Bound, Open
  <2>2. \A i \in DOMAIN hlines : fdt'[f[i]] # Free
    BY <1>4, <1>5, LifecycleAssumption DEF Free
  <2>3. \A fd \in Fd : fdt'[fd] # Free <=> \E i \in DOMAIN hlines : f[i] = fd
    BY <2>1, <2>2
  <2> QED BY <1>7, <2>3 DEF Open
<1>11. Covers(maxFd', masterSet')
  <2>1. {f[i] : i \in DOMAIN hlines} \in SUBSET Fd
    OBVIOUS
  <2> QED BY <1>1, <2>1, MaxFdBounds
<1>12. HandlerWell' /\ IteratorWell' /\ StartWell'
  <2>1. HandlerWell'
    BY <1>2, <1>3 DEF HandlerWell
  <2>2. ~isLocked'
    <3>1. 0 \notin DOMAIN servers
      BY DEF TypeOK
    <3> QED BY <1>2, <1>3, <3>1 DEF Calm, IteratorWell
  <2>3. IteratorWell'
    BY <1>2, <1>3, <2>2 DEF IteratorWell
  <2>4. pc' \notin {"validate", "parse", "arm", "init"}
    BY <1>2, <1>3 DEF SafePoint
  <2> QED BY <2>1, <2>3, <2>4 DEF StartWell
<1>13. SocketsWell' /\ StopWell' /\ SetsWell'
  BY <1>1, <1>2, <1>3, <1>7, <1>8, <1>9, <1>10, <1>11
     DEF SocketsWell, StopWell, SetsWell, InLoop, SafePoint, Stops
<1>14. [i \in DOMAIN servers' |-> servers'[i].port] = hlines'
  BY <1>2, <1>4, <1>5
<1> QED BY <1>9, <1>12, <1>13, <1>14 DEF Calm

\* It fails only if the file had become wrong, a port is another's, or there are
\* fewer descriptors than servers: otherwise the first ones would do.
LEMMA HandlerInitFailsStep ==
  ASSUME TypeOK, Calm, HandlerInitFails
  PROVE  /\ Calm' /\ servers' = <<>> /\ hpc = "init"
         /\ \/ ~Accepted(hlines) \/ Len(hlines) > NFds
            \/ \E i \in DOMAIN hlines : hlines[i] \in taken
<1>1. /\ hpc = "init" /\ hpc' = "none" /\ UNCHANGED <<at, watch, isLocked, hlines, torn>>
      /\ pc' = IF pc = "blocked" THEN "loop" ELSE pc
      /\ Stop /\ servers' = <<>>
  BY DEF HandlerInitFails, Handler, Return, Stop
<1>2. Open = {} /\ SafePoint /\ at = 0 /\ ~torn
  BY <1>1, NothingWhileReloading
<1>3. IteratorWell' /\ SocketsWell' /\ StartWell' /\ StopWell' /\ SetsWell'
  BY <1>1, <1>2, StopLeavesNothing, NothingOpen
<1>4. HandlerWell'
  BY <1>1, <1>2 DEF HandlerWell
<1>5. ASSUME Accepted(hlines), Len(hlines) <= NFds, \A i \in DOMAIN hlines : hlines[i] \notin taken
      PROVE  FALSE
  <2> DEFINE f == [i \in DOMAIN hlines |-> i]
  <2>1. /\ DOMAIN hlines = 1..Len(hlines) /\ Len(hlines) \in Nat
        /\ \A i \in DOMAIN hlines : hlines[i] \in Ports
    BY DEF TypeOK
  <2>2. f \in [DOMAIN hlines -> Fd]
    BY <1>5, <2>1, LifecycleAssumption DEF Fd
  <2>3. \A fd \in Fd : fdt[fd] = Free
    BY <1>2 DEF Open
  <2>4. \A i \in DOMAIN hlines : Bindable(hlines[i]) /\ fdt[f[i]] = Free
    BY <1>5, <2>1, <2>2, <2>3, LifecycleAssumption DEF Bindable, Free
  <2>5. \A i, j \in DOMAIN hlines : i < j => f[i] < f[j] /\ hlines[i] # hlines[j]
    BY <1>5, <2>1 DEF Accepted
  <2>6. \A i \in DOMAIN hlines : \A fd \in 1..f[i] : fdt[fd] # Free \/ \E j \in 1..i : f[j] = fd
    BY <2>1
  <2>7. Startable(hlines, f)
    BY <2>4, <2>5, <2>6 DEF Startable
  <2> QED BY <2>2, <2>7 DEF HandlerInitFails
<1>6. Accepted(hlines) \in BOOLEAN /\ Len(hlines) \in Nat /\ NFds \in Nat
  BY LifecycleAssumption DEF Accepted, TypeOK
<1> QED BY <1>1, <1>3, <1>4, <1>5, <1>6 DEF Calm

-----------------------------------------------------------------------------
(* The invariant is inductive. *)

\* exposed is never reset, and only a SIGHUP at an unsafe point sets it.
LEMMA ExposedStays ==
  ASSUME TypeOK, Next, ~exposed'
  PROVE  ~exposed /\ (SigHup => SafePoint)
<1>1. CASE SigHup
  BY <1>1 DEF SigHup, TypeOK
<1>2. CASE ~SigHup
  BY <1>2 DEF Next, MainStep, HandlerStep, Validate, Parse, Arm, BeginInit, InitServer, InitFails,
     EndInit, CheckLoop, CallSelect, SelectTimeout, BeginEvents, AcceptClients, ServeClients,
     EndEvents, BeginRebuild, Rebuild, BeginStop, StopServer, EndStop, ExitMain, HandlerReload,
     HandlerValidate, HandlerParse, HandlerAdd, HandlerSpins, HandlerInit, HandlerInitFails,
     SelectReports, LockLog, SigTerm, Edit, restVars
<1> QED BY <1>1, <1>2

\* The handler never waits for the lock.
LEMMA NeverSpins ==
  ASSUME TypeOK, Calm, HandlerSpins
  PROVE  FALSE
BY NothingWhileReloading DEF HandlerSpins, Handler

LEMMA CalmStep ==
  ASSUME TypeOK, Calm, Next, SigHup => SafePoint
  PROVE  Calm'
BY PlainSteps, ParseStep, BeginInitStep, InitServerStep, InitFailsStep, AcceptClientsStep,
   ServeClientsStep, RebuildSteps, StopSteps, LookSteps, HandlerParseStep, HandlerAddStep,
   NeverSpins, HandlerInitStep, HandlerInitFailsStep DEF Next, MainStep, HandlerStep

\* What ends the process badly: a handler that deleted what the loop stands on,
\* a closed descriptor handed to select(), and a lock that is never released.
LEMMA ReloadSafeStep ==
  ASSUME TypeOK, Calm, Next, SigHup => SafePoint, fate \notin {"undefined", "badfd", "spinning"}
  PROVE  fate' \notin {"undefined", "badfd", "spinning"}
<1>1. CASE CallSelect
  <2>1. ~BadWatch
    <3>1. watch \subseteq Open
      BY <1>1 DEF CallSelect, Main, Calm, SetsWell, SocketsWell, InLoop
    <3> QED BY <3>1 DEF BadWatch, Open
  <2> QED BY <1>1, <2>1 DEF CallSelect
<1>2. CASE HandlerSpins
  BY <1>2, NeverSpins
<1>3. CASE SigHup
  BY <1>3 DEF SigHup, SafePoint
<1>4. CASE HandlerValidate \/ HandlerParse \/ HandlerInit \/ HandlerInitFails
  <2>1. ~torn
    BY <1>4 DEF Calm, HandlerWell
  <2> QED BY <1>4, <2>1 DEF HandlerValidate, HandlerParse, HandlerInit, HandlerInitFails, Return
<1>5. CASE Validate \/ Parse \/ ExitMain \/ InitFails
  BY <1>5 DEF Validate, Parse, ExitMain, InitFails, Exit
<1>6. CASE \/ Arm \/ BeginInit \/ InitServer \/ EndInit \/ CheckLoop \/ SelectTimeout \/ BeginEvents
           \/ AcceptClients \/ ServeClients \/ EndEvents \/ BeginRebuild \/ Rebuild \/ BeginStop
           \/ StopServer \/ EndStop \/ HandlerReload \/ HandlerAdd \/ SelectReports \/ LockLog
           \/ SigTerm \/ Edit
  BY <1>6 DEF Arm, BeginInit, InitServer, EndInit, CheckLoop, SelectTimeout, BeginEvents,
     AcceptClients, ServeClients, EndEvents, BeginRebuild, Rebuild, BeginStop, StopServer, EndStop,
     HandlerReload, HandlerAdd, SelectReports, LockLog, SigTerm, Edit
<1> QED BY <1>1, <1>2, <1>3, <1>4, <1>5, <1>6 DEF Next, MainStep, HandlerStep

LEMMA InitIInv == Init => IInv
<1> SUFFICES ASSUME Init PROVE IInv
  OBVIOUS
<1>1. TypeOK
  <2>1. FlagsOK
    BY DEF Init, FlagsOK
  <2>2. servers \in Seq(Server) /\ before \in Seq(Server) /\ lines \in Seq(Ports) /\ hlines \in Seq(Ports)
    BY EmptySeq DEF Init
  <2>3. fdt \in [Fd -> Ports \cup {Free, Client}]
    BY DEF Init
  <2>4. hups \in 0..MaxReloads /\ edits \in 0..MaxEdits
    BY LifecycleAssumption DEF Init
  <2> QED BY <2>1, <2>2, <2>3, <2>4 DEF Init, TypeOK, FlagsOK
<1>2. Open = {} /\ AllSockets(servers) = {}
  BY DEF Init, Open, AllSockets
<1>3. Calm
  BY <1>2 DEF Init, Calm, HandlerWell, IteratorWell, SocketsWell, StartWell, StopWell, SetsWell,
     InLoop, Stops
<1> QED BY <1>1, <1>3 DEF IInv, ReloadSafe, Init

LEMMA NextIInv ==
  ASSUME IInv, [Next]_vars
  PROVE  IInv'
<1>1. TypeOK'
  BY NextTypes DEF IInv
<1>2. CASE UNCHANGED vars
  <2>1. Open' = Open
    BY <1>2 DEF vars, Open
  <2>2. Calm => Calm'
    BY <1>2, <2>1 DEF vars, Calm, HandlerWell, IteratorWell, SocketsWell, StartWell, StopWell,
       SetsWell, SafePoint
  <2> QED BY <1>1, <1>2, <2>2 DEF vars, IInv, ReloadSafe
<1>3. CASE Next
  <2>1. ASSUME ~exposed' PROVE Calm' /\ fate' \notin {"undefined", "badfd", "spinning"}
    <3>1. ~exposed /\ (SigHup => SafePoint)
      BY <1>3, <2>1, ExposedStays DEF IInv
    <3>2. TypeOK /\ Calm /\ fate \notin {"undefined", "badfd", "spinning"}
      BY <3>1 DEF IInv, ReloadSafe
    <3> QED BY <1>3, <3>1, <3>2, CalmStep, ReloadSafeStep
  <2> QED BY <1>1, <2>1 DEF IInv, ReloadSafe
<1> QED BY <1>2, <1>3

LEMMA Invariance == Spec => []IInv
<1>1. Init => IInv
  BY InitIInv
<1>2. IInv /\ [Next]_vars => IInv'
  BY NextIInv
<1> QED BY <1>1, <1>2, PTL DEF Spec

-----------------------------------------------------------------------------
(* The theorems. *)

\* Every variable of the life cycle keeps its type, whatever the signals do.
THEOREM TypeCorrect == Spec => []TypeOK
<1>1. IInv => TypeOK
  BY DEF IInv
<1> QED BY <1>1, Invariance, PTL

\* Only a SIGHUP at an unsafe point (ServerGroup::signalHandler) ends the server.
THEOREM ReloadsAreSafe == Spec => []ReloadSafe
<1>1. IInv => ReloadSafe
  BY DEF IInv
<1> QED BY <1>1, Invariance, PTL

\* Nothing stays open that no server owns, after a failed start, a reload
\* (reloadConfiguration) or the end of start().
THEOREM NothingOrphaned == Spec => []NoOrphans
<1>1. IInv => NoOrphans
  BY DEF IInv, NoOrphans, Calm, SocketsWell
<1> QED BY <1>1, Invariance, PTL

\* handleSelect waits for the sockets of the servers there are, all of them open
\* and below the maximum, and never for nobody.
THEOREM SelectWatchesServers == Spec => []WatchesServers
<1>1. IInv => WatchesServers
  <2> SUFFICES ASSUME IInv, pc = "blocked", hpc = "none", ~exposed
               PROVE  /\ Serving /\ Listening(servers, fdt)
                      /\ watch = AllSockets(servers) /\ watch \subseteq Open
                      /\ \A fd \in watch : fd <= maxFd
    BY DEF WatchesServers
  <2>1. Calm
    BY DEF IInv
  <2> QED BY <2>1 DEF Calm, SocketsWell, SetsWell, InLoop, Covers, Serving
<1> QED BY <1>1, Invariance, PTL

\* reloadConfiguration leaves the old servers as they were, or the new ones
\* listening, or none for a reason.
THEOREM ReloadsEndWell == Spec => ReloadOutcome
<1> DEFINE Outcome ==
      hpc # "none" /\ hpc' = "none" /\ ~exposed =>
       \/ servers' = before /\ (Listening(before, fdt) => Listening(before, fdt'))
       \/ [i \in DOMAIN servers' |-> servers'[i].port] = hlines' /\ Listening(servers', fdt')
       \/ /\ servers' = <<>> /\ hpc = "init"
          /\ \/ ~Accepted(hlines) \/ Len(hlines) > NFds
             \/ \E i \in DOMAIN hlines : hlines[i] \in taken
<1>1. IInv /\ [Next]_vars => [Outcome]_vars
  <2> SUFFICES ASSUME IInv, Next, hpc # "none", hpc' = "none", ~exposed PROVE Outcome
    BY DEF Outcome
  <2>1. TypeOK /\ Calm
    BY DEF IInv
  <2>2. HandlerValidate \/ HandlerParse \/ HandlerInit \/ HandlerInitFails
    BY DEF Next, MainStep, HandlerStep, Validate, Parse, Arm, BeginInit, InitServer, InitFails,
       EndInit, CheckLoop, CallSelect, SelectTimeout, BeginEvents, AcceptClients, ServeClients,
       EndEvents, BeginRebuild, Rebuild, BeginStop, StopServer, EndStop, ExitMain, HandlerReload,
       HandlerAdd, HandlerSpins, SelectReports, LockLog, SigTerm, SigHup, Edit, Main, Begin, Leave,
       Visit, restVars, handlerVars
  <2>3. CASE HandlerValidate \/ HandlerParse
    <3>1. servers = before
      BY <2>1, <2>3 DEF HandlerValidate, HandlerParse, Handler, Calm, HandlerWell
    <3>2. UNCHANGED <<servers, fdt>>
      BY <2>3 DEF HandlerValidate, HandlerParse, groupVars, sysVars
    <3> QED BY <3>1, <3>2
  <2>4. CASE HandlerInit
    BY <2>1, <2>4, HandlerInitStep
  <2>5. CASE HandlerInitFails
    BY <2>1, <2>5, HandlerInitFailsStep
  <2> QED BY <2>2, <2>3, <2>4, <2>5
<1> QED BY <1>1, Invariance, PTL DEF Spec, ReloadOutcome
=============================================================================
