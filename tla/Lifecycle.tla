------------------------------ MODULE Lifecycle ------------------------------
(***************************************************************************)
(* The life of the process: main(), ServerGroup::start and stop, the       *)
(* select loop as far as it walks over the servers, and the signal handler *)
(* that reloads the configuration.  The handler runs on top of whatever    *)
(* the main thread was doing (pc), which stands still until it returns.    *)
(*                                                                         *)
(* A configuration file is abstracted to the ports its server blocks give. *)
(* What clients do in the loop is in EventLoop; here they come and go.     *)
(***************************************************************************)
EXTENDS Integers, Sequences, FiniteSets

CONSTANTS
  Contents,    \* what the configuration file may contain: sequences of ports
  Missing,     \* a file that cannot be opened
  Ports,       \* the ports servers listen on
  NFds,        \* descriptors left to the servers
  MaxReloads,  \* bound: SIGHUPs
  MaxEdits     \* bound: changes of the file and of the ports others hold

Free == 0      \* a closed descriptor
Client == -1   \* the socket of an accepted connection

ASSUME LifecycleAssumption ==
  /\ Ports \subseteq Nat \ {0}
  /\ Contents \subseteq Seq(Ports) /\ Missing \notin Contents
  /\ NFds \in Nat \ {0} /\ MaxReloads \in Nat /\ MaxEdits \in Nat

Fd == 1..NFds
NoFd == 0
NfdsOf(F) == 1 + CHOOSE m \in F \cup {0} : \A fd \in F : fd <= m   \* mutant: stores nfds
MaxFdOf(F) == CHOOSE m \in F \cup {0} : \A fd \in F : fd <= m

-----------------------------------------------------------------------------
VARIABLES
  pc,        \* what the main thread is about to do
  at,        \* its iterator into _servers; 0 outside a loop over them
  watch,     \* the copy of _masterSet handed to select()
  lines,     \* ConfigParser::_configLines of main's parser
  isRunning, shutdownRequested, servers, masterSet, maxFd,  \* ServerGroup
  isLocked,  \* Logger::_isLocked
  fdt,       \* the descriptor table: Free, Client or the port listened on
  hpc,       \* what the SIGHUP handler is about to do; "none" when not running
  hlines,    \* _configLines of the handler's parser
  torn,      \* the handler has deleted servers the main thread is walking over
  file,      \* the configuration file
  taken,     \* ports other processes hold
  fate,      \* how the process ended, if it did
  before,    \* history: the servers when the handler was entered
  exposed,   \* history: a SIGHUP came at a point where a reload is not safe
  hups, edits  \* bounds

mainVars == <<pc, at, watch, lines>>
groupVars == <<isRunning, servers, masterSet, maxFd>>
sysVars == <<shutdownRequested, isLocked, fdt>>
handlerVars == <<hpc, hlines, torn, before>>
envVars == <<file, taken, edits>>
restVars == <<hpc, hlines, torn, before, file, taken, edits, exposed, hups>>
vars == <<pc, at, watch, lines, isRunning, shutdownRequested, servers, masterSet,
          maxFd, isLocked, fdt, hpc, hlines, torn, file, taken, fate, before,
          exposed, hups, edits>>

Server == [port : Ports, sock : Fd \cup {NoFd}, clients : SUBSET Fd]
NewServer(p) == [port |-> p, sock |-> NoFd, clients |-> {}]
NewServers(ls) == [i \in DOMAIN ls |-> NewServer(ls[i])]

Open == {fd \in Fd : fdt[fd] # Free}
SocketsOf(s) == (s.clients \cup {s.sock}) \ {NoFd}
AllSockets(ss) == UNION {SocketsOf(ss[i]) : i \in DOMAIN ss}

Init ==
  /\ pc = "validate" /\ at = 0 /\ watch = {} /\ lines = <<>>
  /\ isRunning = FALSE /\ shutdownRequested = FALSE /\ servers = <<>>
  /\ masterSet = {} /\ maxFd = 0 /\ isLocked = FALSE
  /\ fdt = [fd \in Fd |-> Free]
  /\ hpc = "none" /\ hlines = <<>> /\ torn = FALSE /\ before = <<>>
  /\ file \in Contents \cup {Missing} /\ taken \in SUBSET Ports
  /\ fate = "running" /\ exposed = FALSE /\ hups = 0 /\ edits = 0

-----------------------------------------------------------------------------
(* ConfigParser, as the life cycle sees it. *)

\* readConfigFile: a file that cannot be opened leaves the lines as they were.
ReadInto(ls) == IF file = Missing \/ Open = Fd THEN ls ELSE file

\* validate(): no port twice.  A file without a server block is no error.
Accepted(ls) == \A i, j \in DOMAIN ls : ls[i] = ls[j] => i = j

-----------------------------------------------------------------------------
(* Sockets. *)

Lowest(fd) == fdt[fd] = Free /\ \A g \in 1..(fd - 1) : fdt[g] # Free
Bindable(p) == p \notin taken /\ \A fd \in Fd : fdt[fd] # p

\* Server::stop closes what the server has.
ClosedClients(t, F) ==   \* mutant: stop() forgets the listening socket
  [fd \in Fd |-> IF fd \in F /\ t[fd] = Client THEN Free ELSE t[fd]]
Closed(t, F) == [fd \in Fd |-> IF fd \in F THEN Free ELSE t[fd]]

KeptSet == masterSet   \* mutant: FD_ZERO forgotten
Zeroed == {}

\* ServerGroup::stop, uninterrupted.
Stop ==
  /\ isRunning' = FALSE /\ servers' = <<>> /\ masterSet' = Zeroed
  /\ fdt' = Closed(fdt, AllSockets(servers))
  /\ UNCHANGED maxFd

\* initializeServers on new servers, uninterrupted, opens the sockets f: the
\* lowest descriptors in order, all of them or none.
Startable(ls, f) ==
  /\ \A i \in DOMAIN ls : Bindable(ls[i]) /\ fdt[f[i]] = Free
  /\ \A i, j \in DOMAIN ls : i < j => f[i] < f[j] /\ ls[i] # ls[j]
  /\ \A i \in DOMAIN ls : \A fd \in 1..f[i] : fdt[fd] # Free \/ \E j \in 1..i : f[j] = fd
Started(ls, f) == [i \in DOMAIN ls |-> [NewServer(ls[i]) EXCEPT !.sock = f[i]]]
Bound(ls, f) == [fd \in Fd |-> IF \E i \in DOMAIN ls : f[i] = fd
                                THEN ls[CHOOSE i \in DOMAIN ls : f[i] = fd] ELSE fdt[fd]]

-----------------------------------------------------------------------------
(* main(): validate and parse, then start().  The handlers are installed at  *)
(* the end of Arm; until then a signal ends the process.                     *)

Main(p) == pc = p /\ hpc = "none" /\ fate # "undefined"
Exit(f) == pc' = "exited" /\ fate' = IF fate = "running" THEN f ELSE fate

Validate ==
  /\ Main("validate") /\ lines' = ReadInto(lines)
  /\ IF Accepted(lines') THEN pc' = "parse" /\ UNCHANGED fate ELSE Exit("refused")
  /\ UNCHANGED <<at, watch, groupVars, sysVars, restVars>>

Parse ==
  /\ Main("parse") /\ lines' = ReadInto(lines)
  /\ IF lines' = <<>> THEN Exit("refused") /\ UNCHANGED servers
     ELSE servers' = NewServers(lines') /\ pc' = "arm" /\ UNCHANGED fate
  /\ UNCHANGED <<at, watch, isRunning, masterSet, maxFd, sysVars, restVars>>

Arm ==
  /\ Main("arm") /\ pc' = "init" /\ isRunning' = TRUE /\ shutdownRequested' = FALSE
  /\ UNCHANGED <<at, watch, lines, servers, masterSet, maxFd, isLocked, fdt, fate,
                 restVars>>

\* The main thread is inside log(), with the lock held, when a loop over the
\* servers logs something.
LockLog ==
  /\ \E p \in {"init", "events", "serve"} : Main(p)
  /\ at \in DOMAIN servers /\ ~isLocked
  /\ isLocked' = TRUE
  /\ UNCHANGED <<mainVars, groupVars, shutdownRequested, fdt, fate, restVars>>

-----------------------------------------------------------------------------
(* A loop over _servers: Begin takes the iterator, and the loop ends with    *)
(* Leave(p, q) behind the last server.                                       *)

Begin(p) == Main(p) /\ at = 0 /\ at' = 1 /\ UNCHANGED <<pc, watch, lines>>
Leave(p, q) ==
  Main(p) /\ at = Len(servers) + 1 /\ at' = 0 /\ pc' = q /\ UNCHANGED <<watch, lines>>
VisitLocked(p) ==   \* mutant: log() returns without unlock()
  /\ Main(p) /\ at \in DOMAIN servers /\ at' = at + 1 /\ UNCHANGED <<pc, watch, lines, isLocked>>
Visit(p) == /\ Main(p) /\ at \in DOMAIN servers /\ at' = at + 1 /\ isLocked' = FALSE
            /\ UNCHANGED <<pc, watch, lines>>

BeginInit ==
  /\ Begin("init") /\ masterSet' = Zeroed
  /\ UNCHANGED <<isRunning, servers, maxFd, sysVars, fate, restVars>>

\* Server::initialize, FD_SET and updateMaxFd.
InitServer ==
  /\ Visit("init")
  /\ \E fd \in Fd :
       /\ Lowest(fd) /\ Bindable(servers[at].port)
       /\ servers' = [servers EXCEPT ![at].sock = fd]
       /\ fdt' = [fdt EXCEPT ![fd] = servers[at].port]
       /\ masterSet' = masterSet \cup {fd}
       /\ maxFd' = MaxFdOf({servers'[i].sock : i \in DOMAIN servers} \ {NoFd})
  /\ UNCHANGED <<isRunning, shutdownRequested, fate, restVars>>

\* socket() or bind() fails: the server keeps the number of the socket it has
\* closed again, initializeServers and start() clean up and throw.
InitFails ==
  /\ Main("init") /\ at \in DOMAIN servers
  /\ Open = Fd \/ ~Bindable(servers[at].port)
  /\ servers' = [servers EXCEPT ![at].sock =
       IF Open = Fd THEN NoFd ELSE CHOOSE fd \in Fd : Lowest(fd)]
  /\ pc' = "cleanup" /\ at' = 0 /\ isLocked' = FALSE /\ fate' = "failed"
  /\ UNCHANGED <<watch, lines, isRunning, masterSet, maxFd, shutdownRequested, fdt,
                 restVars>>
EndInit ==
  /\ Leave("init", "loop")
  /\ UNCHANGED <<groupVars, sysVars, fate, restVars>>

-----------------------------------------------------------------------------
(* start()'s loop and handleSelect. *)

Serving == servers # <<>>
LoopOn == isRunning /\ ~shutdownRequested /\ Serving

CheckLoop ==
  /\ Main("loop")
  /\ IF LoopOn THEN pc' = "select" /\ watch' = masterSet
               ELSE pc' = "cleanup" /\ UNCHANGED watch
  /\ UNCHANGED <<at, lines, groupVars, sysVars, fate, restVars>>

\* select() refuses a closed descriptor: EBADF, handleSelect throws, and
\* start() cleans up.
BadWatch == \E fd \in watch : fd <= maxFd /\ fdt[fd] = Free
CallSelect ==
  /\ Main("select")
  /\ IF BadWatch THEN pc' = "cleanup" /\ fate' = "badfd"
                 ELSE pc' = "blocked" /\ UNCHANGED fate
  /\ UNCHANGED <<at, watch, lines, groupVars, sysVars, restVars>>

SelectReports ==
  /\ Main("blocked") /\ pc' = "events"
  /\ UNCHANGED <<at, watch, lines, groupVars, sysVars, fate, restVars>>

NoTimeout == FALSE   \* mutant: a null timeout
TimesOut == TRUE
SelectTimeout ==
  /\ Main("blocked") /\ TimesOut /\ pc' = "loop"
  /\ UNCHANGED <<at, watch, lines, groupVars, sysVars, fate, restVars>>

\* handleEvents: new connections of every server, then the existing ones of
\* every server, of which some are closed; then the sets are built anew.
BeginEvents ==
  /\ Begin("events") \/ Begin("serve")
  /\ UNCHANGED <<groupVars, sysVars, fate, restVars>>
AcceptClients ==
  /\ Visit("events")
  /\ \/ UNCHANGED <<servers, fdt>>
     \/ \E fd \in Fd :
          /\ Lowest(fd) /\ servers[at].sock \in watch
          /\ servers' = [servers EXCEPT ![at].clients = @ \cup {fd}]
          /\ fdt' = [fdt EXCEPT ![fd] = Client]
  /\ UNCHANGED <<isRunning, masterSet, maxFd, shutdownRequested, fate, restVars>>
ServeClients ==
  /\ Visit("serve")
  /\ \E F \in SUBSET servers[at].clients :
       /\ servers' = [servers EXCEPT ![at].clients = @ \ F]
       /\ fdt' = Closed(fdt, F)
  /\ UNCHANGED <<isRunning, masterSet, maxFd, shutdownRequested, fate, restVars>>
EndEvents ==
  /\ Leave("events", "serve") \/ Leave("serve", "rebuild")
  /\ UNCHANGED <<groupVars, sysVars, fate, restVars>>

BeginRebuild ==
  /\ Begin("rebuild") /\ masterSet' = Zeroed
  /\ UNCHANGED <<isRunning, servers, maxFd, sysVars, fate, restVars>>
Rebuild ==
  /\ Main("rebuild") /\ at = 1 /\ at' = 0 /\ pc' = "loop"
  /\ masterSet' = masterSet \cup AllSockets(servers)
  /\ maxFd' = MaxFdOf(AllSockets(servers))
  /\ UNCHANGED <<watch, lines, isRunning, servers, sysVars, fate, restVars>>

-----------------------------------------------------------------------------
(* cleanup() at the end of start(), and ~ServerGroup() at the end of main(). *)

Stops == {"cleanup", "destroy"}

BeginStop ==
  /\ \E p \in Stops : Begin(p)
  /\ isRunning' = FALSE
  /\ UNCHANGED <<servers, masterSet, maxFd, sysVars, fate, restVars>>
StopServer ==
  /\ \E p \in Stops : Visit(p)
  /\ fdt' = Closed(fdt, SocketsOf(servers[at]))
  /\ UNCHANGED <<groupVars, shutdownRequested, fate, restVars>>
EndStop ==
  /\ Leave("cleanup", "destroy") \/ Leave("destroy", "leave")
  /\ servers' = <<>> /\ masterSet' = Zeroed
  /\ UNCHANGED <<isRunning, maxFd, sysVars, fate, restVars>>
ExitMain ==
  /\ Main("leave") /\ Exit("ended")
  /\ UNCHANGED <<at, watch, lines, groupVars, sysVars, restVars>>

-----------------------------------------------------------------------------
(* signalHandler.  SIGHUP is blocked while its handler runs; the others only *)
(* set a flag, on top of anything.                                           *)

Armed == /\ pc \notin {"validate", "parse", "arm", "exited"}
         /\ fate \notin {"undefined", "spinning"}

SigTerm ==
  /\ Armed /\ shutdownRequested' = TRUE
  /\ pc' = IF pc = "blocked" /\ hpc = "none" THEN "loop" ELSE pc
  /\ UNCHANGED <<at, watch, lines, groupVars, isLocked, fdt, fate, restVars>>

\* Where a reload does no harm: no loop over the servers is under way (so that
\* the log's lock is free, too), no copy of the sets is about to be passed to
\* select(), and start() has initialised its servers.
SafePoint == /\ pc \in {"loop", "blocked", "events", "serve", "rebuild", "cleanup", "destroy"}
             /\ at = 0

\* Behind the destructor _instance dangles.
SigHup ==
  /\ Armed /\ hpc = "none" /\ hups < MaxReloads
  /\ hups' = hups + 1 /\ before' = servers /\ hlines' = <<>>
  /\ exposed' = (exposed \/ ~SafePoint)
  /\ IF pc = "leave" THEN fate' = "undefined" /\ hpc' = "none"
                     ELSE hpc' = "reload" /\ UNCHANGED fate
  /\ UNCHANGED <<mainVars, groupVars, sysVars, torn, envVars>>

Handler(p) == hpc = p /\ fate # "spinning"

\* The handler returns; a blocked select() gives EINTR.  A main thread whose
\* iterator and server are gone goes on with undefined behaviour.
Return(t) ==
  /\ hpc' = "none"
  /\ pc' = IF pc = "blocked" THEN "loop" ELSE pc
  /\ fate' = IF t THEN "undefined" ELSE fate

HandlerReload ==
  /\ Handler("reload") /\ hlines' = ReadInto(hlines) /\ hpc' = "validate"
  /\ UNCHANGED <<mainVars, groupVars, sysVars, torn, before, envVars, fate, exposed, hups>>

\* mutant: stops the servers before it has looked at the file
HandlerStopsFirst ==
  /\ Handler("validate") /\ hlines' = ReadInto(hlines) /\ Stop
  /\ IF Accepted(hlines') THEN hpc' = "parse" /\ UNCHANGED <<pc, fate>> ELSE Return(torn)
  /\ UNCHANGED <<at, watch, lines, shutdownRequested, isLocked, torn, before, envVars,
                 exposed, hups>>
HandlerValidate ==
  /\ Handler("validate") /\ hlines' = ReadInto(hlines)
  /\ IF Accepted(hlines') THEN hpc' = "parse" /\ UNCHANGED <<pc, fate>> ELSE Return(torn)
  /\ UNCHANGED <<at, watch, lines, groupVars, sysVars, torn, before, envVars, exposed,
                 hups>>

\* The file is read a third time; what it says now is not validated.
HandlerParse ==
  /\ Handler("parse") /\ hlines' = ReadInto(hlines)
  /\ IF hlines' = <<>>
       THEN Return(torn) /\ UNCHANGED <<groupVars, fdt, torn>>
       ELSE /\ Stop /\ hpc' = "add" /\ torn' = (torn \/ at > 0)
            /\ UNCHANGED <<pc, fate>>
  /\ UNCHANGED <<at, watch, lines, shutdownRequested, isLocked, before, envVars,
                 exposed, hups>>

\* The constructor of Server configures the log, which takes the lock; if the
\* main thread holds it, nobody will ever release it.
HandlerAdd ==
  /\ Handler("add") /\ ~isLocked
  /\ servers' = NewServers(hlines) /\ hpc' = "init"
  /\ UNCHANGED <<mainVars, isRunning, masterSet, maxFd, sysVars, hlines, torn, before,
                 envVars, fate, exposed, hups>>
HandlerSpins ==
  /\ Handler("add") /\ isLocked /\ fate' = "spinning"
  /\ UNCHANGED <<mainVars, groupVars, sysVars, restVars>>

HandlerInit ==
  /\ Handler("init") /\ Return(torn)
  /\ \E f \in [DOMAIN hlines -> Fd] :
       /\ Startable(hlines, f)
       /\ servers' = Started(hlines, f) /\ fdt' = Bound(hlines, f)
       /\ masterSet' = Zeroed \cup {f[i] : i \in DOMAIN hlines}
       /\ maxFd' = MaxFdOf({f[i] : i \in DOMAIN hlines}) /\ isRunning' = TRUE
  /\ UNCHANGED <<at, watch, lines, shutdownRequested, isLocked, hlines, torn, before,
                 envVars, exposed, hups>>

\* initializeServers cleans up and throws; reloadConfiguration reports it.
HandlerInitFails ==
  /\ Handler("init") /\ Return(torn)
  /\ \A f \in [DOMAIN hlines -> Fd] : ~Startable(hlines, f)
  /\ Stop
  /\ UNCHANGED <<at, watch, lines, shutdownRequested, isLocked, hlines, torn, before,
                 envVars, exposed, hups>>

-----------------------------------------------------------------------------
(* The environment: somebody edits the file, others take and release ports.  *)

Edit ==
  /\ edits < MaxEdits /\ edits' = edits + 1
  /\ \/ file' \in Contents \cup {Missing} /\ UNCHANGED taken
     \/ taken' \in SUBSET {p \in Ports : \A fd \in Fd : fdt[fd] # p} /\ UNCHANGED file
  /\ UNCHANGED <<mainVars, groupVars, sysVars, handlerVars, fate, exposed, hups>>

MainStep ==
  \/ Validate \/ Parse \/ Arm \/ BeginInit \/ InitServer \/ InitFails \/ EndInit
  \/ CheckLoop \/ CallSelect \/ SelectTimeout
  \/ BeginEvents \/ AcceptClients \/ ServeClients \/ EndEvents
  \/ BeginRebuild \/ Rebuild \/ BeginStop \/ StopServer \/ EndStop \/ ExitMain
HandlerStep ==
  \/ HandlerReload \/ HandlerValidate \/ HandlerParse \/ HandlerAdd \/ HandlerSpins
  \/ HandlerInit \/ HandlerInitFails

Next == MainStep \/ SelectReports \/ LockLog \/ HandlerStep \/ SigTerm \/ SigHup \/ Edit

Spec == Init /\ [][Next]_vars

\* The process is scheduled, and select() has a timeout; nothing is assumed of
\* clients or signals.
FairSpec == Spec /\ WF_vars(MainStep) /\ WF_vars(HandlerStep)

-----------------------------------------------------------------------------
(* Properties. *)

TypeOK ==
  /\ pc \in {"validate", "parse", "arm", "init", "loop", "select", "blocked", "events",
             "serve", "rebuild", "cleanup", "destroy", "leave", "exited"}
  /\ at \in Nat /\ watch \in SUBSET Fd /\ lines \in Seq(Ports)
  /\ isRunning \in BOOLEAN /\ shutdownRequested \in BOOLEAN /\ servers \in Seq(Server)
  /\ masterSet \in SUBSET Fd /\ maxFd \in Fd \cup {0} /\ isLocked \in BOOLEAN
  /\ fdt \in [Fd -> Ports \cup {Free, Client}]
  /\ hpc \in {"none", "reload", "validate", "parse", "add", "init"}
  /\ hlines \in Seq(Ports) /\ torn \in BOOLEAN
  /\ file \in Contents \cup {Missing} /\ taken \in SUBSET Ports
  /\ fate \in {"running", "refused", "failed", "badfd", "undefined", "spinning", "ended"}
  /\ before \in Seq(Server) /\ exposed \in BOOLEAN
  /\ hups \in 0..MaxReloads /\ edits \in 0..MaxEdits

Listening(ss, t) == \A i \in DOMAIN ss : ss[i].sock \in Fd /\ t[ss[i].sock] = ss[i].port

\* Every open socket belongs to a server of the group, whatever failed or was
\* reloaded on the way: nothing stays open behind a failed start, a reload or
\* the end of the process, unless a reload came at an unsafe point.
NoOrphans == ~exposed => Open \subseteq AllSockets(servers)

\* Whenever the process waits in select() it watches exactly the listeners and
\* clients of the servers it has now, all of them open, each listener on the
\* port of its own configuration, and there is one: a reload is in force at the
\* next select(), and a failed one never leaves the process waiting for nobody.
WatchesServers ==
  pc = "blocked" /\ hpc = "none" /\ ~exposed =>
    /\ Serving /\ Listening(servers, fdt)
    /\ watch = AllSockets(servers) /\ watch \subseteq Open
    /\ \A fd \in watch : fd <= maxFd

\* Only a SIGHUP at one of the unsafe points ends the server: by deleting what
\* the loop stands on, by closing what select() was about to watch, or by
\* waiting for the log's lock that the interrupted code holds.
ReloadSafe == fate \in {"undefined", "badfd", "spinning"} => exposed

\* When the handler returns, the old servers are untouched, or the new ones are
\* all listening; if there are none, the file had become wrong after it was
\* validated, or a port belonged to another process or a descriptor was missing.
ReloadOutcome ==
  [][hpc # "none" /\ hpc' = "none" /\ ~exposed =>
       \/ servers' = before /\ (Listening(before, fdt) => Listening(before, fdt'))
       \/ [i \in DOMAIN servers' |-> servers'[i].port] = hlines' /\ Listening(servers', fdt')
       \/ /\ servers' = <<>> /\ hpc = "init"
          /\ \/ ~Accepted(hlines) \/ Len(hlines) > NFds
             \/ \E i \in DOMAIN hlines : hlines[i] \in taken]_vars

\* A request to shut down is not lost, whenever it comes: before select() looks
\* for it, while the handler reloads, or between two steps of the loop.
ShutdownEnds ==
  (Armed /\ shutdownRequested) ~> (pc = "exited" \/ fate \in {"undefined", "spinning"})

-----------------------------------------------------------------------------
(* What the repository's documents promise and the code does not keep. *)

\* Requirements.md: the server should never die.
NeverDies == fate \notin {"undefined", "badfd", "spinning"}
=============================================================================
