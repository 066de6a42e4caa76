------------------------------ MODULE EventLoop ------------------------------
(***************************************************************************)
(* The single-threaded select() loop of webserv: ServerGroup (the loop and *)
(* its fd sets), Server (one listening socket and the map _clients from    *)
(* descriptors to ClientState) and the process's descriptor table.  HTTP   *)
(* clients, the network and the clock are the environment.                 *)
(*                                                                         *)
(* One action is one uninterrupted stretch of server code for one socket;  *)
(* client and network steps interleave between any two of them.  Bytes are *)
(* abstracted to pieces: a request is a few pieces, a response RespSize.   *)
(* Descriptors are numbered from the first one the process can hand out    *)
(* once stdin, stdout, stderr and the log file are open.                   *)
(***************************************************************************)
EXTENDS Integers, Sequences, FiniteSets

CONSTANTS
  NServers,         \* number of server blocks (ServerGroup::_servers)
  Conns,            \* TCP connections clients ever open
  NoConn,           \* not a connection
  FdLimit,          \* descriptors the process may hold (RLIMIT_NOFILE)
  FdSetSize,        \* FD_SETSIZE
  MaxClients,       \* Server::MAX_CLIENTS, a limit per server
  ClientTimeout,    \* CLIENT_TIMEOUT
  KeepAliveTimeout, \* KEEP_ALIVE_TIMEOUT
  HandlerDelays,    \* durations handleRequest may take
  AgeCap,           \* bound: ages from this one on are not told apart
  Kinds,            \* kinds of requests clients send
  MaxRequests,      \* bound: requests per connection
  Window,           \* requests a client sends before their responses end
  RespSize,         \* pieces of a buffered response, chunks of a file
  Faults            \* what clients may do: "hangup", "reset", "stall"

AllKinds == {"noBody", "withBody", "malformed", "headerless", "earlyMark"}

ASSUME ConstantsAssumption ==
  /\ NServers \in Nat \ {0} /\ FdLimit \in Nat /\ FdSetSize \in Nat
  /\ NServers <= FdLimit /\ NServers <= FdSetSize
  /\ MaxClients \in Nat
  /\ ClientTimeout \in Nat /\ KeepAliveTimeout \in Nat
  /\ HandlerDelays \subseteq Nat
  /\ AgeCap \in Nat /\ AgeCap > ClientTimeout
  /\ Kinds \subseteq AllKinds
  /\ MaxRequests \in Nat /\ Window \in Nat /\ RespSize \in Nat \ {0}
  /\ NoConn \notin Conns

\* Pipelined pieces stay attributable only when a request is one piece.
ASSUME PipeliningAssumption == Window <= 1 \/ Kinds \subseteq {"noBody"}

Servers == 1..NServers
Fd == 0..(FdLimit - 1)
NoFd == -1
Listen(s) == s - 1       \* initializeServers opens the sockets in order

Empty == <<NoConn, 0>>        \* an empty responseBuffer
BadRequest == <<NoConn, 1>>   \* the response sendBadRequestResponse builds
Requests == Conns \X (1..MaxRequests)
Tags == Requests \cup {Empty, BadRequest}

-----------------------------------------------------------------------------
VARIABLES
  phase,     \* where the loop is: select, accept, sweep, serve or write
  turn,      \* the server the loop is working on
  todo,      \* active clients of that server still to be served this round
  readSet, writeSet,     \* what select() reported (handleSelect's locals)
  masterSet, pendingSet, \* ServerGroup::_masterSet and ::_writeSet
  maxFd,     \* ServerGroup::_maxFd
  srvMaxFd,  \* Server::_maxFd of every server
  client,    \* Server::_clients of every server
  fdt,       \* the process's descriptor table
  conn       \* the client side of every connection

loopVars == <<phase, turn, todo, readSet, writeSet>>
setVars == <<masterSet, pendingSet, maxFd>>
vars == <<phase, turn, todo, readSet, writeSet, masterSet, pendingSet, maxFd,
          srvMaxFd, client, fdt, conn>>

\* A Response: which request it answers, the descriptor it streams (or NoFd),
\* the chunks not read from it yet, _isHeadersSent.
Response == [tag : Tags, fd : Fd \cup {NoFd}, chunks : 0..RespSize,
             headersSent : BOOLEAN]
NoResponse == [tag |-> Empty, fd |-> NoFd, chunks |-> 0, headersSent |-> FALSE]

\* "absent" stands for a descriptor that is no key of _clients.
ClientState ==
  [state : {"absent", "IDLE", "WRITING_RESPONSE"},
   requestBuffer : Seq(Requests), responseBuffer : Tags, age : 0..AgeCap,
   keepAlive : BOOLEAN, response : Response, bytesWritten : 0..RespSize]

NewClient == [state |-> "IDLE", requestBuffer |-> <<>>,
              responseBuffer |-> Empty, age |-> 0, keepAlive |-> TRUE,
              response |-> NoResponse, bytesWritten |-> 0]
Absent == [NewClient EXCEPT !.state = "absent"]

FdEntry == [kind : {"free", "listen", "sock", "file"}, conn : Conns \cup {NoConn}]
Entry(k) == [kind |-> k, conn |-> NoConn]

\* A connection: its socket's receive queue holds the number of the request
\* each piece belongs to; "rest" pieces of the last request are still to be
\* sent; "out" names the responses whose first piece was sent on it and "done"
\* counts those that ended.
Connection ==
  [status : {"new", "queued", "open", "closed"}, srv : Servers,
   inq : Seq(1..MaxRequests), peer : {"up", "fin", "rst"},
   stall : {"never", "now", "over"}, reqs : Seq(Kinds), rest : 0..2,
   out : Seq(Tags), done : Nat]
NewConnection ==
  [status |-> "new", srv |-> 1, inq |-> <<>>, peer |-> "up", stall |-> "never",
   reqs |-> <<>>, rest |-> 0, out |-> <<>>, done |-> 0]

Keys(m) == {fd \in Fd : m[fd].state # "absent"}
Clients(s) == Keys(client[s])
Free == {fd \in Fd : fdt[fd].kind = "free"}
ConnOf(fd) == fdt[fd].conn
Backlog(s) == {c \in Conns : conn[c].status = "queued" /\ conn[c].srv = s}

Init ==
  /\ phase = "select" /\ turn = 1 /\ todo = {} /\ readSet = {} /\ writeSet = {}
  /\ masterSet = {Listen(s) : s \in Servers} /\ pendingSet = {}
  /\ maxFd = Listen(NServers)
  /\ srvMaxFd = [s \in Servers |-> Listen(s)]
  /\ client = [s \in Servers |-> [fd \in Fd |-> Absent]]
  /\ fdt = [fd \in Fd |-> IF fd < NServers THEN Entry("listen") ELSE Entry("free")]
  /\ conn = [c \in Conns |-> NewConnection]

-----------------------------------------------------------------------------
(* Requests: what handleClientData can tell from the bytes received so far. *)

Pieces(k) == CASE k = "withBody" -> 2 [] k = "earlyMark" -> 3 [] OTHER -> 1
KindOf(r) == conn[r[1]].reqs[r[2]]
Have(buf) == Cardinality({i \in DOMAIN buf : buf[i] = buf[1]})

\* Request completion.  parseHeaders refuses a request without header fields,
\* so that one never completes; the chunk terminator is looked for anywhere in
\* the buffer, so a chunked body that contains it completes one piece early.
Complete(buf) ==
  LET k == KindOf(buf[1])
  IN k # "headerless" /\ Have(buf) >= (IF k = "earlyMark" THEN 2 ELSE Pieces(k))

\* Request::parse: a bad request line, or a chunk cut short, is refused.
Parses(buf) ==
  LET k == KindOf(buf[1])
  IN k \in {"noBody", "withBody"} \/ (k = "earlyMark" /\ Have(buf) = 3)

-----------------------------------------------------------------------------
(* Closing connections and keeping the descriptor maxima. *)

WithoutErase(m, F) == m   \* mutant: the key stays in _clients
Without(m, F) == [fd \in Fd |-> IF fd \in F THEN Absent ELSE m[fd]]
Release(t, F) == [fd \in Fd |-> IF fd \in F THEN Entry("free") ELSE t[fd]]
Hung(r) == [r EXCEPT !.status = "closed", !.inq = <<>>, !.rest = 0, !.stall = "over"]
Shut(cn, F) ==
  [c \in Conns |-> IF \E fd \in F : ConnOf(fd) = c THEN Hung(cn[c]) ELSE cn[c]]

\* max over the listening socket and the keys a fd_set can hold
IsListenFd(s, keys, m) == m = Listen(s)   \* mutant: clients left out
IsMaxFd(s, keys, m) ==
  LET watched == {Listen(s)} \cup {fd \in keys : fd < FdSetSize}
  IN m \in watched /\ \A fd \in watched : fd <= m
UpdateMaxFileDescriptor(s, keys) ==
  \E m \in Fd : IsMaxFd(s, keys, m) /\ srvMaxFd' = [srvMaxFd EXCEPT ![s] = m]

\* closeConnection on every descriptor in F, from the tables cl, t and cn.  The
\* descriptor of a response being streamed stays open: ~Response is empty.
CloseConnections(s, F, cl, t, cn) ==
  /\ client' = [cl EXCEPT ![s] = Without(cl[s], F)]
  /\ fdt' = Release(t, F)
  /\ conn' = Shut(cn, F)
  /\ UpdateMaxFileDescriptor(s, Keys(cl[s]) \ F)

PutClient(s, fd, r) == [client EXCEPT ![s] = [client[s] EXCEPT ![fd] = r]]
Older(r, d) ==
  [r EXCEPT !.age = IF r.state = "absent" THEN 0
                    ELSE IF r.age + d > AgeCap THEN AgeCap ELSE r.age + d]
AllOlder(d) == [s \in Servers |-> [fd \in Fd |-> Older(client[s][fd], d)]]

-----------------------------------------------------------------------------
(* The clients and the network. *)

Reachable(c) == conn[c].status \in {"queued", "open"}

Connect(c, s) ==
  /\ conn[c].status = "new"
  /\ conn' = [conn EXCEPT ![c].status = "queued", ![c].srv = s]
  /\ UNCHANGED <<loopVars, setVars, srvMaxFd, client, fdt>>

\* The client starts another request: its first piece arrives.
SendRequest(c, k) ==
  LET r == conn[c] IN
  /\ Reachable(c) /\ r.peer = "up" /\ r.rest = 0
  /\ Len(r.reqs) < MaxRequests /\ Len(r.reqs) < r.done + Window
  /\ conn' = [conn EXCEPT ![c].reqs = Append(r.reqs, k),
                          ![c].rest = Pieces(k) - 1,
                          ![c].inq = Append(r.inq, Len(r.reqs) + 1)]
  /\ UNCHANGED <<loopVars, setVars, srvMaxFd, client, fdt>>

\* Another piece of the request under way arrives.
SendMore(c) ==
  LET r == conn[c] IN
  /\ Reachable(c) /\ r.peer = "up" /\ r.rest > 0
  /\ conn' = [conn EXCEPT ![c].rest = r.rest - 1,
                          ![c].inq = Append(r.inq, Len(r.reqs))]
  /\ UNCHANGED <<loopVars, setVars, srvMaxFd, client, fdt>>

\* The client shuts its side, or the connection is reset.
Hangup(c) ==
  /\ "hangup" \in Faults /\ Reachable(c) /\ conn[c].peer = "up"
  /\ conn' = [conn EXCEPT ![c].peer = "fin"]
  /\ UNCHANGED <<loopVars, setVars, srvMaxFd, client, fdt>>
Reset(c) ==
  /\ "reset" \in Faults /\ Reachable(c) /\ conn[c].peer # "rst"
  /\ conn' = [conn EXCEPT ![c].peer = "rst"]
  /\ UNCHANGED <<loopVars, setVars, srvMaxFd, client, fdt>>

\* The client stops reading, so that the send buffer is full; once per
\* connection (a bound).
Stall(c) ==
  /\ "stall" \in Faults /\ Reachable(c) /\ conn[c].stall = "never"
  /\ conn' = [conn EXCEPT ![c].stall = "now"]
  /\ UNCHANGED <<loopVars, setVars, srvMaxFd, client, fdt>>
Resume(c) ==
  /\ Reachable(c) /\ conn[c].stall = "now"
  /\ conn' = [conn EXCEPT ![c].stall = "over"]
  /\ UNCHANGED <<loopVars, setVars, srvMaxFd, client, fdt>>

-----------------------------------------------------------------------------
(* handleSelect.  select() looks at descriptors up to _maxFd only. *)

ReadReady(fd) ==
  \/ \E s \in Servers : fd = Listen(s) /\ Backlog(s) # {}
  \/ /\ fdt[fd].kind = "sock"
     /\ conn[ConnOf(fd)].inq # <<>> \/ conn[ConnOf(fd)].peer # "up"
WriteReady(fd) ==
  fdt[fd].kind = "sock" /\ (conn[ConnOf(fd)].peer = "rst" \/ conn[ConnOf(fd)].stall # "now")

ReadyToRead == {fd \in masterSet : fd <= maxFd /\ ReadReady(fd)}
ReadyToWrite == {fd \in pendingSet : fd <= maxFd /\ WriteReady(fd)}

\* FD_ISSET of a descriptor that no fd_set can hold reads other memory: any
\* outcome, chosen here once a round.
Reported(ready) == {ready \cup X : X \in SUBSET {fd \in Fd : fd >= FdSetSize}}

Select ==
  /\ phase = "select" /\ ReadyToRead \cup ReadyToWrite # {}
  /\ readSet' \in Reported(ReadyToRead) /\ writeSet' \in Reported(ReadyToWrite)
  /\ phase' = "accept"
  /\ UNCHANGED <<turn, todo, setVars, srvMaxFd, client, fdt, conn>>

\* select() times out: nothing is handled, and that includes the idle sweep.
SelectTimeout ==
  /\ phase = "select" /\ ReadyToRead \cup ReadyToWrite = {}
  /\ client' = AllOlder(1)
  /\ UNCHANGED <<loopVars, setVars, srvMaxFd, fdt, conn>>

-----------------------------------------------------------------------------
(* handleEvents, first loop: handleNewConnection on the ready listeners. *)

NextAccept ==
  /\ IF turn < NServers THEN turn' = turn + 1 /\ phase' = "accept"
                        ELSE turn' = 1 /\ phase' = "sweep"
  /\ UNCHANGED <<todo, readSet, writeSet, setVars>>

AtCap == Cardinality(Clients(turn)) >= MaxClients
Idle == {fd \in Clients(turn) : client[turn][fd].age > ClientTimeout}

SkipAccept ==
  /\ phase = "accept" /\ Listen(turn) \notin readSet
  /\ NextAccept /\ UNCHANGED <<srvMaxFd, client, fdt, conn>>

\* mutant: returns before accept()
RejectLater ==
  /\ phase = "accept" /\ Listen(turn) \in readSet /\ AtCap
  /\ CloseConnections(turn, Idle, client, fdt, conn)
  /\ NextAccept

\* At the cap: idle clients are closed, and the connection is accepted and
\* closed all the same.
RejectConnection ==
  /\ phase = "accept" /\ Listen(turn) \in readSet /\ AtCap
  /\ Free \cup Idle # {}
  /\ \E c \in Backlog(turn) :
       CloseConnections(turn, Idle, client, fdt, [conn EXCEPT ![c] = Hung(conn[c])])
  /\ NextAccept

AcceptConnection ==
  /\ phase = "accept" /\ Listen(turn) \in readSet /\ ~AtCap
  /\ \E c \in Backlog(turn), fd \in Free :
       /\ \A g \in Free : fd <= g
       /\ client' = PutClient(turn, fd, NewClient)
       /\ fdt' = [fdt EXCEPT ![fd] = [kind |-> "sock", conn |-> c]]
       /\ conn' = [conn EXCEPT ![c].status = "open"]
       /\ UpdateMaxFileDescriptor(turn, Clients(turn) \cup {fd})
  /\ NextAccept

\* accept() fails with EMFILE: the connection stays in the backlog.
AcceptOutOfFds ==
  /\ phase = "accept" /\ Listen(turn) \in readSet
  /\ Free = {} /\ (AtCap => Idle = {})
  /\ NextAccept /\ UNCHANGED <<srvMaxFd, client, fdt, conn>>

-----------------------------------------------------------------------------
(* handleExistingConnections: the idle sweep, then reads and writes. *)

StaleInResponse(r) == r.state = "WRITING_RESPONSE" /\ r.age > KeepAliveTimeout   \* mutant
\* mutant: off by one
StaleWriting(r) == \/ r.age > ClientTimeout
                   \/ r.state = "WRITING_RESPONSE" /\ r.age >= KeepAliveTimeout
Stale(r) == \/ r.age > ClientTimeout
            \/ r.state = "WRITING_RESPONSE" /\ r.age > KeepAliveTimeout

\* Also takes the snapshot of the clients to serve, of which those select()
\* did not report are passed over.
SweepIdle ==
  LET stale == {fd \in Clients(turn) : Stale(client[turn][fd])} IN
  /\ phase = "sweep"
  /\ CloseConnections(turn, stale, client, fdt, conn)
  /\ todo' = (Clients(turn) \ stale) \cap (readSet \cup writeSet)
  /\ phase' = "serve"
  /\ UNCHANGED <<turn, readSet, writeSet, setVars>>

Current(fd) == fd \in todo /\ \A g \in todo : fd <= g

\* After handleClientData: handleClientWrite, if the client is still there.
AfterRead(fd, stays) ==
  /\ IF stays /\ fd \in writeSet THEN phase' = "write" /\ todo' = todo
                                 ELSE phase' = "serve" /\ todo' = todo \ {fd}
  /\ UNCHANGED <<turn, readSet, writeSet, setVars>>
AfterWrite(fd) ==
  phase' = "serve" /\ todo' = todo \ {fd} /\ UNCHANGED <<turn, readSet, writeSet, setVars>>

Reading(fd) == phase = "serve" /\ Current(fd) /\ fd \in readSet
Writing(fd) ==
  /\ phase = "write" \/ (phase = "serve" /\ fd \notin readSet)
  /\ Current(fd)

\* recv() reports an error, or the end of what the client sent.
PeerGoneOnError(r) == r.peer = "rst"   \* mutant: the end is not noticed
PeerGone(r) == r.peer = "rst" \/ (r.peer = "fin" /\ r.inq = <<>>)

\* Nothing is read while a response is being written; recv() on a socket with
\* nothing to read gives EAGAIN.
ReadNothing(fd) ==
  /\ Reading(fd)
  /\ \/ client[turn][fd].state = "WRITING_RESPONSE"
     \/ conn[ConnOf(fd)].inq = <<>> /\ ~PeerGone(conn[ConnOf(fd)])
  /\ AfterRead(fd, TRUE) /\ UNCHANGED <<srvMaxFd, client, fdt, conn>>

\* recv() returns 0 or an error.
ReadClosed(fd) ==
  /\ Reading(fd) /\ client[turn][fd].state = "IDLE"
  /\ PeerGone(conn[ConnOf(fd)])
  /\ CloseConnections(turn, {fd}, client, fdt, conn)
  /\ AfterRead(fd, FALSE)

\* recv() takes the first k pieces: the client's record and the connection then.
Received(fd, k) ==
  LET c == ConnOf(fd)
      r == client[turn][fd]
  IN [r EXCEPT !.age = 0,
               !.requestBuffer = r.requestBuffer \o [i \in 1..k |-> <<c, conn[c].inq[i]>>]]
Drained(fd, k) ==
  [conn EXCEPT ![ConnOf(fd)].inq = SubSeq(conn[ConnOf(fd)].inq, k + 1, Len(conn[ConnOf(fd)].inq))]

Receiving(fd, k) ==
  /\ Reading(fd) /\ client[turn][fd].state = "IDLE"
  /\ k \in 1..Len(conn[ConnOf(fd)].inq)

ReadIncomplete(fd, k) ==
  /\ Receiving(fd, k) /\ ~Complete(Received(fd, k).requestBuffer)
  /\ client' = PutClient(turn, fd, Received(fd, k)) /\ conn' = Drained(fd, k)
  /\ AfterRead(fd, TRUE) /\ UNCHANGED <<srvMaxFd, fdt>>

\* sendBadRequestResponse: the response is buffered and the state left alone.
ReadBadRequest(fd, k) ==
  LET r == Received(fd, k) IN
  /\ Receiving(fd, k) /\ Complete(r.requestBuffer) /\ ~Parses(r.requestBuffer)
  /\ client' = PutClient(turn, fd, [r EXCEPT !.responseBuffer = BadRequest])
  /\ conn' = Drained(fd, k)
  /\ AfterRead(fd, TRUE) /\ UNCHANGED <<srvMaxFd, fdt>>

-----------------------------------------------------------------------------
(* processCompleteRequests on a request that parses.  The handler may take  *)
(* its time, in which every client grows older; the whole requestBuffer is  *)
(* dropped and responseBuffer is not.                                       *)

Processing(fd, k) ==
  /\ Receiving(fd, k)
  /\ Complete(Received(fd, k).requestBuffer) /\ Parses(Received(fd, k).requestBuffer)

Answering(fd, k, keep, rfd, size) ==
  LET r == Received(fd, k) IN
  [r EXCEPT !.state = "WRITING_RESPONSE", !.requestBuffer = <<>>,
            !.keepAlive = keep, !.bytesWritten = 0,
            !.response = [tag |-> r.requestBuffer[1], fd |-> rfd,
                          chunks |-> size, headersSent |-> FALSE]]
AnswerWith(fd, k, d, r) ==
  /\ client' = [AllOlder(d) EXCEPT ![turn] = [AllOlder(d)[turn] EXCEPT ![fd] = r]]
  /\ conn' = Drained(fd, k)
  /\ AfterRead(fd, TRUE) /\ UNCHANGED srvMaxFd

RespondBuffered(fd, k) ==
  /\ Processing(fd, k)
  /\ \E d \in HandlerDelays, keep \in BOOLEAN :
       AnswerWith(fd, k, d, Answering(fd, k, keep, NoFd, 0))
  /\ UNCHANGED fdt

\* A static file, or the output a CGI program left in a temporary file: the
\* response holds a descriptor (with a CGI program not the lowest free one).
RespondFile(fd, k) ==
  /\ Processing(fd, k)
  /\ \E d \in HandlerDelays, keep \in BOOLEAN, size \in 0..RespSize, f \in Free :
       /\ AnswerWith(fd, k, d, Answering(fd, k, keep, f, size))
       /\ fdt' = [fdt EXCEPT ![f] = Entry("file")]

\* The handler throws.
ProcessThrows(fd, k) ==
  /\ Processing(fd, k)
  /\ \E d \in HandlerDelays : CloseConnections(turn, {fd}, AllOlder(d), fdt, Drained(fd, k))
  /\ AfterRead(fd, FALSE)

-----------------------------------------------------------------------------
(* handleClientWrite, and Response::writeNextChunk for a streamed response. *)

Broken(fd) == conn[ConnOf(fd)].peer = "rst"
Full(fd) == ~Broken(fd) /\ conn[ConnOf(fd)].stall = "now"
Sendable(fd) == ~Broken(fd) /\ conn[ConnOf(fd)].stall # "now"

Buffered(fd) == /\ Writing(fd) /\ client[turn][fd].state = "WRITING_RESPONSE"
                /\ client[turn][fd].response.fd = NoFd
Streaming(fd) == /\ Writing(fd) /\ client[turn][fd].state = "WRITING_RESPONSE"
                 /\ client[turn][fd].response.fd # NoFd

\* mutant: clear() leaves responseBuffer
ClearedRequest(r) == [r EXCEPT !.state = "IDLE", !.requestBuffer = <<>>,
                               !.bytesWritten = 0, !.age = 0]
\* ClientState::clear
Cleared(r) == [r EXCEPT !.state = "IDLE", !.requestBuffer = <<>>,
                        !.responseBuffer = Empty, !.bytesWritten = 0, !.age = 0]
EndResponse(fd, r, t, cn) ==
  IF r.keepAlive
    THEN /\ client' = PutClient(turn, fd, Cleared(r)) /\ fdt' = t /\ conn' = cn
         /\ UNCHANGED srvMaxFd
    ELSE CloseConnections(turn, {fd}, client, t, cn)

\* What the client has received once the first or the last piece is sent.
Heard(fd, tag, first, last) ==
  [conn EXCEPT ![ConnOf(fd)].out = IF first THEN Append(@, tag) ELSE @,
               ![ConnOf(fd)].done = IF last THEN @ + 1 ELSE @]

WriteNothing(fd) ==
  /\ Writing(fd) /\ client[turn][fd].state # "WRITING_RESPONSE"
  /\ AfterWrite(fd) /\ UNCHANGED <<srvMaxFd, client, fdt, conn>>

\* toString() fills responseBuffer unless something is in it already.
ToSend(r) == IF r.responseBuffer = Empty THEN r.response.tag ELSE r.responseBuffer

Remaining(r) == RespSize - r.bytesWritten

\* send() takes n pieces, perhaps not all of them.
SendBuffered(fd, n) ==
  LET r == client[turn][fd]
      sent == [r EXCEPT !.responseBuffer = ToSend(r), !.age = 0,
                        !.bytesWritten = r.bytesWritten + n]
      last == sent.bytesWritten >= RespSize
      cn == Heard(fd, ToSend(r), r.bytesWritten = 0, last)
  IN /\ Buffered(fd) /\ Sendable(fd) /\ n <= Remaining(r)
     /\ IF last THEN EndResponse(fd, sent, fdt, cn)
                ELSE /\ client' = PutClient(turn, fd, sent) /\ conn' = cn
                     /\ UNCHANGED <<fdt, srvMaxFd>>
     /\ AfterWrite(fd)

SendFull(fd) ==
  LET r == client[turn][fd] IN
  /\ Buffered(fd) /\ Full(fd)
  /\ client' = PutClient(turn, fd, [r EXCEPT !.responseBuffer = ToSend(r), !.age = 0])
  /\ AfterWrite(fd) /\ UNCHANGED <<srvMaxFd, fdt, conn>>

SendFails(fd) ==
  /\ Buffered(fd) /\ Broken(fd)
  /\ CloseConnections(turn, {fd}, client, fdt, conn)
  /\ AfterWrite(fd)

StreamFull(fd) ==
  LET r == client[turn][fd] IN
  /\ Streaming(fd) /\ Full(fd) /\ ~r.response.headersSent
  /\ client' = PutClient(turn, fd, [r EXCEPT !.age = 0])
  /\ AfterWrite(fd) /\ UNCHANGED <<srvMaxFd, fdt, conn>>

\* A chunk is read and sent; with a full send buffer it is read and lost.
StreamChunk(fd) ==
  LET r == client[turn][fd] IN
  /\ Streaming(fd) /\ r.response.chunks > 0
  /\ Sendable(fd) \/ (Full(fd) /\ r.response.headersSent)
  /\ client' = PutClient(turn, fd, [r EXCEPT !.age = 0, !.response.headersSent = TRUE,
                                             !.response.chunks = @ - 1])
  /\ conn' = Heard(fd, r.response.tag, ~r.response.headersSent, FALSE)
  /\ AfterWrite(fd) /\ UNCHANGED <<srvMaxFd, fdt>>

FinishedOpen(resp) == [resp EXCEPT !.headersSent = TRUE]   \* mutant: not set to -1
\* closeFileDescriptor
Finished(resp) == [resp EXCEPT !.fd = NoFd, !.headersSent = TRUE]

\* mutant: the descriptor is forgotten, not closed
StreamEndOpen(fd) ==
  LET r == client[turn][fd] IN
  /\ Streaming(fd) /\ r.response.chunks = 0
  /\ Sendable(fd) \/ r.response.headersSent
  /\ EndResponse(fd, [r EXCEPT !.response = Finished(@)], fdt,
                 Heard(fd, r.response.tag, ~r.response.headersSent, TRUE))
  /\ AfterWrite(fd)
\* read() gives 0: the descriptor is closed and the response has ended.
StreamEnd(fd) ==
  LET r == client[turn][fd] IN
  /\ Streaming(fd) /\ r.response.chunks = 0
  /\ Sendable(fd) \/ r.response.headersSent
  /\ EndResponse(fd, [r EXCEPT !.response = Finished(@)],
                 Release(fdt, {r.response.fd}),
                 Heard(fd, r.response.tag, ~r.response.headersSent, TRUE))
  /\ AfterWrite(fd)

\* send() fails: the response is given up and its descriptor stays open.
StreamFails(fd) ==
  LET r == client[turn][fd] IN
  /\ Streaming(fd) /\ Broken(fd)
  /\ r.response.chunks > 0 \/ ~r.response.headersSent
  /\ EndResponse(fd, r, fdt, conn)
  /\ AfterWrite(fd)

-----------------------------------------------------------------------------
(* The end of handleExistingConnections for a server; after the last server *)
(* handleEvents rebuilds the fd sets.                                       *)

EndServer ==
  /\ phase = "serve" /\ todo = {} /\ turn < NServers
  /\ UpdateMaxFileDescriptor(turn, Clients(turn))
  /\ turn' = turn + 1 /\ phase' = "sweep"
  /\ UNCHANGED <<todo, readSet, writeSet, setVars, client, fdt, conn>>

EveryKey(s) == Clients(s)   \* mutant of Watchable: no FD_SETSIZE guard
Watchable(s) == {fd \in Clients(s) : fd < FdSetSize}
NonePending(s) == {}   \* mutant: nobody is watched for writing
Pending(s) == {fd \in Watchable(s) : client[s][fd].state = "WRITING_RESPONSE"}
EndRound ==
  /\ phase = "serve" /\ todo = {} /\ turn = NServers
  /\ UpdateMaxFileDescriptor(turn, Clients(turn))
  /\ masterSet' = UNION {{Listen(s)} \cup Watchable(s) : s \in Servers}
  /\ pendingSet' = UNION {Pending(s) : s \in Servers}
  /\ \E s \in Servers : /\ \A t \in Servers : srvMaxFd'[t] <= srvMaxFd'[s]
                        /\ maxFd' = srvMaxFd'[s]
  /\ turn' = 1 /\ phase' = "select" /\ readSet' = {} /\ writeSet' = {}
  /\ UNCHANGED <<todo, client, fdt, conn>>

-----------------------------------------------------------------------------
Accept == SkipAccept \/ RejectConnection \/ AcceptConnection \/ AcceptOutOfFds
Read(fd) ==
  \/ ReadNothing(fd) \/ ReadClosed(fd)
  \/ \E k \in 1..Len(conn[ConnOf(fd)].inq) :
       \/ ReadIncomplete(fd, k) \/ ReadBadRequest(fd, k)
       \/ RespondBuffered(fd, k) \/ RespondFile(fd, k) \/ ProcessThrows(fd, k)
Write(fd) ==
  \/ WriteNothing(fd)
  \/ (\E n \in 1..RespSize : SendBuffered(fd, n)) \/ SendFull(fd) \/ SendFails(fd)
  \/ StreamFull(fd) \/ StreamChunk(fd) \/ StreamEnd(fd) \/ StreamFails(fd)

Loop == \/ Select \/ SelectTimeout \/ Accept \/ SweepIdle
        \/ \E fd \in todo : Read(fd) \/ Write(fd)
        \/ EndServer \/ EndRound

Network(c) == \/ \E s \in Servers : Connect(c, s)
              \/ \E k \in Kinds : SendRequest(c, k)
              \/ SendMore(c) \/ Hangup(c) \/ Reset(c) \/ Stall(c) \/ Resume(c)

Next == Loop \/ \E c \in Conns : Network(c)

Spec == Init /\ [][Next]_vars

\* The process is scheduled and select() returns; a stalled client resumes.
FairSpec == Spec /\ WF_vars(Loop) /\ \A c \in Conns : WF_vars(Resume(c))

-----------------------------------------------------------------------------
(* Properties. *)

\* Every variable has the type its C++ counterpart has.
TypeOK ==
  /\ phase \in {"select", "accept", "sweep", "serve", "write"} /\ turn \in Servers
  /\ todo \in SUBSET Fd /\ readSet \in SUBSET Fd /\ writeSet \in SUBSET Fd
  /\ masterSet \in SUBSET Fd /\ pendingSet \in SUBSET Fd
  /\ maxFd \in Fd /\ srvMaxFd \in [Servers -> Fd]
  /\ client \in [Servers -> [Fd -> ClientState]]
  /\ fdt \in [Fd -> FdEntry]
  /\ conn \in [Conns -> Connection]

\* The maps _clients and the descriptor table agree at every step: a key is an
\* open socket of a connection to that server and of no other server, and every
\* accepted socket is the key of some client, so that none is lost while
\* closeConnection, accept() and the reuse of descriptors interleave.
SocketsOwned ==
  /\ \A s \in Servers : \A fd \in Clients(s) :
       /\ fdt[fd].kind = "sock" /\ ConnOf(fd) \in Conns
       /\ conn[ConnOf(fd)].status = "open" /\ conn[ConnOf(fd)].srv = s
  /\ \A fd \in Fd : fdt[fd].kind = "sock" => \E s \in Servers : fd \in Clients(s)
  /\ \A c \in Conns : conn[c].status = "open" => \E fd \in Fd : ConnOf(fd) = c
  /\ \A fd, g \in Fd : ConnOf(fd) = ConnOf(g) /\ ConnOf(fd) # NoConn => fd = g

\* Whenever the loop comes back to select(), the sets it passes name exactly the
\* listeners and the live clients a fd_set can hold (a closed descriptor among
\* them would make select() fail and end the server, a forgotten one would hang
\* its client), and _maxFd covers them all.
SelectSafe ==
  phase = "select" =>
    /\ masterSet = UNION {{Listen(s)} \cup Watchable(s) : s \in Servers}
    /\ pendingSet = UNION {Pending(s) : s \in Servers}
    /\ \A fd \in masterSet : fdt[fd].kind \in {"listen", "sock"} /\ fd <= maxFd

\* The descriptor a client's response streams from is an open file, and no
\* other client streams from it: closing it once, never reading someone else's.
FileFdsPrivate ==
  /\ \A s \in Servers : \A fd \in Clients(s) :
       client[s][fd].response.fd # NoFd => fdt[client[s][fd].response.fd].kind = "file"
  /\ \A s, t \in Servers : \A fd \in Clients(s), g \in Clients(t) :
       /\ client[s][fd].response.fd = client[t][g].response.fd
       /\ client[s][fd].response.fd # NoFd
       => s = t /\ fd = g

\* The inductive strengthening of SocketsOwned, SelectSafe and FileFdsPrivate.
\* The bound on requests is kept, and only a request under way has pieces left.
RequestsBounded == \A c \in Conns : /\ Len(conn[c].reqs) <= MaxRequests
                                    /\ conn[c].rest > 0 => conn[c].reqs # <<>>
\* Listening sockets stay open, and only client sockets belong to a connection.
TableShape ==
  /\ \A s \in Servers : fdt[Listen(s)].kind = "listen"
  /\ \A fd \in Fd : IF fdt[fd].kind = "sock" THEN ConnOf(fd) \in Conns ELSE ConnOf(fd) = NoConn
\* A client still to be served is in the map of the server being worked on.
TodoAlive == todo \subseteq Clients(turn) /\ (phase \notin {"serve", "write"} => todo = {})
\* Server::_maxFd is at least the listener and every client a fd_set can hold.
MaxFdCovers == \A s \in Servers : /\ Listen(s) <= srvMaxFd[s]
                                  /\ \A fd \in Watchable(s) : fd <= srvMaxFd[s]

\* Descriptors, connections, maps and sets are consistent with one another at
\* every step of the loop, not only where a property looks at them.
Consistent == /\ TypeOK /\ RequestsBounded /\ TableShape /\ SocketsOwned
              /\ TodoAlive /\ MaxFdCovers /\ FileFdsPrivate /\ SelectSafe

\* What a client hears are responses to its own requests, in the order of the
\* requests, none twice, and none starts before the previous one has ended,
\* whatever descriptor the connection had and whoever had it before.  The error
\* made for a request that looked complete too early stands for that request's
\* answer only, and never for another's.
AnswersInOrder ==
  \A c \in Conns :
    LET r == conn[c]
        named == {i \in DOMAIN r.out : r.out[i] # BadRequest}
    IN
    /\ \A i \in named : /\ r.out[i] \in {c} \X DOMAIN r.reqs
                        /\ \A j \in named : i < j => r.out[i][2] < r.out[j][2]
    /\ \A i \in DOMAIN r.out \ named : \E n \in DOMAIN r.reqs :
         /\ r.reqs[n] = "earlyMark"
         /\ \A j \in named : IF j < i THEN r.out[j][2] < n ELSE r.out[j][2] > n
    /\ r.done <= Len(r.out) /\ Len(r.out) <= r.done + 1

\* A response under way is cut short only if the client reset the connection or
\* went without progress for longer than the timeout: no other client, no full
\* server and no failing handler closes it.
NeverCutShort ==
  [][\A s \in Servers : \A fd \in Clients(s) :
       LET c == ConnOf(fd) IN
       /\ conn'[c].status = "closed" /\ Len(conn[c].out) > conn'[c].done
       => conn[c].peer = "rst" \/ client[s][fd].age > ClientTimeout]_vars

Owner(s, fd, f) == fd \in Clients(s) /\ client[s][fd].response.fd = f

\* The file of a response stays open without an owner, for good, only when the
\* response's connection is closed under it or was reset by the client: no
\* response that ends, and no later request of its connection, leaks one.
LeaksOnlyOnLoss ==
  [][\A s \in Servers, fd, f \in Fd :
       /\ Owner(s, fd, f) /\ fdt[f].kind = "file"
       /\ fdt'[f].kind = "file" /\ ~Owner(s, fd, f)'
       => LET c == ConnOf(fd) IN conn[c].peer = "rst" \/ conn'[c].status = "closed"]_vars

\* When a round ends, nobody is left who had gone quiet for longer than the
\* timeout before it, though the sweep of a server runs before its clients are
\* served and each server's at another time; only handlers' delays add to it.
IdleReaped ==
  [][phase # "select" /\ phase' = "select" =>
       \A s \in Servers : \A fd \in Clients(s) :
         \A d \in HandlerDelays : (\A e \in HandlerDelays : e <= d) =>
           client[s][fd].age <= ClientTimeout + d * NServers * MaxClients]_vars

Sent(c, n) == /\ Len(conn[c].reqs) >= n
              /\ Len(conn[c].reqs) = n => conn[c].rest = 0
Asked(c, n, K) == conn[c].status = "open" /\ Sent(c, n) /\ conn[c].reqs[n] \in K
Answered(c, n) == conn[c].done >= n \/ conn[c].status = "closed"

\* A well-formed request that has arrived in full on an accepted connection is
\* answered in full, or its connection is closed.
Served == \A c \in Conns, n \in 1..MaxRequests :
            Asked(c, n, {"noBody", "withBody"}) ~> Answered(c, n)

\* A connection whose client has gone is closed and its descriptor freed.
GoneClosed == \A c \in Conns :
  (conn[c].status = "open" /\ conn[c].peer # "up") ~> (conn[c].status = "closed")

\* A connection in the backlog is accepted, or turned away at the cap.
BacklogDrained == \A c \in Conns :
  (conn[c].status = "queued") ~> (conn[c].status \in {"open", "closed"})

-----------------------------------------------------------------------------
(* Promises of the repository's documents and comments that the code breaks. *)

\* Requirements.md: a request to the server should never hang forever.
NeverHangs == \A c \in Conns, n \in 1..MaxRequests :
                Asked(c, n, {"malformed", "headerless"}) ~> Answered(c, n)

=============================================================================
