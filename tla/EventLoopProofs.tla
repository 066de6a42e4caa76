--------------------------- MODULE EventLoopProofs ---------------------------
(***************************************************************************)
(* Proofs about EventLoop for every value of its constants: Consistent is  *)
(* an inductive invariant of Spec, and with it TypeOK, SocketsOwned,       *)
(* SelectSafe and FileFdsPrivate hold of every behaviour; Consistent with  *)
(* Answers is another, and gives what the clients hear: AnswersInOrder,    *)
(* LeaksOnlyOnLoss and NeverCutShort. With Capped, the limit of clients,   *)
(* and Young, what a round may add to a client's silence, it gives         *)
(* IdleReaped.                                                             *)
(***************************************************************************)
EXTENDS EventLoop, SequenceTheorems, FiniteSetTheorems, TLAPS

USE DEF Servers, Fd, NoFd, Listen

\* The constants: a listener has a descriptor, and a fd_set holds it.
LEMMA ListenersFit ==
  \A s \in Servers : Listen(s) \in Fd /\ Listen(s) < FdSetSize
BY ConstantsAssumption

\* The records the model starts from are well typed.
LEMMA RecordTypes ==
  /\ Empty \in Tags /\ BadRequest \in Tags
  /\ NoResponse \in Response
  /\ NewClient \in ClientState /\ NewClient.state = "IDLE"
  /\ NewClient.response.fd = NoFd
  /\ Absent \in ClientState /\ Absent.state = "absent"
  /\ NewConnection \in Connection /\ NewConnection.status = "new"
  /\ NewConnection.reqs = <<>> /\ NewConnection.rest = 0
  /\ \A k \in {"free", "listen", "file"} :
       Entry(k) \in FdEntry /\ Entry(k).kind = k /\ Entry(k).conn = NoConn
<1>1. Empty \in Tags /\ BadRequest \in Tags
  BY DEF Tags
<1>2. NoResponse \in Response
  BY <1>1, ConstantsAssumption DEF NoResponse, Response
<1>3. NewClient \in ClientState /\ NewClient.state = "IDLE" /\ NewClient.response.fd = NoFd
  BY <1>1, <1>2, ConstantsAssumption DEF NewClient, ClientState, NoResponse
<1>4. Absent \in ClientState /\ Absent.state = "absent"
  BY <1>3 DEF Absent, ClientState
<1>5. /\ NewConnection \in Connection /\ NewConnection.status = "new"
      /\ NewConnection.reqs = <<>> /\ NewConnection.rest = 0
  BY ConstantsAssumption DEF NewConnection, Connection
<1>6. \A k \in {"free", "listen", "file"} :
        Entry(k) \in FdEntry /\ Entry(k).kind = k /\ Entry(k).conn = NoConn
  BY DEF Entry, FdEntry
<1>. QED
  BY <1>1, <1>2, <1>3, <1>4, <1>5, <1>6

\* The first state is consistent.
LEMMA InitConsistent == Init => Consistent
<1>. SUFFICES ASSUME Init PROVE Consistent
  OBVIOUS
<1>1. \A s \in Servers : Clients(s) = {}
  BY RecordTypes DEF Init, Clients, Keys
<1>2. TypeOK
  <2>1. client \in [Servers -> [Fd -> ClientState]]
    BY RecordTypes DEF Init
  <2>2. fdt \in [Fd -> FdEntry] /\ conn \in [Conns -> Connection]
    BY RecordTypes DEF Init
  <2>3. maxFd \in Fd /\ srvMaxFd \in [Servers -> Fd] /\ masterSet \in SUBSET Fd
    BY ListenersFit, ConstantsAssumption DEF Init
  <2>4. /\ phase = "select" /\ turn \in Servers /\ todo \in SUBSET Fd
        /\ readSet \in SUBSET Fd /\ writeSet \in SUBSET Fd /\ pendingSet \in SUBSET Fd
    BY ConstantsAssumption DEF Init
  <2>. QED
    BY <2>1, <2>2, <2>3, <2>4 DEF TypeOK
<1>3. RequestsBounded
  BY RecordTypes, ConstantsAssumption DEF Init, RequestsBounded
<1>4. TableShape
  BY RecordTypes, ListenersFit, ConstantsAssumption DEF Init, TableShape, ConnOf
<1>5. \A fd \in Fd : fdt[fd].kind # "sock" /\ ConnOf(fd) = NoConn
  BY RecordTypes DEF Init, ConnOf
<1>6. SocketsOwned
  BY <1>1, <1>5, RecordTypes DEF Init, SocketsOwned
<1>7. TodoAlive /\ MaxFdCovers /\ FileFdsPrivate
  BY <1>1 DEF Init, TodoAlive, MaxFdCovers, Watchable, FileFdsPrivate
<1>8. SelectSafe
  <2>1. masterSet = UNION {{Listen(s)} \cup Watchable(s) : s \in Servers}
    BY <1>1 DEF Init, Watchable
  <2>2. pendingSet = UNION {Pending(s) : s \in Servers}
    BY <1>1 DEF Init, Pending, Watchable
  <2>3. \A fd \in masterSet : fdt[fd].kind \in {"listen", "sock"} /\ fd <= maxFd
    <3>1. \A fd \in masterSet : fd \in Fd /\ fd < NServers /\ fd <= maxFd
      BY ListenersFit, ConstantsAssumption DEF Init
    <3>. QED
      BY <3>1, RecordTypes DEF Init
  <2>. QED
    BY <2>1, <2>2, <2>3 DEF SelectSafe
<1>. QED
  BY <1>2, <1>3, <1>4, <1>6, <1>7, <1>8 DEF Consistent

-----------------------------------------------------------------------------
(* Steps of clients and the network change one connection only. *)

\* A connection that keeps its status, or enters the backlog, may change its
\* other fields at will.
LEMMA NetworkConsistent ==
  ASSUME Consistent, NEW c \in Conns, NEW r \in Connection,
         conn' = [conn EXCEPT ![c] = r],
         UNCHANGED <<loopVars, setVars, srvMaxFd, client, fdt>>,
         \/ r.status = conn[c].status /\ r.srv = conn[c].srv
         \/ r.status = "queued" /\ conn[c].status = "new",
         Len(r.reqs) <= MaxRequests,
         r.rest > 0 => r.reqs # <<>>
  PROVE  Consistent'
<1>. USE DEF Consistent
<1>1. /\ phase' = phase /\ turn' = turn /\ todo' = todo /\ readSet' = readSet
      /\ writeSet' = writeSet /\ masterSet' = masterSet /\ pendingSet' = pendingSet
      /\ maxFd' = maxFd /\ srvMaxFd' = srvMaxFd /\ client' = client /\ fdt' = fdt
  BY DEF loopVars, setVars
<1>2. conn \in [Conns -> Connection]
  BY DEF TypeOK
<1>3. conn' \in [Conns -> Connection]
  BY <1>2
<1>4. TypeOK'
  BY <1>1, <1>3 DEF TypeOK
<1>5. RequestsBounded'
  BY <1>2 DEF RequestsBounded
<1>6. /\ \A s \in Servers : Clients(s)' = Clients(s) /\ Watchable(s)' = Watchable(s)
                            /\ Pending(s)' = Pending(s)
      /\ \A fd \in Fd : ConnOf(fd)' = ConnOf(fd)
  BY <1>1 DEF Clients, Keys, Watchable, Pending, ConnOf
<1>7. TableShape' /\ TodoAlive' /\ MaxFdCovers' /\ FileFdsPrivate'
  <2>1. TableShape'
    BY <1>1, <1>6 DEF TableShape
  <2>2. TodoAlive'
    BY <1>1, <1>6 DEF TodoAlive, TypeOK
  <2>3. MaxFdCovers'
    BY <1>1, <1>6 DEF MaxFdCovers
  <2>4. FileFdsPrivate'
    BY <1>1, <1>6 DEF FileFdsPrivate
  <2>. QED
    BY <2>1, <2>2, <2>3, <2>4
<1>8. SelectSafe'
  BY <1>1, <1>6 DEF SelectSafe
<1>9. \A d \in Conns : /\ conn[d].status = "open" => /\ conn'[d].status = "open"
                                                     /\ conn'[d].srv = conn[d].srv
                       /\ conn'[d].status = "open" => conn[d].status = "open"
  BY <1>2
<1>10. SocketsOwned'
  <2>1. \A s \in Servers : \A fd \in Clients(s)' :
          /\ fdt'[fd].kind = "sock" /\ ConnOf(fd)' \in Conns
          /\ conn'[ConnOf(fd)'].status = "open" /\ conn'[ConnOf(fd)'].srv = s
    BY <1>1, <1>6, <1>9 DEF SocketsOwned, Clients, Keys
  <2>2. \A fd \in Fd : fdt'[fd].kind = "sock" => \E s \in Servers : fd \in Clients(s)'
    BY <1>1, <1>6 DEF SocketsOwned
  <2>3. \A d \in Conns : conn'[d].status = "open" => \E fd \in Fd : ConnOf(fd)' = d
    BY <1>6, <1>9 DEF SocketsOwned
  <2>4. \A fd, g \in Fd : ConnOf(fd)' = ConnOf(g)' /\ ConnOf(fd)' # NoConn => fd = g
    BY <1>6 DEF SocketsOwned
  <2>. QED
    BY <2>1, <2>2, <2>3, <2>4, <1>6 DEF SocketsOwned
<1>. QED
  BY <1>4, <1>5, <1>7, <1>8, <1>10

\* What clients and the network do leaves the server's own state consistent.
LEMMA NetworkStep ==
  ASSUME Consistent, NEW c \in Conns, Network(c)
  PROVE  Consistent'
<1>. DEFINE r == conn[c]
<1>1. r \in Connection /\ conn \in [Conns -> Connection]
  BY DEF Consistent, TypeOK
<1>2. Len(r.reqs) <= MaxRequests /\ (r.rest > 0 => r.reqs # <<>>)
  BY DEF Consistent, RequestsBounded
<1>3. ASSUME NEW s \in Servers, Connect(c, s) PROVE Consistent'
  <2>. DEFINE q == [r EXCEPT !.status = "queued", !.srv = s]
  <2>1. q \in Connection /\ q.status = "queued" /\ q.reqs = r.reqs /\ q.rest = r.rest
    BY <1>1 DEF Connection
  <2>2. conn' = [conn EXCEPT ![c] = q] /\ r.status = "new"
    BY <1>1, <1>3 DEF Connect
  <2>. QED
    BY <1>2, <1>3, <2>1, <2>2, NetworkConsistent DEF Connect
<1>4. ASSUME NEW k \in Kinds, SendRequest(c, k) PROVE Consistent'
  <2>. DEFINE q == [r EXCEPT !.reqs = Append(r.reqs, k), !.rest = Pieces(k) - 1,
                             !.inq = Append(r.inq, Len(r.reqs) + 1)]
  <2>1. Pieces(k) - 1 \in 0..2
    BY DEF Pieces
  <2>2. /\ r.reqs \in Seq(Kinds) /\ r.inq \in Seq(1..MaxRequests)
        /\ Len(r.reqs) \in Nat /\ Len(r.reqs) < MaxRequests
    BY <1>1, <1>4 DEF Connection, SendRequest
  <2>3. /\ Append(r.reqs, k) \in Seq(Kinds) /\ Len(Append(r.reqs, k)) = Len(r.reqs) + 1
        /\ Append(r.reqs, k) # <<>>
    BY <2>2
  <2>4. Append(r.inq, Len(r.reqs) + 1) \in Seq(1..MaxRequests)
    <3>1. Len(r.reqs) + 1 \in 1..MaxRequests
      BY <2>2, ConstantsAssumption
    <3>. QED
      BY <2>2, <3>1
  <2>5. q \in Connection /\ q.status = r.status /\ q.srv = r.srv
        /\ q.reqs = Append(r.reqs, k)
    BY <1>1, <2>1, <2>3, <2>4 DEF Connection
  <2>6. conn' = [conn EXCEPT ![c] = q]
    BY <1>1, <1>4 DEF SendRequest
  <2>7. Len(q.reqs) <= MaxRequests /\ q.reqs # <<>>
    BY SMTT(30), <2>2, <2>3, <2>5, ConstantsAssumption
  <2>. QED
    BY <1>4, <2>5, <2>6, <2>7, NetworkConsistent DEF SendRequest
<1>5. ASSUME SendMore(c) PROVE Consistent'
  <2>. DEFINE q == [r EXCEPT !.rest = r.rest - 1, !.inq = Append(r.inq, Len(r.reqs))]
  <2>1. r.rest > 0 /\ r.rest - 1 \in 0..2
    BY <1>1, <1>5 DEF SendMore, Connection
  <2>2. Append(r.inq, Len(r.reqs)) \in Seq(1..MaxRequests)
    <3>1. r.reqs \in Seq(Kinds) /\ r.reqs # <<>> /\ r.inq \in Seq(1..MaxRequests)
      BY <1>1, <1>2, <2>1 DEF Connection
    <3>2. Len(r.reqs) \in 1..MaxRequests
      BY <1>2, <3>1, ConstantsAssumption
    <3>. QED
      BY <3>1, <3>2
  <2>3. /\ q \in Connection /\ q.status = r.status /\ q.srv = r.srv
        /\ q.reqs = r.reqs
    BY <1>1, <2>1, <2>2 DEF Connection
  <2>4. conn' = [conn EXCEPT ![c] = q]
    BY <1>1, <1>5 DEF SendMore
  <2>. QED
    BY <1>2, <1>5, <2>1, <2>3, <2>4, NetworkConsistent DEF SendMore
<1>6. ASSUME Hangup(c) \/ Reset(c) PROVE Consistent'
  <2>1. PICK p \in {"fin", "rst"} : conn' = [conn EXCEPT ![c] = [r EXCEPT !.peer = p]]
    BY <1>1, <1>6 DEF Hangup, Reset
  <2>2. [r EXCEPT !.peer = p] \in Connection
    BY <1>1 DEF Connection
  <2>3. UNCHANGED <<loopVars, setVars, srvMaxFd, client, fdt>>
    BY <1>6 DEF Hangup, Reset
  <2>. QED
    BY <1>1, <1>2, <2>1, <2>2, <2>3, NetworkConsistent DEF Connection
<1>7. ASSUME Stall(c) \/ Resume(c) PROVE Consistent'
  <2>1. PICK p \in {"now", "over"} : conn' = [conn EXCEPT ![c] = [r EXCEPT !.stall = p]]
    BY <1>1, <1>7 DEF Stall, Resume
  <2>2. [r EXCEPT !.stall = p] \in Connection
    BY <1>1 DEF Connection
  <2>3. UNCHANGED <<loopVars, setVars, srvMaxFd, client, fdt>>
    BY <1>7 DEF Stall, Resume
  <2>. QED
    BY <1>1, <1>2, <2>1, <2>2, <2>3, NetworkConsistent DEF Connection
<1>. QED
  BY <1>3, <1>4, <1>5, <1>6, <1>7 DEF Network

-----------------------------------------------------------------------------
(* What the loop's steps have in common. *)

\* The part of Consistent that does not depend on where the loop is.
Tables ==
  /\ client \in [Servers -> [Fd -> ClientState]] /\ fdt \in [Fd -> FdEntry]
  /\ conn \in [Conns -> Connection] /\ srvMaxFd \in [Servers -> Fd]
  /\ RequestsBounded /\ TableShape /\ SocketsOwned /\ MaxFdCovers /\ FileFdsPrivate

\* During a round the rest of Consistent is about the clients still to serve.
LEMMA RoundConsistent ==
  ASSUME Consistent, Tables', UNCHANGED setVars,
         phase' \in {"accept", "sweep", "serve", "write"}, turn' \in Servers,
         readSet' \in SUBSET Fd, writeSet' \in SUBSET Fd,
         todo' \subseteq Clients(turn)',
         phase' \notin {"serve", "write"} => todo' = {}
  PROVE  Consistent'
<1>1. TypeOK'
  <2>1. masterSet' \in SUBSET Fd /\ pendingSet' \in SUBSET Fd /\ maxFd' \in Fd
    BY DEF Consistent, TypeOK, setVars
  <2>2. todo' \in SUBSET Fd
    BY DEF Clients, Keys
  <2>. QED
    BY <2>1, <2>2 DEF TypeOK, Tables
<1>2. TodoAlive' /\ SelectSafe'
  BY DEF TodoAlive, SelectSafe
<1>. QED
  BY <1>1, <1>2 DEF Consistent, Tables

\* A client being served: its entry, socket and connection.
LEMMA ServedFacts ==
  ASSUME Consistent, NEW fd \in todo
  PROVE  /\ turn \in Servers /\ fd \in Fd /\ fd \in Clients(turn)
         /\ client[turn][fd] \in ClientState /\ client[turn][fd].state # "absent"
         /\ fdt[fd].kind = "sock" /\ ConnOf(fd) \in Conns
         /\ conn[ConnOf(fd)] \in Connection /\ conn[ConnOf(fd)].status = "open"
         /\ conn[ConnOf(fd)].srv = turn
         /\ phase \in {"serve", "write"}
<1>1. turn \in Servers /\ fd \in Clients(turn) /\ phase \in {"serve", "write"}
  BY DEF Consistent, TypeOK, TodoAlive
<1>2. fd \in Fd /\ client[turn][fd].state # "absent"
  BY <1>1 DEF Clients, Keys
<1>3. client[turn][fd] \in ClientState
  BY <1>1, <1>2 DEF Consistent, TypeOK
<1>4. /\ fdt[fd].kind = "sock" /\ ConnOf(fd) \in Conns
      /\ conn[ConnOf(fd)].status = "open" /\ conn[ConnOf(fd)].srv = turn
  BY <1>1 DEF Consistent, SocketsOwned
<1>5. conn[ConnOf(fd)] \in Connection
  BY <1>4 DEF Consistent, TypeOK
<1>. QED
  BY <1>1, <1>2, <1>3, <1>4, <1>5

\* updateMaxFileDescriptor covers the listener and the keys it is given.
LEMMA MaxFdUpdated ==
  ASSUME NEW s \in Servers, NEW K \in SUBSET Fd, srvMaxFd \in [Servers -> Fd],
         UpdateMaxFileDescriptor(s, K)
  PROVE  /\ srvMaxFd' \in [Servers -> Fd]
         /\ \A x \in Servers \ {s} : srvMaxFd'[x] = srvMaxFd[x]
         /\ Listen(s) <= srvMaxFd'[s]
         /\ \A fd \in K : fd < FdSetSize => fd <= srvMaxFd'[s]
<1>1. PICK m \in Fd : IsMaxFd(s, K, m) /\ srvMaxFd' = [srvMaxFd EXCEPT ![s] = m]
  BY DEF UpdateMaxFileDescriptor
<1>2. Listen(s) <= m /\ \A fd \in K : fd < FdSetSize => fd <= m
  BY <1>1 DEF IsMaxFd
<1>. QED
  BY <1>1, <1>2

\* A connection may change as long as its status, its server and the bounds on
\* its requests stay.
SameConnections(cn) ==
  /\ cn \in [Conns -> Connection]
  /\ \A c \in Conns : /\ cn[c].status = conn[c].status /\ cn[c].srv = conn[c].srv
                      /\ Len(cn[c].reqs) <= MaxRequests
                      /\ cn[c].rest > 0 => cn[c].reqs # <<>>
SameKeys(cl) ==
  /\ cl \in [Servers -> [Fd -> ClientState]]
  /\ \A s \in Servers : Keys(cl[s]) = Clients(s)
SameSockets(t) ==
  /\ t \in [Fd -> FdEntry]
  /\ \A fd \in Fd : \/ t[fd] = fdt[fd]
                    \/ /\ fdt[fd].kind \in {"free", "file"}
                       /\ t[fd].kind \in {"free", "file"} /\ t[fd].conn = NoConn

\* A step that keeps the keys of every map and every socket.
LEMMA PutTables ==
  ASSUME Consistent, SameKeys(client'), SameSockets(fdt'), SameConnections(conn'),
         srvMaxFd' = srvMaxFd, FileFdsPrivate'
  PROVE  Tables' /\ \A s \in Servers : Clients(s)' = Clients(s)
<1>1. \A s \in Servers : Clients(s)' = Clients(s) /\ Watchable(s)' = Watchable(s)
  BY DEF SameKeys, Clients, Keys, Watchable
<1>2. \A fd \in Fd : /\ fdt'[fd].kind = "sock" <=> fdt[fd].kind = "sock"
                     /\ fdt'[fd].kind = "listen" <=> fdt[fd].kind = "listen"
                     /\ ConnOf(fd)' = ConnOf(fd)
  <2>1. \A fd \in Fd : fdt[fd].kind \in {"free", "file"} => ConnOf(fd) = NoConn
    BY DEF Consistent, TableShape
  <2>. QED
    BY <2>1 DEF SameSockets, ConnOf
<1>3. RequestsBounded'
  BY DEF SameConnections, RequestsBounded
<1>4. TableShape'
  BY <1>2, ListenersFit DEF Consistent, TableShape
<1>5. SocketsOwned'
  <2>1. \A s \in Servers : \A fd \in Clients(s)' :
          /\ fdt'[fd].kind = "sock" /\ ConnOf(fd)' \in Conns
          /\ conn'[ConnOf(fd)'].status = "open" /\ conn'[ConnOf(fd)'].srv = s
    <3>. SUFFICES ASSUME NEW s \in Servers, NEW fd \in Clients(s)
                  PROVE  /\ fdt'[fd].kind = "sock" /\ ConnOf(fd)' \in Conns
                         /\ conn'[ConnOf(fd)'].status = "open"
                         /\ conn'[ConnOf(fd)'].srv = s
      BY <1>1
    <3>1. fd \in Fd
      BY DEF Clients, Keys
    <3>2. /\ fdt[fd].kind = "sock" /\ ConnOf(fd) \in Conns
          /\ conn[ConnOf(fd)].status = "open" /\ conn[ConnOf(fd)].srv = s
      BY DEF Consistent, SocketsOwned
    <3>. QED
      BY <1>2, <3>1, <3>2 DEF SameConnections
  <2>2. \A fd \in Fd : fdt'[fd].kind = "sock" => \E s \in Servers : fd \in Clients(s)'
    BY <1>1, <1>2 DEF Consistent, SocketsOwned
  <2>3. \A d \in Conns : conn'[d].status = "open" => \E fd \in Fd : ConnOf(fd)' = d
    BY <1>2 DEF Consistent, SocketsOwned, SameConnections
  <2>4. \A fd, g \in Fd : ConnOf(fd)' = ConnOf(g)' /\ ConnOf(fd)' # NoConn => fd = g
    BY <1>2 DEF Consistent, SocketsOwned
  <2>. QED
    BY <2>1, <2>2, <2>3, <2>4 DEF SocketsOwned
<1>6. MaxFdCovers'
  BY <1>1 DEF Consistent, MaxFdCovers
<1>7. srvMaxFd' \in [Servers -> Fd]
  BY DEF Consistent, TypeOK
<1>. QED
  BY <1>1, <1>3, <1>4, <1>5, <1>6, <1>7 DEF Tables, SameKeys, SameSockets, SameConnections

\* A closed connection is well typed.
LEMMA HungFacts ==
  \A r \in Connection : /\ Hung(r) \in Connection /\ Hung(r).status = "closed"
                         /\ Hung(r).rest = 0 /\ Hung(r).reqs = r.reqs
<1>. SUFFICES ASSUME NEW r \in Connection
              PROVE  /\ Hung(r) \in Connection /\ Hung(r).status = "closed"
                     /\ Hung(r).rest = 0 /\ Hung(r).reqs = r.reqs
  OBVIOUS
<1>1. Hung(r) \in Connection
  <2>1. <<>> \in Seq(1..MaxRequests) /\ 0 \in 0..2
    OBVIOUS
  <2>2. "closed" \in {"new", "queued", "open", "closed"} /\ "over" \in {"never", "now", "over"}
    OBVIOUS
  <2>. QED
    BY <2>1, <2>2, Zenon DEF Hung, Connection
<1>2. Hung(r).status = "closed" /\ Hung(r).rest = 0
  BY DEF Hung, Connection
<1>3. Hung(r).reqs = r.reqs
  BY DEF Hung, Connection
<1>. QED
  BY <1>1, <1>2, <1>3

\* closeConnection on a set F of clients of one server, from tables in which
\* descriptors of their responses may have been closed and connections of the
\* backlog turned away.
SameResponses(cl) ==
  \A x \in Servers : \A fd \in Clients(x) :
     cl[x][fd].response.fd = client[x][fd].response.fd
FilesClosed(t, s, F) ==
  /\ t \in [Fd -> FdEntry]
  /\ \A fd \in Fd : \/ t[fd] = fdt[fd]
                    \/ /\ fdt[fd].kind = "file" /\ t[fd] = Entry("free")
                       /\ \E g \in F : client[s][g].response.fd = fd
TurnedAway(cn) ==
  /\ cn \in [Conns -> Connection]
  /\ \A c \in Conns : /\ \/ cn[c].status = conn[c].status /\ cn[c].srv = conn[c].srv
                         \/ cn[c].status = "closed" /\ conn[c].status = "queued"
                      /\ Len(cn[c].reqs) <= MaxRequests
                      /\ cn[c].rest > 0 => cn[c].reqs # <<>>

LEMMA SameTurned ==
  ASSUME NEW cn, SameConnections(cn)
  PROVE  TurnedAway(cn)
BY DEF SameConnections, TurnedAway

\* Closing connections takes their sockets, and only theirs, out of the tables.
LEMMA CloseTables ==
  ASSUME Consistent, NEW s \in Servers, NEW F \in SUBSET Clients(s),
         NEW cl, SameKeys(cl), SameResponses(cl), NEW t, FilesClosed(t, s, F),
         NEW cn, TurnedAway(cn), CloseConnections(s, F, cl, t, cn)
  PROVE  /\ Tables'
         /\ \A x \in Servers : Clients(x)' = IF x = s THEN Clients(s) \ F ELSE Clients(x)
<1>. USE DEF SameResponses, FilesClosed, TurnedAway
<1>1. F \in SUBSET Fd /\ Keys(cl[s]) = Clients(s)
  BY DEF Clients, Keys, SameKeys
<1>2. client' \in [Servers -> [Fd -> ClientState]]
  <2>1. cl \in [Servers -> [Fd -> ClientState]]
    BY DEF SameKeys
  <2>2. Without(cl[s], F) \in [Fd -> ClientState]
    <3>1. cl[s] \in [Fd -> ClientState]
      BY <2>1
    <3>. QED
      BY <3>1, RecordTypes DEF Without
  <2>3. client' = [cl EXCEPT ![s] = Without(cl[s], F)]
    BY Zenon DEF CloseConnections
  <2>. QED
    BY <2>1, <2>2, <2>3
<1>3. \A x \in Servers : \A fd \in Fd :
        client'[x][fd] = IF x = s /\ fd \in F THEN Absent ELSE cl[x][fd]
  BY DEF CloseConnections, SameKeys, Without
<1>4. \A x \in Servers : Clients(x)' = IF x = s THEN Clients(s) \ F ELSE Clients(x)
  <2>1. ASSUME NEW x \in Servers, x # s PROVE Clients(x)' = Clients(x)
    BY <1>3, <2>1 DEF Clients, Keys, SameKeys
  <2>2. Clients(s)' = Clients(s) \ F
    BY <1>1, <1>3, RecordTypes DEF Clients, Keys, SameKeys
  <2>. QED
    BY <2>1, <2>2
<1>5. /\ fdt' \in [Fd -> FdEntry]
      /\ \A fd \in Fd : fdt'[fd] = IF fd \in F THEN Entry("free") ELSE t[fd]
  BY RecordTypes DEF CloseConnections, Release
<1>6. conn' = [c \in Conns |-> IF \E fd \in F : ConnOf(fd) = c THEN Hung(cn[c]) ELSE cn[c]]
  BY DEF CloseConnections, Shut
<1>7. \A c \in Conns : /\ Hung(cn[c]) \in Connection /\ Hung(cn[c]).status = "closed"
                       /\ Hung(cn[c]).rest = 0 /\ Hung(cn[c]).reqs = cn[c].reqs
  BY HungFacts
<1>8. conn' \in [Conns -> Connection]
  BY <1>6, <1>7
<1>9. RequestsBounded'
  BY <1>6, <1>7 DEF RequestsBounded
<1>10. \A fd \in F : fdt[fd].kind = "sock" /\ ConnOf(fd) \in Conns
  BY DEF Consistent, SocketsOwned
<1>11. \A fd \in Fd \ F : /\ fdt'[fd].kind = "sock" <=> fdt[fd].kind = "sock"
                          /\ fdt'[fd].kind = "listen" <=> fdt[fd].kind = "listen"
                          /\ ConnOf(fd)' = ConnOf(fd)
  <2>1. \A fd \in Fd : fdt[fd].kind = "file" => ConnOf(fd) = NoConn
    BY DEF Consistent, TableShape
  <2>. QED
    BY <1>5, <2>1, RecordTypes DEF ConnOf
<1>12. \A fd \in F : fdt'[fd].kind = "free" /\ ConnOf(fd)' = NoConn
  BY <1>1, <1>5, RecordTypes DEF ConnOf
<1>13. TableShape'
  <2>1. \A x \in Servers : Listen(x) \notin F
    BY <1>10, ListenersFit DEF Consistent, TableShape
  <2>2. \A x \in Servers : fdt'[Listen(x)].kind = "listen"
    BY <1>11, <2>1, ListenersFit DEF Consistent, TableShape
  <2>3. \A fd \in Fd : IF fdt'[fd].kind = "sock" THEN ConnOf(fd)' \in Conns
                                                 ELSE ConnOf(fd)' = NoConn
    BY <1>11, <1>12 DEF Consistent, TableShape
  <2>. QED
    BY <2>2, <2>3 DEF TableShape
<1>14. SocketsOwned'
  <2>1. \A x \in Servers : \A fd \in Clients(x)' :
          /\ fdt'[fd].kind = "sock" /\ ConnOf(fd)' \in Conns
          /\ conn'[ConnOf(fd)'].status = "open" /\ conn'[ConnOf(fd)'].srv = x
    <3>. SUFFICES ASSUME NEW x \in Servers, NEW fd \in Clients(x), x = s => fd \notin F
                  PROVE  /\ fdt'[fd].kind = "sock" /\ ConnOf(fd)' \in Conns
                         /\ conn'[ConnOf(fd)'].status = "open"
                         /\ conn'[ConnOf(fd)'].srv = x
      BY <1>4
    <3>1. fd \in Fd
      BY DEF Clients, Keys
    <3>2. /\ fdt[fd].kind = "sock" /\ ConnOf(fd) \in Conns
          /\ conn[ConnOf(fd)].status = "open" /\ conn[ConnOf(fd)].srv = x
      BY DEF Consistent, SocketsOwned
    <3>3. \A g \in F : conn[ConnOf(g)].srv = s
      BY DEF Consistent, SocketsOwned
    <3>4. fd \notin F
      BY <3>2, <3>3
    <3>5. \A g \in F : ConnOf(g) # ConnOf(fd)
      BY <1>1, <1>10, <3>1, <3>4, ConstantsAssumption DEF Consistent, SocketsOwned
    <3>6. conn'[ConnOf(fd)] = cn[ConnOf(fd)]
      BY <1>6, <3>2, <3>5
    <3>. QED
      BY <1>11, <3>1, <3>2, <3>4, <3>6
  <2>2. \A fd \in Fd : fdt'[fd].kind = "sock" => \E x \in Servers : fd \in Clients(x)'
    BY <1>4, <1>11, <1>12 DEF Consistent, SocketsOwned
  <2>3. \A c \in Conns : conn'[c].status = "open" => \E fd \in Fd : ConnOf(fd)' = c
    <3>. SUFFICES ASSUME NEW c \in Conns, conn'[c].status = "open"
                  PROVE  \E fd \in Fd : ConnOf(fd)' = c
      OBVIOUS
    <3>1. conn'[c] = cn[c] /\ ~ \E fd \in F : ConnOf(fd) = c
      BY <1>6, <1>7
    <3>2. conn[c].status = "open"
      BY <3>1
    <3>. QED
      BY <1>11, <3>1, <3>2 DEF Consistent, SocketsOwned
  <2>4. \A fd, g \in Fd : ConnOf(fd)' = ConnOf(g)' /\ ConnOf(fd)' # NoConn => fd = g
    BY <1>11, <1>12 DEF Consistent, SocketsOwned
  <2>. QED
    BY <2>1, <2>2, <2>3, <2>4 DEF SocketsOwned
<1>15. srvMaxFd' \in [Servers -> Fd] /\ MaxFdCovers'
  <2>1. srvMaxFd \in [Servers -> Fd] /\ Clients(s) \ F \in SUBSET Fd
    BY DEF Consistent, TypeOK, Clients, Keys
  <2>2. UpdateMaxFileDescriptor(s, Clients(s) \ F)
    BY <1>1 DEF CloseConnections
  <2>3. /\ srvMaxFd' \in [Servers -> Fd]
        /\ \A x \in Servers \ {s} : srvMaxFd'[x] = srvMaxFd[x]
        /\ Listen(s) <= srvMaxFd'[s]
        /\ \A fd \in Clients(s) \ F : fd < FdSetSize => fd <= srvMaxFd'[s]
    BY <2>1, <2>2, MaxFdUpdated
  <2>. QED
    BY <1>4, <2>3 DEF Consistent, MaxFdCovers, Watchable
<1>16. FileFdsPrivate'
  <2>1. \A x \in Servers : \A fd \in Clients(x)' :
          fd \in Clients(x) /\ client'[x][fd].response.fd = client[x][fd].response.fd
          /\ (x = s => fd \notin F)
    BY <1>3, <1>4 DEF Clients, Keys
  <2>2. \A x, y \in Servers : \A fd \in Clients(x)', g \in Clients(y)' :
          /\ client'[x][fd].response.fd = client'[y][g].response.fd
          /\ client'[x][fd].response.fd # NoFd
          => x = y /\ fd = g
    BY <2>1 DEF Consistent, FileFdsPrivate
  <2>3. ASSUME NEW x \in Servers, NEW fd \in Clients(x)', client'[x][fd].response.fd # NoFd
        PROVE  fdt'[client'[x][fd].response.fd].kind = "file"
    <3>. DEFINE f == client[x][fd].response.fd
    <3>1. fd \in Clients(x) /\ client'[x][fd].response.fd = f /\ f # NoFd
      BY <2>1, <2>3
    <3>2. fdt[f].kind = "file"
      BY <3>1 DEF Consistent, FileFdsPrivate
    <3>3. f \in Fd
      <4>1. fd \in Fd
        BY <3>1 DEF Clients, Keys
      <4>2. client \in [Servers -> [Fd -> ClientState]]
        BY DEF Consistent, TypeOK
      <4>3. client[x][fd] \in ClientState
        BY <4>1, <4>2
      <4>. QED
        BY <3>1, <4>3 DEF ClientState, Response
    <3>4. f \notin F
      BY <1>10, <3>2
    <3>5. ~ \E g \in F : client[s][g].response.fd = f
      BY <2>1, <3>1 DEF Consistent, FileFdsPrivate
    <3>. QED
      BY <1>5, <3>1, <3>2, <3>3, <3>4, <3>5
  <2>. QED
    BY <2>2, <2>3 DEF FileFdsPrivate
<1>. QED
  BY <1>2, <1>4, <1>5, <1>8, <1>9, <1>13, <1>14, <1>15, <1>16 DEF Tables

\* The maps with one record replaced.
PutAt(cl, s, fd, r) == [cl EXCEPT ![s] = [cl[s] EXCEPT ![fd] = r]]
\* Changing one client changes no key, and no other client, of any map.
LEMMA PutFacts ==
  ASSUME Consistent, NEW cl, SameKeys(cl), NEW s \in Servers, NEW fd \in Clients(s),
         NEW r \in ClientState, r.state # "absent"
  PROVE  /\ SameKeys(PutAt(cl, s, fd, r)) /\ PutAt(cl, s, fd, r)[s][fd] = r
         /\ \A x \in Servers : \A g \in Fd :
              x # s \/ g # fd => PutAt(cl, s, fd, r)[x][g] = cl[x][g]
<1>. DEFINE new == PutAt(cl, s, fd, r)
<1>0. new = [cl EXCEPT ![s] = [cl[s] EXCEPT ![fd] = r]]
  BY DEF PutAt
<1>. HIDE DEF new
<1>1. fd \in Fd /\ cl \in [Servers -> [Fd -> ClientState]]
  BY DEF Clients, Keys, SameKeys
<1>2. cl[s] \in [Fd -> ClientState]
  BY <1>1
<1>3. [cl[s] EXCEPT ![fd] = r] \in [Fd -> ClientState]
  BY <1>1, <1>2
<1>4. new \in [Servers -> [Fd -> ClientState]]
  BY <1>0, <1>1, <1>3
<1>5. /\ new[s][fd] = r
      /\ \A x \in Servers : \A g \in Fd : x # s \/ g # fd => new[x][g] = cl[x][g]
  BY <1>0, <1>1, <1>2
<1>6. ASSUME NEW x \in Servers PROVE Keys(new[x]) = Clients(x)
  <2>1. Keys(cl[x]) = Clients(x)
    BY DEF SameKeys
  <2>. QED
    BY <1>1, <1>5, <2>1 DEF Keys
<1>7. SameKeys(new)
  BY <1>4, <1>6 DEF SameKeys
<1>. QED
  BY <1>5, <1>7 DEF new

\* Growing older changes ages only.
LEMMA OlderFacts ==
  ASSUME Consistent, NEW d \in Nat
  PROVE  /\ SameKeys(AllOlder(d)) /\ SameKeys(client)
         /\ \A s \in Servers : \A fd \in Fd :
              /\ AllOlder(d)[s][fd].response = client[s][fd].response
              /\ AllOlder(d)[s][fd].state = client[s][fd].state
<1>1. client \in [Servers -> [Fd -> ClientState]]
  BY DEF Consistent, TypeOK
<1>2. ASSUME NEW r \in ClientState
      PROVE  /\ Older(r, d) \in ClientState /\ Older(r, d).response = r.response
             /\ Older(r, d).state = r.state
  <2>. DEFINE a == IF r.state = "absent" THEN 0
                   ELSE IF r.age + d > AgeCap THEN AgeCap ELSE r.age + d
  <2>1. a \in 0..AgeCap
    BY ConstantsAssumption DEF ClientState
  <2>2. Older(r, d) = [r EXCEPT !.age = a]
    BY DEF Older
  <2>. HIDE DEF a
  <2>. QED
    BY <2>1, <2>2 DEF ClientState
<1>3. \A s \in Servers : \A fd \in Fd :
        /\ AllOlder(d)[s][fd] \in ClientState
        /\ AllOlder(d)[s][fd].response = client[s][fd].response
        /\ AllOlder(d)[s][fd].state = client[s][fd].state
  BY <1>1, <1>2 DEF AllOlder
<1>4. AllOlder(d) \in [Servers -> [Fd -> ClientState]]
  BY <1>3 DEF AllOlder
<1>5. SameKeys(AllOlder(d))
  BY <1>3, <1>4 DEF SameKeys, Clients, Keys
<1>6. SameKeys(client)
  BY <1>1 DEF SameKeys, Clients
<1>. QED
  BY <1>3, <1>5, <1>6

\* Responses keep their descriptors, or give them up before they are closed.
LEMMA FilesKept ==
  ASSUME Consistent, SameKeys(client'),
         \A s \in Servers : \A fd \in Clients(s) :
            client'[s][fd].response.fd \in {client[s][fd].response.fd, NoFd},
         \A f \in Fd : fdt[f].kind = "file" =>
            \/ fdt'[f].kind = "file"
            \/ \A s \in Servers : \A fd \in Clients(s) : client'[s][fd].response.fd # f
  PROVE  FileFdsPrivate'
<1>1. \A s \in Servers : Clients(s)' = Clients(s)
  BY DEF SameKeys, Clients
<1>2. ASSUME NEW s \in Servers, NEW fd \in Clients(s), client'[s][fd].response.fd # NoFd
      PROVE  fdt'[client'[s][fd].response.fd].kind = "file"
  <2>. DEFINE f == client[s][fd].response.fd
  <2>1. client'[s][fd].response.fd = f /\ f # NoFd
    BY <1>2
  <2>2. fdt[f].kind = "file"
    BY <2>1 DEF Consistent, FileFdsPrivate
  <2>3. client[s][fd] \in ClientState
    <3>1. fd \in Fd
      BY DEF Clients, Keys
    <3>2. client \in [Servers -> [Fd -> ClientState]]
      BY DEF Consistent, TypeOK
    <3>. QED
      BY <3>1, <3>2
  <2>4. f \in Fd
    BY <2>1, <2>3 DEF ClientState, Response
  <2>. QED
    BY <2>1, <2>2, <2>4
<1>3. \A s, t \in Servers : \A fd \in Clients(s), g \in Clients(t) :
        /\ client'[s][fd].response.fd = client'[t][g].response.fd
        /\ client'[s][fd].response.fd # NoFd
        => s = t /\ fd = g
  <2>. SUFFICES ASSUME NEW s \in Servers, NEW t \in Servers,
                       NEW fd \in Clients(s), NEW g \in Clients(t),
                       client'[s][fd].response.fd = client'[t][g].response.fd,
                       client'[s][fd].response.fd # NoFd
                PROVE  s = t /\ fd = g
    OBVIOUS
  <2>1. /\ client'[s][fd].response.fd = client[s][fd].response.fd
        /\ client'[t][g].response.fd = client[t][g].response.fd
    OBVIOUS
  <2>2. /\ client[s][fd].response.fd = client[t][g].response.fd
        /\ client[s][fd].response.fd # NoFd
    BY <2>1
  <2>3. FileFdsPrivate
    BY DEF Consistent
  <2>. QED
    BY <2>2, <2>3, Zenon DEF FileFdsPrivate
<1>. QED
  BY <1>1, <1>2, <1>3 DEF FileFdsPrivate

-----------------------------------------------------------------------------
(* Serving one client. *)

\* The client served keeps its entry.
LEMMA ServeKeeps ==
  ASSUME Consistent, NEW fd \in todo, Tables',
         \A s \in Servers : Clients(s)' = Clients(s),
         AfterRead(fd, TRUE) \/ AfterWrite(fd)
  PROVE  Consistent'
<1>1. /\ turn' = turn /\ readSet' = readSet /\ writeSet' = writeSet /\ UNCHANGED setVars
      /\ phase' \in {"serve", "write"} /\ todo' \subseteq todo
  BY DEF AfterRead, AfterWrite
<1>2. turn \in Servers /\ readSet \in SUBSET Fd /\ writeSet \in SUBSET Fd
      /\ todo \subseteq Clients(turn)
  BY DEF Consistent, TypeOK, TodoAlive
<1>3. todo' \subseteq Clients(turn)'
  BY <1>1, <1>2
<1>. QED
  BY <1>1, <1>2, <1>3, RoundConsistent

\* The client served is closed.
LEMMA ServeCloses ==
  ASSUME Consistent, NEW fd \in todo, NEW s \in Servers, s = turn, Tables',
         Clients(s)' = Clients(s) \ {fd},
         AfterRead(fd, FALSE) \/ AfterWrite(fd)
  PROVE  Consistent'
<1>1. /\ turn' = s /\ readSet' = readSet /\ writeSet' = writeSet /\ UNCHANGED setVars
      /\ phase' \in {"serve", "write"} /\ todo' = todo \ {fd}
  BY DEF AfterRead, AfterWrite
<1>2. readSet \in SUBSET Fd /\ writeSet \in SUBSET Fd /\ todo \subseteq Clients(s)
  BY DEF Consistent, TypeOK, TodoAlive
<1>3. todo' \subseteq Clients(turn)'
  BY <1>1, <1>2
<1>. QED
  BY <1>1, <1>2, <1>3, RoundConsistent

\* No connection changes.
LEMMA ConnSame ==
  ASSUME Consistent
  PROVE  SameConnections(conn) /\ SameSockets(fdt)
BY DEF Consistent, TypeOK, RequestsBounded, SameConnections, SameSockets

\* One connection's queue, or what it has heard, changes.
LEMMA ConnPut ==
  ASSUME Consistent, NEW c \in Conns, NEW r \in Connection,
         r.status = conn[c].status, r.srv = conn[c].srv,
         r.reqs = conn[c].reqs, r.rest = conn[c].rest
  PROVE  SameConnections([conn EXCEPT ![c] = r])
<1>1. conn \in [Conns -> Connection]
  BY DEF Consistent, TypeOK
<1>2. [conn EXCEPT ![c] = r] \in [Conns -> Connection]
  BY <1>1
<1>. QED
  BY <1>1, <1>2 DEF Consistent, RequestsBounded, SameConnections

\* A queue of pieces of which the first k are taken.
LEMMA QueueFacts ==
  ASSUME NEW S, NEW q \in Seq(S), NEW k \in 1..Len(q)
  PROVE  /\ SubSeq(q, k + 1, Len(q)) \in Seq(S)
         /\ \A i \in 1..k : q[i] \in S
<1>1. \A i \in 1..k : q[i] \in S
  OBVIOUS
<1>2. SubSeq(q, k + 1, Len(q)) \in Seq(S)
  BY SubSeqProperties
<1>. QED
  BY <1>1, <1>2

\* A buffer to which a nonempty sequence is appended.
LEMMA BufferFacts ==
  ASSUME NEW S, NEW a \in Seq(S), NEW b \in Seq(S), Len(b) >= 1
  PROVE  a \o b \in Seq(S) /\ (a \o b)[1] \in S
<1>1. a \o b \in Seq(S) /\ Len(a \o b) = Len(a) + Len(b)
  OBVIOUS
<1>2. 1 \in 1..Len(a \o b)
  BY <1>1
<1>. QED
  BY <1>1, <1>2, ElementOfSeq

\* What recv() hands over.
LEMMA ReceivedFacts ==
  ASSUME Consistent, NEW fd \in todo, NEW k, Receiving(fd, k)
  PROVE  /\ Received(fd, k) \in ClientState /\ Received(fd, k).state = "IDLE"
         /\ Received(fd, k).response = client[turn][fd].response
         /\ Received(fd, k).requestBuffer \in Seq(Requests)
         /\ Received(fd, k).requestBuffer[1] \in Requests
         /\ SameConnections(Drained(fd, k))
<1>. DEFINE c == ConnOf(fd)
            r == client[turn][fd]
            q == conn[c].inq
            got == [i \in 1..k |-> <<c, q[i]>>]
<1>1. /\ r \in ClientState /\ r.state = "IDLE" /\ c \in Conns
      /\ conn[c] \in Connection /\ k \in 1..Len(q)
  BY ServedFacts DEF Receiving
<1>2. q \in Seq(1..MaxRequests) /\ k \in Nat /\ k >= 1
  BY <1>1 DEF Connection
<1>3. got \in Seq(Requests) /\ Len(got) = k
  <2>1. \A i \in 1..k : <<c, q[i]>> \in Requests
    <3>1. \A i \in 1..k : q[i] \in 1..MaxRequests
      BY <1>1, <1>2, QueueFacts
    <3>. HIDE DEF c, q
    <3>. QED
      BY <1>1, <3>1 DEF Requests
  <2>. QED
    BY <1>2, <2>1
<1>4. r.requestBuffer \in Seq(Requests)
  BY <1>1 DEF ClientState
<1>. DEFINE buf == r.requestBuffer \o got
<1>5. Len(got) >= 1
  BY <1>2, <1>3
<1>6. buf \in Seq(Requests) /\ buf[1] \in Requests
  <2>. HIDE DEF got, r
  <2>. QED
    BY <1>3, <1>4, <1>5, BufferFacts
<1>7. Received(fd, k) = [r EXCEPT !.age = 0, !.requestBuffer = buf]
  BY DEF Received
<1>8. 0 \in 0..AgeCap
  BY ConstantsAssumption
<1>9. /\ Received(fd, k) \in ClientState /\ Received(fd, k).state = "IDLE"
      /\ Received(fd, k).response = r.response /\ Received(fd, k).requestBuffer = buf
  <2>. HIDE DEF buf, r
  <2>. QED
    BY <1>1, <1>6, <1>7, <1>8 DEF ClientState
<1>10. SameConnections(Drained(fd, k))
  <2>. DEFINE rest == SubSeq(q, k + 1, Len(q))
              d == [conn[c] EXCEPT !.inq = rest]
  <2>1. rest \in Seq(1..MaxRequests)
    BY <1>1, <1>2, QueueFacts
  <2>2. /\ d \in Connection /\ d.status = conn[c].status /\ d.srv = conn[c].srv
        /\ d.reqs = conn[c].reqs /\ d.rest = conn[c].rest
    BY <1>1, <2>1 DEF Connection
  <2>3. Drained(fd, k) = [conn EXCEPT ![c] = d]
    BY <1>1 DEF Drained, Consistent, TypeOK
  <2>. HIDE DEF d
  <2>. QED
    BY <1>1, <2>2, <2>3, ConnPut
<1>. QED
  BY <1>6, <1>9, <1>10

\* A step that replaces the record of the client served, keeps every socket and
\* leaves the descriptor of its response alone or gives it up.
LEMMA ServePut ==
  ASSUME Consistent, NEW fd \in todo, NEW r \in ClientState, r.state # "absent",
         r.response.fd \in {client[turn][fd].response.fd, NoFd},
         client' = PutClient(turn, fd, r), fdt' = fdt, SameConnections(conn'),
         srvMaxFd' = srvMaxFd, AfterRead(fd, TRUE) \/ AfterWrite(fd)
  PROVE  Consistent'
<1>1. turn \in Servers /\ fd \in Clients(turn) /\ fd \in Fd
  BY ServedFacts
<1>2. SameKeys(client)
  BY OlderFacts
<1>3. /\ SameKeys(client') /\ client'[turn][fd] = r
      /\ \A x \in Servers : \A g \in Fd : x # turn \/ g # fd => client'[x][g] = client[x][g]
  <2>1. client' = PutAt(client, turn, fd, r)
    BY DEF PutClient, PutAt
  <2>. QED
    BY <1>1, <1>2, <2>1, PutFacts
<1>4. FileFdsPrivate'
  <2>1. \A s \in Servers : \A g \in Clients(s) :
          client'[s][g].response.fd \in {client[s][g].response.fd, NoFd}
    BY <1>3 DEF Clients, Keys
  <2>. QED
    BY <1>3, <2>1, FilesKept
<1>5. SameSockets(fdt')
  BY ConnSame
<1>6. Tables' /\ \A s \in Servers : Clients(s)' = Clients(s)
  BY <1>3, <1>4, <1>5, PutTables
<1>. QED
  BY <1>6, ServeKeeps

\* A step that closes the client served.
LEMMA ServeClose ==
  ASSUME Consistent, NEW fd \in todo, NEW cl, SameKeys(cl),
         SameResponses(cl), NEW t, FilesClosed(t, turn, {fd}),
         NEW cn, SameConnections(cn),
         CloseConnections(turn, {fd}, cl, t, cn),
         AfterRead(fd, FALSE) \/ AfterWrite(fd)
  PROVE  Consistent'
<1>1. turn \in Servers /\ {fd} \in SUBSET Clients(turn)
  BY ServedFacts
<1>2. TurnedAway(cn)
  BY DEF SameConnections, TurnedAway
<1>3. /\ Tables'
      /\ \A x \in Servers : Clients(x)' = IF x = turn THEN Clients(turn) \ {fd} ELSE Clients(x)
  BY <1>1, <1>2, CloseTables
<1>4. \A x \in Servers : x = turn => Tables' /\ Clients(x)' = Clients(x) \ {fd}
  BY <1>3
<1>. QED
  BY <1>1, <1>4, ServeCloses

\* The descriptor a response streams from is one of the process.
LEMMA ResponseFd ==
  ASSUME Consistent
  PROVE  \A s \in Servers : \A fd \in Clients(s) :
           client[s][fd].response.fd \in Fd \cup {NoFd}
<1>. SUFFICES ASSUME NEW s \in Servers, NEW fd \in Clients(s)
              PROVE  client[s][fd].response.fd \in Fd \cup {NoFd}
  OBVIOUS
<1>1. client \in [Servers -> [Fd -> ClientState]] /\ fd \in Fd
  BY DEF Consistent, TypeOK, Clients, Keys
<1>2. client[s][fd] \in ClientState
  BY <1>1
<1>. QED
  BY <1>2 DEF ClientState, Response

\* The record of a client whose request was handled.
LEMMA AnsweringFacts ==
  ASSUME Consistent, NEW fd \in todo, NEW k, Receiving(fd, k),
         NEW keep \in BOOLEAN, NEW f \in Fd \cup {NoFd}, NEW size \in 0..RespSize
  PROVE  /\ Answering(fd, k, keep, f, size) \in ClientState
         /\ Answering(fd, k, keep, f, size).state = "WRITING_RESPONSE"
         /\ Answering(fd, k, keep, f, size).response.fd = f
<1>. DEFINE r == Received(fd, k)
            p == [tag |-> r.requestBuffer[1], fd |-> f, chunks |-> size,
                  headersSent |-> FALSE]
<1>1. r \in ClientState /\ r.requestBuffer[1] \in Requests
  BY ReceivedFacts
<1>2. p \in Response /\ p.fd = f
  BY <1>1 DEF Response, Tags
<1>3. <<>> \in Seq(Requests) /\ 0 \in 0..RespSize
      /\ "WRITING_RESPONSE" \in {"absent", "IDLE", "WRITING_RESPONSE"}
  BY ConstantsAssumption
<1>4. Answering(fd, k, keep, f, size) =
        [r EXCEPT !.state = "WRITING_RESPONSE", !.requestBuffer = <<>>,
                  !.keepAlive = keep, !.bytesWritten = 0, !.response = p]
  BY DEF Answering
<1>. HIDE DEF r, p
<1>5. Answering(fd, k, keep, f, size) \in ClientState
  BY <1>1, <1>2, <1>3, <1>4, Zenon DEF ClientState
<1>6. /\ Answering(fd, k, keep, f, size).state = "WRITING_RESPONSE"
      /\ Answering(fd, k, keep, f, size).response = p
  BY <1>1, <1>4 DEF ClientState
<1>. QED
  BY <1>2, <1>5, <1>6

\* A new response on a descriptor that was free.
LEMMA RespondFileStep ==
  ASSUME Consistent, NEW fd \in todo, NEW k, RespondFile(fd, k)
  PROVE  Consistent'
<1>1. /\ turn \in Servers /\ fd \in Clients(turn) /\ fd \in Fd
  BY ServedFacts
<1>2. PICK d \in HandlerDelays, keep \in BOOLEAN, size \in 0..RespSize, f \in Free :
        /\ AnswerWith(fd, k, d, Answering(fd, k, keep, f, size))
        /\ fdt' = [fdt EXCEPT ![f] = Entry("file")]
  BY DEF RespondFile
<1>. DEFINE r == Answering(fd, k, keep, f, size)
<1>3. Receiving(fd, k) /\ d \in Nat /\ f \in Fd /\ fdt[f].kind = "free"
  BY <1>2, ConstantsAssumption DEF RespondFile, Processing, Free
<1>4. /\ r \in ClientState /\ r.state = "WRITING_RESPONSE" /\ r.response.fd = f
  BY <1>2, <1>3, ReceivedFacts, AnsweringFacts
<1>5. /\ SameKeys(AllOlder(d))
      /\ \A s \in Servers : \A g \in Fd :
           AllOlder(d)[s][g].response = client[s][g].response
  BY <1>3, OlderFacts
<1>6. /\ client' = [AllOlder(d) EXCEPT ![turn] = [AllOlder(d)[turn] EXCEPT ![fd] = r]]
      /\ conn' = Drained(fd, k) /\ AfterRead(fd, TRUE) /\ srvMaxFd' = srvMaxFd
  BY <1>2 DEF AnswerWith
<1>7. /\ SameKeys(client') /\ client'[turn][fd] = r
      /\ \A x \in Servers : \A g \in Fd :
           x # turn \/ g # fd => client'[x][g] = AllOlder(d)[x][g]
  <2>. HIDE DEF r
  <2>1. client' = PutAt(AllOlder(d), turn, fd, r)
    BY <1>6 DEF PutAt
  <2>. QED
    BY <1>1, <1>4, <1>5, <2>1, PutFacts
<1>8. /\ fdt \in [Fd -> FdEntry] /\ fdt' \in [Fd -> FdEntry]
      /\ fdt'[f] = Entry("file") /\ \A g \in Fd \ {f} : fdt'[g] = fdt[g]
  BY <1>2, <1>3, RecordTypes DEF Consistent, TypeOK
<1>9. SameSockets(fdt')
  BY <1>3, <1>8, RecordTypes DEF SameSockets
<1>10. SameConnections(conn')
  BY <1>3, <1>6, ReceivedFacts
<1>11. FileFdsPrivate'
  <2>1. \A s \in Servers : Clients(s)' = Clients(s) /\ Clients(s) \subseteq Fd
    BY <1>7 DEF SameKeys, Clients, Keys
  <2>2. \A s \in Servers : \A g \in Clients(s) : client[s][g].response.fd # f
    BY <1>3 DEF Consistent, FileFdsPrivate
  <2>3. \A s \in Servers : \A g \in Clients(s) :
          s # turn \/ g # fd => client'[s][g].response.fd = client[s][g].response.fd
    BY <1>5, <1>7, <2>1
  <2>4. client'[turn][fd].response.fd = f
    <3>. HIDE DEF r
    <3>. QED
      BY <1>4, <1>7
  <2>5. ASSUME NEW s \in Servers, NEW g \in Clients(s), client'[s][g].response.fd # NoFd
        PROVE  fdt'[client'[s][g].response.fd].kind = "file"
    <3>1. CASE s = turn /\ g = fd
      BY <1>8, <2>4, <3>1, RecordTypes
    <3>2. CASE s # turn \/ g # fd
      <4>. DEFINE h == client[s][g].response.fd
      <4>1. client'[s][g].response.fd = h /\ h # NoFd
        BY <2>3, <2>5, <3>2
      <4>2. h \in Fd /\ h # f /\ fdt[h].kind = "file"
        BY <2>2, <4>1, ResponseFd DEF Consistent, FileFdsPrivate
      <4>. QED
        BY <1>8, <4>1, <4>2
    <3>. QED
      BY <3>1, <3>2
  <2>6. ASSUME NEW s \in Servers, NEW t \in Servers, NEW g \in Clients(s), NEW h \in Clients(t),
               client'[s][g].response.fd = client'[t][h].response.fd,
               client'[s][g].response.fd # NoFd
        PROVE  s = t /\ g = h
    <3>1. CASE (s = turn /\ g = fd) \/ (t = turn /\ h = fd)
      BY <2>2, <2>3, <2>4, <2>6, <3>1
    <3>2. CASE (s # turn \/ g # fd) /\ (t # turn \/ h # fd)
      <4>1. /\ client[s][g].response.fd = client[t][h].response.fd
            /\ client[s][g].response.fd # NoFd
        BY <2>3, <2>6, <3>2
      <4>2. FileFdsPrivate
        BY DEF Consistent
      <4>. QED
        BY ZenonT(40), <4>1, <4>2 DEF FileFdsPrivate
    <3>. QED
      BY <3>1, <3>2
  <2>. QED
    BY <2>1, <2>5, <2>6 DEF FileFdsPrivate
<1>12. Tables' /\ \A s \in Servers : Clients(s)' = Clients(s)
  BY <1>6, <1>7, <1>9, <1>10, <1>11, PutTables
<1>. QED
  BY <1>6, <1>12, ServeKeeps

\* A complete request is answered from memory.
LEMMA RespondBufferedStep ==
  ASSUME Consistent, NEW fd \in todo, NEW k, RespondBuffered(fd, k)
  PROVE  Consistent'
<1>1. turn \in Servers /\ fd \in Clients(turn) /\ fd \in Fd
  BY ServedFacts
<1>2. PICK d \in HandlerDelays, keep \in BOOLEAN :
        AnswerWith(fd, k, d, Answering(fd, k, keep, NoFd, 0))
  BY DEF RespondBuffered
<1>. DEFINE r == Answering(fd, k, keep, NoFd, 0)
<1>3. Receiving(fd, k) /\ d \in Nat /\ 0 \in 0..RespSize /\ NoFd \in Fd \cup {NoFd}
  BY <1>2, ConstantsAssumption DEF RespondBuffered, Processing
<1>4. r \in ClientState /\ r.state = "WRITING_RESPONSE" /\ r.response.fd = NoFd
  BY <1>2, <1>3, AnsweringFacts
<1>5. /\ SameKeys(AllOlder(d))
      /\ \A s \in Servers : \A g \in Fd :
           AllOlder(d)[s][g].response = client[s][g].response
  BY <1>3, OlderFacts
<1>6. /\ client' = [AllOlder(d) EXCEPT ![turn] = [AllOlder(d)[turn] EXCEPT ![fd] = r]]
      /\ conn' = Drained(fd, k) /\ AfterRead(fd, TRUE) /\ srvMaxFd' = srvMaxFd
  BY <1>2 DEF AnswerWith
<1>. HIDE DEF r
<1>7. /\ SameKeys(client') /\ client'[turn][fd] = r
      /\ \A x \in Servers : \A g \in Fd :
           x # turn \/ g # fd => client'[x][g] = AllOlder(d)[x][g]
  <2>1. client' = PutAt(AllOlder(d), turn, fd, r)
    BY <1>6 DEF PutAt
  <2>. QED
    BY <1>1, <1>4, <1>5, <2>1, PutFacts
<1>8. fdt' = fdt /\ SameSockets(fdt')
  BY ConnSame DEF RespondBuffered
<1>9. SameConnections(conn')
  BY <1>3, <1>6, ReceivedFacts
<1>10. FileFdsPrivate'
  <2>1. \A s \in Servers : \A g \in Clients(s) :
          client'[s][g].response.fd \in {client[s][g].response.fd, NoFd}
    BY <1>4, <1>5, <1>7 DEF Clients, Keys
  <2>. QED
    BY <1>7, <1>8, <2>1, FilesKept
<1>11. Tables' /\ \A s \in Servers : Clients(s)' = Clients(s)
  BY <1>6, <1>7, <1>8, <1>9, <1>10, PutTables
<1>. QED
  BY <1>6, <1>11, ServeKeeps

\* Closing the client served when nothing else changes.
LEMMA NothingClosed ==
  ASSUME Consistent, NEW fd \in todo
  PROVE  SameKeys(client) /\ SameResponses(client) /\ FilesClosed(fdt, turn, {fd})
<1>1. SameKeys(client)
  BY OlderFacts
<1>. QED
  BY <1>1 DEF SameResponses, FilesClosed, Consistent, TypeOK

\* What handleClientData does on one client.
LEMMA ReadStep ==
  ASSUME Consistent, NEW fd \in todo, Read(fd)
  PROVE  Consistent'
<1>1. CASE ReadNothing(fd)
  <2>1. /\ client' = client /\ fdt' = fdt /\ conn' = conn /\ srvMaxFd' = srvMaxFd
        /\ AfterRead(fd, TRUE)
    BY <1>1 DEF ReadNothing
  <2>2. Tables' /\ \A s \in Servers : Clients(s)' = Clients(s)
    <3>1. SameKeys(client') /\ SameSockets(fdt') /\ SameConnections(conn')
      BY <2>1, ConnSame, OlderFacts
    <3>2. FileFdsPrivate'
      BY <2>1 DEF Consistent, FileFdsPrivate, Clients, Keys
    <3>. QED
      BY <2>1, <3>1, <3>2, PutTables
  <2>. QED
    BY <2>1, <2>2, ServeKeeps
<1>2. CASE ReadClosed(fd)
  <2>1. CloseConnections(turn, {fd}, client, fdt, conn) /\ AfterRead(fd, FALSE)
    BY <1>2 DEF ReadClosed
  <2>. QED
    BY <2>1, NothingClosed, ConnSame, ServeClose
<1>3. ASSUME NEW k, ReadIncomplete(fd, k) \/ ReadBadRequest(fd, k) PROVE Consistent'
  <2>. DEFINE r == Received(fd, k)
              b == [r EXCEPT !.responseBuffer = BadRequest]
  <2>1. /\ client' = PutClient(turn, fd, r) \/ client' = PutClient(turn, fd, b)
        /\ conn' = Drained(fd, k) /\ fdt' = fdt /\ srvMaxFd' = srvMaxFd
        /\ AfterRead(fd, TRUE) /\ Receiving(fd, k)
    BY <1>3 DEF ReadIncomplete, ReadBadRequest
  <2>2. /\ r \in ClientState /\ r.state = "IDLE"
        /\ r.response = client[turn][fd].response /\ SameConnections(conn')
    BY <2>1, ReceivedFacts
  <2>. HIDE DEF r
  <2>3. b \in ClientState /\ b.state = "IDLE" /\ b.response = r.response
    BY <2>2, RecordTypes DEF ClientState
  <2>. HIDE DEF b
  <2>. QED
    BY <2>1, <2>2, <2>3, ServePut
<1>4. ASSUME NEW k, ProcessThrows(fd, k) PROVE Consistent'
  <2>1. PICK d \in HandlerDelays : CloseConnections(turn, {fd}, AllOlder(d), fdt, Drained(fd, k))
    BY <1>4 DEF ProcessThrows
  <2>2. AfterRead(fd, FALSE) /\ Receiving(fd, k) /\ d \in Nat
    BY <1>4, ConstantsAssumption DEF ProcessThrows, Processing
  <2>3. SameKeys(AllOlder(d)) /\ SameResponses(AllOlder(d))
    BY <2>2, OlderFacts DEF SameResponses, Clients, Keys
  <2>4. SameConnections(Drained(fd, k))
    BY <2>2, ReceivedFacts
  <2>5. FilesClosed(fdt, turn, {fd})
    BY NothingClosed
  <2>. QED
    BY <2>1, <2>2, <2>3, <2>4, <2>5, ServeClose
<1>5. ASSUME NEW k, RespondBuffered(fd, k) \/ RespondFile(fd, k) PROVE Consistent'
  BY <1>5, RespondBufferedStep, RespondFileStep
<1>. QED
  BY <1>1, <1>2, <1>3, <1>4, <1>5 DEF Read

\* What a client has heard says nothing of its connection's status.
LEMMA HeardFacts ==
  ASSUME Consistent, NEW fd \in todo, NEW tag \in Tags,
         NEW first \in BOOLEAN, NEW last \in BOOLEAN
  PROVE  SameConnections(Heard(fd, tag, first, last))
<1>. DEFINE c == ConnOf(fd)
            q == conn[c]
            o == IF first THEN Append(q.out, tag) ELSE q.out
            n == IF last THEN q.done + 1 ELSE q.done
            r == [q EXCEPT !.out = o, !.done = n]
<1>1. c \in Conns /\ q \in Connection /\ conn \in [Conns -> Connection]
  BY ServedFacts DEF Consistent, TypeOK
<1>2. o \in Seq(Tags) /\ n \in Nat
  BY <1>1 DEF Connection
<1>3. Heard(fd, tag, first, last) = [conn EXCEPT ![c] = r]
  BY <1>1 DEF Heard, Connection
<1>. HIDE DEF o, n
<1>4. r \in Connection /\ r.status = q.status /\ r.srv = q.srv /\ r.reqs = q.reqs
      /\ r.rest = q.rest
  BY <1>1, <1>2 DEF Connection
<1>. HIDE DEF r
<1>. QED
  BY <1>1, <1>3, <1>4, ConnPut

\* ClientState::clear makes an idle client again.
LEMMA ClearedFacts ==
  ASSUME NEW r \in ClientState
  PROVE  /\ Cleared(r) \in ClientState /\ Cleared(r).state = "IDLE"
         /\ Cleared(r).response = r.response
<1>1. <<>> \in Seq(Requests) /\ 0 \in 0..RespSize /\ 0 \in 0..AgeCap
      /\ "IDLE" \in {"absent", "IDLE", "WRITING_RESPONSE"}
  BY ConstantsAssumption
<1>2. Cleared(r) \in ClientState
  BY <1>1, RecordTypes, Zenon DEF Cleared, ClientState
<1>. QED
  BY <1>2 DEF Cleared, ClientState

\* A response ends: the client is cleared or closed, and the descriptor of its
\* response may have been closed if the response gave it up.
LEMMA EndStep ==
  ASSUME Consistent, NEW fd \in todo, NEW r \in ClientState, r.state # "absent",
         r.response.fd \in {client[turn][fd].response.fd, NoFd},
         NEW t, FilesClosed(t, turn, {fd}), t = fdt \/ r.response.fd = NoFd,
         NEW cn, SameConnections(cn),
         EndResponse(fd, r, t, cn), AfterWrite(fd)
  PROVE  Consistent'
<1>1. turn \in Servers /\ fd \in Clients(turn) /\ fd \in Fd
  BY ServedFacts
<1>2. CASE r.keepAlive
  <2>. DEFINE q == Cleared(r)
  <2>1. q \in ClientState /\ q.state = "IDLE" /\ q.response = r.response
    BY ClearedFacts
  <2>2. client' = PutClient(turn, fd, q) /\ fdt' = t /\ conn' = cn /\ srvMaxFd' = srvMaxFd
    BY <1>2 DEF EndResponse
  <2>. HIDE DEF q
  <2>3. /\ SameKeys(client') /\ client'[turn][fd] = q
        /\ \A x \in Servers : \A g \in Fd : x # turn \/ g # fd => client'[x][g] = client[x][g]
    <3>1. client' = PutAt(client, turn, fd, q)
      BY <2>2 DEF PutClient, PutAt
    <3>2. SameKeys(client)
      BY OlderFacts
    <3>. QED
      BY <1>1, <2>1, <3>1, <3>2, PutFacts
  <2>4. FileFdsPrivate'
    <3>1. \A s \in Servers : \A g \in Clients(s) :
            client'[s][g].response.fd \in {client[s][g].response.fd, NoFd}
      BY <2>1, <2>3 DEF Clients, Keys
    <3>2. ASSUME NEW f \in Fd, fdt[f].kind = "file", fdt'[f].kind # "file",
                 NEW s \in Servers, NEW g \in Clients(s)
          PROVE  client'[s][g].response.fd # f
      <4>1. client[turn][fd].response.fd = f /\ r.response.fd = NoFd
        BY <2>2, <3>2 DEF FilesClosed
      <4>2. CASE s = turn /\ g = fd
        BY <2>1, <2>3, <4>1, <4>2
      <4>3. CASE s # turn \/ g # fd
        <5>1. client'[s][g].response.fd = client[s][g].response.fd
          BY <2>3, <4>3 DEF Clients, Keys
        <5>2. client[s][g].response.fd # f
          BY <1>1, <4>1, <4>3, f # NoFd DEF Consistent, FileFdsPrivate
        <5>. QED
          BY <5>1, <5>2
      <4>. QED
        BY <4>2, <4>3
    <3>. QED
      BY <2>3, <3>1, <3>2, FilesKept
  <2>5. SameSockets(fdt')
    BY <2>2, RecordTypes DEF SameSockets, FilesClosed
  <2>6. Tables' /\ \A s \in Servers : Clients(s)' = Clients(s)
    BY <2>2, <2>3, <2>4, <2>5, PutTables
  <2>. QED
    BY <2>6, ServeKeeps
<1>3. CASE ~r.keepAlive
  <2>1. CloseConnections(turn, {fd}, client, t, cn)
    BY <1>3 DEF EndResponse
  <2>. QED
    BY <2>1, NothingClosed, ServeClose
<1>. QED
  BY <1>2, <1>3

\* A piece of a buffered response is sent.
LEMMA SendBufferedStep ==
  ASSUME Consistent, NEW fd \in todo, NEW n \in 1..RespSize, SendBuffered(fd, n)
  PROVE  Consistent'
<1>. DEFINE r == client[turn][fd]
            tag == ToSend(r)
            b == r.bytesWritten + n
            sent == [r EXCEPT !.responseBuffer = tag, !.age = 0, !.bytesWritten = b]
            last == sent.bytesWritten >= RespSize
            cn == Heard(fd, tag, r.bytesWritten = 0, last)
<1>1. r \in ClientState /\ r.state # "absent"
  BY ServedFacts
<1>2. tag \in Tags
  BY <1>1 DEF ToSend, ClientState, Response
<1>3. b \in 0..RespSize /\ 0 \in 0..AgeCap
  <2>1. r.bytesWritten \in 0..RespSize
    BY <1>1 DEF ClientState
  <2>2. n <= RespSize - r.bytesWritten
    BY DEF SendBuffered, Remaining
  <2>. HIDE DEF r
  <2>. QED
    BY <2>1, <2>2, ConstantsAssumption
<1>4. /\ \/ EndResponse(fd, sent, fdt, cn)
         \/ /\ client' = PutClient(turn, fd, sent) /\ conn' = cn
            /\ fdt' = fdt /\ srvMaxFd' = srvMaxFd
      /\ AfterWrite(fd)
  BY DEF SendBuffered
<1>5. SameConnections(cn)
  <2>1. (r.bytesWritten = 0) \in BOOLEAN /\ last \in BOOLEAN
    OBVIOUS
  <2>. HIDE DEF tag, sent, last, r
  <2>. QED
    BY <1>2, <2>1, HeardFacts, Zenon
<1>. HIDE DEF r, tag, b, cn
<1>6. sent \in ClientState /\ sent.state = r.state /\ sent.response = r.response
  BY <1>1, <1>2, <1>3 DEF ClientState
<1>. HIDE DEF sent
<1>7. sent.response.fd = client[turn][fd].response.fd
  BY <1>6 DEF r
<1>8. FilesClosed(fdt, turn, {fd})
  BY NothingClosed
<1>. QED
  BY <1>1, <1>4, <1>5, <1>6, <1>7, <1>8, EndStep, ServePut

\* A chunk of a file is sent, or read and lost.
LEMMA StreamChunkStep ==
  ASSUME Consistent, NEW fd \in todo, StreamChunk(fd)
  PROVE  Consistent'
<1>. DEFINE r == client[turn][fd]
            p == [r.response EXCEPT !.headersSent = TRUE, !.chunks = @ - 1]
            q == [r EXCEPT !.age = 0, !.response = p]
<1>1. r \in ClientState /\ r.state # "absent" /\ r.response \in Response
  BY ServedFacts DEF ClientState
<1>2. p \in Response /\ p.fd = r.response.fd
  <2>1. r.response.chunks - 1 \in 0..RespSize
    <3>1. r.response.chunks > 0 /\ r.response.chunks \in 0..RespSize
      BY <1>1 DEF StreamChunk, Response
    <3>. HIDE DEF r
    <3>. QED
      BY <3>1, ConstantsAssumption
  <2>. HIDE DEF r
  <2>. QED
    BY <1>1, <2>1 DEF Response
<1>3. /\ client' = PutClient(turn, fd, q) /\ fdt' = fdt /\ srvMaxFd' = srvMaxFd
      /\ conn' = Heard(fd, r.response.tag, ~r.response.headersSent, FALSE) /\ AfterWrite(fd)
  BY <1>1 DEF StreamChunk, ClientState
<1>4. SameConnections(conn')
  <2>1. r.response.tag \in Tags /\ (~r.response.headersSent) \in BOOLEAN
    BY <1>1 DEF Response
  <2>2. FALSE \in BOOLEAN
    OBVIOUS
  <2>. HIDE DEF r
  <2>. QED
    BY <1>3, <2>1, <2>2, HeardFacts, Zenon
<1>5. q \in ClientState /\ q.state = r.state /\ q.response.fd = client[turn][fd].response.fd
  <2>1. 0 \in 0..AgeCap
    BY ConstantsAssumption
  <2>2. p.fd = client[turn][fd].response.fd
    BY <1>2
  <2>. HIDE DEF p, r
  <2>. QED
    BY <1>1, <1>2, <2>1, <2>2 DEF ClientState
<1>. HIDE DEF q
<1>. QED
  BY <1>1, <1>3, <1>4, <1>5, ServePut

\* A streamed response ends and its descriptor is closed.
LEMMA StreamEndStep ==
  ASSUME Consistent, NEW fd \in todo, StreamEnd(fd)
  PROVE  Consistent'
<1>. DEFINE r == client[turn][fd]
            f == r.response.fd
            q == [r EXCEPT !.response = Finished(r.response)]
            t == Release(fdt, {f})
            cn == Heard(fd, r.response.tag, ~r.response.headersSent, TRUE)
<1>1. r \in ClientState /\ r.state # "absent" /\ r.response \in Response
  BY ServedFacts DEF ClientState
<1>2. EndResponse(fd, q, t, cn) /\ AfterWrite(fd) /\ f # NoFd
  BY <1>1 DEF StreamEnd, Streaming, ClientState
<1>3. /\ Finished(r.response) \in Response /\ Finished(r.response).fd = NoFd
  BY <1>1 DEF Finished, Response
<1>4. q \in ClientState /\ q.state = r.state /\ q.response.fd = NoFd
  BY <1>1, <1>3 DEF ClientState
<1>5. SameConnections(cn)
  <2>1. r.response.tag \in Tags /\ (~r.response.headersSent) \in BOOLEAN
    BY <1>1 DEF Response
  <2>2. TRUE \in BOOLEAN
    OBVIOUS
  <2>. HIDE DEF r
  <2>. QED
    BY <2>1, <2>2, HeardFacts, Zenon
<1>6. FilesClosed(t, turn, {fd})
  <2>1. f \in Fd /\ fdt[f].kind = "file"
    BY <1>1, <1>2, ServedFacts DEF Consistent, FileFdsPrivate, Response
  <2>2. /\ fdt \in [Fd -> FdEntry] /\ client[turn][fd].response.fd = f
    BY DEF Consistent, TypeOK
  <2>. HIDE DEF f
  <2>. QED
    BY <2>1, <2>2, RecordTypes DEF FilesClosed, Release
<1>. HIDE DEF q, t, cn
<1>. QED
  BY <1>1, <1>2, <1>4, <1>5, <1>6, EndStep

\* What handleClientWrite does on one client.
LEMMA WriteStep ==
  ASSUME Consistent, NEW fd \in todo, Write(fd)
  PROVE  Consistent'
<1>. DEFINE r == client[turn][fd]
<1>0. /\ r \in ClientState /\ r.state # "absent" /\ SameConnections(conn)
      /\ 0 \in 0..AgeCap /\ FilesClosed(fdt, turn, {fd})
  BY ServedFacts, ConnSame, NothingClosed, ConstantsAssumption
<1>1. CASE WriteNothing(fd)
  <2>1. /\ client' = client /\ fdt' = fdt /\ conn' = conn /\ srvMaxFd' = srvMaxFd
        /\ AfterWrite(fd)
    BY <1>1 DEF WriteNothing
  <2>2. Tables' /\ \A s \in Servers : Clients(s)' = Clients(s)
    <3>1. SameKeys(client') /\ SameSockets(fdt') /\ SameConnections(conn')
      BY <2>1, ConnSame, OlderFacts
    <3>2. FileFdsPrivate'
      BY <2>1 DEF Consistent, FileFdsPrivate, Clients, Keys
    <3>. QED
      BY <2>1, <3>1, <3>2, PutTables
  <2>. QED
    BY <2>1, <2>2, ServeKeeps
<1>2. ASSUME NEW n \in 1..RespSize, SendBuffered(fd, n) PROVE Consistent'
  BY <1>2, SendBufferedStep
<1>3. CASE SendFull(fd) \/ StreamFull(fd)
  <2>. DEFINE a == [r EXCEPT !.responseBuffer = ToSend(r), !.age = 0]
              b == [r EXCEPT !.age = 0]
  <2>1. /\ client' = PutClient(turn, fd, a) \/ client' = PutClient(turn, fd, b)
        /\ conn' = conn /\ fdt' = fdt /\ srvMaxFd' = srvMaxFd /\ AfterWrite(fd)
    BY <1>3 DEF SendFull, StreamFull
  <2>2. ToSend(r) \in Tags
    BY <1>0 DEF ToSend, ClientState, Response
  <2>3. /\ a \in ClientState /\ a.state = r.state /\ a.response = r.response
        /\ b \in ClientState /\ b.state = r.state /\ b.response = r.response
    <3>. HIDE DEF r
    <3>. QED
      BY <1>0, <2>2 DEF ClientState
  <2>4. /\ a.response.fd = client[turn][fd].response.fd
        /\ b.response.fd = client[turn][fd].response.fd
    BY <2>3
  <2>. HIDE DEF a, b, r
  <2>. QED
    BY <1>0, <2>1, <2>3, <2>4, ServePut
<1>4. CASE SendFails(fd)
  <2>1. CloseConnections(turn, {fd}, client, fdt, conn) /\ AfterWrite(fd)
    BY <1>4 DEF SendFails
  <2>. QED
    BY <2>1, NothingClosed, ConnSame, ServeClose
<1>5. CASE StreamChunk(fd)
  BY <1>5, StreamChunkStep
<1>6. CASE StreamEnd(fd)
  BY <1>6, StreamEndStep
<1>7. CASE StreamFails(fd)
  <2>1. EndResponse(fd, r, fdt, conn) /\ AfterWrite(fd)
    BY <1>7 DEF StreamFails
  <2>. QED
    BY <1>0, <2>1, EndStep
<1>. QED
  BY <1>1, <1>2, <1>3, <1>4, <1>5, <1>6, <1>7 DEF Write

-----------------------------------------------------------------------------
(* The rest of the loop. *)

\* The listeners are gone through while nobody is served.
LEMMA AcceptMoves ==
  ASSUME Consistent, phase = "accept", NextAccept, Tables'
  PROVE  Consistent'
<1>1. /\ turn' \in Servers /\ phase' \in {"accept", "sweep"}
      /\ todo' = todo /\ readSet' = readSet /\ writeSet' = writeSet /\ UNCHANGED setVars
  BY ConstantsAssumption DEF NextAccept, Consistent, TypeOK
<1>2. todo = {} /\ readSet \in SUBSET Fd /\ writeSet \in SUBSET Fd
  BY DEF Consistent, TypeOK, TodoAlive
<1>. QED
  BY <1>1, <1>2, RoundConsistent

\* The maps, the descriptor table and the connections stay as they are.
LEMMA TablesSame ==
  ASSUME Consistent, UNCHANGED <<srvMaxFd, client, fdt, conn>>
  PROVE  Tables' /\ \A s \in Servers : Clients(s)' = Clients(s)
<1>1. SameKeys(client') /\ SameSockets(fdt') /\ SameConnections(conn')
  BY ConnSame, OlderFacts
<1>2. FileFdsPrivate'
  BY DEF Consistent, FileFdsPrivate, Clients, Keys
<1>. QED
  BY <1>1, <1>2, PutTables

\* A descriptor that was free becomes the socket of a connection that was in
\* the backlog, and a key of the server's map.
LEMMA AcceptConnectionStep ==
  ASSUME Consistent, AcceptConnection
  PROVE  Consistent'
<1>0. PICK s \in Servers : s = turn
  BY DEF Consistent, TypeOK
<1>1. PICK c \in Backlog(s), fd \in Free :
        /\ client' = PutClient(s, fd, NewClient)
        /\ fdt' = [fdt EXCEPT ![fd] = [kind |-> "sock", conn |-> c]]
        /\ conn' = [conn EXCEPT ![c].status = "open"]
        /\ UpdateMaxFileDescriptor(s, Clients(s) \cup {fd})
  BY <1>0 DEF AcceptConnection
<1>. DEFINE e == [kind |-> "sock", conn |-> c]
            o == [conn[c] EXCEPT !.status = "open"]
<1>2. /\ client \in [Servers -> [Fd -> ClientState]] /\ fdt \in [Fd -> FdEntry]
      /\ conn \in [Conns -> Connection] /\ srvMaxFd \in [Servers -> Fd]
  BY DEF Consistent, TypeOK
<1>3. /\ c \in Conns /\ conn[c].status = "queued" /\ conn[c].srv = s
      /\ fd \in Fd /\ fdt[fd].kind = "free" /\ ConnOf(fd) = NoConn
  BY DEF Backlog, Free, Consistent, TableShape
<1>4. \A x \in Servers : fd \notin Clients(x)
  BY <1>3 DEF Consistent, SocketsOwned
<1>5. /\ client' \in [Servers -> [Fd -> ClientState]] /\ client'[s][fd] = NewClient
      /\ \A x \in Servers : \A g \in Fd : x # s \/ g # fd => client'[x][g] = client[x][g]
  <2>1. client[s] \in [Fd -> ClientState]
    BY <1>2
  <2>2. [client[s] EXCEPT ![fd] = NewClient] \in [Fd -> ClientState]
    BY <1>3, <2>1, RecordTypes
  <2>3. client' = [client EXCEPT ![s] = [client[s] EXCEPT ![fd] = NewClient]]
    BY <1>1 DEF PutClient
  <2>. QED
    BY <1>2, <1>3, <2>1, <2>2, <2>3
<1>6. \A x \in Servers : Clients(x)' = IF x = s THEN Clients(s) \cup {fd} ELSE Clients(x)
  <2>1. ASSUME NEW x \in Servers, x # s PROVE Clients(x)' = Clients(x)
    BY <1>5, <2>1 DEF Clients, Keys
  <2>2. Clients(s)' = Clients(s) \cup {fd}
    BY <1>2, <1>3, <1>5, RecordTypes DEF Clients, Keys
  <2>. QED
    BY <2>1, <2>2
<1>7. e \in FdEntry /\ e.kind = "sock" /\ e.conn = c
  BY <1>3 DEF FdEntry
<1>8. /\ fdt' \in [Fd -> FdEntry] /\ fdt'[fd] = e
      /\ \A g \in Fd \ {fd} : fdt'[g] = fdt[g]
  BY <1>1, <1>2, <1>3, <1>7
<1>9. /\ o \in Connection /\ o.status = "open" /\ o.srv = s
      /\ o.reqs = conn[c].reqs /\ o.rest = conn[c].rest
  <2>1. conn[c] \in Connection
    BY <1>2, <1>3
  <2>. QED
    BY <1>3, <2>1 DEF Connection
<1>10. /\ conn' \in [Conns -> Connection] /\ conn'[c] = o
       /\ \A d \in Conns \ {c} : conn'[d] = conn[d]
  BY <1>1, <1>2, <1>3, <1>9
<1>. HIDE DEF e, o
<1>11. RequestsBounded'
  BY <1>3, <1>9, <1>10 DEF Consistent, RequestsBounded
<1>12. /\ ConnOf(fd)' = c /\ \A g \in Fd \ {fd} : ConnOf(g)' = ConnOf(g)
       /\ \A g \in Fd : ConnOf(g) # c
  <2>1. \A g \in Fd : ConnOf(g) # c
    <3>1. ASSUME NEW g \in Fd, ConnOf(g) = c PROVE FALSE
      <4>1. fdt[g].kind = "sock"
        BY <1>3, <3>1, ConstantsAssumption DEF Consistent, TableShape
      <4>2. conn[c].status = "open"
        BY <3>1, <4>1 DEF Consistent, SocketsOwned
      <4>. QED
        BY <1>3, <4>2
    <3>. QED
      BY <3>1
  <2>. QED
    BY <1>7, <1>8, <2>1 DEF ConnOf
<1>13. TableShape'
  <2>1. \A x \in Servers : Listen(x) # fd
    BY <1>3 DEF Consistent, TableShape
  <2>2. \A x \in Servers : fdt'[Listen(x)].kind = "listen"
    BY <1>8, <2>1, ListenersFit DEF Consistent, TableShape
  <2>3. \A g \in Fd : IF fdt'[g].kind = "sock" THEN ConnOf(g)' \in Conns ELSE ConnOf(g)' = NoConn
    BY <1>3, <1>7, <1>8, <1>12 DEF Consistent, TableShape
  <2>. QED
    BY <2>2, <2>3 DEF TableShape
<1>14. SocketsOwned'
  <2>1. \A x \in Servers : \A g \in Clients(x)' :
          /\ fdt'[g].kind = "sock" /\ ConnOf(g)' \in Conns
          /\ conn'[ConnOf(g)'].status = "open" /\ conn'[ConnOf(g)'].srv = x
    <3>. SUFFICES ASSUME NEW x \in Servers, NEW g \in Clients(x)'
                  PROVE  /\ fdt'[g].kind = "sock" /\ ConnOf(g)' \in Conns
                         /\ conn'[ConnOf(g)'].status = "open"
                         /\ conn'[ConnOf(g)'].srv = x
      OBVIOUS
    <3>1. CASE g = fd
      BY <1>3, <1>4, <1>6, <1>7, <1>8, <1>9, <1>10, <1>12, <3>1
    <3>2. CASE g # fd
      <4>1. g \in Clients(x) /\ g \in Fd
        BY <1>6, <3>2 DEF Clients, Keys
      <4>2. /\ fdt[g].kind = "sock" /\ ConnOf(g) \in Conns
            /\ conn[ConnOf(g)].status = "open" /\ conn[ConnOf(g)].srv = x
        BY <4>1 DEF Consistent, SocketsOwned
      <4>3. ConnOf(g) # c /\ ConnOf(g)' = ConnOf(g) /\ fdt'[g] = fdt[g]
        BY <1>8, <1>12, <3>2, <4>1
      <4>. QED
        BY <1>10, <4>2, <4>3
    <3>. QED
      BY <3>1, <3>2
  <2>2. \A g \in Fd : fdt'[g].kind = "sock" => \E x \in Servers : g \in Clients(x)'
    BY <1>2, <1>6, <1>8 DEF Consistent, SocketsOwned
  <2>3. \A d \in Conns : conn'[d].status = "open" => \E g \in Fd : ConnOf(g)' = d
    <3>. SUFFICES ASSUME NEW d \in Conns, conn'[d].status = "open"
                  PROVE  \E g \in Fd : ConnOf(g)' = d
      OBVIOUS
    <3>1. CASE d = c
      BY <1>3, <1>12, <3>1
    <3>2. CASE d # c
      <4>1. PICK g \in Fd : ConnOf(g) = d
        BY <1>10, <3>2 DEF Consistent, SocketsOwned
      <4>2. g # fd
        BY <1>3, <4>1, ConstantsAssumption
      <4>. QED
        BY <1>12, <4>1, <4>2
    <3>. QED
      BY <3>1, <3>2
  <2>4. \A g, h \in Fd : ConnOf(g)' = ConnOf(h)' /\ ConnOf(g)' # NoConn => g = h
    BY <1>3, <1>12 DEF Consistent, SocketsOwned
  <2>. QED
    BY <2>1, <2>2, <2>3, <2>4 DEF SocketsOwned
<1>15. srvMaxFd' \in [Servers -> Fd] /\ MaxFdCovers'
  <2>1. Clients(s) \cup {fd} \in SUBSET Fd
    BY <1>3 DEF Clients, Keys
  <2>2. /\ srvMaxFd' \in [Servers -> Fd]
        /\ \A x \in Servers \ {s} : srvMaxFd'[x] = srvMaxFd[x]
        /\ Listen(s) <= srvMaxFd'[s]
        /\ \A g \in Clients(s) \cup {fd} : g < FdSetSize => g <= srvMaxFd'[s]
    BY <1>1, <1>2, <2>1, MaxFdUpdated
  <2>. QED
    BY <1>6, <2>2 DEF Consistent, MaxFdCovers, Watchable
<1>16. FileFdsPrivate'
  <2>1. \A x \in Servers : \A g \in Clients(x)' :
          \/ x = s /\ g = fd /\ client'[x][g].response.fd = NoFd
          \/ /\ g \in Clients(x) /\ client'[x][g].response.fd = client[x][g].response.fd
    BY <1>5, <1>6, RecordTypes DEF Clients, Keys
  <2>2. \A x, y \in Servers : \A g \in Clients(x)', h \in Clients(y)' :
          /\ client'[x][g].response.fd = client'[y][h].response.fd
          /\ client'[x][g].response.fd # NoFd
          => x = y /\ g = h
    BY <2>1 DEF Consistent, FileFdsPrivate
  <2>3. ASSUME NEW x \in Servers, NEW g \in Clients(x)', client'[x][g].response.fd # NoFd
        PROVE  fdt'[client'[x][g].response.fd].kind = "file"
    <3>. DEFINE f == client[x][g].response.fd
    <3>1. g \in Clients(x) /\ client'[x][g].response.fd = f /\ f # NoFd
      BY <2>1, <2>3
    <3>2. f \in Fd /\ fdt[f].kind = "file"
      BY <3>1, ResponseFd DEF Consistent, FileFdsPrivate
    <3>. QED
      BY <1>3, <1>8, <3>1, <3>2
  <2>. QED
    BY <2>2, <2>3 DEF FileFdsPrivate
<1>17. Tables'
  BY <1>5, <1>8, <1>10, <1>11, <1>13, <1>14, <1>15, <1>16 DEF Tables
<1>. QED
  BY <1>17, AcceptMoves DEF AcceptConnection

\* What handleNewConnection does for one listener.
LEMMA AcceptStep ==
  ASSUME Consistent, Accept
  PROVE  Consistent'
<1>1. CASE SkipAccept \/ AcceptOutOfFds
  BY <1>1, TablesSame, AcceptMoves DEF SkipAccept, AcceptOutOfFds
<1>2. CASE RejectConnection
  <2>1. PICK c \in Backlog(turn) :
          CloseConnections(turn, Idle, client, fdt, [conn EXCEPT ![c] = Hung(conn[c])])
    BY <1>2 DEF RejectConnection
  <2>. DEFINE cn == [conn EXCEPT ![c] = Hung(conn[c])]
  <2>2. turn \in Servers /\ Idle \in SUBSET Clients(turn) /\ conn \in [Conns -> Connection]
    BY DEF Consistent, TypeOK, Idle
  <2>3. c \in Conns /\ conn[c].status = "queued"
    BY DEF Backlog
  <2>4. /\ Hung(conn[c]) \in Connection /\ Hung(conn[c]).status = "closed"
        /\ Hung(conn[c]).rest = 0 /\ Hung(conn[c]).reqs = conn[c].reqs
    BY <2>2, <2>3, HungFacts
  <2>5. TurnedAway(cn)
    BY <2>2, <2>3, <2>4 DEF TurnedAway, Consistent, RequestsBounded
  <2>6. SameKeys(client) /\ SameResponses(client) /\ FilesClosed(fdt, turn, Idle)
    BY OlderFacts DEF SameResponses, FilesClosed, Consistent, TypeOK
  <2>. HIDE DEF cn
  <2>7. Tables'
    BY <2>1, <2>2, <2>5, <2>6, CloseTables DEF cn
  <2>. QED
    BY <1>2, <2>7, AcceptMoves DEF RejectConnection
<1>3. CASE AcceptConnection
  BY <1>3, AcceptConnectionStep
<1>. QED
  BY <1>1, <1>2, <1>3 DEF Accept

\* select() returns.
LEMMA SelectStep ==
  ASSUME Consistent, Select
  PROVE  Consistent'
<1>1. /\ turn' = turn /\ todo' = todo /\ UNCHANGED setVars /\ phase' = "accept"
      /\ UNCHANGED <<srvMaxFd, client, fdt, conn>> /\ phase = "select"
  BY DEF Select
<1>2. /\ masterSet \in SUBSET Fd /\ pendingSet \in SUBSET Fd /\ turn \in Servers
      /\ todo = {}
  BY <1>1 DEF Consistent, TypeOK, TodoAlive
<1>3. readSet' \in SUBSET Fd /\ writeSet' \in SUBSET Fd
  BY <1>2 DEF Select, Reported, ReadyToRead, ReadyToWrite
<1>4. Tables'
  BY <1>1, TablesSame
<1>. QED
  BY <1>1, <1>2, <1>3, <1>4, RoundConsistent

\* select() times out, and everybody grows older.
LEMMA SelectTimeoutStep ==
  ASSUME Consistent, SelectTimeout
  PROVE  Consistent'
<1>1. /\ UNCHANGED loopVars /\ UNCHANGED setVars /\ srvMaxFd' = srvMaxFd /\ fdt' = fdt
      /\ conn' = conn /\ client' = AllOlder(1)
  BY DEF SelectTimeout
<1>2. /\ SameKeys(client')
      /\ \A s \in Servers : \A fd \in Fd : /\ client'[s][fd].response = client[s][fd].response
                                           /\ client'[s][fd].state = client[s][fd].state
  BY <1>1, OlderFacts
<1>3. Clients(1) \subseteq Fd
  BY DEF Clients, Keys
<1>4. FileFdsPrivate'
  <2>1. \A s \in Servers : \A fd \in Clients(s) :
          client'[s][fd].response.fd \in {client[s][fd].response.fd, NoFd}
    BY <1>2 DEF Clients, Keys
  <2>. QED
    BY <1>1, <1>2, <2>1, FilesKept
<1>5. Tables' /\ \A s \in Servers : Clients(s)' = Clients(s)
  BY <1>1, <1>2, <1>4, ConnSame, PutTables
<1>6. \A s \in Servers : Watchable(s)' = Watchable(s) /\ Pending(s)' = Pending(s)
  BY <1>2, <1>5 DEF Watchable, Pending, Clients, Keys
<1>7. TypeOK' /\ TodoAlive' /\ SelectSafe'
  <2>1. TypeOK'
    BY <1>1, <1>5 DEF Consistent, TypeOK, Tables, loopVars, setVars
  <2>2. TodoAlive'
    BY <1>1, <1>5 DEF Consistent, TypeOK, TodoAlive, loopVars
  <2>3. SelectSafe'
    BY <1>1, <1>6 DEF Consistent, SelectSafe, loopVars, setVars
  <2>. QED
    BY <2>1, <2>2, <2>3
<1>. QED
  BY <1>5, <1>7 DEF Consistent, Tables

\* The idle sweep closes the stale and leaves the rest to be served.
LEMMA SweepIdleStep ==
  ASSUME Consistent, SweepIdle
  PROVE  Consistent'
<1>. DEFINE stale == {fd \in Clients(turn) : Stale(client[turn][fd])}
<1>1. /\ CloseConnections(turn, stale, client, fdt, conn)
      /\ todo' = (Clients(turn) \ stale) \cap (readSet \cup writeSet)
      /\ phase' = "serve" /\ turn' = turn /\ readSet' = readSet /\ writeSet' = writeSet
      /\ UNCHANGED setVars
  BY DEF SweepIdle
<1>2. /\ turn \in Servers /\ stale \in SUBSET Clients(turn)
      /\ readSet \in SUBSET Fd /\ writeSet \in SUBSET Fd
  BY DEF Consistent, TypeOK
<1>3. SameKeys(client) /\ SameResponses(client) /\ FilesClosed(fdt, turn, stale)
  BY OlderFacts DEF SameResponses, FilesClosed, Consistent, TypeOK
<1>4. TurnedAway(conn)
  BY ConnSame DEF SameConnections, TurnedAway
<1>. HIDE DEF stale
<1>5. /\ Tables'
      /\ \A x \in Servers : Clients(x)' = IF x = turn THEN Clients(turn) \ stale ELSE Clients(x)
  BY <1>1, <1>2, <1>3, <1>4, CloseTables
<1>6. \A x \in Servers : x = turn => Clients(x)' = Clients(x) \ stale /\ todo' \subseteq Clients(x)'
  BY <1>1, <1>5
<1>7. todo' \subseteq Clients(turn)'
  BY <1>1, <1>2, <1>6
<1>. QED
  BY <1>1, <1>2, <1>5, <1>7, RoundConsistent

\* A server's maximum is set anew, and nothing else that Tables speaks of.
LEMMA MaxTables ==
  ASSUME Consistent, UNCHANGED <<client, fdt, conn>>,
         UpdateMaxFileDescriptor(turn, Clients(turn))
  PROVE  Tables' /\ \A s \in Servers : Clients(s)' = Clients(s)
<1>1. \A s \in Servers : Clients(s)' = Clients(s) /\ Watchable(s)' = Watchable(s)
  BY DEF Clients, Keys, Watchable
<1>2. \A fd \in Fd : ConnOf(fd)' = ConnOf(fd)
  BY DEF ConnOf
<1>3. srvMaxFd' \in [Servers -> Fd] /\ MaxFdCovers'
  <2>1. /\ turn \in Servers /\ srvMaxFd \in [Servers -> Fd]
        /\ Clients(turn) \in SUBSET Fd
    BY DEF Consistent, TypeOK, Clients, Keys
  <2>2. /\ srvMaxFd' \in [Servers -> Fd]
        /\ \A x \in Servers \ {turn} : srvMaxFd'[x] = srvMaxFd[x]
        /\ Listen(turn) <= srvMaxFd'[turn]
        /\ \A g \in Clients(turn) : g < FdSetSize => g <= srvMaxFd'[turn]
    BY <2>1, MaxFdUpdated
  <2>. QED
    BY <1>1, <2>2 DEF Consistent, MaxFdCovers, Watchable
<1>4. RequestsBounded' /\ TableShape' /\ SocketsOwned' /\ FileFdsPrivate'
  <2>1. RequestsBounded' /\ TableShape'
    BY <1>2 DEF Consistent, RequestsBounded, TableShape
  <2>2. SocketsOwned'
    <3>1. \A s \in Servers : \A fd \in Clients(s) :
            /\ fdt[fd].kind = "sock" /\ ConnOf(fd) \in Conns /\ fd \in Fd
            /\ conn[ConnOf(fd)].status = "open" /\ conn[ConnOf(fd)].srv = s
      BY DEF Consistent, SocketsOwned, Clients, Keys
    <3>2. \A s \in Servers : \A fd \in Clients(s)' :
            /\ fdt'[fd].kind = "sock" /\ ConnOf(fd)' \in Conns
            /\ conn'[ConnOf(fd)'].status = "open" /\ conn'[ConnOf(fd)'].srv = s
      BY <1>1, <1>2, <3>1
    <3>3. \A fd \in Fd : fdt'[fd].kind = "sock" => \E s \in Servers : fd \in Clients(s)'
      BY <1>1 DEF Consistent, SocketsOwned
    <3>4. \A c \in Conns : conn'[c].status = "open" => \E fd \in Fd : ConnOf(fd)' = c
      BY <1>2 DEF Consistent, SocketsOwned
    <3>5. \A fd, g \in Fd : ConnOf(fd)' = ConnOf(g)' /\ ConnOf(fd)' # NoConn => fd = g
      BY <1>2 DEF Consistent, SocketsOwned
    <3>. QED
      BY <3>2, <3>3, <3>4, <3>5 DEF SocketsOwned
  <2>3. FileFdsPrivate'
    BY <1>1 DEF Consistent, FileFdsPrivate
  <2>. QED
    BY <2>1, <2>2, <2>3
<1>. QED
  BY <1>1, <1>3, <1>4 DEF Consistent, TypeOK, Tables

\* The next server's turn.
LEMMA EndServerStep ==
  ASSUME Consistent, EndServer
  PROVE  Consistent'
<1>1. /\ phase' = "sweep" /\ turn' = turn + 1 /\ turn < NServers /\ todo' = {}
      /\ readSet' = readSet /\ writeSet' = writeSet /\ UNCHANGED setVars
      /\ client' = client /\ fdt' = fdt /\ conn' = conn
  BY DEF EndServer
<1>2. turn' \in Servers /\ readSet \in SUBSET Fd /\ writeSet \in SUBSET Fd
  BY <1>1, ConstantsAssumption DEF Consistent, TypeOK
<1>3. Tables'
  BY <1>1, MaxTables DEF EndServer
<1>. QED
  BY <1>1, <1>2, <1>3, RoundConsistent

\* The sets passed to select() are rebuilt.
LEMMA EndRoundStep ==
  ASSUME Consistent, EndRound
  PROVE  Consistent'
<1>1. /\ phase' = "select" /\ turn' = 1 /\ todo' = {}
      /\ readSet' = {} /\ writeSet' = {}
      /\ client' = client /\ fdt' = fdt /\ conn' = conn
      /\ masterSet' = UNION {{Listen(s)} \cup Watchable(s) : s \in Servers}
      /\ pendingSet' = UNION {Pending(s) : s \in Servers}
  BY DEF EndRound
<1>2. PICK m \in Servers : /\ \A t \in Servers : srvMaxFd'[t] <= srvMaxFd'[m]
                           /\ maxFd' = srvMaxFd'[m]
  BY DEF EndRound
<1>3. Tables'
  BY <1>1, MaxTables DEF EndRound
<1>4. \A s \in Servers : /\ Clients(s)' = Clients(s) /\ Clients(s) \subseteq Fd
                         /\ Watchable(s)' = Watchable(s) /\ Pending(s)' = Pending(s)
                         /\ Watchable(s) \subseteq Clients(s) /\ Pending(s) \subseteq Clients(s)
  BY <1>1 DEF Clients, Keys, Watchable, Pending
<1>5. masterSet' \in SUBSET Fd /\ pendingSet' \in SUBSET Fd
  BY <1>1, <1>4, ListenersFit
<1>6. TypeOK'
  <2>1. maxFd' \in Fd /\ 1 \in Servers
    BY <1>2, <1>3, ConstantsAssumption DEF Tables
  <2>. QED
    BY <1>1, <1>3, <1>5, <2>1 DEF TypeOK, Tables
<1>7. TodoAlive'
  BY <1>1 DEF TodoAlive
<1>8. SelectSafe'
  <2>1. \A fd \in masterSet' : fdt'[fd].kind \in {"listen", "sock"} /\ fd <= maxFd'
    <3>. SUFFICES ASSUME NEW s \in Servers, NEW fd \in {Listen(s)} \cup Watchable(s)
                  PROVE  fdt'[fd].kind \in {"listen", "sock"} /\ fd <= maxFd'
      BY <1>1
    <3>1. fdt'[fd].kind \in {"listen", "sock"}
      BY <1>3, <1>4 DEF Tables, TableShape, SocketsOwned
    <3>2. fd <= srvMaxFd'[s] /\ fd \in Fd
      BY <1>3, <1>4, ListenersFit DEF Tables, MaxFdCovers
    <3>3. srvMaxFd'[s] <= maxFd' /\ srvMaxFd'[s] \in Fd /\ maxFd' \in Fd
      BY <1>2, <1>3 DEF Tables
    <3>4. fd <= maxFd'
      BY <3>2, <3>3, ConstantsAssumption
    <3>. QED
      BY <3>1, <3>4
  <2>2. /\ masterSet' = UNION {{Listen(s)} \cup Watchable(s)' : s \in Servers}
        /\ pendingSet' = UNION {Pending(s)' : s \in Servers}
    BY <1>1, <1>4
  <2>. QED
    BY <2>1, <2>2 DEF SelectSafe
<1>. QED
  BY <1>3, <1>6, <1>7, <1>8 DEF Consistent, Tables

\* Every step keeps what is consistent so.
LEMMA NextConsistent == Consistent /\ [Next]_vars => Consistent'
<1>. SUFFICES ASSUME Consistent, [Next]_vars PROVE Consistent'
  OBVIOUS
<1>1. CASE Select
  BY <1>1, SelectStep
<1>2. CASE SelectTimeout
  BY <1>2, SelectTimeoutStep
<1>3. CASE Accept
  BY <1>3, AcceptStep
<1>4. CASE SweepIdle
  BY <1>4, SweepIdleStep
<1>5. ASSUME NEW fd \in todo, Read(fd) \/ Write(fd) PROVE Consistent'
  BY <1>5, ReadStep, WriteStep
<1>6. CASE EndServer
  BY <1>6, EndServerStep
<1>7. CASE EndRound
  BY <1>7, EndRoundStep
<1>8. ASSUME NEW c \in Conns, Network(c) PROVE Consistent'
  BY <1>8, NetworkStep
<1>9. CASE UNCHANGED vars
  <2>1. /\ UNCHANGED <<phase, turn, todo, readSet, writeSet, masterSet, pendingSet, maxFd>>
        /\ UNCHANGED <<srvMaxFd, client, fdt, conn>>
    BY <1>9 DEF vars
  <2>2. Tables' /\ \A s \in Servers : Clients(s)' = Clients(s)
    BY <2>1, TablesSame
  <2>3. \A s \in Servers : Watchable(s)' = Watchable(s) /\ Pending(s)' = Pending(s)
    BY <2>1 DEF Watchable, Pending, Clients, Keys
  <2>4. TypeOK'
    BY <2>1 DEF Consistent, TypeOK
  <2>5. TodoAlive'
    BY <2>1, <2>2 DEF Consistent, TypeOK, TodoAlive
  <2>6. SelectSafe'
    BY <2>1, <2>3 DEF Consistent, SelectSafe
  <2>. QED
    BY <2>2, <2>4, <2>5, <2>6 DEF Consistent, Tables
<1>. QED
  BY <1>1, <1>2, <1>3, <1>4, <1>5, <1>6, <1>7, <1>8, <1>9 DEF Next, Loop

-----------------------------------------------------------------------------
(* The theorems. *)

\* Descriptors, connections, maps and fd sets stay consistent with one another,
\* for any number of servers, connections and descriptors and any interleaving.
THEOREM Consistency == Spec => []Consistent
<1>1. Init => Consistent
  BY InitConsistent
<1>2. Consistent /\ [Next]_vars => Consistent'
  BY NextConsistent
<1>. QED
  BY <1>1, <1>2, PTL DEF Spec

\* Every variable keeps its type.
THEOREM TypeCorrect == Spec => []TypeOK
<1>1. Consistent => TypeOK
  BY DEF Consistent
<1>. QED
  BY <1>1, Consistency, PTL

\* The maps _clients and the descriptor table always agree: closeConnection,
\* accept() and the reuse of descriptors never lose or share a socket.
THEOREM SocketsAlwaysOwned == Spec => []SocketsOwned
<1>1. Consistent => SocketsOwned
  BY DEF Consistent
<1>. QED
  BY <1>1, Consistency, PTL

\* The sets handed to select() are always right: no closed descriptor, no
\* forgotten client, none above the maximum.
THEOREM SelectAlwaysSafe == Spec => []SelectSafe
<1>1. Consistent => SelectSafe
  BY DEF Consistent
<1>. QED
  BY <1>1, Consistency, PTL

\* No two responses ever stream from one descriptor, nor one from a descriptor
\* that was closed or handed out again.
THEOREM FilesAlwaysPrivate == Spec => []FileFdsPrivate
<1>1. Consistent => FileFdsPrivate
  BY DEF Consistent
<1>. QED
  BY <1>1, Consistency, PTL

-----------------------------------------------------------------------------
(* What the clients hear.  Following every request from the client's queue *)
(* through requestBuffer, the response and responseBuffer to the client    *)
(* takes a second inductive invariant, Answers, beside Consistent.         *)

HIDE DEF Servers, Fd, NoFd, Listen

\* The request that the i-th response on a connection answers.  A 400 has no
\* number, but it is sent only where requests come one at a time.
Number(out, i) == IF out[i] = BadRequest THEN i ELSE out[i][2]

\* Request n of connection x comes after everything heard so far.
After(x, n) == \A i \in DOMAIN x.out : Number(x.out, i) < n

\* What was heard on connection c.
Past(c, x) ==
  /\ \A i \in DOMAIN x.out :
       IF x.out[i] = BadRequest THEN i \in DOMAIN x.reqs /\ x.reqs[i] = "earlyMark"
                                ELSE x.out[i] \in {c} \X DOMAIN x.reqs
  /\ \A i, j \in DOMAIN x.out : i < j => Number(x.out, i) < Number(x.out, j)
  /\ x.done <= Len(x.out) /\ Len(x.out) <= x.done + 1
  /\ x.status \in {"new", "queued"} => x.out = <<>> /\ x.done = 0

\* What waits in its socket's receive queue.
Ahead(x) ==
  /\ \A i \in DOMAIN x.inq : x.inq[i] \in DOMAIN x.reqs /\ After(x, x.inq[i])
  /\ \A i, j \in DOMAIN x.inq : i < j => x.inq[i] <= x.inq[j]

\* A client that waits for each response has one request under way at most, and
\* b, the queue and what is still to be sent are pieces of that one.
Single(x, b) ==
  /\ Len(x.out) <= Len(x.reqs) /\ Len(x.reqs) <= x.done + 1
  /\ \A i \in DOMAIN x.out : Number(x.out, i) = i
  /\ \A i \in DOMAIN x.inq : x.inq[i] = Len(x.reqs)
  /\ \A i \in DOMAIN b : b[i][2] = Len(x.reqs)
  /\ x.reqs # <<>> => Len(b) + Len(x.inq) + x.rest <= Pieces(x.reqs[Len(x.reqs)])
  /\ x.reqs = <<>> => x.rest = 0
  /\ x.rest > 0 => Len(x.out) < Len(x.reqs)
\* A client that pipelines sends requests of one piece, and none stays in b.
Distinct(x, b) ==
  /\ x.rest = 0 /\ b = <<>>
  /\ \A i, j \in DOMAIN x.inq : i < j => x.inq[i] < x.inq[j]
Shape(x, b) == IF Window <= 1 THEN Single(x, b) ELSE Distinct(x, b)

Told(c, x) == Past(c, x) /\ Ahead(x) /\ Shape(x, <<>>)

\* An idle client's buffers: a 400 waits only behind what it was made for, and
\* a response is given up, with its descriptor, only after a reset.
IdleLink(x, r) ==
  LET b == r.requestBuffer IN
  /\ Len(x.out) = x.done \/ x.peer = "rst"
  /\ \/ r.responseBuffer = Empty
     \/ /\ r.responseBuffer = BadRequest /\ b # <<>>
        /\ x.reqs[b[1][2]] \notin {"noBody", "withBody"}
  /\ r.response.fd # NoFd => x.peer = "rst"

\* A response under way has reached the client with its first piece.
Underway(r) == r.bytesWritten > 0 \/ r.response.headersSent

\* The response being written answers a request that was received in full and
\* comes before all that is queued.
WritingLink(c, x, r) ==
  LET t == r.response.tag IN
  /\ r.requestBuffer = <<>> /\ t \in {c} \X DOMAIN x.reqs
  /\ \A j \in DOMAIN x.inq : t[2] < x.inq[j]
  /\ Window <= 1 => x.rest = 0 /\ t[2] = Len(x.reqs)
  /\ \/ r.responseBuffer \in {Empty, t}
     \/ r.responseBuffer = BadRequest /\ x.reqs[t[2]] = "earlyMark"
  /\ IF Underway(r) THEN Len(x.out) = x.done + 1
                    ELSE After(x, t[2]) /\ (Len(x.out) = x.done \/ x.peer = "rst")
  /\ IF r.response.fd = NoFd THEN ~r.response.headersSent ELSE r.bytesWritten = 0

\* The client's record r and connection c, which is x.
Link(c, x, r) ==
  LET b == r.requestBuffer IN
  /\ Shape(x, b)
  /\ \A i \in DOMAIN b : /\ b[i] \in {c} \X DOMAIN x.reqs /\ After(x, b[i][2])
                         /\ \A j \in DOMAIN x.inq : b[i][2] <= x.inq[j]
  /\ r.state = "IDLE" => IdleLink(x, r)
  /\ r.state = "WRITING_RESPONSE" => WritingLink(c, x, r)

Answers ==
  /\ \A c \in Conns : Told(c, conn[c])
  /\ \A s \in Servers : \A fd \in Clients(s) :
       Link(ConnOf(fd), conn[ConnOf(fd)], client[s][fd])

-----------------------------------------------------------------------------
(* One connection and one record. *)

\* The fields of a connection.
LEMMA ConnectionFields ==
  ASSUME NEW x \in Connection
  PROVE  /\ x.out \in Seq(Tags) /\ x.reqs \in Seq(Kinds) /\ x.inq \in Seq(1..MaxRequests)
         /\ DOMAIN x.out = 1..Len(x.out) /\ Len(x.out) \in Nat
         /\ DOMAIN x.reqs = 1..Len(x.reqs) /\ Len(x.reqs) \in Nat
         /\ DOMAIN x.inq = 1..Len(x.inq) /\ Len(x.inq) \in Nat
         /\ x.done \in Nat /\ x.rest \in 0..2
BY DEF Connection

\* Every response heard answers a request that was made.
LEMMA NumberBounds ==
  ASSUME NEW c \in Conns, NEW x \in Connection, Past(c, x)
  PROVE  \A i \in DOMAIN x.out : Number(x.out, i) \in 1..Len(x.reqs)
BY ConnectionFields DEF Past, Number

\* The error response is nobody's answer by name.
LEMMA TagsDiffer ==
  ASSUME NEW c \in Conns, NEW S, NEW t \in {c} \X S
  PROVE  t # BadRequest /\ t # Empty /\ BadRequest # Empty
BY ConstantsAssumption DEF BadRequest, Empty

\* Changes of the peer, the send buffer or the status leave the requests alone.
LEMMA SameRequests ==
  ASSUME NEW c \in Conns, NEW x \in Connection, NEW y \in Connection, Told(c, x),
         y.out = x.out, y.done = x.done, y.reqs = x.reqs, y.inq = x.inq, y.rest = x.rest,
         x.peer = "rst" => y.peer = "rst",
         y.status \in {"new", "queued"} => x.status \in {"new", "queued"}
  PROVE  Told(c, y) /\ \A r \in ClientState : Link(c, x, r) => Link(c, y, r)
<1>1. \A n : After(y, n) <=> After(x, n)
  BY DEF After
<1>2. \A b : Shape(y, b) <=> Shape(x, b)
  BY DEF Shape, Single, Distinct
<1>3. Told(c, y)
  BY <1>1, <1>2 DEF Told, Past, Ahead
<1>4. ASSUME NEW r \in ClientState, Link(c, x, r) PROVE Link(c, y, r)
  <2>1. r.state = "IDLE" => IdleLink(y, r)
    BY <1>4 DEF Link, IdleLink
  <2>2. r.state = "WRITING_RESPONSE" => WritingLink(c, y, r)
    BY <1>1, <1>4 DEF Link, WritingLink
  <2>. QED
    BY <1>1, <1>2, <1>4, <2>1, <2>2 DEF Link
<1>. QED
  BY <1>3, <1>4

\* A connection that is closed.
LEMMA HungTold ==
  ASSUME NEW c \in Conns, NEW x \in Connection, Told(c, x)
  PROVE  Told(c, Hung(x))
<1>. DEFINE y == Hung(x)
<1>1. /\ y \in Connection /\ y.status = "closed" /\ y.rest = 0 /\ y.inq = <<>>
      /\ y.out = x.out /\ y.done = x.done /\ y.reqs = x.reqs
  BY HungFacts DEF Hung, Connection
<1>. HIDE DEF y
<1>2. Past(c, y) /\ Ahead(y)
  BY <1>1 DEF Told, Past, Ahead
<1>3. Single(x, <<>>) => Single(y, <<>>)
  BY <1>1, ConnectionFields DEF Single, Pieces
<1>4. Distinct(x, <<>>) => Distinct(y, <<>>)
  BY <1>1 DEF Distinct
<1>. QED
  BY <1>2, <1>3, <1>4 DEF Told, Shape, y

\* What a record shares with its buffers emptied.
LEMMA ShapeBuffer ==
  ASSUME NEW x \in Connection, NEW S, NEW b \in Seq(S), Shape(x, b)
  PROVE  Shape(x, <<>>)
<1>1. Single(x, b) => Single(x, <<>>)
  BY ConnectionFields DEF Single, Pieces
<1>. QED
  BY <1>1 DEF Shape, Distinct

\* A sequence that grows by one element.
LEMMA AppendFacts ==
  ASSUME NEW S, NEW q \in Seq(S), NEW e
  PROVE  /\ Append(q, e) # <<>>
         /\ Len(Append(q, e)) = Len(q) + 1 /\ Append(q, e)[Len(q) + 1] = e
         /\ \A i \in 1..Len(q) : Append(q, e)[i] = q[i]
OBVIOUS

\* A request has one to three pieces.
LEMMA PieceBounds == \A k : Pieces(k) \in 1..3
BY DEF Pieces

\* A request starts: whoever waits for each response has had all of them.
LEMMA Requested ==
  ASSUME NEW c \in Conns, NEW x \in Connection, NEW y \in Connection, Told(c, x),
         NEW k \in Kinds, x.peer = "up", x.rest = 0, Len(x.reqs) < x.done + Window,
         y.out = x.out, y.done = x.done, y.reqs = Append(x.reqs, k),
         y.rest = Pieces(k) - 1, y.inq = Append(x.inq, Len(x.reqs) + 1),
         y.peer = x.peer, y.status = x.status
  PROVE  Told(c, y) /\ \A r \in ClientState : Link(c, x, r) => Link(c, y, r)
<1>. DEFINE L == Len(x.reqs)
<1>0. /\ Len(y.reqs) = L + 1 /\ y.reqs[L + 1] = k /\ \A i \in 1..L : y.reqs[i] = x.reqs[i]
      /\ Len(y.inq) = Len(x.inq) + 1 /\ y.inq[Len(x.inq) + 1] = L + 1
      /\ \A i \in 1..Len(x.inq) : y.inq[i] = x.inq[i]
      /\ L \in Nat /\ y.reqs # <<>>
  <2>1. L + 1 \in Nat /\ x.reqs \in Seq(Kinds) /\ x.inq \in Seq(1..MaxRequests) /\ L \in Nat
    BY ConnectionFields
  <2>2. /\ Len(y.reqs) = L + 1 /\ y.reqs[L + 1] = k /\ y.reqs # <<>>
        /\ \A i \in 1..L : y.reqs[i] = x.reqs[i]
    BY ONLY <2>1, AppendFacts, k \in Kinds, y.reqs = Append(x.reqs, k)
  <2>3. /\ Len(y.inq) = Len(x.inq) + 1 /\ y.inq[Len(x.inq) + 1] = L + 1
        /\ \A i \in 1..Len(x.inq) : y.inq[i] = x.inq[i]
    BY ONLY <2>1, AppendFacts, y.inq = Append(x.inq, Len(x.reqs) + 1)
  <2>. QED
    BY <2>1, <2>2, <2>3
<1>1. /\ DOMAIN x.out = 1..Len(x.out) /\ DOMAIN y.out = 1..Len(x.out) /\ Len(x.out) \in Nat
      /\ DOMAIN x.reqs = 1..L /\ DOMAIN y.reqs = 1..(L + 1)
      /\ DOMAIN x.inq = 1..Len(x.inq) /\ Len(x.inq) \in Nat
      /\ DOMAIN y.inq = 1..(Len(x.inq) + 1) /\ x.done \in Nat
  BY <1>0, ConnectionFields
<1>2. \A i \in DOMAIN x.out : Number(x.out, i) \in 1..L
  BY NumberBounds DEF Told
<1>. HIDE DEF L
<1>3. Past(c, y)
  BY <1>0, <1>1 DEF Told, Past
<1>4. (\A n : After(y, n) <=> After(x, n)) /\ After(y, L + 1)
  BY <1>0, <1>1, <1>2 DEF After
<1>5. Ahead(y)
  <2>1. \A i \in DOMAIN y.inq : y.inq[i] \in DOMAIN y.reqs /\ After(y, y.inq[i])
    BY <1>0, <1>1, <1>4 DEF Told, Ahead
  <2>2. \A i, j \in DOMAIN y.inq : i < j => y.inq[i] <= y.inq[j]
    BY <1>0, <1>1 DEF Told, Ahead
  <2>. QED
    BY <2>1, <2>2 DEF Ahead
<1>6. Window <= 1 => /\ x.inq = <<>> /\ L = Len(x.out) /\ L = x.done
                     /\ \A r \in ClientState : Link(c, x, r) =>
                          r.requestBuffer = <<>> /\ r.state # "WRITING_RESPONSE"
  <2>. SUFFICES ASSUME Window <= 1
                PROVE  /\ x.inq = <<>> /\ L = Len(x.out) /\ L = x.done
                       /\ \A r \in ClientState : Link(c, x, r) =>
                            r.requestBuffer = <<>> /\ r.state # "WRITING_RESPONSE"
    OBVIOUS
  <2>1. Single(x, <<>>) /\ Past(c, x) /\ Ahead(x)
    BY DEF Told, Shape
  <2>2. L = Len(x.out) /\ L = x.done
    BY <1>0, <1>1, <2>1, ConstantsAssumption DEF Single, Past, L
  <2>3. ~ After(x, L) \/ L = 0
    BY <1>0, <1>1, <2>1, <2>2 DEF After, Single
  <2>4. x.inq = <<>>
    <3>1. ASSUME Len(x.inq) > 0 PROVE FALSE
      <4>1. 1 \in DOMAIN x.inq
        BY <1>1, <3>1
      <4>. QED
        BY <1>1, <2>1, <2>3, <4>1 DEF Ahead, Single, L
    <3>. QED
      BY <1>1, <3>1, ConnectionFields
  <2>5. ASSUME NEW r \in ClientState, Link(c, x, r)
        PROVE  r.requestBuffer = <<>> /\ r.state # "WRITING_RESPONSE"
    <3>1. r.requestBuffer \in Seq(Requests)
      BY DEF ClientState
    <3>2. r.requestBuffer = <<>>
      <4>1. ASSUME Len(r.requestBuffer) > 0 PROVE FALSE
        <5>1. 1 \in DOMAIN r.requestBuffer
          BY <3>1, <4>1
        <5>2. r.requestBuffer[1][2] = L /\ After(x, L) /\ L \in DOMAIN x.reqs
          BY <2>5, <5>1 DEF Link, Shape, Single, L
        <5>. QED
          BY <1>1, <2>3, <5>2
      <4>. QED
        BY <3>1, <4>1
    <3>3. ASSUME r.state = "WRITING_RESPONSE" PROVE FALSE
      <4>1. WritingLink(c, x, r)
        BY <2>5, <3>3 DEF Link
      <4>2. r.response.tag[2] = L /\ L \in DOMAIN x.reqs
        BY <4>1 DEF WritingLink, L
      <4>. QED
        BY <1>1, <2>2, <2>3, <4>1, <4>2 DEF WritingLink
    <3>. QED
      BY <3>2, <3>3
  <2>. QED
    BY <2>2, <2>4, <2>5
<1>7. \A b : Shape(x, b) /\ (Window <= 1 => b = <<>>) => Shape(y, b)
  <2>. SUFFICES ASSUME NEW b, Shape(x, b), Window <= 1 => b = <<>> PROVE Shape(y, b)
    OBVIOUS
  <2>1. CASE Window <= 1
    <3>1. b = <<>> /\ Single(x, b) /\ L = Len(x.out) /\ L = x.done /\ Len(x.inq) = 0
      BY <1>6, <2>1 DEF Shape
    <3>2. Len(b) + Len(y.inq) + y.rest <= Pieces(y.reqs[Len(y.reqs)])
      <4>1. Len(b) = 0 /\ Len(y.inq) = 1 /\ y.reqs[Len(y.reqs)] = k
        BY <1>0, <3>1
      <4>. QED
        BY <4>1, PieceBounds
    <3>3. \A i \in DOMAIN y.inq : y.inq[i] = Len(y.reqs)
      BY <1>0, <1>1, <3>1
    <3>. QED
      BY <1>0, <1>1, <2>1, <3>1, <3>2, <3>3 DEF Shape, Single
  <2>2. CASE ~(Window <= 1)
    <3>1. y.rest = 0
      BY <2>2, PipeliningAssumption DEF Pieces
    <3>2. \A i, j \in DOMAIN y.inq : i < j => y.inq[i] < y.inq[j]
      BY <1>0, <1>1, <2>2 DEF Shape, Distinct, Told, Ahead
    <3>. QED
      BY <2>2, <3>1, <3>2 DEF Shape, Distinct
  <2>. QED
    BY <2>1, <2>2
<1>8. Told(c, y)
  BY <1>3, <1>5, <1>7 DEF Told
<1>9. ASSUME NEW r \in ClientState, Link(c, x, r) PROVE Link(c, y, r)
  <2>. DEFINE b == r.requestBuffer
  <2>1. Shape(y, b)
    BY <1>6, <1>7, <1>9 DEF Link
  <2>2. \A i \in DOMAIN b : /\ b[i] \in {c} \X DOMAIN y.reqs /\ After(y, b[i][2])
                            /\ \A j \in DOMAIN y.inq : b[i][2] <= y.inq[j]
    BY <1>0, <1>1, <1>4, <1>9 DEF Link
  <2>3. ASSUME r.state = "IDLE" PROVE IdleLink(y, r)
    <3>1. b # <<>> => 1 \in DOMAIN b /\ b[1][2] \in 1..L
      <4>1. b \in Seq(Requests)
        BY DEF ClientState
      <4>2. b # <<>> => 1 \in DOMAIN b
        BY <4>1
      <4>. QED
        BY <1>1, <1>9, <4>2 DEF Link
    <3>. QED
      BY <1>0, <1>9, <2>3, <3>1 DEF Link, IdleLink
  <2>4. ASSUME r.state = "WRITING_RESPONSE" PROVE WritingLink(c, y, r)
    <3>1. WritingLink(c, x, r) /\ ~(Window <= 1)
      BY <1>6, <1>9, <2>4 DEF Link
    <3>2. r.response.tag \in {c} \X DOMAIN x.reqs
      BY <3>1 DEF WritingLink
    <3>. DEFINE n == r.response.tag[2]
    <3>3. n \in 1..L /\ r.response.tag \in {c} \X DOMAIN y.reqs /\ y.reqs[n] = x.reqs[n]
      BY <1>0, <1>1, <3>2
    <3>4. \A j \in DOMAIN y.inq : n < y.inq[j]
      BY <1>0, <1>1, <3>1, <3>3 DEF WritingLink
    <3>. QED
      BY <1>4, <3>1, <3>3, <3>4 DEF WritingLink
  <2>. QED
    BY <2>1, <2>2, <2>3, <2>4 DEF Link
<1>. QED
  BY <1>8, <1>9

\* Another piece of the request under way arrives; it was not answered yet.
LEMMA Continued ==
  ASSUME NEW c \in Conns, NEW x \in Connection, NEW y \in Connection, Told(c, x),
         x.rest > 0, y.rest = x.rest - 1, y.inq = Append(x.inq, Len(x.reqs)),
         y.out = x.out, y.done = x.done, y.reqs = x.reqs,
         y.peer = x.peer, y.status = x.status
  PROVE  Told(c, y) /\ \A r \in ClientState : Link(c, x, r) => Link(c, y, r)
<1>. DEFINE L == Len(x.reqs)
<1>1. /\ DOMAIN x.out = 1..Len(x.out) /\ Len(x.out) \in Nat /\ x.rest \in 0..2
      /\ DOMAIN x.reqs = 1..L /\ L \in Nat /\ DOMAIN x.inq = 1..Len(x.inq)
      /\ Len(x.inq) \in Nat /\ DOMAIN y.inq = 1..Len(y.inq)
      /\ x.inq \in Seq(1..MaxRequests) /\ x.reqs \in Seq(Kinds)
  BY ConnectionFields
<1>2. /\ Len(y.inq) = Len(x.inq) + 1 /\ y.inq[Len(x.inq) + 1] = L
      /\ \A i \in 1..Len(x.inq) : y.inq[i] = x.inq[i]
  BY <1>1, AppendFacts
<1>3. Window <= 1 /\ Single(x, <<>>) /\ Past(c, x) /\ Ahead(x)
  BY <1>1 DEF Told, Shape, Distinct
<1>4. L >= 1 /\ Len(x.out) < L /\ x.reqs # <<>>
  BY <1>1, <1>3 DEF Single
<1>5. (\A n : After(y, n) <=> After(x, n)) /\ After(x, L)
  BY <1>1, <1>3, <1>4 DEF After, Single
<1>. HIDE DEF L
<1>6. \A i \in DOMAIN y.inq : y.inq[i] = L
  BY <1>1, <1>2, <1>3 DEF Single, L
<1>7. Ahead(y)
  BY <1>1, <1>4, <1>5, <1>6 DEF Ahead
<1>8. Past(c, y)
  BY <1>3 DEF Past
<1>9. ASSUME NEW S, NEW b \in Seq(S), Shape(x, b) PROVE Shape(y, b)
  <2>1. Single(x, b) /\ Len(b) \in Nat
    BY <1>3, <1>9 DEF Shape
  <2>2. Len(b) + Len(y.inq) + y.rest <= Pieces(x.reqs[L])
    <3>1. Len(b) + Len(x.inq) + x.rest <= Pieces(x.reqs[L])
      BY <1>4, <2>1 DEF Single, L
    <3>. QED
      BY <1>1, <1>2, <2>1, <3>1, PieceBounds
  <2>. QED
    BY <1>1, <1>3, <1>4, <1>6, <2>1, <2>2 DEF Shape, Single, L
<1>10. Told(c, y)
  <2>1. <<>> \in Seq(Requests)
    OBVIOUS
  <2>. QED
    BY <1>7, <1>8, <1>9, <2>1 DEF Told
<1>11. ASSUME NEW r \in ClientState, Link(c, x, r) PROVE Link(c, y, r)
  <2>. DEFINE b == r.requestBuffer
  <2>1. b \in Seq(Requests)
    BY DEF ClientState
  <2>2. Shape(x, b) /\ Shape(y, b)
    BY <1>9, <1>11, <2>1 DEF Link
  <2>3. \A i \in DOMAIN b : b[i][2] = L
    BY <1>3, <2>2 DEF Shape, Single, L
  <2>4. \A i \in DOMAIN b : /\ b[i] \in {c} \X DOMAIN y.reqs /\ After(y, b[i][2])
                            /\ \A j \in DOMAIN y.inq : b[i][2] <= y.inq[j]
    BY <1>1, <1>4, <1>5, <1>6, <1>11, <2>3 DEF Link
  <2>5. r.state = "IDLE" => IdleLink(y, r)
    BY <1>11 DEF Link, IdleLink
  <2>6. r.state # "WRITING_RESPONSE"
    BY <1>1, <1>3, <1>11 DEF Link, WritingLink
  <2>. QED
    BY <2>2, <2>4, <2>5, <2>6 DEF Link
<1>. QED
  BY <1>10, <1>11

\* How many of the pieces of a buffer belong to its first request.
LEMMA HaveBounds ==
  ASSUME NEW S, NEW b \in Seq(S), Len(b) >= 1
  PROVE  Have(b) \in 1..Len(b)
<1>. DEFINE F == {i \in DOMAIN b : b[i] = b[1]}
<1>1. F \subseteq 1..Len(b) /\ 1 \in F /\ Len(b) \in Nat
  OBVIOUS
<1>2. IsFiniteSet(1..Len(b)) /\ Cardinality(1..Len(b)) = Len(b)
  BY <1>1, FS_Interval
<1>3. IsFiniteSet(F) /\ Cardinality(F) <= Len(b)
  BY <1>1, <1>2, FS_Subset
<1>4. Cardinality(F) \in Nat /\ Cardinality(F) # 0
  BY <1>1, <1>3, FS_CardinalityType, FS_EmptySet
<1>. QED
  BY <1>3, <1>4 DEF Have

\* Buffer a and queue q, and what they are, b and p, when the first k pieces of
\* the queue of connection c have gone to the buffer.
Moved(c, k, a, q, b, p) ==
  /\ Len(b) = Len(a) + k /\ Len(p) = Len(q) - k
  /\ \A i \in 1..Len(a) : b[i] = a[i]
  /\ \A i \in 1..k : b[Len(a) + i] = <<c, q[i]>>
  /\ \A i \in 1..(Len(q) - k) : p[i] = q[k + i]
LEMMA Taken ==
  ASSUME NEW c \in Conns, NEW b \in Seq(Requests), NEW q \in Seq(1..MaxRequests),
         NEW k \in 1..Len(q)
  PROVE  LET a == b \o [i \in 1..k |-> <<c, q[i]>>]
             p == SubSeq(q, k + 1, Len(q))
         IN a \in Seq(Requests) /\ p \in Seq(1..MaxRequests) /\ Moved(c, k, b, q, a, p)
<1>. DEFINE g == [i \in 1..k |-> <<c, q[i]>>]
            p == SubSeq(q, k + 1, Len(q))
<1>1. Len(q) \in Nat /\ k \in Nat
  OBVIOUS
<1>2. g \in Seq(Requests) /\ Len(g) = k /\ \A i \in 1..k : g[i] = <<c, q[i]>>
  <2>1. \A i \in 1..k : <<c, q[i]>> \in Requests
    <3>1. \A i \in 1..k : q[i] \in 1..MaxRequests
      BY QueueFacts
    <3>. QED
      BY <3>1 DEF Requests
  <2>. QED
    BY <1>1, <2>1
<1>3. /\ Len(p) = Len(q) - k /\ p \in Seq(1..MaxRequests)
      /\ \A i \in 1..(Len(q) - k) : p[i] = q[k + i]
  <2>1. p \in Seq(1..MaxRequests)
    BY QueueFacts
  <2>2. /\ Len(p) = IF k + 1 <= Len(q) THEN Len(q) - (k + 1) + 1 ELSE 0
        /\ \A i \in 1..(Len(q) - (k + 1) + 1) : p[i] = q[(k + 1) + i - 1]
    BY <1>1, SubSeqProperties
  <2>. QED
    BY <1>1, <2>1, <2>2
<1>. HIDE DEF g, p
<1>4. /\ b \o g \in Seq(Requests) /\ Len(b \o g) = Len(b) + k
      /\ \A i \in 1..Len(b) : (b \o g)[i] = b[i]
      /\ \A i \in 1..k : (b \o g)[Len(b) + i] = <<c, q[i]>>
  <2>1. Len(b) \in Nat
    OBVIOUS
  <2>2. /\ b \o g \in Seq(Requests) /\ Len(b \o g) = Len(b) + k
        /\ \A i \in 1..(Len(b) + k) :
             (b \o g)[i] = IF i <= Len(b) THEN b[i] ELSE g[i - Len(b)]
    BY <1>2, ConcatProperties
  <2>. QED
    BY <1>1, <1>2, <2>1, <2>2
<1>. QED
  BY <1>3, <1>4 DEF g, p, Moved

\* recv() moves the first k pieces of the queue to requestBuffer, then b.
LEMMA Drawn ==
  ASSUME NEW c \in Conns, NEW x \in Connection, NEW y \in Connection,
         NEW r \in ClientState, Told(c, x), Link(c, x, r), NEW k \in 1..Len(x.inq),
         y.out = x.out, y.done = x.done, y.reqs = x.reqs, y.rest = x.rest,
         y.peer = x.peer, y.status = x.status,
         NEW b \in Seq(Requests), Moved(c, k, r.requestBuffer, x.inq, b, y.inq)
  PROVE  /\ Told(c, y) /\ Len(b) >= 1
         /\ \A i \in DOMAIN b : /\ b[i] \in {c} \X DOMAIN y.reqs /\ After(y, b[i][2])
                                /\ \A j \in DOMAIN y.inq : b[i][2] <= y.inq[j]
         /\ Window <= 1 => Single(y, b)
         /\ ~(Window <= 1) => \A j \in DOMAIN y.inq : b[1][2] < y.inq[j]
         /\ r.requestBuffer # <<>> => b[1] = r.requestBuffer[1]
<1>. DEFINE a == r.requestBuffer
            q == x.inq
            m == Len(a)
            n == Len(q)
<1>1. m \in Nat /\ n \in Nat /\ k \in Nat /\ k >= 1 /\ k <= n /\ x.rest \in 0..2
  BY ConnectionFields DEF ClientState
<1>2. DOMAIN a = 1..m /\ DOMAIN q = 1..n /\ a \in Seq(Requests)
  BY ConnectionFields DEF ClientState
<1>3. Len(b) = m + k /\ Len(y.inq) = n - k
  BY DEF Moved
<1>4. \A i \in 1..m : b[i] = a[i]
  BY DEF Moved
<1>5. \A i \in 1..k : b[m + i] = <<c, q[i]>>
  BY DEF Moved
<1>6. \A i \in 1..(n - k) : y.inq[i] = q[k + i]
  BY DEF Moved
<1>7. DOMAIN b = 1..(m + k) /\ DOMAIN y.inq = 1..(n - k)
  BY <1>3, ConnectionFields
<1>8. \A i \in DOMAIN q : /\ q[i] \in DOMAIN x.reqs /\ After(x, q[i])
                          /\ \A j \in DOMAIN q : i < j => q[i] <= q[j]
  BY DEF Told, Ahead
<1>9. \A i \in DOMAIN a : /\ a[i] \in {c} \X DOMAIN x.reqs /\ After(x, a[i][2])
                          /\ \A j \in DOMAIN q : a[i][2] <= q[j]
  BY DEF Link
<1>10. /\ \A e : After(y, e) <=> After(x, e)
       /\ DOMAIN x.reqs = 1..Len(x.reqs) /\ Len(x.reqs) \in Nat
  BY ConnectionFields DEF After
<1>11. /\ Past(c, y)
       /\ Window <= 1 => Single(x, a)
       /\ ~(Window <= 1) => Distinct(x, a)
  BY DEF Told, Past, Link, Shape
<1>12. /\ \A i \in DOMAIN x.inq : x.inq[i] = q[i]
       /\ DOMAIN x.inq = DOMAIN q /\ Len(x.inq) = n
  OBVIOUS
<1>. HIDE DEF a, q, m, n
<1>13. \A i \in DOMAIN b : \/ i \in DOMAIN a /\ b[i] = a[i]
                           \/ \E h \in DOMAIN q : /\ b[i] = <<c, q[h]>>
                                                  /\ \A j \in DOMAIN y.inq : h < k + j
  <2>. SUFFICES ASSUME NEW i \in DOMAIN b, ~(i \in DOMAIN a /\ b[i] = a[i])
                PROVE  \E h \in DOMAIN q : /\ b[i] = <<c, q[h]>>
                                           /\ \A j \in DOMAIN y.inq : h < k + j
    OBVIOUS
  <2>. DEFINE h == i - m
  <2>1. h \in 1..k /\ h \in DOMAIN q /\ m + h = i
    BY <1>1, <1>2, <1>4, <1>7
  <2>2. \A j \in DOMAIN y.inq : h < k + j
    BY ONLY <1>1, <1>7, <2>1
  <2>. HIDE DEF h
  <2>. QED
    BY ONLY <1>5, <2>1, <2>2
<1>14. \A j \in DOMAIN y.inq : k + j \in DOMAIN q /\ y.inq[j] = q[k + j] /\ j \in Nat /\ j >= 1
  BY ONLY <1>1, <1>2, <1>6, <1>7
<1>15. \A i \in DOMAIN b : /\ b[i] \in {c} \X DOMAIN y.reqs /\ After(y, b[i][2])
                           /\ \A j \in DOMAIN y.inq : b[i][2] <= y.inq[j]
  <2>. SUFFICES ASSUME NEW i \in DOMAIN b
                PROVE  /\ b[i] \in {c} \X DOMAIN x.reqs /\ After(x, b[i][2])
                       /\ \A j \in DOMAIN y.inq : b[i][2] <= y.inq[j]
    BY <1>10
  <2>1. CASE i \in DOMAIN a /\ b[i] = a[i]
    BY <1>9, <1>14, <2>1
  <2>2. ASSUME NEW h \in DOMAIN q, b[i] = <<c, q[h]>>, \A j \in DOMAIN y.inq : h < k + j
        PROVE  /\ b[i] \in {c} \X DOMAIN x.reqs /\ After(x, b[i][2])
               /\ \A j \in DOMAIN y.inq : b[i][2] <= y.inq[j]
    <3>. DEFINE e == q[h]
    <3>1. e \in DOMAIN x.reqs /\ After(x, e) /\ \A j \in DOMAIN y.inq : e <= y.inq[j]
      BY <1>8, <1>14, <2>2
    <3>2. b[i] = <<c, e>>
      BY <2>2
    <3>. HIDE DEF e
    <3>. QED
      BY ONLY <3>1, <3>2
  <2>. QED
    BY <1>13, <2>1, <2>2
<1>16. Ahead(y)
  <2>1. \A i \in DOMAIN y.inq : y.inq[i] \in DOMAIN y.reqs /\ After(y, y.inq[i])
    BY <1>8, <1>10, <1>14
  <2>2. \A i, j \in DOMAIN y.inq : i < j => y.inq[i] <= y.inq[j]
    BY <1>1, <1>8, <1>14
  <2>. QED
    BY <2>1, <2>2 DEF Ahead
<1>17. ASSUME Window <= 1 PROVE Single(y, b)
  <2>1. Single(x, a) /\ \A i \in DOMAIN q : q[i] = Len(x.reqs)
    BY <1>11, <1>12, <1>17 DEF Single
  <2>2. \A i \in DOMAIN y.inq : y.inq[i] = Len(x.reqs)
    BY <1>14, <2>1
  <2>3. ASSUME NEW i \in DOMAIN b PROVE b[i][2] = Len(x.reqs)
    <3>1. CASE i \in DOMAIN a /\ b[i] = a[i]
      BY <2>1, <3>1 DEF Single
    <3>2. ASSUME NEW h \in DOMAIN q, b[i] = <<c, q[h]>> PROVE b[i][2] = Len(x.reqs)
      <4>1. b[i] = <<c, Len(x.reqs)>>
        BY <2>1, <3>2
      <4>. QED
        BY ONLY <4>1
    <3>. QED
      BY <1>13, <3>1, <3>2
  <2>4. Len(b) + Len(y.inq) + x.rest = m + n + x.rest
    BY ONLY <1>1, <1>3
  <2>5. x.reqs # <<>> => m + n + x.rest <= Pieces(x.reqs[Len(x.reqs)])
    BY <1>12, <2>1 DEF Single, m
  <2>. QED
    BY <2>1, <2>2, <2>3, <2>4, <2>5 DEF Single
<1>18. ASSUME ~(Window <= 1) PROVE /\ Distinct(y, <<>>)
                                   /\ \A j \in DOMAIN y.inq : b[1][2] < y.inq[j]
  <2>1. x.rest = 0 /\ m = 0 /\ \A i, j \in DOMAIN q : i < j => q[i] < q[j]
    BY <1>11, <1>12, <1>18 DEF Distinct, m
  <2>2. \A i, j \in DOMAIN y.inq : i < j => y.inq[i] < y.inq[j]
    BY <1>1, <1>14, <2>1
  <2>3. b[1] = <<c, q[1]>> /\ 1 \in DOMAIN q
    BY ONLY <1>1, <1>2, <1>5, <2>1
  <2>4. \A j \in DOMAIN y.inq : q[1] < y.inq[j]
    BY ONLY <1>1, <1>14, <2>1, <2>3
  <2>5. b[1][2] = q[1]
    BY ONLY <2>3
  <2>. QED
    BY <2>1, <2>2, <2>4, <2>5 DEF Distinct
<1>19. Told(c, y)
  BY <1>11, <1>16, <1>17, <1>18, ShapeBuffer DEF Told, Shape
<1>20. a # <<>> => b[1] = a[1]
  <2>1. a # <<>> => m >= 1
    BY <1>1, <1>2 DEF m
  <2>. QED
    BY <1>1, <1>4, <2>1
<1>. QED
  BY <1>1, <1>3, <1>15, <1>17, <1>18, <1>19, <1>20 DEF a

\* The request in front of a buffer.
LEMMA Front ==
  ASSUME NEW c \in Conns, NEW b, b[1] \in {c} \X DOMAIN conn[c].reqs
  PROVE  KindOf(b[1]) = conn[c].reqs[b[1][2]]
BY DEF KindOf

\* Requests of one piece are complete as soon as they arrive, and parse.
LEMMA Pipelined ==
  ASSUME NEW c \in Conns, conn[c] \in Connection, NEW b \in Seq(Requests), Len(b) >= 1,
         b[1] \in {c} \X DOMAIN conn[c].reqs, ~(Window <= 1)
  PROVE  Complete(b) /\ Parses(b)
<1>1. conn[c].reqs \in Seq(Kinds) /\ b[1][2] \in DOMAIN conn[c].reqs
  BY ConnectionFields
<1>2. conn[c].reqs[b[1][2]] \in Kinds
  BY ONLY <1>1, ElementOfSeq
<1>3. KindOf(b[1]) = "noBody"
  BY <1>2, Front, PipeliningAssumption
<1>4. Have(b) \in 1..Len(b) /\ Len(b) \in Nat
  BY HaveBounds
<1>. QED
  BY <1>3, <1>4 DEF Complete, Parses, Pieces

\* Bytes were received and the client stays idle, with or without a 400 that
\* its next response sends first.
LEMMA StillIdle ==
  ASSUME NEW c \in Conns, NEW x \in Connection, x = conn[c], NEW y \in Connection,
         NEW r \in ClientState, Link(c, x, r), r.state = "IDLE",
         NEW b \in Seq(Requests), Len(b) >= 1, Window <= 1, Single(y, b),
         \A i \in DOMAIN b : /\ b[i] \in {c} \X DOMAIN y.reqs /\ After(y, b[i][2])
                             /\ \A j \in DOMAIN y.inq : b[i][2] <= y.inq[j],
         r.requestBuffer # <<>> => b[1] = r.requestBuffer[1],
         y.out = x.out, y.done = x.done, y.reqs = x.reqs, y.peer = x.peer,
         NEW q \in ClientState, q.state = "IDLE", q.requestBuffer = b,
         q.response = r.response,
         q.responseBuffer = r.responseBuffer
           \/ (q.responseBuffer = BadRequest /\ ~Parses(b))
  PROVE  Link(c, y, q)
<1>1. IdleLink(x, r)
  BY DEF Link
<1>2. 1 \in DOMAIN b /\ b # <<>>
  OBVIOUS
<1>3. ASSUME ~Parses(b) PROVE y.reqs[b[1][2]] \notin {"noBody", "withBody"}
  <2>1. KindOf(b[1]) = x.reqs[b[1][2]]
    BY <1>2, Front
  <2>. QED
    BY <1>3, <2>1 DEF Parses
<1>4. IdleLink(y, q)
  BY <1>1, <1>2, <1>3 DEF IdleLink
<1>. QED
  BY <1>4 DEF Link, Shape

\* A request is answered once all of it was received: nothing of it is queued
\* or still to be sent.
LEMMA NowWriting ==
  ASSUME NEW c \in Conns, NEW x \in Connection, x = conn[c], NEW y \in Connection,
         NEW r \in ClientState, Link(c, x, r), r.state = "IDLE", Told(c, y),
         NEW b \in Seq(Requests), Len(b) >= 1, Complete(b), Parses(b),
         \A i \in DOMAIN b : /\ b[i] \in {c} \X DOMAIN y.reqs /\ After(y, b[i][2])
                             /\ \A j \in DOMAIN y.inq : b[i][2] <= y.inq[j],
         Window <= 1 => Single(y, b),
         ~(Window <= 1) => \A j \in DOMAIN y.inq : b[1][2] < y.inq[j],
         r.requestBuffer # <<>> => b[1] = r.requestBuffer[1],
         y.out = x.out, y.done = x.done, y.reqs = x.reqs, y.peer = x.peer,
         NEW q \in ClientState, q.state = "WRITING_RESPONSE", q.requestBuffer = <<>>,
         q.responseBuffer = r.responseBuffer, q.bytesWritten = 0,
         q.response.tag = b[1], ~q.response.headersSent
  PROVE  Link(c, y, q)
<1>1. IdleLink(x, r) /\ Shape(y, <<>>)
  BY DEF Link, Told
<1>2. 1 \in DOMAIN b /\ b[1] \in {c} \X DOMAIN y.reqs /\ After(y, b[1][2])
  OBVIOUS
<1>. DEFINE k == y.reqs[b[1][2]]
<1>3. KindOf(b[1]) = k
  BY <1>2, Front
<1>4. Have(b) \in 1..Len(b) /\ Len(b) \in Nat /\ Len(y.inq) \in Nat /\ y.rest \in 0..2
  BY HaveBounds, ConnectionFields
<1>5. k \in {"noBody", "withBody", "earlyMark"} /\ Have(b) >= Pieces(k)
  <2>1. k \in {"noBody", "withBody", "earlyMark"}
    BY <1>3 DEF Parses
  <2>2. CASE k = "earlyMark"
    BY <1>3, <2>2 DEF Parses, Pieces
  <2>3. CASE k # "earlyMark"
    BY <1>3, <2>1, <2>3 DEF Complete
  <2>. QED
    BY <2>1, <2>2, <2>3
<1>6. ASSUME Window <= 1
      PROVE  y.rest = 0 /\ b[1][2] = Len(y.reqs) /\ DOMAIN y.inq = {}
  <2>1. b[1][2] = Len(y.reqs) /\ y.reqs # <<>>
    BY <1>2, <1>6, ConnectionFields DEF Single
  <2>2. Len(b) + Len(y.inq) + y.rest <= Pieces(k)
    BY <1>6, <2>1 DEF Single
  <2>3. Pieces(k) \in 1..3
    BY PieceBounds
  <2>4. y.rest = 0 /\ Len(y.inq) = 0
    BY ONLY <1>4, <1>5, <2>2, <2>3
  <2>. QED
    BY <2>1, <2>4, ConnectionFields
<1>7. q.responseBuffer = Empty \/ (q.responseBuffer = BadRequest /\ k = "earlyMark")
  BY <1>1, <1>5 DEF IdleLink
<1>8. ~Underway(q)
  BY DEF Underway
<1>9. WritingLink(c, y, q)
  <2>1. \A j \in DOMAIN y.inq : b[1][2] < y.inq[j]
    BY <1>6
  <2>. QED
    BY <1>1, <1>2, <1>6, <1>7, <1>8, <2>1 DEF WritingLink, IdleLink
<1>. QED
  BY <1>1, <1>9 DEF Link

\* What connection x becomes when the client hears the first piece of the
\* response tagged t, or the last one, or both.
HearsFirst(x, y, r, t) ==
  \/ Underway(r) /\ y.out = x.out
  \/ ~Underway(r) /\ x.peer # "rst" /\ y.out = Append(x.out, t)
Hears(x, y, r, t) ==
  /\ HearsFirst(x, y, r, t) /\ y.done \in {x.done, x.done + 1}
  /\ y.reqs = x.reqs /\ y.inq = x.inq /\ y.rest = x.rest
  /\ y.peer = x.peer /\ y.status = x.status

\* A response is heard after those before it and before those queued, under its
\* own name or as the 400 for its request.
LEMMA Heeded ==
  ASSUME NEW c \in Conns, NEW x \in Connection, NEW y \in Connection, Told(c, x),
         x.status = "open",
         NEW r \in ClientState, Link(c, x, r), r.state = "WRITING_RESPONSE",
         NEW t, t = r.response.tag
                \/ (t = BadRequest /\ x.reqs[r.response.tag[2]] = "earlyMark"),
         Hears(x, y, r, t)
  PROVE  Told(c, y) /\ Len(y.out) = x.done + 1
<1>. DEFINE n == r.response.tag[2]
            L == Len(x.out)
<1>1. WritingLink(c, x, r) /\ Past(c, x) /\ Ahead(x) /\ Shape(x, <<>>)
  BY DEF Link, Told
<1>2. /\ DOMAIN x.out = 1..L /\ L \in Nat /\ x.done \in Nat /\ x.out \in Seq(Tags)
      /\ DOMAIN x.reqs = 1..Len(x.reqs) /\ Len(x.reqs) \in Nat
      /\ DOMAIN y.out = 1..Len(y.out)
  BY ConnectionFields
<1>3. n \in DOMAIN x.reqs /\ r.response.tag \in {c} \X DOMAIN x.reqs
  BY <1>1 DEF WritingLink
<1>4. y.reqs = x.reqs /\ y.inq = x.inq /\ y.rest = x.rest /\ y.status = "open"
      /\ y.done \in {x.done, x.done + 1}
  BY DEF Hears
<1>5. CASE Underway(r) /\ y.out = x.out
  <2>1. L = x.done + 1
    BY <1>1, <1>5 DEF WritingLink
  <2>2. Past(c, y)
    BY <1>1, <1>2, <1>4, <1>5, <2>1 DEF Past
  <2>3. Ahead(y)
    BY <1>1, <1>4, <1>5 DEF Ahead, After
  <2>4. Shape(y, <<>>)
    BY <1>1, <1>2, <1>4, <1>5 DEF Shape, Single, Distinct
  <2>. QED
    BY <1>5, <2>1, <2>2, <2>3, <2>4 DEF Told
<1>6. CASE ~Underway(r) /\ x.peer # "rst" /\ y.out = Append(x.out, t)
  <2>1. L = x.done /\ After(x, n)
    BY <1>1, <1>6 DEF WritingLink
  <2>2. /\ Len(y.out) = L + 1 /\ y.out[L + 1] = t
        /\ \A i \in 1..L : y.out[i] = x.out[i]
    BY ONLY <1>2, <1>6, AppendFacts
  <2>3. Window <= 1 => n = L + 1 /\ Len(x.reqs) = L + 1 /\ x.rest = 0
    <3>. SUFFICES ASSUME Window <= 1 PROVE n = L + 1 /\ Len(x.reqs) = L + 1 /\ x.rest = 0
      OBVIOUS
    <3>1. n = Len(x.reqs) /\ x.rest = 0
      BY <1>1 DEF WritingLink
    <3>2. Single(x, <<>>)
      BY <1>1 DEF Shape
    <3>3. L <= Len(x.reqs) /\ Len(x.reqs) <= L + 1
      BY <2>1, <3>2 DEF Single
    <3>4. L # Len(x.reqs)
      BY <1>2, <1>3, <2>1, <3>1, <3>2 DEF After, Single
    <3>. QED
      BY <1>2, <3>1, <3>3, <3>4
  <2>4. t = BadRequest => n = L + 1 /\ x.reqs[n] = "earlyMark"
    <3>. SUFFICES ASSUME t = BadRequest PROVE n = L + 1 /\ x.reqs[n] = "earlyMark"
      OBVIOUS
    <3>1. x.reqs[n] = "earlyMark"
      BY <1>3, TagsDiffer
    <3>2. x.reqs[n] \in Kinds
      BY <1>3, ConnectionFields, ElementOfSeq
    <3>. QED
      BY <2>3, <3>1, <3>2, PipeliningAssumption
  <2>5. t # BadRequest => t \in {c} \X DOMAIN x.reqs /\ t[2] = n
    BY <1>3
  <2>6. Number(y.out, L + 1) = n /\ \A i \in 1..L : Number(y.out, i) = Number(x.out, i)
    BY <2>2, <2>4, <2>5 DEF Number
  <2>. HIDE DEF n, L
  <2>7. \A i \in 1..L : Number(x.out, i) < n
    BY <1>2, <2>1 DEF After
  <2>8. Past(c, y)
    <3>1. ASSUME NEW i \in DOMAIN y.out
          PROVE  IF y.out[i] = BadRequest THEN i \in DOMAIN x.reqs /\ x.reqs[i] = "earlyMark"
                                          ELSE y.out[i] \in {c} \X DOMAIN x.reqs
      <4>1. CASE i \in 1..L
        BY <1>1, <1>2, <2>2, <4>1 DEF Past
      <4>2. CASE i = L + 1
        BY <1>3, <2>2, <2>4, <2>5, <4>2
      <4>. QED
        BY <1>2, <2>2, <4>1, <4>2
    <3>2. ASSUME NEW i \in DOMAIN y.out, NEW j \in DOMAIN y.out, i < j
          PROVE  Number(y.out, i) < Number(y.out, j)
      <4>1. i \in 1..L
        BY <1>2, <2>2, <3>2
      <4>2. CASE j \in 1..L
        BY <1>1, <1>2, <2>6, <3>2, <4>1, <4>2 DEF Past
      <4>3. CASE j = L + 1
        BY <2>6, <2>7, <4>1, <4>3
      <4>. QED
        BY <1>2, <2>2, <4>2, <4>3
    <3>. QED
      BY <1>2, <1>4, <2>1, <2>2, <3>1, <3>2 DEF Past
  <2>9. Ahead(y)
    <3>1. ASSUME NEW i \in DOMAIN x.inq PROVE After(y, x.inq[i])
      <4>1. After(x, x.inq[i]) /\ n < x.inq[i]
        BY <1>1, <3>1 DEF Ahead, WritingLink, n
      <4>. QED
        BY <1>2, <2>2, <2>6, <4>1 DEF After
    <3>. QED
      BY <1>1, <1>4, <3>1 DEF Ahead
  <2>10. Shape(y, <<>>)
    <3>1. CASE Window <= 1
      <4>1. Single(x, <<>>) /\ n = L + 1 /\ Len(x.reqs) = L + 1 /\ x.rest = 0
        BY <1>1, <2>3, <3>1 DEF Shape
      <4>2. \A i \in DOMAIN y.out : Number(y.out, i) = i
        BY <1>2, <2>2, <2>6, <4>1 DEF Single
      <4>. QED
        BY <1>2, <1>4, <2>1, <2>2, <3>1, <4>1, <4>2 DEF Shape, Single
    <3>2. CASE ~(Window <= 1)
      BY <1>1, <1>4, <3>2 DEF Shape, Distinct
    <3>. QED
      BY <3>1, <3>2
  <2>. QED
    BY <2>1, <2>2, <2>8, <2>9, <2>10 DEF Told, L
<1>. QED
  BY <1>5, <1>6 DEF Hears, HearsFirst

\* Part of a response was sent, and more is to come.
LEMMA GoesOn ==
  ASSUME NEW c \in Conns, NEW x \in Connection, NEW y \in Connection, Told(c, y),
         NEW r \in ClientState, Link(c, x, r), r.state = "WRITING_RESPONSE",
         y.reqs = x.reqs, y.inq = x.inq, y.rest = x.rest, Len(y.out) = y.done + 1,
         NEW q \in ClientState, q.state = r.state, q.requestBuffer = r.requestBuffer,
         q.response.tag = r.response.tag, q.response.fd = r.response.fd,
         q.responseBuffer \in {r.responseBuffer, ToSend(r)}, Underway(q),
         IF q.response.fd = NoFd THEN ~q.response.headersSent ELSE q.bytesWritten = 0
  PROVE  Link(c, y, q)
<1>1. WritingLink(c, x, r) /\ Shape(y, <<>>)
  BY DEF Link, Told
<1>2. \/ q.responseBuffer \in {Empty, r.response.tag}
      \/ q.responseBuffer = BadRequest /\ x.reqs[r.response.tag[2]] = "earlyMark"
  BY <1>1 DEF ToSend, WritingLink
<1>3. WritingLink(c, y, q)
  BY <1>1, <1>2 DEF WritingLink
<1>. QED
  BY <1>1, <1>3 DEF Link, WritingLink

\* A response has ended, or was given up after a reset, and its client waits.
LEMMA Idles ==
  ASSUME NEW c \in Conns, NEW y \in Connection, Told(c, y),
         Len(y.out) = y.done \/ y.peer = "rst",
         NEW q \in ClientState, q.state = "IDLE", q.requestBuffer = <<>>,
         q.responseBuffer = Empty, q.response.fd # NoFd => y.peer = "rst"
  PROVE  Link(c, y, q)
BY DEF Link, IdleLink, Told

\* What a 400 left in responseBuffer stands for.
LEMMA ToSendFacts ==
  ASSUME NEW c \in Conns, NEW x \in Connection, NEW r \in ClientState, Link(c, x, r),
         r.state = "WRITING_RESPONSE"
  PROVE  ToSend(r) = r.response.tag
           \/ (ToSend(r) = BadRequest /\ x.reqs[r.response.tag[2]] = "earlyMark")
BY DEF Link, WritingLink, ToSend

-----------------------------------------------------------------------------
(* All connections and all records. *)

\* Records that differ in age and keep-alive only.
Alike(r, q) ==
  /\ q.state = r.state /\ q.requestBuffer = r.requestBuffer /\ q.response = r.response
  /\ q.responseBuffer = r.responseBuffer /\ q.bytesWritten = r.bytesWritten
AllAlike(cl) == \A s \in Servers : \A fd \in Fd : Alike(client[s][fd], cl[s][fd])

LEMMA AlikeLink ==
  ASSUME NEW c, NEW x, NEW r, NEW q, Alike(r, q), Link(c, x, r)
  PROVE  Link(c, x, q)
BY DEF Alike, Link, IdleLink, WritingLink, Underway

\* A connection has one socket, and that is in one map.
LEMMA OwnConnection ==
  ASSUME Consistent, NEW s \in Servers, NEW t \in Servers,
         NEW fd \in Clients(s), NEW g \in Clients(t), ConnOf(fd) = ConnOf(g)
  PROVE  s = t /\ fd = g
<1>1. SocketsOwned /\ fd \in Fd /\ g \in Fd
  BY DEF Consistent, Clients, Keys
<1>2. conn[ConnOf(fd)].srv = s /\ conn[ConnOf(g)].srv = t /\ ConnOf(fd) \in Conns
  BY <1>1 DEF SocketsOwned
<1>. QED
  BY <1>1, <1>2, ConstantsAssumption DEF SocketsOwned

\* Everybody's records are well typed.
LEMMA EveryClient ==
  ASSUME Consistent, NEW s \in Servers, NEW fd \in Clients(s)
  PROVE  /\ fd \in Fd /\ client[s][fd] \in ClientState
         /\ ConnOf(fd) \in Conns /\ conn[ConnOf(fd)] \in Connection
         /\ conn[ConnOf(fd)].status = "open"
<1>1. fd \in Fd /\ SocketsOwned /\ TypeOK
  BY DEF Consistent, Clients, Keys
<1>. QED
  BY <1>1 DEF SocketsOwned, TypeOK

\* A step is harmless to the connections it leaves alone.
LEMMA Elsewhere ==
  ASSUME Consistent, Answers, \A c \in Conns : Told(c, conn[c])',
         \A s \in Servers : \A fd \in Clients(s)' :
           \/ /\ fd \in Clients(s) /\ ConnOf(fd)' = ConnOf(fd)
              /\ conn'[ConnOf(fd)] = conn[ConnOf(fd)]
              /\ Alike(client[s][fd], client'[s][fd])
           \/ Link(ConnOf(fd), conn[ConnOf(fd)], client[s][fd])'
  PROVE  Answers'
<1>1. ASSUME NEW s \in Servers, NEW fd \in Clients(s)'
      PROVE  Link(ConnOf(fd), conn[ConnOf(fd)], client[s][fd])'
  <2>1. ASSUME fd \in Clients(s), ConnOf(fd)' = ConnOf(fd),
               conn'[ConnOf(fd)] = conn[ConnOf(fd)], Alike(client[s][fd], client'[s][fd])
        PROVE  Link(ConnOf(fd), conn[ConnOf(fd)], client[s][fd])'
    <3>1. Link(ConnOf(fd), conn[ConnOf(fd)], client[s][fd])
      BY <2>1 DEF Answers
    <3>2. Link(ConnOf(fd), conn[ConnOf(fd)], client'[s][fd])
      BY <2>1, <3>1, AlikeLink
    <3>. QED
      BY <2>1, <3>2
  <2>. QED
    BY <1>1, <2>1
<1>. QED
  BY <1>1 DEF Answers

\* The client served gets record r and its connection becomes y, while the
\* others grow older at most.
LEMMA ServesOne ==
  ASSUME Consistent, Answers, NEW fd \in todo, NEW cl, SameKeys(cl), AllAlike(cl),
         NEW r \in ClientState, r.state # "absent", client' = PutAt(cl, turn, fd, r),
         \A g \in Fd : ConnOf(g)' = ConnOf(g),
         NEW c \in Conns, c = ConnOf(fd), NEW y, Told(c, y), Link(c, y, r),
         conn' = [conn EXCEPT ![c] = y]
  PROVE  Answers'
<1>1. /\ turn \in Servers /\ fd \in Fd /\ fd \in Clients(turn)
      /\ conn \in [Conns -> Connection]
  BY ServedFacts DEF Consistent, TypeOK
<1>2. /\ SameKeys(client') /\ client'[turn][fd] = r
      /\ \A s \in Servers : \A g \in Fd : s # turn \/ g # fd => client'[s][g] = cl[s][g]
  BY <1>1, PutFacts
<1>3. conn'[c] = y /\ \A d \in Conns \ {c} : conn'[d] = conn[d]
  BY <1>1
<1>4. \A d \in Conns : Told(d, conn[d])'
  BY <1>3 DEF Answers
<1>5. ASSUME NEW s \in Servers, NEW g \in Clients(s)'
      PROVE  \/ /\ g \in Clients(s) /\ ConnOf(g)' = ConnOf(g)
                /\ conn'[ConnOf(g)] = conn[ConnOf(g)] /\ Alike(client[s][g], client'[s][g])
             \/ Link(ConnOf(g), conn[ConnOf(g)], client[s][g])'
  <2>1. g \in Clients(s) /\ g \in Fd /\ ConnOf(g)' = ConnOf(g) /\ ConnOf(g) \in Conns
    BY <1>2, <1>5, EveryClient DEF SameKeys, Clients
  <2>2. CASE s = turn /\ g = fd
    BY <1>2, <1>3, <2>1, <2>2
  <2>3. CASE s # turn \/ g # fd
    <3>1. ConnOf(g) # c
      BY <1>1, <2>1, <2>3, OwnConnection
    <3>. QED
      BY <1>2, <1>3, <2>1, <2>3, <3>1 DEF AllAlike
  <2>. QED
    BY <2>2, <2>3
<1>. QED
  BY <1>4, <1>5, Elsewhere

\* Clients of one server are closed, from tables in which the connections of
\* the others are as they were.
LEMMA ClosesSome ==
  ASSUME Consistent, Answers, NEW s \in Servers, NEW F \in SUBSET Clients(s),
         NEW cl, AllAlike(cl), NEW t,
         NEW cn \in [Conns -> Connection], \A c \in Conns : Told(c, cn[c]),
         \A x \in Servers : \A fd \in Clients(x) :
            x # s \/ fd \notin F => /\ cn[ConnOf(fd)] = conn[ConnOf(fd)]
                                    /\ t[fd] = fdt[fd],
         CloseConnections(s, F, cl, t, cn),
         \A x \in Servers : Clients(x)' = IF x = s THEN Clients(s) \ F ELSE Clients(x)
  PROVE  Answers'
<1>1. /\ client' = [cl EXCEPT ![s] = Without(cl[s], F)]
      /\ fdt' = Release(t, F) /\ conn' = Shut(cn, F)
  BY DEF CloseConnections
<1>2. \A c \in Conns : Told(c, conn[c])'
  <2>. SUFFICES ASSUME NEW c \in Conns PROVE Told(c, Shut(cn, F)[c])
    BY <1>1
  <2>1. cn[c] \in Connection /\ Shut(cn, F)[c] \in {Hung(cn[c]), cn[c]}
    BY DEF Shut
  <2>. QED
    BY <2>1, HungTold
<1>3. ASSUME NEW x \in Servers, NEW fd \in Clients(x)'
      PROVE  /\ fd \in Clients(x) /\ ConnOf(fd)' = ConnOf(fd)
             /\ conn'[ConnOf(fd)] = conn[ConnOf(fd)] /\ Alike(client[x][fd], client'[x][fd])
  <2>1. fd \in Clients(x) /\ (x # s \/ fd \notin F)
    BY <1>3
  <2>2. fd \in Fd /\ ConnOf(fd) \in Conns
    BY <2>1, EveryClient
  <2>3. ~ \E g \in F : ConnOf(g) = ConnOf(fd)
    BY <2>1, OwnConnection
  <2>4. conn'[ConnOf(fd)] = conn[ConnOf(fd)]
    BY <1>1, <2>1, <2>2, <2>3 DEF Shut
  <2>5. fd \notin F
    BY <2>3
  <2>6. ConnOf(fd)' = ConnOf(fd)
    BY <1>1, <2>1, <2>2, <2>5 DEF Release, ConnOf
  <2>7. client'[x][fd] = cl[x][fd]
    BY <1>1, <2>1, <2>2, <2>5 DEF Without
  <2>. QED
    BY <2>1, <2>2, <2>4, <2>6, <2>7 DEF AllAlike
<1>. QED
  BY <1>2, <1>3, Elsewhere

\* Nothing that Answers looks at changes.
LEMMA NobodyServed ==
  ASSUME Consistent, Answers, AllAlike(client'), UNCHANGED <<fdt, conn>>,
         \A s \in Servers : Clients(s)' = Clients(s)
  PROVE  Answers'
<1>1. \A c \in Conns : Told(c, conn[c])'
  BY DEF Answers
<1>2. \A s \in Servers : \A fd \in Clients(s)' :
        /\ fd \in Clients(s) /\ ConnOf(fd)' = ConnOf(fd)
        /\ conn'[ConnOf(fd)] = conn[ConnOf(fd)] /\ Alike(client[s][fd], client'[s][fd])
  BY EveryClient DEF AllAlike, ConnOf
<1>. QED
  BY <1>1, <1>2, Elsewhere

\* Growing older, or not changing, is alike.
LEMMA AlikeOlder ==
  ASSUME Consistent
  PROVE  AllAlike(client) /\ \A d \in Nat : AllAlike(AllOlder(d))
<1>1. client \in [Servers -> [Fd -> ClientState]]
  BY DEF Consistent, TypeOK
<1>2. ASSUME NEW r \in ClientState, NEW d \in Nat PROVE Alike(r, Older(r, d))
  BY DEF Alike, Older, ClientState
<1>. QED
  BY <1>1, <1>2 DEF AllAlike, Alike, AllOlder

-----------------------------------------------------------------------------
(* The steps. *)

\* A connection changes and every client of it still fits.
LEMMA NetworkAnswers ==
  ASSUME Consistent, Answers, NEW c \in Conns, NEW y \in Connection,
         conn' = [conn EXCEPT ![c] = y], UNCHANGED <<client, fdt>>,
         Told(c, y), \A r \in ClientState : Link(c, conn[c], r) => Link(c, y, r)
  PROVE  Answers'
<1>1. conn'[c] = y /\ \A d \in Conns \ {c} : conn'[d] = conn[d]
  BY DEF Consistent, TypeOK
<1>2. \A d \in Conns : Told(d, conn[d])'
  BY <1>1 DEF Answers
<1>3. ASSUME NEW s \in Servers, NEW g \in Clients(s)'
      PROVE  \/ /\ g \in Clients(s) /\ ConnOf(g)' = ConnOf(g)
                /\ conn'[ConnOf(g)] = conn[ConnOf(g)] /\ Alike(client[s][g], client'[s][g])
             \/ Link(ConnOf(g), conn[ConnOf(g)], client[s][g])'
  <2>1. g \in Clients(s) /\ ConnOf(g)' = ConnOf(g) /\ client' = client
    BY <1>3 DEF Clients, Keys, ConnOf
  <2>2. client[s][g] \in ClientState /\ ConnOf(g) \in Conns
    BY <2>1, EveryClient
  <2>3. Alike(client[s][g], client'[s][g])
    BY <2>1 DEF Alike
  <2>4. CASE ConnOf(g) = c
    BY <1>1, <2>1, <2>2, <2>4 DEF Answers
  <2>5. CASE ConnOf(g) # c
    BY <1>1, <2>1, <2>2, <2>3, <2>5
  <2>. QED
    BY <2>4, <2>5
<1>. QED
  BY <1>2, <1>3, Elsewhere

\* What a client or the network does.
LEMMA AnswersNetwork ==
  ASSUME Consistent, Answers, NEW c \in Conns, Network(c)
  PROVE  Answers'
<1>. DEFINE x == conn[c]
<1>1. /\ conn \in [Conns -> Connection] /\ x \in Connection /\ Told(c, x)
      /\ client' = client /\ fdt' = fdt
  BY DEF Consistent, TypeOK, Answers, Network, Connect, SendRequest, SendMore,
         Hangup, Reset, Stall, Resume
<1>2. ASSUME NEW y \in Connection, conn' = [conn EXCEPT ![c] = y],
             y.out = x.out, y.done = x.done, y.reqs = x.reqs, y.inq = x.inq,
             y.rest = x.rest, x.peer = "rst" => y.peer = "rst",
             y.status \in {"new", "queued"} => x.status \in {"new", "queued"}
      PROVE  Answers'
  BY <1>1, <1>2, SameRequests, NetworkAnswers
<1>3. ASSUME NEW s \in Servers, Connect(c, s) PROVE Answers'
  <2>. DEFINE y == [x EXCEPT !.status = "queued", !.srv = s]
  <2>1. /\ y \in Connection /\ y.out = x.out /\ y.done = x.done /\ y.reqs = x.reqs
        /\ y.inq = x.inq /\ y.rest = x.rest /\ y.peer = x.peer /\ x.status = "new"
        /\ conn' = [conn EXCEPT ![c] = y]
    BY <1>1, <1>3 DEF Connect, Connection
  <2>. QED
    BY <1>2, <2>1
<1>4. ASSUME NEW k \in Kinds, SendRequest(c, k) PROVE Answers'
  <2>. DEFINE q == Append(x.reqs, k)
              p == Append(x.inq, Len(x.reqs) + 1)
              n == Pieces(k) - 1
              y == [x EXCEPT !.reqs = q, !.rest = n, !.inq = p]
  <2>1. /\ x.peer = "up" /\ x.rest = 0 /\ Len(x.reqs) < MaxRequests
        /\ Len(x.reqs) < x.done + Window /\ conn' = [conn EXCEPT ![c] = y]
    BY <1>4, <1>1 DEF SendRequest
  <2>2. q \in Seq(Kinds) /\ p \in Seq(1..MaxRequests) /\ n \in 0..2
    <3>1. Pieces(k) \in 1..3
      BY PieceBounds
    <3>2. n \in 0..2
      BY ONLY <3>1
    <3>. QED
      BY <1>1, <2>1, <3>2, ConnectionFields, ConstantsAssumption
  <2>3. /\ y \in Connection /\ y.out = x.out /\ y.done = x.done /\ y.reqs = q
        /\ y.inq = p /\ y.rest = n /\ y.peer = x.peer /\ y.status = x.status
    <3>. HIDE DEF q, p, n
    <3>. QED
      BY <1>1, <2>2 DEF Connection
  <2>. HIDE DEF y
  <2>4. Told(c, y) /\ \A r \in ClientState : Link(c, x, r) => Link(c, y, r)
    BY <1>1, <2>1, <2>3, Requested
  <2>. QED
    BY <1>1, <2>1, <2>3, <2>4, NetworkAnswers
<1>5. CASE SendMore(c)
  <2>. DEFINE p == Append(x.inq, Len(x.reqs))
              n == x.rest - 1
              y == [x EXCEPT !.rest = n, !.inq = p]
  <2>1. x.rest > 0 /\ conn' = [conn EXCEPT ![c] = y]
    BY <1>5, <1>1 DEF SendMore
  <2>2. p \in Seq(1..MaxRequests) /\ n \in 0..2
    <3>1. Len(x.reqs) \in 1..MaxRequests
      <4>1. RequestsBounded
        BY DEF Consistent
      <4>2. x.reqs # <<>> /\ Len(x.reqs) <= MaxRequests
        BY <2>1, <4>1 DEF RequestsBounded
      <4>. QED
        BY <1>1, <4>2, ConnectionFields, ConstantsAssumption
    <3>. QED
      BY <1>1, <2>1, <3>1, ConnectionFields
  <2>3. /\ y \in Connection /\ y.out = x.out /\ y.done = x.done /\ y.reqs = x.reqs
        /\ y.inq = p /\ y.rest = n /\ y.peer = x.peer /\ y.status = x.status
    <3>. HIDE DEF p, n
    <3>. QED
      BY <1>1, <2>2 DEF Connection
  <2>. HIDE DEF y
  <2>4. Told(c, y) /\ \A r \in ClientState : Link(c, x, r) => Link(c, y, r)
    BY <1>1, <2>1, <2>3, Continued
  <2>. QED
    BY <1>1, <2>1, <2>3, <2>4, NetworkAnswers
<1>6. CASE Hangup(c) \/ Reset(c) \/ Stall(c) \/ Resume(c)
  <2>1. PICK p \in {"up", "fin", "rst"}, l \in {"never", "now", "over"} :
          conn' = [conn EXCEPT ![c] = [x EXCEPT !.peer = p, !.stall = l]]
          /\ (x.peer = "rst" => p = "rst")
    <3>1. x.peer \in {"up", "fin", "rst"} /\ x.stall \in {"never", "now", "over"}
      BY <1>1 DEF Connection
    <3>2. CASE Hangup(c)
      <4>1. conn' = [conn EXCEPT ![c] = [x EXCEPT !.peer = "fin", !.stall = x.stall]]
        BY <1>1, <3>2 DEF Hangup, Connection
      <4>. QED
        BY <3>1, <3>2, <4>1 DEF Hangup
    <3>3. CASE Reset(c)
      <4>1. conn' = [conn EXCEPT ![c] = [x EXCEPT !.peer = "rst", !.stall = x.stall]]
        BY <1>1, <3>3 DEF Reset, Connection
      <4>. QED
        BY <3>1, <3>3, <4>1
    <3>4. CASE Stall(c)
      <4>1. conn' = [conn EXCEPT ![c] = [x EXCEPT !.peer = x.peer, !.stall = "now"]]
        BY <1>1, <3>4 DEF Stall, Connection
      <4>. QED
        BY <3>1, <3>4, <4>1
    <3>5. CASE Resume(c)
      <4>1. conn' = [conn EXCEPT ![c] = [x EXCEPT !.peer = x.peer, !.stall = "over"]]
        BY <1>1, <3>5 DEF Resume, Connection
      <4>. QED
        BY <3>1, <3>5, <4>1
    <3>. QED
      BY <1>6, <3>2, <3>3, <3>4, <3>5
  <2>. DEFINE y == [x EXCEPT !.peer = p, !.stall = l]
  <2>2. /\ y \in Connection /\ y.out = x.out /\ y.done = x.done /\ y.reqs = x.reqs
        /\ y.inq = x.inq /\ y.rest = x.rest /\ y.status = x.status /\ y.peer = p
    BY <1>1 DEF Connection
  <2>. QED
    BY <1>2, <2>1, <2>2
<1>. QED
  BY <1>3, <1>4, <1>5, <1>6, SMTT(30) DEF Network

\* What recv() leaves: connection c, which was x, is y, and what was received so
\* far is b, as Drawn says.
Fetched(c, x, y, r, b) ==
  /\ y \in Connection /\ y.out = x.out /\ y.done = x.done /\ y.reqs = x.reqs
  /\ y.peer = x.peer /\ Told(c, y) /\ b \in Seq(Requests) /\ Len(b) >= 1
  /\ \A i \in DOMAIN b : /\ b[i] \in {c} \X DOMAIN y.reqs /\ After(y, b[i][2])
                         /\ \A j \in DOMAIN y.inq : b[i][2] <= y.inq[j]
  /\ Window <= 1 => Single(y, b)
  /\ ~(Window <= 1) => \A j \in DOMAIN y.inq : b[1][2] < y.inq[j]
  /\ r.requestBuffer # <<>> => b[1] = r.requestBuffer[1]

LEMMA Fetch ==
  ASSUME Consistent, Answers, NEW fd \in todo, NEW k, Receiving(fd, k)
  PROVE  LET c == ConnOf(fd)
             y == Drained(fd, k)[c]
             r == client[turn][fd]
             q == Received(fd, k)
         IN /\ Fetched(c, conn[c], y, r, q.requestBuffer)
            /\ Drained(fd, k) = [conn EXCEPT ![c] = y]
            /\ q \in ClientState /\ q.state = "IDLE" /\ q.response = r.response
            /\ q.responseBuffer = r.responseBuffer
            /\ r \in ClientState /\ r.state = "IDLE"
            /\ c \in Conns /\ conn[c] \in Connection /\ Link(c, conn[c], r)
<1>. DEFINE c == ConnOf(fd)
            x == conn[c]
            y == Drained(fd, k)[c]
            r == client[turn][fd]
            q == Received(fd, k)
            b == q.requestBuffer
            p == SubSeq(x.inq, k + 1, Len(x.inq))
<1>1. /\ turn \in Servers /\ fd \in Clients(turn) /\ c \in Conns /\ x \in Connection
      /\ r \in ClientState /\ r.state = "IDLE" /\ k \in 1..Len(x.inq)
      /\ conn \in [Conns -> Connection]
  BY ServedFacts DEF Receiving, Consistent, TypeOK
<1>2. Told(c, x) /\ Link(c, x, r)
  BY <1>1 DEF Answers
<1>3. q \in ClientState /\ q.state = "IDLE" /\ q.response = r.response
  BY ReceivedFacts
<1>4. Drained(fd, k) = [conn EXCEPT ![c] = [x EXCEPT !.inq = p]]
  BY <1>1 DEF Drained
<1>5. /\ y = [x EXCEPT !.inq = p] /\ Drained(fd, k) = [conn EXCEPT ![c] = y]
  BY <1>1, <1>4
<1>6. /\ y.out = x.out /\ y.done = x.done /\ y.reqs = x.reqs /\ y.rest = x.rest
      /\ y.peer = x.peer /\ y.status = x.status /\ y.inq = p
  BY <1>1, <1>5 DEF Connection
<1>7. /\ b = r.requestBuffer \o [i \in 1..k |-> <<c, x.inq[i]>>]
      /\ q.responseBuffer = r.responseBuffer
  BY <1>1 DEF Received, ClientState
<1>8. /\ b \in Seq(Requests) /\ p \in Seq(1..MaxRequests)
      /\ Moved(c, k, r.requestBuffer, x.inq, b, p)
  <2>1. r.requestBuffer \in Seq(Requests) /\ x.inq \in Seq(1..MaxRequests)
    BY <1>1 DEF ClientState, Connection
  <2>. HIDE DEF c, x, r, q
  <2>. QED
    BY <1>1, <1>7, <2>1, Taken
<1>9. y \in Connection
  <2>1. SameConnections(Drained(fd, k))
    BY ReceivedFacts
  <2>. QED
    BY <1>1, <2>1 DEF SameConnections
<1>. HIDE DEF c, x, y, r, q, p
<1>10. Fetched(c, x, y, r, b)
  <2>. HIDE DEF b
  <2>. QED
    BY <1>1, <1>2, <1>6, <1>8, <1>9, Drawn DEF Fetched
<1>. QED
  BY <1>1, <1>2, <1>3, <1>5, <1>7, <1>10 DEF c, x, y, r, q

\* What a request is answered with, when and by whom it is served.
LEMMA AnsweringRecord ==
  ASSUME Consistent, NEW fd \in todo, NEW k, Receiving(fd, k),
         NEW keep \in BOOLEAN, NEW f \in Fd \cup {NoFd}, NEW size \in 0..RespSize
  PROVE  LET q == Answering(fd, k, keep, f, size)
             p == Received(fd, k)
         IN /\ q.requestBuffer = <<>> /\ q.responseBuffer = p.responseBuffer
            /\ q.bytesWritten = 0 /\ q.response.tag = p.requestBuffer[1]
            /\ q.response.headersSent = FALSE
<1>. DEFINE p == Received(fd, k)
            v == [tag |-> p.requestBuffer[1], fd |-> f, chunks |-> size,
                  headersSent |-> FALSE]
            q == Answering(fd, k, keep, f, size)
<1>1. p \in ClientState
  BY ReceivedFacts
<1>2. q = [p EXCEPT !.state = "WRITING_RESPONSE", !.requestBuffer = <<>>,
                    !.keepAlive = keep, !.bytesWritten = 0, !.response = v]
  BY DEF Answering
<1>3. v.tag = p.requestBuffer[1] /\ v.headersSent = FALSE
  OBVIOUS
<1>. HIDE DEF p, v, q
<1>4. /\ q.requestBuffer = <<>> /\ q.responseBuffer = p.responseBuffer
      /\ q.bytesWritten = 0 /\ q.response = v
  BY <1>1, <1>2 DEF ClientState
<1>. QED
  BY <1>3, <1>4 DEF p, q

\* A request is answered, whatever descriptor its response streams from.
LEMMA AnswersRespond ==
  ASSUME Consistent, Answers, NEW fd \in todo, NEW k, Processing(fd, k),
         NEW keep \in BOOLEAN, NEW f \in Fd \cup {NoFd}, NEW size \in 0..RespSize,
         NEW d \in HandlerDelays, AnswerWith(fd, k, d, Answering(fd, k, keep, f, size)),
         \A g \in Fd : ConnOf(g)' = ConnOf(g)
  PROVE  Answers'
<1>. DEFINE c == ConnOf(fd)
            x == conn[c]
            y == Drained(fd, k)[c]
            r == client[turn][fd]
            p == Received(fd, k)
            b == p.requestBuffer
            q == Answering(fd, k, keep, f, size)
<1>1. Receiving(fd, k) /\ Complete(b) /\ Parses(b) /\ d \in Nat
  BY ConstantsAssumption DEF Processing
<1>2. /\ Fetched(c, x, y, r, b) /\ Drained(fd, k) = [conn EXCEPT ![c] = y]
      /\ r \in ClientState /\ r.state = "IDLE" /\ p.responseBuffer = r.responseBuffer
      /\ c \in Conns /\ x \in Connection /\ Link(c, x, r)
  BY <1>1, Fetch
<1>3. q \in ClientState /\ q.state = "WRITING_RESPONSE"
  BY <1>1, AnsweringFacts
<1>4. /\ q.requestBuffer = <<>> /\ q.responseBuffer = p.responseBuffer
      /\ q.bytesWritten = 0 /\ q.response.tag = b[1] /\ ~q.response.headersSent
  BY <1>1, AnsweringRecord, ZenonT(40)
<1>5. client' = PutAt(AllOlder(d), turn, fd, q) /\ conn' = Drained(fd, k)
  BY DEF AnswerWith, PutAt
<1>6. SameKeys(AllOlder(d)) /\ AllAlike(AllOlder(d))
  BY <1>1, OlderFacts, AlikeOlder
<1>7. x = conn[c] /\ c = ConnOf(fd)
  OBVIOUS
<1>. HIDE DEF c, x, y, r, p, b, q
<1>8. Link(c, y, q)
  BY <1>1, <1>2, <1>3, <1>4, <1>7, NowWriting, ZenonT(40) DEF Fetched
<1>9. Told(c, y)
  BY <1>2 DEF Fetched
<1>. QED
  BY <1>2, <1>3, <1>5, <1>6, <1>7, <1>8, <1>9, ServesOne

\* The client served is closed, with what it has heard and sent last.
LEMMA AnswersClose ==
  ASSUME Consistent, Answers, NEW fd \in todo, NEW cl, SameKeys(cl), SameResponses(cl),
         AllAlike(cl), NEW t, FilesClosed(t, turn, {fd}), NEW cn, SameConnections(cn),
         NEW y, Told(ConnOf(fd), y), cn = [conn EXCEPT ![ConnOf(fd)] = y],
         CloseConnections(turn, {fd}, cl, t, cn)
  PROVE  Answers'
<1>1. /\ turn \in Servers /\ fd \in Clients(turn) /\ ConnOf(fd) \in Conns
      /\ conn \in [Conns -> Connection]
  BY ServedFacts DEF Consistent, TypeOK
<1>2. TurnedAway(cn) /\ cn \in [Conns -> Connection]
  BY DEF SameConnections, TurnedAway
<1>3. \A x \in Servers : Clients(x)' = IF x = turn THEN Clients(turn) \ {fd} ELSE Clients(x)
  BY <1>1, <1>2, CloseTables
<1>4. \A c \in Conns : Told(c, cn[c])
  BY <1>1 DEF Answers
<1>5. ASSUME NEW x \in Servers, NEW g \in Clients(x), x # turn \/ g \notin {fd}
      PROVE  cn[ConnOf(g)] = conn[ConnOf(g)] /\ t[g] = fdt[g]
  <2>1. g \in Fd /\ ConnOf(g) \in Conns /\ fdt[g].kind = "sock"
    BY EveryClient DEF Consistent, SocketsOwned
  <2>2. ConnOf(g) # ConnOf(fd)
    BY <1>1, <1>5, OwnConnection
  <2>. QED
    BY <1>1, <2>1, <2>2 DEF FilesClosed
<1>. QED
  BY <1>1, <1>2, <1>3, <1>4, <1>5, ClosesSome

\* A response ends: its client waits for the next request or is closed.
LEMMA AnswersEnd ==
  ASSUME Consistent, Answers, NEW fd \in todo, NEW r \in ClientState,
         NEW t, FilesClosed(t, turn, {fd}), NEW cn, SameConnections(cn),
         NEW y \in Connection, Told(ConnOf(fd), y), cn = [conn EXCEPT ![ConnOf(fd)] = y],
         Len(y.out) = y.done \/ y.peer = "rst", r.response.fd # NoFd => y.peer = "rst",
         EndResponse(fd, r, t, cn)
  PROVE  Answers'
<1>. DEFINE q == Cleared(r)
<1>1. SameKeys(client) /\ SameResponses(client) /\ AllAlike(client)
  BY OlderFacts, NothingClosed, AlikeOlder
<1>2. CASE r.keepAlive
  <2>1. client' = PutAt(client, turn, fd, q) /\ fdt' = t /\ conn' = cn
    BY <1>2 DEF EndResponse, PutClient, PutAt
  <2>2. /\ q \in ClientState /\ q.state = "IDLE" /\ q.response = r.response
        /\ q.requestBuffer = <<>> /\ q.responseBuffer = Empty
    BY ClearedFacts DEF Cleared, ClientState
  <2>3. ConnOf(fd) \in Conns
    BY ServedFacts
  <2>4. Link(ConnOf(fd), y, q)
    <3>. HIDE DEF q
    <3>. QED
      BY <2>2, <2>3, Idles
  <2>5. \A g \in Fd : ConnOf(g)' = ConnOf(g)
    <3>1. \A g \in Fd : fdt[g].kind = "file" => ConnOf(g) = NoConn
      BY DEF Consistent, TableShape
    <3>2. Entry("free").conn = NoConn
      BY DEF Entry
    <3>. QED
      BY <2>1, <3>1, <3>2 DEF FilesClosed, ConnOf
  <2>. HIDE DEF q
  <2>. QED
    BY <1>1, <2>1, <2>2, <2>3, <2>4, <2>5, ServesOne
<1>3. CASE ~r.keepAlive
  <2>1. CloseConnections(turn, {fd}, client, t, cn)
    BY <1>3 DEF EndResponse
  <2>. QED
    BY <1>1, <2>1, AnswersClose
<1>. QED
  BY <1>2, <1>3

\* What handleClientData does.
LEMMA AnswersRead ==
  ASSUME Consistent, Answers, NEW fd \in todo, Read(fd)
  PROVE  Answers'
<1>. DEFINE c == ConnOf(fd)
<1>1. /\ c \in Conns /\ conn \in [Conns -> Connection] /\ Told(c, conn[c])
      /\ conn = [conn EXCEPT ![c] = conn[c]] /\ SameConnections(conn)
      /\ FilesClosed(fdt, turn, {fd}) /\ SameKeys(client) /\ SameResponses(client)
      /\ AllAlike(client)
  BY ServedFacts, ConnSame, NothingClosed, AlikeOlder DEF Consistent, TypeOK, Answers
<1>2. CASE ReadNothing(fd)
  <2>1. client' = client /\ fdt' = fdt /\ conn' = conn /\ srvMaxFd' = srvMaxFd
    BY <1>2 DEF ReadNothing
  <2>2. \A s \in Servers : Clients(s)' = Clients(s)
    BY <2>1 DEF Clients, Keys
  <2>. QED
    BY <1>1, <2>1, <2>2, NobodyServed
<1>3. CASE ReadClosed(fd)
  <2>1. CloseConnections(turn, {fd}, client, fdt, conn)
    BY <1>3 DEF ReadClosed
  <2>. QED
    BY <1>1, <2>1, AnswersClose
<1>4. ASSUME NEW k, ReadIncomplete(fd, k) \/ ReadBadRequest(fd, k) PROVE Answers'
  <2>. DEFINE x == conn[c]
              y == Drained(fd, k)[c]
              r == client[turn][fd]
              p == Received(fd, k)
              b == p.requestBuffer
              q == IF Complete(b) THEN [p EXCEPT !.responseBuffer = BadRequest] ELSE p
  <2>1. /\ Receiving(fd, k) /\ conn' = Drained(fd, k) /\ fdt' = fdt
        /\ Complete(b) => ~Parses(b)
        /\ client' = PutAt(client, turn, fd, q)
    BY <1>4 DEF ReadIncomplete, ReadBadRequest, PutClient, PutAt
  <2>2. /\ Fetched(c, x, y, r, b) /\ Drained(fd, k) = [conn EXCEPT ![c] = y]
        /\ p \in ClientState /\ p.state = "IDLE" /\ p.response = r.response
        /\ p.responseBuffer = r.responseBuffer /\ r \in ClientState /\ r.state = "IDLE"
        /\ c \in Conns /\ x \in Connection /\ Link(c, x, r)
    BY <2>1, Fetch
  <2>3. x = conn[c] /\ c = ConnOf(fd) /\ b = p.requestBuffer
    OBVIOUS
  <2>. HIDE DEF x, y, r, p, b
  <2>4. /\ q \in ClientState /\ q.state = "IDLE" /\ q.requestBuffer = b
        /\ q.response = r.response
        /\ q.responseBuffer = r.responseBuffer
             \/ (q.responseBuffer = BadRequest /\ ~Parses(b))
    BY <2>1, <2>2, <2>3, RecordTypes DEF ClientState
  <2>5. Window <= 1
    <3>1. b \in Seq(Requests) /\ Len(b) >= 1 /\ b[1] \in {c} \X DOMAIN x.reqs
      BY <2>2 DEF Fetched
    <3>. QED
      BY <2>1, <2>2, <2>3, <3>1, Pipelined
  <2>. HIDE DEF q, c
  <2>6. Link(c, y, q) /\ Told(c, y)
    BY <2>2, <2>3, <2>4, <2>5, StillIdle DEF Fetched
  <2>7. \A g \in Fd : ConnOf(g)' = ConnOf(g)
    BY <2>1 DEF ConnOf
  <2>. QED
    BY <1>1, <2>1, <2>2, <2>3, <2>4, <2>6, <2>7, ServesOne
<1>5. ASSUME NEW k, ProcessThrows(fd, k) PROVE Answers'
  <2>1. PICK d \in HandlerDelays : CloseConnections(turn, {fd}, AllOlder(d), fdt, Drained(fd, k))
    BY <1>5 DEF ProcessThrows
  <2>2. Receiving(fd, k) /\ d \in Nat
    BY <1>5, ConstantsAssumption DEF ProcessThrows, Processing
  <2>3. /\ SameKeys(AllOlder(d)) /\ SameResponses(AllOlder(d)) /\ AllAlike(AllOlder(d))
    BY <2>2, OlderFacts, AlikeOlder DEF SameResponses, Clients, Keys
  <2>4. /\ SameConnections(Drained(fd, k)) /\ Told(c, Drained(fd, k)[c])
        /\ Drained(fd, k) = [conn EXCEPT ![c] = Drained(fd, k)[c]]
    BY <2>2, ReceivedFacts, Fetch DEF Fetched
  <2>. QED
    BY <1>1, <2>1, <2>3, <2>4, AnswersClose
<1>6. ASSUME NEW k, RespondBuffered(fd, k) PROVE Answers'
  <2>1. PICK d \in HandlerDelays, keep \in BOOLEAN :
          AnswerWith(fd, k, d, Answering(fd, k, keep, NoFd, 0))
    BY <1>6 DEF RespondBuffered
  <2>2. Processing(fd, k) /\ fdt' = fdt /\ 0 \in 0..RespSize /\ NoFd \in Fd \cup {NoFd}
    BY <1>6, ConstantsAssumption DEF RespondBuffered
  <2>3. \A g \in Fd : ConnOf(g)' = ConnOf(g)
    BY <2>2 DEF ConnOf
  <2>. QED
    BY <2>1, <2>2, <2>3, AnswersRespond
<1>7. ASSUME NEW k, RespondFile(fd, k) PROVE Answers'
  <2>1. PICK d \in HandlerDelays, keep \in BOOLEAN, size \in 0..RespSize, f \in Free :
          /\ AnswerWith(fd, k, d, Answering(fd, k, keep, f, size))
          /\ fdt' = [fdt EXCEPT ![f] = Entry("file")]
    BY <1>7 DEF RespondFile
  <2>2. Processing(fd, k) /\ f \in Fd \cup {NoFd} /\ ConnOf(f) = NoConn
    BY <1>7 DEF RespondFile, Free, Consistent, TableShape
  <2>3. \A g \in Fd : ConnOf(g)' = ConnOf(g)
    BY <2>1, <2>2 DEF ConnOf, Entry, Consistent, TypeOK
  <2>. QED
    BY <2>1, <2>2, <2>3, AnswersRespond
<1>. QED
  BY <1>2, <1>3, <1>4, <1>5, <1>6, <1>7 DEF Read

\* What the client of fd has heard when the first or the last piece is sent.
LEMMA HeardRecord ==
  ASSUME Consistent, NEW fd \in todo, NEW tag \in Tags,
         NEW first \in BOOLEAN, NEW last \in BOOLEAN,
         NEW r, first <=> ~Underway(r), first => conn[ConnOf(fd)].peer # "rst"
  PROVE  LET x == conn[ConnOf(fd)]
             cn == Heard(fd, tag, first, last)
             y == cn[ConnOf(fd)]
         IN /\ SameConnections(cn) /\ cn = [conn EXCEPT ![ConnOf(fd)] = y]
            /\ y \in Connection /\ Hears(x, y, r, tag)
            /\ y.done = IF last THEN x.done + 1 ELSE x.done
<1>. DEFINE c == ConnOf(fd)
            x == conn[c]
            cn == Heard(fd, tag, first, last)
            o == IF first THEN Append(x.out, tag) ELSE x.out
            n == IF last THEN x.done + 1 ELSE x.done
            y == [x EXCEPT !.out = o, !.done = n]
<1>1. c \in Conns /\ x \in Connection /\ conn \in [Conns -> Connection]
  BY ServedFacts DEF Consistent, TypeOK
<1>2. SameConnections(cn)
  BY HeardFacts
<1>3. cn = [conn EXCEPT ![c] = y]
  BY <1>1 DEF Heard, Connection
<1>4. y = cn[c] /\ cn[c] \in Connection
  BY <1>1, <1>2, <1>3 DEF SameConnections
<1>. HIDE DEF o, n
<1>5. /\ y.out = o /\ y.done = n /\ y.reqs = x.reqs /\ y.inq = x.inq /\ y.rest = x.rest
      /\ y.peer = x.peer /\ y.status = x.status
  BY <1>1 DEF Connection
<1>. HIDE DEF y
<1>6. HearsFirst(x, y, r, tag)
  <2>1. CASE first
    <3>1. ~Underway(r) /\ x.peer # "rst" /\ o = Append(x.out, tag)
      BY <2>1 DEF o
    <3>. QED
      BY <1>5, <3>1 DEF HearsFirst
  <2>2. CASE ~first
    <3>1. Underway(r) /\ o = x.out
      BY <2>2 DEF o
    <3>. QED
      BY <1>5, <3>1 DEF HearsFirst
  <2>. QED
    BY <2>1, <2>2
<1>7. n = (IF last THEN x.done + 1 ELSE x.done) /\ n \in {x.done, x.done + 1}
  BY DEF n
<1>. QED
  BY <1>1, <1>2, <1>3, <1>4, <1>5, <1>6, <1>7 DEF Hears

\* The client being written to.
LEMMA WriterFacts ==
  ASSUME Consistent, Answers, NEW fd \in todo, client[turn][fd].state = "WRITING_RESPONSE"
  PROVE  LET c == ConnOf(fd)
             x == conn[c]
             r == client[turn][fd]
         IN /\ c \in Conns /\ x \in Connection /\ x.status = "open" /\ Told(c, x)
            /\ r \in ClientState /\ Link(c, x, r) /\ WritingLink(c, x, r)
            /\ r.response.tag \in Tags /\ ToSend(r) \in Tags
            /\ ToSend(r) = r.response.tag
                 \/ (ToSend(r) = BadRequest /\ x.reqs[r.response.tag[2]] = "earlyMark")
            /\ conn = [conn EXCEPT ![c] = x]
<1>. DEFINE c == ConnOf(fd)
            x == conn[c]
            r == client[turn][fd]
<1>1. /\ c \in Conns /\ x \in Connection /\ x.status = "open" /\ turn \in Servers
      /\ fd \in Clients(turn) /\ r \in ClientState /\ conn \in [Conns -> Connection]
  BY ServedFacts DEF Consistent, TypeOK
<1>2. Told(c, x) /\ Link(c, x, r) /\ WritingLink(c, x, r)
  BY <1>1 DEF Answers, Link
<1>3. r.response.tag \in Tags /\ ToSend(r) \in Tags
  BY <1>1 DEF ToSend, ClientState, Response
<1>. QED
  BY <1>1, <1>2, <1>3, ToSendFacts

\* A piece of a buffered response is sent.
LEMMA AnswersSend ==
  ASSUME Consistent, Answers, NEW fd \in todo, NEW n \in 1..RespSize, SendBuffered(fd, n)
  PROVE  Answers'
<1>. DEFINE c == ConnOf(fd)
            x == conn[c]
            r == client[turn][fd]
            tag == ToSend(r)
            m == r.bytesWritten + n
            q == [r EXCEPT !.responseBuffer = tag, !.age = 0, !.bytesWritten = m]
            first == r.bytesWritten = 0
            last == q.bytesWritten >= RespSize
            cn == Heard(fd, tag, first, last)
            y == cn[c]
<1>1. /\ r.state = "WRITING_RESPONSE" /\ r.response.fd = NoFd /\ x.peer # "rst"
      /\ n <= RespSize - r.bytesWritten
  BY DEF SendBuffered, Buffered, Sendable, Broken, Remaining
<1>2. /\ c \in Conns /\ x \in Connection /\ x.status = "open" /\ Told(c, x)
      /\ r \in ClientState /\ Link(c, x, r) /\ WritingLink(c, x, r)
      /\ tag \in Tags
      /\ tag = r.response.tag
           \/ (tag = BadRequest /\ x.reqs[r.response.tag[2]] = "earlyMark")
  BY <1>1, WriterFacts
<1>3. IF last THEN EndResponse(fd, q, fdt, cn)
              ELSE client' = PutAt(client, turn, fd, q) /\ conn' = cn /\ fdt' = fdt
  BY DEF SendBuffered, PutClient, PutAt
<1>4. r.bytesWritten \in 0..RespSize /\ ~r.response.headersSent
  BY <1>1, <1>2 DEF ClientState, WritingLink
<1>5. first <=> ~Underway(r)
  BY <1>4 DEF Underway
<1>6. /\ SameConnections(cn) /\ cn = [conn EXCEPT ![c] = y] /\ y \in Connection
      /\ Hears(x, y, r, tag) /\ y.done = IF last THEN x.done + 1 ELSE x.done
  <2>1. first \in BOOLEAN /\ last \in BOOLEAN
    OBVIOUS
  <2>. HIDE DEF tag, first, last, r
  <2>. QED
    BY <1>1, <1>2, <1>5, <2>1, HeardRecord
<1>7. m \in 0..RespSize /\ m > 0 /\ 0 \in 0..AgeCap
  <2>. HIDE DEF r
  <2>. QED
    BY <1>1, <1>4, ConstantsAssumption
<1>8. c = ConnOf(fd)
  OBVIOUS
<1>9. /\ q \in ClientState /\ q.state = r.state /\ q.requestBuffer = r.requestBuffer
      /\ q.response = r.response /\ q.responseBuffer = tag /\ q.bytesWritten = m
  <2>. HIDE DEF r, tag, m
  <2>. QED
    BY <1>2, <1>7 DEF ClientState
<1>10. tag = ToSend(r)
  OBVIOUS
<1>11. r = client[turn][fd]
  OBVIOUS
<1>. HIDE DEF c, x, r, m, q, tag, first, last, cn, y
<1>12. Told(c, y) /\ Len(y.out) = x.done + 1
  BY <1>1, <1>2, <1>6, Heeded
<1>13. CASE last
  <2>1. Len(y.out) = y.done
    BY <1>6, <1>12, <1>13
  <2>2. q.response.fd = NoFd
    BY <1>1, <1>9
  <2>. QED
    BY <1>3, <1>6, <1>8, <1>9, <1>12, <1>13, <2>1, <2>2, NothingClosed, AnswersEnd
<1>14. CASE ~last
  <2>1. Underway(q)
    BY <1>7, <1>9 DEF Underway
  <2>2. y.reqs = x.reqs /\ y.inq = x.inq /\ y.rest = x.rest /\ Len(y.out) = y.done + 1
    BY <1>6, <1>12, <1>14 DEF Hears
  <2>3. Link(c, y, q)
    BY <1>1, <1>2, <1>4, <1>6, <1>9, <1>10, <1>12, <2>1, <2>2, GoesOn
  <2>4. /\ SameKeys(client) /\ AllAlike(client) /\ q.state # "absent"
        /\ \A g \in Fd : ConnOf(g)' = ConnOf(g)
    BY <1>1, <1>3, <1>9, <1>14, OlderFacts, AlikeOlder DEF ConnOf
  <2>. QED
    BY <1>2, <1>3, <1>6, <1>8, <1>9, <1>12, <1>14, <2>3, <2>4, ServesOne
<1>. QED
  BY <1>13, <1>14

\* A full send buffer: the response waits as it is, in responseBuffer or not.
LEMMA AnswersWait ==
  ASSUME Consistent, Answers, NEW fd \in todo, client[turn][fd].state = "WRITING_RESPONSE",
         NEW b \in {client[turn][fd].responseBuffer, ToSend(client[turn][fd])},
         client' = PutAt(client, turn, fd,
                         [client[turn][fd] EXCEPT !.responseBuffer = b, !.age = 0]),
         UNCHANGED <<fdt, conn>>
  PROVE  Answers'
<1>. DEFINE c == ConnOf(fd)
            x == conn[c]
            r == client[turn][fd]
            q == [r EXCEPT !.responseBuffer = b, !.age = 0]
<1>1. /\ c \in Conns /\ x \in Connection /\ Told(c, x) /\ r \in ClientState
      /\ Link(c, x, r) /\ WritingLink(c, x, r) /\ ToSend(r) \in Tags
      /\ conn = [conn EXCEPT ![c] = x]
      /\ ToSend(r) = r.response.tag
           \/ (ToSend(r) = BadRequest /\ x.reqs[r.response.tag[2]] = "earlyMark")
  BY WriterFacts
<1>2. b \in Tags /\ 0 \in 0..AgeCap
  BY <1>1, ConstantsAssumption DEF ClientState
<1>3. b \in {r.responseBuffer, ToSend(r)} /\ r.state = "WRITING_RESPONSE"
  OBVIOUS
<1>4. client' = PutAt(client, turn, fd, q) /\ c = ConnOf(fd) /\ conn' = conn
  OBVIOUS
<1>. HIDE DEF c, x, r
<1>5. /\ q \in ClientState /\ q.state = r.state /\ q.requestBuffer = r.requestBuffer
      /\ q.response = r.response /\ q.responseBuffer = b
      /\ q.bytesWritten = r.bytesWritten
  BY <1>1, <1>2 DEF ClientState
<1>. HIDE DEF q
<1>6. WritingLink(c, x, q)
  BY <1>1, <1>3, <1>5 DEF WritingLink, Underway
<1>7. Link(c, x, q)
  BY <1>1, <1>3, <1>5, <1>6 DEF Link
<1>8. /\ SameKeys(client) /\ AllAlike(client) /\ q.state # "absent"
      /\ \A g \in Fd : ConnOf(g)' = ConnOf(g)
  BY <1>3, <1>5, OlderFacts, AlikeOlder DEF ConnOf
<1>. QED
  BY <1>1, <1>4, <1>5, <1>7, <1>8, ServesOne

\* A chunk of a streamed response is sent, or read and lost.
LEMMA AnswersChunk ==
  ASSUME Consistent, Answers, NEW fd \in todo, StreamChunk(fd)
  PROVE  Answers'
<1>. DEFINE c == ConnOf(fd)
            x == conn[c]
            r == client[turn][fd]
            tag == r.response.tag
            p == [r.response EXCEPT !.headersSent = TRUE, !.chunks = r.response.chunks - 1]
            q == [r EXCEPT !.age = 0, !.response = p]
            first == ~r.response.headersSent
            cn == Heard(fd, tag, first, FALSE)
            y == cn[c]
<1>1. /\ r.state = "WRITING_RESPONSE" /\ r.response.fd # NoFd /\ r.response.chunks > 0
      /\ first => x.peer # "rst"
  BY DEF StreamChunk, Streaming, Sendable, Broken, Full
<1>2. /\ c \in Conns /\ x \in Connection /\ x.status = "open" /\ Told(c, x)
      /\ r \in ClientState /\ Link(c, x, r) /\ WritingLink(c, x, r) /\ tag \in Tags
  BY <1>1, WriterFacts
<1>3. r.response \in Response /\ r.bytesWritten = 0 /\ 0 \in 0..AgeCap
  BY <1>1, <1>2, ConstantsAssumption DEF ClientState, WritingLink
<1>4. client' = PutAt(client, turn, fd, q) /\ conn' = cn /\ fdt' = fdt
  <2>1. r \in ClientState
    BY <1>2
  <2>. QED
    BY <1>3 DEF StreamChunk, PutClient, PutAt, ClientState, Response
<1>5. first <=> ~Underway(r)
  BY <1>3 DEF Underway
<1>6. /\ SameConnections(cn) /\ cn = [conn EXCEPT ![c] = y] /\ y \in Connection
      /\ Hears(x, y, r, tag) /\ y.done = x.done
  <2>1. first \in BOOLEAN /\ FALSE \in BOOLEAN
    OBVIOUS
  <2>. HIDE DEF tag, first, r
  <2>. QED
    BY <1>1, <1>2, <1>5, <2>1, HeardRecord
<1>7. c = ConnOf(fd) /\ tag = r.response.tag
  OBVIOUS
<1>8. /\ p \in Response /\ p.tag = tag /\ p.fd = r.response.fd /\ p.headersSent = TRUE
  <2>. DEFINE v == r.response
              m == v.chunks - 1
  <2>1. v.chunks \in 0..RespSize
    BY <1>3 DEF Response
  <2>2. m \in 0..RespSize
    <3>. HIDE DEF v
    <3>. QED
      BY <1>1, <2>1, ConstantsAssumption DEF v
  <2>3. v \in Response /\ p = [v EXCEPT !.headersSent = TRUE, !.chunks = m]
    BY <1>3
  <2>. HIDE DEF v, m
  <2>. QED
    BY <2>2, <2>3 DEF Response, v
<1>. HIDE DEF p
<1>9. /\ q \in ClientState /\ q.state = r.state /\ q.requestBuffer = r.requestBuffer
      /\ q.response = p /\ q.responseBuffer = r.responseBuffer /\ q.bytesWritten = 0
  BY <1>2, <1>3, <1>8 DEF ClientState
<1>. HIDE DEF c, x, r, q, tag, first, cn, y
<1>10. Told(c, y) /\ Len(y.out) = y.done + 1
  BY <1>1, <1>2, <1>6, <1>7, Heeded
<1>11. Underway(q) /\ q.response.fd # NoFd
  BY <1>1, <1>8, <1>9 DEF Underway
<1>12. y.reqs = x.reqs /\ y.inq = x.inq /\ y.rest = x.rest
  BY <1>6 DEF Hears
<1>13. Link(c, y, q)
  BY <1>1, <1>2, <1>6, <1>7, <1>8, <1>9, <1>10, <1>11, <1>12, GoesOn
<1>14. /\ SameKeys(client) /\ AllAlike(client) /\ q.state # "absent"
       /\ \A g \in Fd : ConnOf(g)' = ConnOf(g)
  BY <1>1, <1>4, <1>9, OlderFacts, AlikeOlder DEF ConnOf
<1>. QED
  BY <1>2, <1>4, <1>6, <1>7, <1>9, <1>10, <1>13, <1>14, ServesOne

\* A streamed response ends.
LEMMA AnswersStreamEnd ==
  ASSUME Consistent, Answers, NEW fd \in todo, StreamEnd(fd)
  PROVE  Answers'
<1>. DEFINE c == ConnOf(fd)
            x == conn[c]
            r == client[turn][fd]
            tag == r.response.tag
            p == Finished(r.response)
            q == [r EXCEPT !.response = p]
            t == Release(fdt, {r.response.fd})
            first == ~r.response.headersSent
            cn == Heard(fd, tag, first, TRUE)
            y == cn[c]
<1>1. /\ r.state = "WRITING_RESPONSE" /\ r.response.fd # NoFd
      /\ first => x.peer # "rst"
  BY DEF StreamEnd, Streaming, Sendable, Broken
<1>2. /\ c \in Conns /\ x \in Connection /\ x.status = "open" /\ Told(c, x)
      /\ r \in ClientState /\ Link(c, x, r) /\ WritingLink(c, x, r) /\ tag \in Tags
  BY <1>1, WriterFacts
<1>3. r.response \in Response /\ r.bytesWritten = 0
  BY <1>1, <1>2 DEF ClientState, WritingLink
<1>4. EndResponse(fd, q, t, cn)
  BY DEF StreamEnd
<1>5. first <=> ~Underway(r)
  BY <1>3 DEF Underway
<1>6. /\ SameConnections(cn) /\ cn = [conn EXCEPT ![c] = y] /\ y \in Connection
      /\ Hears(x, y, r, tag) /\ y.done = x.done + 1
  <2>1. first \in BOOLEAN /\ TRUE \in BOOLEAN
    OBVIOUS
  <2>. HIDE DEF tag, first, r
  <2>. QED
    BY <1>1, <1>2, <1>5, <2>1, HeardRecord
<1>7. c = ConnOf(fd) /\ tag = r.response.tag
  OBVIOUS
<1>8. p \in Response /\ p.fd = NoFd
  BY <1>3 DEF Response, Finished
<1>9. FilesClosed(t, turn, {fd})
  <2>1. /\ turn \in Servers /\ fd \in Clients(turn) /\ fdt \in [Fd -> FdEntry]
        /\ FileFdsPrivate
    BY ServedFacts DEF Consistent, TypeOK
  <2>2. fdt[r.response.fd].kind = "file"
    BY <1>1, <2>1 DEF FileFdsPrivate
  <2>3. t \in [Fd -> FdEntry]
    BY <2>1, RecordTypes DEF Release
  <2>. QED
    BY <2>2, <2>3 DEF FilesClosed, Release
<1>. HIDE DEF p
<1>10. q \in ClientState /\ q.response.fd = NoFd
  BY <1>2, <1>8 DEF ClientState
<1>. HIDE DEF c, x, r, q, tag, t, first, cn, y
<1>11. Told(c, y) /\ Len(y.out) = y.done
  BY <1>1, <1>2, <1>6, <1>7, Heeded
<1>. QED
  BY <1>4, <1>6, <1>7, <1>9, <1>10, <1>11, AnswersEnd

\* What handleClientWrite does.
LEMMA AnswersWrite ==
  ASSUME Consistent, Answers, NEW fd \in todo, Write(fd)
  PROVE  Answers'
<1>. DEFINE c == ConnOf(fd)
            x == conn[c]
            r == client[turn][fd]
<1>1. /\ c \in Conns /\ x \in Connection /\ Told(c, x) /\ r \in ClientState
      /\ conn = [conn EXCEPT ![c] = x] /\ SameConnections(conn)
      /\ FilesClosed(fdt, turn, {fd}) /\ SameKeys(client) /\ SameResponses(client)
      /\ AllAlike(client)
  BY ServedFacts, ConnSame, NothingClosed, AlikeOlder DEF Consistent, TypeOK, Answers
<1>2. CASE WriteNothing(fd)
  <2>1. client' = client /\ fdt' = fdt /\ conn' = conn
    BY <1>2 DEF WriteNothing
  <2>2. \A s \in Servers : Clients(s)' = Clients(s)
    BY <2>1 DEF Clients, Keys
  <2>. QED
    BY <1>1, <2>1, <2>2, NobodyServed
<1>3. ASSUME NEW n \in 1..RespSize, SendBuffered(fd, n) PROVE Answers'
  BY <1>3, AnswersSend
<1>4. CASE SendFull(fd)
  <2>1. /\ r.state = "WRITING_RESPONSE" /\ fdt' = fdt /\ conn' = conn
        /\ client' = PutAt(client, turn, fd, [r EXCEPT !.responseBuffer = ToSend(r), !.age = 0])
    BY <1>4 DEF SendFull, Buffered, PutClient, PutAt
  <2>. QED
    BY <2>1, AnswersWait
<1>5. CASE SendFails(fd)
  <2>1. CloseConnections(turn, {fd}, client, fdt, conn)
    BY <1>5 DEF SendFails
  <2>. QED
    BY <1>1, <2>1, AnswersClose
<1>6. CASE StreamFull(fd)
  <2>1. /\ r.state = "WRITING_RESPONSE" /\ fdt' = fdt /\ conn' = conn
        /\ client' = PutAt(client, turn, fd, [r EXCEPT !.age = 0])
    BY <1>6 DEF StreamFull, Streaming, PutClient, PutAt
  <2>2. [r EXCEPT !.age = 0] = [r EXCEPT !.responseBuffer = r.responseBuffer, !.age = 0]
    BY <1>1 DEF ClientState
  <2>. QED
    BY <2>1, <2>2, AnswersWait
<1>7. CASE StreamChunk(fd)
  BY <1>7, AnswersChunk
<1>8. CASE StreamEnd(fd)
  BY <1>8, AnswersStreamEnd
<1>9. CASE StreamFails(fd)
  <2>1. x.peer = "rst" /\ EndResponse(fd, r, fdt, conn)
    BY <1>9 DEF StreamFails, Broken
  <2>. QED
    BY <1>1, <2>1, AnswersEnd
<1>. QED
  BY <1>2, <1>3, <1>4, <1>5, <1>6, <1>7, <1>8, <1>9 DEF Write

\* A connection of the backlog has heard nothing, and its client is new.
LEMMA AnswersAccept ==
  ASSUME Consistent, Answers, AcceptConnection
  PROVE  Answers'
<1>0. PICK s \in Servers : s = turn
  BY DEF Consistent, TypeOK
<1>1. PICK c \in Backlog(s), fd \in Free :
        /\ client' = PutClient(s, fd, NewClient)
        /\ fdt' = [fdt EXCEPT ![fd] = [kind |-> "sock", conn |-> c]]
        /\ conn' = [conn EXCEPT ![c].status = "open"]
  BY <1>0 DEF AcceptConnection
<1>. DEFINE x == conn[c]
            y == [x EXCEPT !.status = "open"]
<1>2. /\ client \in [Servers -> [Fd -> ClientState]] /\ fdt \in [Fd -> FdEntry]
      /\ conn \in [Conns -> Connection] /\ c \in Conns /\ x \in Connection
      /\ x.status = "queued" /\ Told(c, x) /\ fd \in Fd /\ fdt[fd].kind = "free"
  BY DEF Consistent, TypeOK, Backlog, Free, Answers
<1>3. \A t \in Servers : fd \notin Clients(t)
  BY <1>2 DEF Consistent, SocketsOwned
<1>4. /\ client'[s][fd] = NewClient
      /\ \A t \in Servers : \A g \in Fd : t # s \/ g # fd => client'[t][g] = client[t][g]
  BY <1>1, <1>2 DEF PutClient
<1>5. /\ y \in Connection /\ y.out = x.out /\ y.done = x.done /\ y.reqs = x.reqs
      /\ y.inq = x.inq /\ y.rest = x.rest /\ y.peer = x.peer /\ y.status = "open"
  BY <1>2 DEF Connection
<1>6. conn'[c] = y /\ \A d \in Conns \ {c} : conn'[d] = conn[d]
  BY <1>1, <1>2
<1>7. ConnOf(fd)' = c /\ \A g \in Fd \ {fd} : ConnOf(g)' = ConnOf(g)
  BY <1>1, <1>2 DEF ConnOf
<1>. HIDE DEF y
<1>8. Told(c, y) /\ Link(c, y, NewClient)
  <2>1. Told(c, y)
    BY <1>2, <1>5, SameRequests
  <2>2. Len(y.out) = y.done
    BY <1>2, <1>5 DEF Told, Past
  <2>3. /\ NewClient \in ClientState /\ NewClient.state = "IDLE"
        /\ NewClient.response.fd = NoFd /\ NewClient.requestBuffer = <<>>
        /\ NewClient.responseBuffer = Empty
    BY RecordTypes DEF NewClient
  <2>. QED
    BY <1>2, <1>5, <2>1, <2>2, <2>3, Idles
<1>9. \A d \in Conns : Told(d, conn[d])'
  BY <1>6, <1>8 DEF Answers
<1>10. ASSUME NEW t \in Servers, NEW g \in Clients(t)'
       PROVE  \/ /\ g \in Clients(t) /\ ConnOf(g)' = ConnOf(g)
                 /\ conn'[ConnOf(g)] = conn[ConnOf(g)] /\ Alike(client[t][g], client'[t][g])
              \/ Link(ConnOf(g), conn[ConnOf(g)], client[t][g])'
  <2>1. g \in Fd /\ client'[t][g].state # "absent"
    BY <1>10 DEF Clients, Keys
  <2>2. CASE t = s /\ g = fd
    BY <1>4, <1>6, <1>7, <1>8, <2>2
  <2>3. CASE t # s \/ g # fd
    <3>1. client'[t][g] = client[t][g] /\ g \in Clients(t)
      BY <1>4, <2>1, <2>3 DEF Clients, Keys
    <3>2. g # fd /\ ConnOf(g) \in Conns /\ conn[ConnOf(g)].status = "open"
      BY <1>3, <3>1, EveryClient
    <3>. QED
      BY <1>2, <1>6, <1>7, <2>1, <3>1, <3>2 DEF Alike
  <2>. QED
    BY <2>2, <2>3
<1>. QED
  BY <1>9, <1>10, Elsewhere

\* Clients are closed, in a sweep or at the cap, and a connection of the backlog
\* may be turned away.
LEMMA AnswersTurnedAway ==
  ASSUME Consistent, Answers, NEW s \in Servers, NEW F \in SUBSET Clients(s),
         NEW cn, TurnedAway(cn), \A c \in Conns : Told(c, cn[c]),
         \A c \in Conns : conn[c].status = "open" => cn[c] = conn[c],
         CloseConnections(s, F, client, fdt, cn)
  PROVE  Answers'
<1>1. /\ SameKeys(client) /\ SameResponses(client) /\ FilesClosed(fdt, s, F)
      /\ AllAlike(client) /\ cn \in [Conns -> Connection]
  BY OlderFacts, AlikeOlder DEF SameResponses, FilesClosed, Consistent, TypeOK, TurnedAway
<1>2. \A x \in Servers : Clients(x)' = IF x = s THEN Clients(s) \ F ELSE Clients(x)
  BY <1>1, CloseTables
<1>3. \A x \in Servers : \A fd \in Clients(x) : cn[ConnOf(fd)] = conn[ConnOf(fd)]
  BY EveryClient
<1>. QED
  BY <1>1, <1>2, <1>3, ClosesSome

\* The responses a client hears follow its requests at every step.
LEMMA NextAnswers == Consistent /\ Answers /\ [Next]_vars => Answers'
<1>. SUFFICES ASSUME Consistent, Answers, [Next]_vars PROVE Answers'
  OBVIOUS
<1>1. turn \in Servers /\ conn \in [Conns -> Connection] /\ \A c \in Conns : Told(c, conn[c])
  BY DEF Consistent, TypeOK, Answers
<1>2. ASSUME UNCHANGED <<client, fdt, conn>> PROVE Answers'
  <2>1. \A s \in Servers : Clients(s)' = Clients(s)
    BY <1>2 DEF Clients, Keys
  <2>. QED
    BY <1>2, <2>1, AlikeOlder, NobodyServed
<1>3. CASE Select \/ EndServer \/ EndRound \/ SkipAccept \/ AcceptOutOfFds \/ UNCHANGED vars
  BY <1>2, <1>3 DEF Select, EndServer, EndRound, SkipAccept, AcceptOutOfFds, vars
<1>4. CASE SelectTimeout
  <2>1. client' = AllOlder(1) /\ fdt' = fdt /\ conn' = conn
    BY <1>4 DEF SelectTimeout
  <2>2. \A s \in Servers : Clients(s)' = Clients(s)
    BY <2>1, OlderFacts DEF SameKeys, Clients
  <2>. QED
    BY <2>1, <2>2, AlikeOlder, NobodyServed
<1>5. CASE RejectConnection
  <2>1. PICK c \in Backlog(turn) :
          CloseConnections(turn, Idle, client, fdt, [conn EXCEPT ![c] = Hung(conn[c])])
    BY <1>5 DEF RejectConnection
  <2>. DEFINE cn == [conn EXCEPT ![c] = Hung(conn[c])]
  <2>2. c \in Conns /\ conn[c].status = "queued" /\ Idle \in SUBSET Clients(turn)
    BY DEF Backlog, Idle
  <2>3. /\ Hung(conn[c]) \in Connection /\ Hung(conn[c]).status = "closed"
        /\ Hung(conn[c]).rest = 0 /\ Hung(conn[c]).reqs = conn[c].reqs
    BY <1>1, <2>2, HungFacts
  <2>4. TurnedAway(cn)
    BY <1>1, <2>2, <2>3 DEF TurnedAway, Consistent, RequestsBounded
  <2>5. /\ \A d \in Conns : Told(d, cn[d])
        /\ \A d \in Conns : conn[d].status = "open" => cn[d] = conn[d]
    BY <1>1, <2>2, HungTold
  <2>. HIDE DEF cn
  <2>. QED
    BY <1>1, <2>1, <2>2, <2>4, <2>5, AnswersTurnedAway DEF cn
<1>6. CASE AcceptConnection
  BY <1>6, AnswersAccept
<1>7. CASE SweepIdle
  <2>. DEFINE stale == {fd \in Clients(turn) : Stale(client[turn][fd])}
  <2>1. CloseConnections(turn, stale, client, fdt, conn) /\ stale \in SUBSET Clients(turn)
    BY <1>7 DEF SweepIdle
  <2>2. TurnedAway(conn)
    BY ConnSame DEF SameConnections, TurnedAway
  <2>. HIDE DEF stale
  <2>. QED
    BY <1>1, <2>1, <2>2, AnswersTurnedAway
<1>8. ASSUME NEW fd \in todo, Read(fd) \/ Write(fd) PROVE Answers'
  BY <1>8, AnswersRead, AnswersWrite
<1>9. ASSUME NEW c \in Conns, Network(c) PROVE Answers'
  BY <1>9, AnswersNetwork
<1>. QED
  BY <1>3, <1>4, <1>5, <1>6, <1>7, <1>8, <1>9 DEF Next, Loop, Accept

\* Nothing was asked or heard yet.
LEMMA InitAnswers == Init => Answers
<1>. SUFFICES ASSUME Init PROVE Answers
  OBVIOUS
<1>1. \A s \in Servers : Clients(s) = {}
  BY RecordTypes DEF Init, Clients, Keys
<1>2. /\ NewConnection.out = <<>> /\ NewConnection.inq = <<>> /\ NewConnection.reqs = <<>>
      /\ NewConnection.done = 0 /\ NewConnection.rest = 0
  BY DEF NewConnection
<1>. HIDE DEF NewConnection
<1>3. \A c \in Conns : Told(c, NewConnection)
  BY <1>2 DEF Told, Past, Ahead, Shape, Single, Distinct
<1>. QED
  BY <1>1, <1>3 DEF Init, Answers

-----------------------------------------------------------------------------
(* What becomes of a client in a step. *)

\* Why a client may be closed: a reset, the timeouts, or nothing left to hear.
Excused(x, r, done) ==
  \/ x.peer = "rst" \/ r.age > ClientTimeout
  \/ r.state = "WRITING_RESPONSE" /\ r.age > KeepAliveTimeout
  \/ Len(x.out) <= done

\* A client keeps the descriptor of its response unless that was closed, or the
\* connection was reset.
KeepsFile(x, f, g, k) == g = f \/ f = NoFd \/ x.peer = "rst" \/ k # "file"

Gone(s, fd) ==
  LET c == ConnOf(fd) IN
  conn'[c].status = "closed" /\ Excused(conn[c], client[s][fd], conn'[c].done)
Stays(s, fd) ==
  LET c == ConnOf(fd)
      f == client[s][fd].response.fd
  IN /\ conn'[c].status = "open" /\ fd \in Clients(s)'
     /\ KeepsFile(conn[c], f, client'[s][fd].response.fd, fdt'[f].kind)
Fate == \A s \in Servers : \A fd \in Clients(s) : Gone(s, fd) \/ Stays(s, fd)

\* No client is closed.
LEMMA FateKept ==
  ASSUME Consistent, SameKeys(client'),
         \A c \in Conns : conn[c].status = "open" => conn'[c].status = "open",
         \A s \in Servers : \A fd \in Clients(s) :
            LET f == client[s][fd].response.fd IN
            KeepsFile(conn[ConnOf(fd)], f, client'[s][fd].response.fd, fdt'[f].kind)
  PROVE  Fate
<1>1. ASSUME NEW s \in Servers, NEW fd \in Clients(s) PROVE Stays(s, fd)
  BY EveryClient DEF SameKeys, Clients, Stays
<1>. QED
  BY <1>1 DEF Fate

\* One client is served and stays, and the others are as they were.
LEMMA FatePut ==
  ASSUME Consistent, NEW fd \in todo, NEW cl, SameKeys(cl), SameResponses(cl),
         NEW r \in ClientState, r.state # "absent", client' = PutAt(cl, turn, fd, r),
         SameConnections(conn'),
         LET f == client[turn][fd].response.fd IN
         KeepsFile(conn[ConnOf(fd)], f, r.response.fd, fdt'[f].kind)
  PROVE  Fate
<1>1. turn \in Servers /\ fd \in Clients(turn)
  BY ServedFacts
<1>2. /\ SameKeys(client') /\ client'[turn][fd] = r
      /\ \A s \in Servers : \A g \in Fd : s # turn \/ g # fd => client'[s][g] = cl[s][g]
  BY <1>1, PutFacts
<1>3. \A c \in Conns : conn[c].status = "open" => conn'[c].status = "open"
  BY DEF SameConnections
<1>4. ASSUME NEW s \in Servers, NEW g \in Clients(s)
      PROVE  LET f == client[s][g].response.fd IN
             KeepsFile(conn[ConnOf(g)], f, client'[s][g].response.fd, fdt'[f].kind)
  <2>1. CASE s = turn /\ g = fd
    BY <1>2, <2>1
  <2>2. CASE s # turn \/ g # fd
    <3>1. client'[s][g].response.fd = client[s][g].response.fd
      BY <1>2, <2>2, EveryClient DEF SameResponses
    <3>. QED
      BY <3>1 DEF KeepsFile
  <2>. QED
    BY <2>1, <2>2
<1>. QED
  BY <1>2, <1>3, <1>4, FateKept

\* Clients of one server are closed, each with an excuse.
LEMMA FateClosed ==
  ASSUME Consistent, NEW s \in Servers, NEW F \in SUBSET Clients(s),
         NEW cl, SameKeys(cl), SameResponses(cl), NEW t, FilesClosed(t, s, F),
         NEW cn, TurnedAway(cn), CloseConnections(s, F, cl, t, cn),
         \A fd \in F : LET c == ConnOf(fd)
                       IN Excused(conn[c], client[s][fd], cn[c].done)
  PROVE  Fate
<1>1. \A x \in Servers : Clients(x)' = IF x = s THEN Clients(s) \ F ELSE Clients(x)
  BY CloseTables
<1>2. /\ client' = [cl EXCEPT ![s] = Without(cl[s], F)]
      /\ fdt' = Release(t, F) /\ conn' = Shut(cn, F)
      /\ cl \in [Servers -> [Fd -> ClientState]] /\ cn \in [Conns -> Connection]
  BY DEF CloseConnections, SameKeys, TurnedAway
<1>3. ASSUME NEW x \in Servers, NEW fd \in Clients(x), x # s \/ fd \notin F
      PROVE  Stays(x, fd)
  <2>1. /\ fd \in Fd /\ ConnOf(fd) \in Conns /\ conn[ConnOf(fd)].status = "open"
        /\ fd \in Clients(x)'
    BY <1>1, <1>3, EveryClient
  <2>2. fd \notin F
    BY <1>3, OwnConnection
  <2>3. ~ \E g \in F : ConnOf(g) = ConnOf(fd)
    BY <1>3, OwnConnection
  <2>4. conn'[ConnOf(fd)] = cn[ConnOf(fd)]
    BY <1>2, <2>1, <2>3 DEF Shut
  <2>5. conn'[ConnOf(fd)].status = "open"
    BY <2>1, <2>4 DEF TurnedAway
  <2>6. client'[x][fd] = cl[x][fd]
    BY <1>2, <2>1, <2>2 DEF Without
  <2>7. client'[x][fd].response.fd = client[x][fd].response.fd
    BY <1>3, <2>6 DEF SameResponses
  <2>. QED
    BY <2>1, <2>5, <2>7 DEF Stays, KeepsFile
<1>4. ASSUME NEW fd \in F PROVE Gone(s, fd)
  <2>1. ConnOf(fd) \in Conns
    BY EveryClient
  <2>2. conn'[ConnOf(fd)] = Hung(cn[ConnOf(fd)]) /\ cn[ConnOf(fd)] \in Connection
    BY <1>2, <2>1 DEF Shut
  <2>3. conn'[ConnOf(fd)].status = "closed" /\ conn'[ConnOf(fd)].done = cn[ConnOf(fd)].done
    BY <2>2 DEF Hung, Connection
  <2>. QED
    BY <2>3 DEF Gone
<1>. QED
  BY <1>3, <1>4 DEF Fate

\* The client served is closed, with an excuse.
LEMMA FateClosedOne ==
  ASSUME Consistent, NEW fd \in todo, NEW cl, SameKeys(cl), SameResponses(cl),
         NEW t, FilesClosed(t, turn, {fd}), NEW cn, SameConnections(cn),
         CloseConnections(turn, {fd}, cl, t, cn),
         LET c == ConnOf(fd) IN Excused(conn[c], client[turn][fd], cn[c].done)
  PROVE  Fate
<1>1. turn \in Servers /\ {fd} \in SUBSET Clients(turn) /\ TurnedAway(cn)
  BY ServedFacts DEF SameConnections, TurnedAway
<1>2. \A g \in {fd} : LET c == ConnOf(g)
                      IN Excused(conn[c], client[turn][g], cn[c].done)
  OBVIOUS
<1>. QED
  BY <1>1, <1>2, FateClosed

\* A response ends, and its client stays or is closed.
LEMMA FateEnd ==
  ASSUME Consistent, NEW fd \in todo, NEW r \in ClientState,
         NEW t, FilesClosed(t, turn, {fd}), NEW cn, SameConnections(cn),
         LET c == ConnOf(fd) IN Excused(conn[c], client[turn][fd], cn[c].done),
         LET f == client[turn][fd].response.fd IN
         KeepsFile(conn[ConnOf(fd)], f, r.response.fd, t[f].kind),
         EndResponse(fd, r, t, cn)
  PROVE  Fate
<1>. DEFINE q == Cleared(r)
<1>1. SameKeys(client) /\ SameResponses(client)
  BY NothingClosed
<1>2. CASE r.keepAlive
  <2>1. client' = PutAt(client, turn, fd, q) /\ fdt' = t /\ conn' = cn
    BY <1>2 DEF EndResponse, PutClient, PutAt
  <2>2. q \in ClientState /\ q.state = "IDLE" /\ q.response = r.response
    BY ClearedFacts
  <2>. HIDE DEF q
  <2>. QED
    BY <1>1, <2>1, <2>2, FatePut
<1>3. CASE ~r.keepAlive
  <2>1. CloseConnections(turn, {fd}, client, t, cn)
    BY <1>3 DEF EndResponse
  <2>. QED
    BY <1>1, <2>1, FateClosedOne
<1>. QED
  BY <1>2, <1>3

\* What handleClientData makes of a client.
LEMMA FateRead ==
  ASSUME Consistent, Answers, NEW fd \in todo, Read(fd)
  PROVE  Fate
<1>. DEFINE c == ConnOf(fd)
            x == conn[c]
            r == client[turn][fd]
            f == r.response.fd
<1>1. /\ SameConnections(conn) /\ SameKeys(client) /\ SameResponses(client)
      /\ FilesClosed(fdt, turn, {fd}) /\ turn \in Servers /\ fd \in Clients(turn)
  BY ServedFacts, ConnSame, NothingClosed
<1>2. ASSUME r.state = "IDLE"
      PROVE  /\ Len(x.out) = x.done \/ x.peer = "rst"
             /\ f # NoFd => x.peer = "rst"
  BY <1>1, <1>2 DEF Answers, Link, IdleLink
<1>3. x \in Connection /\ Len(x.out) \in Nat /\ x.done \in Nat
  BY ServedFacts, ConnectionFields
<1>4. CASE ReadNothing(fd)
  <2>1. client' = client /\ conn' = conn
    BY <1>4 DEF ReadNothing
  <2>. QED
    BY <1>1, <2>1, FateKept DEF KeepsFile
<1>5. CASE ReadClosed(fd)
  <2>1. CloseConnections(turn, {fd}, client, fdt, conn) /\ r.state = "IDLE"
    BY <1>5 DEF ReadClosed
  <2>2. Excused(x, r, x.done)
    BY <1>2, <1>3, <2>1, SMTT(30) DEF Excused
  <2>. QED
    BY <1>1, <2>1, <2>2, FateClosedOne
<1>6. ASSUME NEW k, ReadIncomplete(fd, k) \/ ReadBadRequest(fd, k) PROVE Fate
  <2>. DEFINE p == Received(fd, k)
              q == [p EXCEPT !.responseBuffer = BadRequest]
  <2>1. /\ Receiving(fd, k) /\ conn' = Drained(fd, k)
        /\ client' = PutAt(client, turn, fd, p) \/ client' = PutAt(client, turn, fd, q)
    BY <1>6 DEF ReadIncomplete, ReadBadRequest, PutClient, PutAt
  <2>2. /\ p \in ClientState /\ p.state = "IDLE" /\ p.response = r.response
        /\ SameConnections(conn')
    BY <2>1, ReceivedFacts
  <2>. HIDE DEF p
  <2>3. q \in ClientState /\ q.state = "IDLE" /\ q.response = r.response
    BY <2>2, RecordTypes DEF ClientState
  <2>4. KeepsFile(x, f, p.response.fd, fdt'[f].kind) /\ KeepsFile(x, f, q.response.fd, fdt'[f].kind)
    BY <2>2, <2>3 DEF KeepsFile
  <2>. HIDE DEF q
  <2>. QED
    BY <1>1, <2>1, <2>2, <2>3, <2>4, FatePut
<1>7. ASSUME NEW k, ProcessThrows(fd, k) PROVE Fate
  <2>1. PICK d \in HandlerDelays : CloseConnections(turn, {fd}, AllOlder(d), fdt, Drained(fd, k))
    BY <1>7 DEF ProcessThrows
  <2>2. Receiving(fd, k) /\ d \in Nat /\ r.state = "IDLE"
    BY <1>7, ConstantsAssumption DEF ProcessThrows, Processing, Receiving
  <2>3. SameKeys(AllOlder(d)) /\ SameResponses(AllOlder(d))
    BY <2>2, OlderFacts DEF SameResponses, Clients, Keys
  <2>4. SameConnections(Drained(fd, k)) /\ Drained(fd, k)[c].done = x.done
    BY <2>2, ReceivedFacts, Fetch DEF Fetched
  <2>5. Excused(x, r, x.done)
    BY <1>2, <1>3, <2>2 DEF Excused
  <2>. QED
    BY <1>1, <2>1, <2>3, <2>4, <2>5, FateClosedOne
<1>8. ASSUME NEW k, RespondBuffered(fd, k) \/ RespondFile(fd, k) PROVE Fate
  <2>1. Processing(fd, k)
    BY <1>8 DEF RespondBuffered, RespondFile
  <2>2. PICK d \in HandlerDelays, keep \in BOOLEAN, size \in 0..RespSize, g \in Fd \cup {NoFd} :
          AnswerWith(fd, k, d, Answering(fd, k, keep, g, size))
    <3>1. 0 \in 0..RespSize /\ NoFd \in Fd \cup {NoFd} /\ Free \subseteq Fd
      BY ConstantsAssumption DEF Free
    <3>2. CASE RespondBuffered(fd, k)
      BY <3>1, <3>2 DEF RespondBuffered
    <3>3. CASE RespondFile(fd, k)
      BY <3>1, <3>3 DEF RespondFile
    <3>. QED
      BY <1>8, <3>2, <3>3
  <2>. DEFINE q == Answering(fd, k, keep, g, size)
  <2>3. Receiving(fd, k) /\ d \in Nat /\ r.state = "IDLE"
    BY <2>1, ConstantsAssumption DEF Processing, Receiving
  <2>4. q \in ClientState /\ q.state = "WRITING_RESPONSE"
    BY <2>3, AnsweringFacts
  <2>5. client' = PutAt(AllOlder(d), turn, fd, q) /\ conn' = Drained(fd, k)
    BY <2>2 DEF AnswerWith, PutAt
  <2>6. SameKeys(AllOlder(d)) /\ SameResponses(AllOlder(d)) /\ SameConnections(conn')
    BY <2>3, <2>5, OlderFacts, ReceivedFacts DEF SameResponses, Clients, Keys
  <2>7. KeepsFile(x, f, q.response.fd, fdt'[f].kind)
    BY <1>2, <2>3 DEF KeepsFile
  <2>. HIDE DEF q
  <2>. QED
    BY <2>4, <2>5, <2>6, <2>7, FatePut
<1>. QED
  BY <1>4, <1>5, <1>6, <1>7, <1>8 DEF Read

\* What handleClientWrite makes of a client.
LEMMA FateWrite ==
  ASSUME Consistent, Answers, NEW fd \in todo, Write(fd)
  PROVE  Fate
<1>. DEFINE c == ConnOf(fd)
            x == conn[c]
            r == client[turn][fd]
            f == r.response.fd
<1>1. /\ SameConnections(conn) /\ SameKeys(client) /\ SameResponses(client)
      /\ FilesClosed(fdt, turn, {fd}) /\ turn \in Servers /\ fd \in Clients(turn)
      /\ r \in ClientState /\ c \in Conns /\ x \in Connection /\ Told(c, x)
  BY ServedFacts, ConnSame, NothingClosed DEF Answers
<1>2. Len(x.out) <= x.done + 1
  BY <1>1 DEF Told, Past
<1>3. CASE WriteNothing(fd)
  <2>1. client' = client /\ conn' = conn
    BY <1>3 DEF WriteNothing
  <2>. QED
    BY <1>1, <2>1, FateKept DEF KeepsFile
<1>4. ASSUME NEW n \in 1..RespSize, SendBuffered(fd, n) PROVE Fate
  <2>. DEFINE tag == ToSend(r)
              m == r.bytesWritten + n
              q == [r EXCEPT !.responseBuffer = tag, !.age = 0, !.bytesWritten = m]
              first == r.bytesWritten = 0
              last == q.bytesWritten >= RespSize
              cn == Heard(fd, tag, first, last)
  <2>1. /\ r.state = "WRITING_RESPONSE" /\ n <= RespSize - r.bytesWritten
    BY <1>4 DEF SendBuffered, Buffered, Remaining
  <2>2. IF last THEN EndResponse(fd, q, fdt, cn)
                ELSE client' = PutAt(client, turn, fd, q) /\ conn' = cn
    BY <1>4 DEF SendBuffered, PutClient, PutAt
  <2>3. SameConnections(cn) /\ cn[c].done = IF last THEN x.done + 1 ELSE x.done
    <3>1. first \in BOOLEAN /\ last \in BOOLEAN /\ tag \in Tags
      BY <2>1, WriterFacts DEF Answers, ToSend
    <3>2. SameConnections(cn)
      <4>. HIDE DEF tag, first, last
      <4>. QED
        BY <3>1, HeardFacts
    <3>. HIDE DEF tag, first, last
    <3>. QED
      BY <1>1, <3>2 DEF Heard, Connection, Consistent, TypeOK
  <2>4. q \in ClientState /\ q.state = r.state /\ q.response = r.response
    <3>1. m \in 0..RespSize /\ 0 \in 0..AgeCap /\ tag \in Tags
      <4>1. r.bytesWritten \in 0..RespSize
        BY <1>1 DEF ClientState
      <4>2. tag \in Tags
        BY <2>1, WriterFacts
      <4>. HIDE DEF r, tag
      <4>. QED
        BY <2>1, <4>1, <4>2, ConstantsAssumption
    <3>. HIDE DEF r, tag, m
    <3>. QED
      BY <1>1, <3>1 DEF ClientState
  <2>. HIDE DEF q, last, cn
  <2>5. \A k : KeepsFile(x, f, q.response.fd, k)
    BY <2>4 DEF KeepsFile
  <2>6. CASE last
    <3>1. Excused(x, r, cn[c].done)
      BY <1>2, <2>3, <2>6 DEF Excused
    <3>. QED
      BY <1>1, <2>2, <2>3, <2>4, <2>5, <2>6, <3>1, FateEnd
  <2>7. CASE ~last
    BY <1>1, <2>1, <2>2, <2>3, <2>4, <2>5, <2>7, FatePut, SMTT(30)
  <2>. QED
    BY <2>6, <2>7
<1>5. ASSUME NEW b \in Tags, client' = PutAt(client, turn, fd, [r EXCEPT !.responseBuffer = b, !.age = 0]),
             conn' = conn
      PROVE  Fate
  <2>. DEFINE q == [r EXCEPT !.responseBuffer = b, !.age = 0]
  <2>1. 0 \in 0..AgeCap /\ r.state # "absent"
    BY ServedFacts, ConstantsAssumption
  <2>2. q \in ClientState /\ q.state = r.state /\ q.response = r.response
    BY <1>1, <2>1 DEF ClientState
  <2>3. KeepsFile(x, f, q.response.fd, fdt'[f].kind) /\ client' = PutAt(client, turn, fd, q)
    BY <1>5, <2>2 DEF KeepsFile
  <2>. HIDE DEF q
  <2>. QED
    BY <1>1, <1>5, <2>1, <2>2, <2>3, FatePut
<1>6. CASE SendFull(fd)
  <2>1. /\ client' = PutAt(client, turn, fd, [r EXCEPT !.responseBuffer = ToSend(r), !.age = 0])
        /\ conn' = conn /\ r.state = "WRITING_RESPONSE"
    BY <1>6 DEF SendFull, Buffered, PutClient, PutAt
  <2>. QED
    BY <1>5, <2>1, WriterFacts
<1>7. CASE StreamFull(fd)
  <2>1. client' = PutAt(client, turn, fd, [r EXCEPT !.age = 0]) /\ conn' = conn
    BY <1>7 DEF StreamFull, PutClient, PutAt
  <2>2. /\ [r EXCEPT !.age = 0] = [r EXCEPT !.responseBuffer = r.responseBuffer, !.age = 0]
        /\ r.responseBuffer \in Tags
    BY <1>1 DEF ClientState
  <2>. QED
    BY <1>5, <2>1, <2>2
<1>8. CASE SendFails(fd)
  <2>1. CloseConnections(turn, {fd}, client, fdt, conn) /\ x.peer = "rst"
    BY <1>8 DEF SendFails, Broken
  <2>2. Excused(x, r, x.done)
    BY <2>1 DEF Excused
  <2>. QED
    BY <1>1, <2>1, <2>2, FateClosedOne
<1>9. CASE StreamChunk(fd)
  <2>. DEFINE p == [r.response EXCEPT !.headersSent = TRUE, !.chunks = @ - 1]
              q == [r EXCEPT !.age = 0, !.response = p]
  <2>1. client' = PutAt(client, turn, fd, q)
    BY <1>1, <1>9 DEF StreamChunk, PutClient, PutAt, ClientState, Response
  <2>2. /\ r.state = "WRITING_RESPONSE" /\ r.response.chunks > 0
        /\ conn' = Heard(fd, r.response.tag, ~r.response.headersSent, FALSE)
    BY <1>9 DEF StreamChunk, Streaming
  <2>3. SameConnections(conn')
    <3>1. r.response.tag \in Tags /\ (~r.response.headersSent) \in BOOLEAN /\ FALSE \in BOOLEAN
      BY <2>2, WriterFacts
    <3>. QED
      BY <2>2, <3>1, HeardFacts
  <2>4. p \in Response /\ p.fd = f
    <3>. DEFINE v == r.response
                m == v.chunks - 1
    <3>1. v \in Response /\ v.chunks \in 0..RespSize
      BY <1>1 DEF ClientState, Response
    <3>2. p = [v EXCEPT !.headersSent = TRUE, !.chunks = m] /\ f = v.fd /\ v.chunks > 0
      BY <2>2
    <3>. HIDE DEF v, p, f
    <3>3. m \in 0..RespSize
      BY <3>1, <3>2, ConstantsAssumption
    <3>. HIDE DEF m
    <3>. QED
      BY <3>1, <3>2, <3>3 DEF Response
  <2>. HIDE DEF p
  <2>5. q \in ClientState /\ q.state = r.state /\ q.response = p
    <3>1. 0 \in 0..AgeCap
      BY ConstantsAssumption
    <3>. QED
      BY <1>1, <2>4, <3>1 DEF ClientState
  <2>6. KeepsFile(x, f, q.response.fd, fdt'[f].kind)
    BY <2>4, <2>5 DEF KeepsFile
  <2>. HIDE DEF q
  <2>. QED
    BY <1>1, <2>1, <2>2, <2>3, <2>5, <2>6, FatePut
<1>10. CASE StreamEnd(fd)
  <2>. DEFINE tag == r.response.tag
              p == Finished(r.response)
              q == [r EXCEPT !.response = p]
              t == Release(fdt, {f})
              first == ~r.response.headersSent
              cn == Heard(fd, tag, first, TRUE)
  <2>1. EndResponse(fd, q, t, cn) /\ r.state = "WRITING_RESPONSE" /\ f # NoFd
    BY <1>10 DEF StreamEnd, Streaming
  <2>2. SameConnections(cn) /\ cn[c].done = x.done + 1
    <3>1. tag \in Tags /\ first \in BOOLEAN /\ TRUE \in BOOLEAN
      BY <2>1, WriterFacts
    <3>. HIDE DEF tag, first
    <3>2. SameConnections(cn)
      BY <3>1, HeardFacts
    <3>. QED
      BY <1>1, <3>2 DEF Heard, Connection, Consistent, TypeOK
  <2>3. r.response \in Response
    BY <1>1 DEF ClientState
  <2>4. p \in Response /\ p.fd = NoFd
    BY <2>3 DEF Response, Finished
  <2>. HIDE DEF p
  <2>5. q \in ClientState
    BY <1>1, <2>4 DEF ClientState
  <2>6. f \in Fd /\ fdt[f].kind = "file" /\ fdt \in [Fd -> FdEntry]
    BY <1>1, <2>1, ResponseFd DEF Consistent, TypeOK, FileFdsPrivate
  <2>7. FilesClosed(t, turn, {fd})
    <3>1. t \in [Fd -> FdEntry]
      BY <2>6, RecordTypes DEF Release
    <3>. QED
      BY <2>6, <3>1 DEF FilesClosed, Release
  <2>8. KeepsFile(x, f, q.response.fd, t[f].kind)
    BY <2>6, RecordTypes DEF KeepsFile, Release
  <2>9. Excused(x, r, cn[c].done)
    BY <1>2, <2>2 DEF Excused
  <2>. HIDE DEF q, t, cn
  <2>. QED
    BY <2>1, <2>2, <2>5, <2>7, <2>8, <2>9, FateEnd
<1>11. CASE StreamFails(fd)
  <2>1. x.peer = "rst" /\ EndResponse(fd, r, fdt, conn)
    BY <1>11 DEF StreamFails, Broken
  <2>2. Excused(x, r, x.done) /\ KeepsFile(x, f, r.response.fd, fdt[f].kind)
    BY <2>1 DEF Excused, KeepsFile
  <2>. QED
    BY <1>1, <2>1, <2>2, FateEnd
<1>. QED
  BY <1>3, <1>4, <1>6, <1>7, <1>8, <1>9, <1>10, <1>11 DEF Write

\* What any step makes of any client.
LEMMA NextFate == Consistent /\ Answers /\ [Next]_vars => Fate
<1>. SUFFICES ASSUME Consistent, Answers, [Next]_vars PROVE Fate
  OBVIOUS
<1>1. /\ turn \in Servers /\ conn \in [Conns -> Connection] /\ SameKeys(client)
      /\ SameResponses(client) /\ SameConnections(conn)
      /\ \A F : FilesClosed(fdt, turn, F)
  BY OlderFacts, ConnSame DEF Consistent, TypeOK, SameResponses, FilesClosed
<1>2. ASSUME client' = client,
             \A c \in Conns : conn[c].status = "open" => conn'[c].status = "open"
      PROVE  Fate
  BY <1>1, <1>2, FateKept DEF KeepsFile
<1>3. CASE Select \/ EndServer \/ EndRound \/ SkipAccept \/ AcceptOutOfFds \/ UNCHANGED vars
  BY <1>2, <1>3 DEF Select, EndServer, EndRound, SkipAccept, AcceptOutOfFds, vars
<1>4. CASE SelectTimeout
  <2>1. client' = AllOlder(1) /\ conn' = conn
    BY <1>4 DEF SelectTimeout
  <2>2. /\ SameKeys(client')
        /\ \A s \in Servers : \A fd \in Fd : client'[s][fd].response = client[s][fd].response
    BY <2>1, OlderFacts
  <2>3. \A s \in Servers : \A fd \in Clients(s) :
          client'[s][fd].response.fd = client[s][fd].response.fd
    BY <2>2, EveryClient
  <2>. QED
    BY <2>1, <2>2, <2>3, FateKept DEF KeepsFile
<1>5. CASE RejectConnection
  <2>1. PICK c \in Backlog(turn) :
          CloseConnections(turn, Idle, client, fdt, [conn EXCEPT ![c] = Hung(conn[c])])
    BY <1>5 DEF RejectConnection
  <2>. DEFINE cn == [conn EXCEPT ![c] = Hung(conn[c])]
  <2>2. c \in Conns /\ conn[c].status = "queued" /\ Idle \in SUBSET Clients(turn)
    BY DEF Backlog, Idle
  <2>3. /\ Hung(conn[c]) \in Connection /\ Hung(conn[c]).status = "closed"
        /\ Hung(conn[c]).rest = 0 /\ Hung(conn[c]).reqs = conn[c].reqs
    BY <1>1, <2>2, HungFacts
  <2>4. TurnedAway(cn)
    BY <1>1, <2>2, <2>3 DEF TurnedAway, Consistent, RequestsBounded
  <2>5. \A fd \in Idle : LET d == ConnOf(fd)
                         IN Excused(conn[d], client[turn][fd], cn[d].done)
    BY DEF Idle, Excused
  <2>. HIDE DEF cn
  <2>. QED
    BY <1>1, <2>1, <2>2, <2>4, <2>5, FateClosed DEF cn
<1>6. CASE AcceptConnection
  <2>1. PICK c \in Backlog(turn), g \in Free :
          /\ client' = PutClient(turn, g, NewClient)
          /\ conn' = [conn EXCEPT ![c].status = "open"]
    BY <1>6 DEF AcceptConnection
  <2>2. g \in Fd /\ \A s \in Servers : g \notin Clients(s)
    BY DEF Free, Consistent, SocketsOwned
  <2>3. \A d \in Conns : conn[d].status = "open" => conn'[d].status = "open"
    BY <1>1, <2>1 DEF Connection
  <2>4. \A s \in Servers : \A fd \in Clients(s) : client'[s][fd] = client[s][fd]
    BY <2>1, <2>2, EveryClient DEF PutClient, Consistent, TypeOK
  <2>5. ASSUME NEW s \in Servers, NEW fd \in Clients(s) PROVE Stays(s, fd)
    <3>1. ConnOf(fd) \in Conns /\ conn'[ConnOf(fd)].status = "open"
      BY <2>3, EveryClient
    <3>2. fd \in Clients(s)' /\ client'[s][fd] = client[s][fd]
      BY <2>4 DEF Clients, Keys
    <3>. QED
      BY <3>1, <3>2 DEF Stays, KeepsFile
  <2>. QED
    BY <2>5 DEF Fate
<1>7. CASE SweepIdle
  <2>. DEFINE stale == {fd \in Clients(turn) : Stale(client[turn][fd])}
  <2>1. CloseConnections(turn, stale, client, fdt, conn) /\ stale \in SUBSET Clients(turn)
    BY <1>7 DEF SweepIdle
  <2>2. \A fd \in stale : LET c == ConnOf(fd)
                          IN Excused(conn[c], client[turn][fd], conn[c].done)
    BY DEF Stale, Excused
  <2>3. TurnedAway(conn)
    BY <1>1, SameTurned
  <2>. HIDE DEF stale
  <2>. QED
    BY <1>1, <2>1, <2>2, <2>3, FateClosed
<1>8. ASSUME NEW fd \in todo, Read(fd) \/ Write(fd) PROVE Fate
  BY <1>8, FateRead, FateWrite
<1>9. ASSUME NEW c \in Conns, Network(c) PROVE Fate
  <2>1. client' = client
    BY <1>9 DEF Network, Connect, SendRequest, SendMore, Hangup, Reset, Stall, Resume
  <2>2. \A d \in Conns : conn[d].status = "open" => conn'[d].status = "open"
    <3>1. conn[c] \in Connection
      BY <1>1 DEF SameConnections
    <3>2. CASE \E s \in Servers : Connect(c, s)
      BY <1>1, <3>2 DEF Connect
    <3>3. CASE \E k \in Kinds : SendRequest(c, k)
      BY <1>1, <3>1, <3>3 DEF SendRequest, Connection
    <3>4. CASE SendMore(c)
      BY <1>1, <3>1, <3>4 DEF SendMore, Connection
    <3>5. CASE Hangup(c)
      BY <1>1, <3>1, <3>5 DEF Hangup, Connection
    <3>6. CASE Reset(c)
      BY <1>1, <3>1, <3>6 DEF Reset, Connection
    <3>7. CASE Stall(c)
      BY <1>1, <3>1, <3>7 DEF Stall, Connection
    <3>8. CASE Resume(c)
      BY <1>1, <3>1, <3>8 DEF Resume, Connection
    <3>. QED
      BY <1>9, <3>2, <3>3, <3>4, <3>5, <3>6, <3>7, <3>8, ZenonT(40) DEF Network
  <2>. QED
    BY <1>2, <2>1, <2>2, ZenonT(40)
<1>. QED
  BY <1>3, <1>4, <1>5, <1>6, <1>7, <1>8, <1>9 DEF Next, Loop, Accept

-----------------------------------------------------------------------------
(* How old clients grow while a round serves them.  Every server is swept  *)
(* at another time, and every handler that runs after its sweep lets its   *)
(* clients grow older; the limit on clients bounds how many may still run. *)

\* A server has no more clients than its limit.
Capped == \A s \in Servers : Cardinality(Clients(s)) <= MaxClients

\* The handlers that may still run in a round (none in the write that follows
\* a read), the servers whose idle clients it has swept, and the slowest handler.
LeftHere == IF phase = "sweep" THEN MaxClients
            ELSE IF phase = "write" THEN Cardinality(todo) - 1 ELSE Cardinality(todo)
Left == MaxClients * (NServers - turn) + LeftHere
Swept == IF phase = "sweep" THEN 1..(turn - 1) ELSE 1..turn
Slowest(d) == d \in HandlerDelays /\ \A e \in HandlerDelays : e <= d
MostDelay(d) == d * (MaxClients * NServers)

\* A client of a server swept in this round is as old as the timeout allows and
\* the handlers that ran since made it.
Young ==
  phase \in {"sweep", "serve", "write"} =>
    \A d \in HandlerDelays : Slowest(d) =>
      \A s \in Swept : \A fd \in Clients(s) :
        client[s][fd].age + d * Left <= ClientTimeout + MostDelay(d)

\* Nobody comes, and nobody grows older by more than k.
AgedBy(k) ==
  \A s \in Servers : \A fd \in Clients(s)' :
    /\ fd \in Clients(s)
    /\ client'[s][fd].age = 0 \/ client'[s][fd].age <= client[s][fd].age + k
OlderBy(cl, k) ==
  /\ SameKeys(cl)
  /\ \A s \in Servers : \A fd \in Clients(s) : cl[s][fd].age <= client[s][fd].age + k

\* Scaling keeps an order, and leaves room for one more step.
LEMMA Scaled ==
  ASSUME NEW d \in Nat, NEW k \in Int, NEW l \in Int
  PROVE  /\ d * k \in Int /\ d * l \in Int
         /\ k <= l => d * k <= d * l
         /\ k + 1 <= l => d * k + d <= d * l
<1>1. ASSUME k <= l PROVE d * k <= d * l
  <2>1. \A m \in Nat : d * m >= 0 /\ d * (k + m) = d * k + d * m
    OBVIOUS
  <2>2. l - k \in Nat /\ k + (l - k) = l
    BY <1>1
  <2>3. d * (l - k) >= 0 /\ d * (k + (l - k)) = d * k + d * (l - k)
    BY <2>1, <2>2
  <2>. QED
    BY <2>2, <2>3
<1>2. ASSUME k + 1 <= l PROVE d * k + d <= d * l
  <2>1. \A m \in Nat : d * m >= 0 /\ d * ((k + 1) + m) = d * k + d + d * m
    OBVIOUS
  <2>2. l - (k + 1) \in Nat /\ (k + 1) + (l - (k + 1)) = l
    BY <1>2
  <2>3. d * (l - (k + 1)) >= 0 /\ d * ((k + 1) + (l - (k + 1))) = d * k + d + d * (l - (k + 1))
    BY <2>1, <2>2
  <2>. QED
    BY <2>2, <2>3
<1>3. d * k \in Int /\ d * l \in Int
  OBVIOUS
<1>. QED
  BY <1>1, <1>2, <1>3

\* The clients of a server are finitely many, and those to serve no more.
LEMMA Counted ==
  ASSUME Consistent, NEW s \in Servers
  PROVE  /\ IsFiniteSet(Clients(s)) /\ Cardinality(Clients(s)) \in Nat
         /\ IsFiniteSet(todo) /\ Cardinality(todo) \in Nat
         /\ \A S \in SUBSET Clients(s) : /\ IsFiniteSet(S) /\ Cardinality(S) \in Nat
                                         /\ Cardinality(S) <= Cardinality(Clients(s))
<1>1. IsFiniteSet(Fd)
  BY FS_Interval, ConstantsAssumption DEF Fd
<1>2. Clients(s) \in SUBSET Fd /\ todo \in SUBSET Fd
  BY DEF Clients, Keys, Consistent, TypeOK
<1>. QED
  BY <1>1, <1>2, FS_Subset, FS_CardinalityType

\* What is left to do fits the limit, over all the servers.
LEMMA LeftBounds ==
  ASSUME Consistent, Capped, phase \in {"sweep", "serve", "write"}
  PROVE  /\ Left \in Int /\ Left <= MaxClients * NServers
         /\ turn \in Servers /\ turn \in Nat /\ MaxClients * (NServers - turn) \in Int
         /\ Cardinality(todo) \in Nat /\ Cardinality(todo) <= MaxClients
<1>1. turn \in Servers /\ turn \in 1..NServers /\ NServers \in Nat /\ MaxClients \in Nat
  BY ConstantsAssumption DEF Consistent, TypeOK, Servers
<1>2. todo \in SUBSET Clients(turn)
  BY DEF Consistent, TodoAlive
<1>3. /\ Cardinality(todo) \in Nat /\ Cardinality(Clients(turn)) \in Nat
      /\ Cardinality(todo) <= Cardinality(Clients(turn))
  BY <1>1, <1>2, Counted
<1>4. Cardinality(todo) <= MaxClients
  BY <1>1, <1>3 DEF Capped
<1>5. LeftHere \in Int /\ LeftHere <= MaxClients
  BY <1>1, <1>3, <1>4 DEF LeftHere
<1>6. (NServers - turn) + 1 <= NServers /\ NServers - turn \in Int
  BY <1>1
<1>7. MaxClients * (NServers - turn) + MaxClients <= MaxClients * NServers
  BY <1>1, <1>6, Scaled
<1>8. MaxClients * (NServers - turn) \in Int /\ MaxClients * NServers \in Int
  BY <1>1, <1>6
<1>. QED
  BY <1>1, <1>3, <1>4, <1>5, <1>7, <1>8 DEF Left

\* Serving a client uses up its handler.
LEMMA LeftServed ==
  ASSUME Consistent, Capped, NEW fd \in todo, phase' \in {"serve", "write"}
  PROVE  /\ \A stays \in BOOLEAN :
              Reading(fd) /\ AfterRead(fd, stays) => Left' \in Int /\ Left' + 1 <= Left
         /\ AfterWrite(fd) => Left' \in Int /\ Left' <= Left
<1>1. phase \in {"serve", "write"}
  BY ServedFacts
<1>2. /\ Left \in Int /\ MaxClients * (NServers - turn) \in Int /\ Cardinality(todo) \in Nat
      /\ turn \in Servers
  BY <1>1, LeftBounds
<1>3. Cardinality(todo \ {fd}) = Cardinality(todo) - 1
  BY <1>2, Counted, FS_RemoveElement
<1>4. ASSUME NEW stays \in BOOLEAN, Reading(fd), AfterRead(fd, stays)
      PROVE  Left' \in Int /\ Left' + 1 <= Left
  <2>1. phase = "serve" /\ turn' = turn
    BY <1>4 DEF Reading, AfterRead
  <2>2. \/ phase' = "write" /\ todo' = todo
        \/ phase' = "serve" /\ todo' = todo \ {fd}
    BY <1>4 DEF AfterRead
  <2>3. LeftHere' = Cardinality(todo) - 1 /\ LeftHere = Cardinality(todo)
    BY <1>3, <2>1, <2>2 DEF LeftHere
  <2>. QED
    BY <1>2, <2>1, <2>3 DEF Left
<1>5. ASSUME AfterWrite(fd) PROVE Left' \in Int /\ Left' <= Left
  <2>1. phase' = "serve" /\ todo' = todo \ {fd} /\ turn' = turn
    BY <1>5 DEF AfterWrite
  <2>2. LeftHere' = Cardinality(todo) - 1 /\ LeftHere \in {Cardinality(todo), Cardinality(todo) - 1}
    BY <1>1, <1>3, <2>1 DEF LeftHere
  <2>. QED
    BY <1>2, <2>1, <2>2 DEF Left
<1>. QED
  BY <1>4, <1>5

\* Maps in which nobody is older by more than the time that passed.
LEMMA OlderBounds ==
  ASSUME Consistent, NEW d \in Nat, NEW e \in Nat, e <= d
  PROVE  OlderBy(AllOlder(e), d) /\ OlderBy(client, d)
<1>1. ASSUME NEW s \in Servers, NEW fd \in Clients(s)
      PROVE  /\ AllOlder(e)[s][fd].age <= client[s][fd].age + d
             /\ client[s][fd].age <= client[s][fd].age + d
  <2>. DEFINE r == client[s][fd]
  <2>1. r \in ClientState /\ fd \in Fd
    BY EveryClient
  <2>2. r.age \in 0..AgeCap /\ AllOlder(e)[s][fd] = Older(r, e)
    BY <2>1 DEF ClientState, AllOlder
  <2>3. Older(r, e).age = IF r.state = "absent" THEN 0
                          ELSE IF r.age + e > AgeCap THEN AgeCap ELSE r.age + e
    BY <2>1 DEF Older, ClientState
  <2>. HIDE DEF r
  <2>4. Older(r, e).age <= r.age + d /\ r.age <= r.age + d
    BY <2>2, <2>3, ConstantsAssumption
  <2>. QED
    BY <2>2, <2>4 DEF r
<1>. QED
  BY <1>1, OlderFacts DEF OlderBy

\* One client is served and is as young as can be.
LEMMA AgesPut ==
  ASSUME Consistent, NEW fd \in todo, NEW k \in Nat, NEW cl, OlderBy(cl, k),
         NEW r \in ClientState, r.state # "absent", r.age = 0,
         client' = PutAt(cl, turn, fd, r)
  PROVE  AgedBy(k)
<1>1. turn \in Servers /\ fd \in Clients(turn) /\ SameKeys(cl)
  BY ServedFacts DEF OlderBy
<1>2. /\ SameKeys(client') /\ client'[turn][fd] = r
      /\ \A s \in Servers : \A g \in Fd : s # turn \/ g # fd => client'[s][g] = cl[s][g]
  BY <1>1, PutFacts
<1>3. ASSUME NEW s \in Servers, NEW g \in Clients(s)'
      PROVE  /\ g \in Clients(s)
             /\ client'[s][g].age = 0 \/ client'[s][g].age <= client[s][g].age + k
  <2>1. g \in Clients(s) /\ g \in Fd
    BY <1>2, EveryClient DEF SameKeys, Clients
  <2>2. CASE s = turn /\ g = fd
    BY <1>2, <2>1, <2>2
  <2>3. CASE s # turn \/ g # fd
    BY <1>2, <2>1, <2>3 DEF OlderBy
  <2>. QED
    BY <2>2, <2>3
<1>. QED
  BY <1>3 DEF AgedBy

\* Clients of one server are closed.
LEMMA AgesClosed ==
  ASSUME Consistent, NEW s \in Servers, NEW F, NEW k \in Nat, NEW cl, OlderBy(cl, k),
         NEW t, NEW cn, CloseConnections(s, F, cl, t, cn)
  PROVE  AgedBy(k) /\ Clients(s)' \subseteq Clients(s) \ F
<1>1. /\ client' = [cl EXCEPT ![s] = Without(cl[s], F)] /\ SameKeys(cl)
      /\ cl \in [Servers -> [Fd -> ClientState]]
  BY DEF CloseConnections, OlderBy, SameKeys
<1>2. \A x \in Servers : \A g \in Fd : client'[x][g] \in {cl[x][g], Absent}
  BY <1>1 DEF Without
<1>3. \A g \in Fd : g \in F => client'[s][g] = Absent
  BY <1>1 DEF Without
<1>4. Absent.state = "absent"
  BY DEF Absent, NewClient
<1>5. ASSUME NEW x \in Servers, NEW g \in Clients(x)'
      PROVE  g \in Clients(x) /\ client'[x][g] = cl[x][g] /\ (x = s => g \notin F)
  <2>1. g \in Fd /\ client'[x][g].state # "absent"
    BY <1>5 DEF Clients, Keys
  <2>2. client'[x][g] = cl[x][g] /\ (x = s => g \notin F)
    BY <1>2, <1>3, <1>4, <2>1
  <2>3. g \in Keys(cl[x])
    BY <2>1, <2>2 DEF Keys
  <2>. QED
    BY <1>1, <2>2, <2>3 DEF SameKeys
<1>. QED
  BY <1>5 DEF AgedBy, OlderBy

\* Whatever handleClientData does, it adds at most one handler's delay.
LEMMA AgesRead ==
  ASSUME Consistent, NEW fd \in todo, Read(fd)
  PROVE  /\ \E d \in HandlerDelays \cup {0} : AgedBy(d)
         /\ Reading(fd) /\ \E stays \in BOOLEAN : AfterRead(fd, stays)
<1>1. /\ turn \in Servers /\ fd \in Clients(turn) /\ OlderBy(client, 0) /\ 0 \in Nat
      /\ \A e \in HandlerDelays : e \in Nat /\ OlderBy(AllOlder(e), e)
  BY ServedFacts, OlderBounds, ConstantsAssumption
<1>2. CASE ReadNothing(fd)
  <2>1. client' = client /\ Reading(fd) /\ AfterRead(fd, TRUE)
    BY <1>2 DEF ReadNothing
  <2>. QED
    BY <1>1, <2>1 DEF AgedBy, OlderBy, Clients, Keys
<1>3. CASE ReadClosed(fd)
  <2>1. /\ CloseConnections(turn, {fd}, client, fdt, conn)
        /\ Reading(fd) /\ AfterRead(fd, FALSE)
    BY <1>3 DEF ReadClosed
  <2>. QED
    BY <1>1, <2>1, AgesClosed
<1>4. ASSUME NEW k, ReadIncomplete(fd, k) \/ ReadBadRequest(fd, k)
      PROVE  AgedBy(0) /\ Reading(fd) /\ AfterRead(fd, TRUE)
  <2>. DEFINE p == Received(fd, k)
              q == [p EXCEPT !.responseBuffer = BadRequest]
  <2>1. /\ Receiving(fd, k) /\ AfterRead(fd, TRUE)
        /\ client' = PutAt(client, turn, fd, p) \/ client' = PutAt(client, turn, fd, q)
    BY <1>4 DEF ReadIncomplete, ReadBadRequest, PutClient, PutAt
  <2>2. p \in ClientState /\ p.state = "IDLE" /\ Reading(fd)
    BY <2>1, ReceivedFacts DEF Receiving
  <2>3. p.age = 0
    BY <1>1, EveryClient DEF Received, ClientState
  <2>. HIDE DEF p
  <2>4. q \in ClientState /\ q.state = "IDLE" /\ q.age = 0
    BY <2>2, <2>3, RecordTypes DEF ClientState
  <2>. HIDE DEF q
  <2>. QED
    BY <1>1, <2>1, <2>2, <2>3, <2>4, AgesPut
<1>5. ASSUME NEW k, ProcessThrows(fd, k)
      PROVE  (\E d \in HandlerDelays : AgedBy(d)) /\ Reading(fd) /\ AfterRead(fd, FALSE)
  <2>1. PICK e \in HandlerDelays : CloseConnections(turn, {fd}, AllOlder(e), fdt, Drained(fd, k))
    BY <1>5 DEF ProcessThrows
  <2>2. Reading(fd) /\ AfterRead(fd, FALSE)
    BY <1>5 DEF ProcessThrows, Processing, Receiving
  <2>. QED
    BY <1>1, <2>1, <2>2, AgesClosed
<1>6. ASSUME NEW k, RespondBuffered(fd, k) \/ RespondFile(fd, k)
      PROVE  (\E d \in HandlerDelays : AgedBy(d)) /\ Reading(fd) /\ AfterRead(fd, TRUE)
  <2>1. Processing(fd, k)
    BY <1>6 DEF RespondBuffered, RespondFile
  <2>2. PICK e \in HandlerDelays, keep \in BOOLEAN, size \in 0..RespSize, g \in Fd \cup {NoFd} :
          AnswerWith(fd, k, e, Answering(fd, k, keep, g, size))
    <3>1. 0 \in 0..RespSize /\ NoFd \in Fd \cup {NoFd} /\ Free \subseteq Fd
      BY ConstantsAssumption DEF Free
    <3>2. CASE RespondBuffered(fd, k)
      BY <3>1, <3>2 DEF RespondBuffered
    <3>3. CASE RespondFile(fd, k)
      BY <3>1, <3>3 DEF RespondFile
    <3>. QED
      BY <1>6, <3>2, <3>3
  <2>. DEFINE q == Answering(fd, k, keep, g, size)
  <2>3. Receiving(fd, k) /\ Reading(fd)
    BY <2>1 DEF Processing, Receiving
  <2>4. q \in ClientState /\ q.state = "WRITING_RESPONSE"
    BY <2>3, AnsweringFacts
  <2>5. q.age = 0
    <3>1. Received(fd, k) \in ClientState
      BY <2>3, ReceivedFacts
    <3>2. Received(fd, k).age = 0
      BY <1>1, EveryClient DEF Received, ClientState
    <3>. QED
      BY <3>1, <3>2 DEF Answering, ClientState
  <2>6. client' = PutAt(AllOlder(e), turn, fd, q) /\ AfterRead(fd, TRUE)
    BY <2>2 DEF AnswerWith, PutAt
  <2>. HIDE DEF q
  <2>. QED
    BY <1>1, <2>3, <2>4, <2>5, <2>6, AgesPut
<1>. QED
  BY <1>2, <1>3, <1>4, <1>5, <1>6 DEF Read, ReadNothing, ReadClosed

\* A response that ends, with the client kept or closed, makes nobody older.
LEMMA AgesEnd ==
  ASSUME Consistent, NEW fd \in todo, NEW r \in ClientState, NEW t, NEW cn,
         EndResponse(fd, r, t, cn)
  PROVE  AgedBy(0)
<1>1. turn \in Servers /\ OlderBy(client, 0)
  BY ServedFacts, OlderBounds
<1>2. CASE r.keepAlive
  <2>. DEFINE q == Cleared(r)
  <2>1. client' = PutAt(client, turn, fd, q)
    BY <1>2 DEF EndResponse, PutClient, PutAt
  <2>2. q \in ClientState /\ q.state = "IDLE"
    BY ClearedFacts
  <2>3. q.age = 0
    BY DEF Cleared, ClientState
  <2>. HIDE DEF q
  <2>. QED
    BY <1>1, <2>1, <2>2, <2>3, AgesPut
<1>3. CASE ~r.keepAlive
  BY <1>1, <1>3, AgesClosed DEF EndResponse
<1>. QED
  BY <1>2, <1>3

\* handleClientWrite runs no handler.
LEMMA AgesWrite ==
  ASSUME Consistent, Answers, NEW fd \in todo, Write(fd)
  PROVE  AgedBy(0) /\ AfterWrite(fd)
<1>. DEFINE r == client[turn][fd]
<1>1. /\ turn \in Servers /\ fd \in Clients(turn) /\ OlderBy(client, 0)
      /\ r \in ClientState /\ r.state # "absent" /\ 0 \in 0..AgeCap
  BY ServedFacts, OlderBounds, ConstantsAssumption
<1>2. ASSUME NEW b \in Tags, NEW m \in 0..RespSize, NEW p \in Response,
             client' = PutAt(client, turn, fd, [r EXCEPT !.responseBuffer = b, !.age = 0,
                                                         !.bytesWritten = m, !.response = p])
      PROVE  AgedBy(0)
  <2>. DEFINE q == [r EXCEPT !.responseBuffer = b, !.age = 0, !.bytesWritten = m, !.response = p]
  <2>1. q \in ClientState /\ q.state = r.state /\ q.age = 0
    BY <1>1 DEF ClientState
  <2>. HIDE DEF q
  <2>. QED
    BY <1>1, <1>2, <2>1, AgesPut DEF q
<1>3. r.responseBuffer \in Tags /\ r.bytesWritten \in 0..RespSize /\ r.response \in Response
  BY <1>1 DEF ClientState
<1>4. CASE WriteNothing(fd)
  BY <1>1, <1>4 DEF WriteNothing, AgedBy, OlderBy, Clients, Keys
<1>5. ASSUME NEW n \in 1..RespSize, SendBuffered(fd, n) PROVE AgedBy(0) /\ AfterWrite(fd)
  <2>. DEFINE m == r.bytesWritten + n
              b == ToSend(r)
              q == [r EXCEPT !.responseBuffer = b, !.age = 0, !.bytesWritten = m]
              cn == Heard(fd, b, r.bytesWritten = 0, q.bytesWritten >= RespSize)
  <2>1. r.state = "WRITING_RESPONSE" /\ n <= RespSize - r.bytesWritten /\ AfterWrite(fd)
    BY <1>5 DEF SendBuffered, Buffered, Remaining
  <2>2. EndResponse(fd, q, fdt, cn) \/ client' = PutAt(client, turn, fd, q)
    BY <1>5 DEF SendBuffered, PutClient, PutAt
  <2>3. m \in 0..RespSize /\ b \in Tags
    <3>1. b \in Tags
      BY <2>1, WriterFacts
    <3>. HIDE DEF r, b
    <3>. QED
      BY <1>3, <2>1, <3>1, ConstantsAssumption
  <2>4. q \in ClientState /\ q.state = r.state /\ q.age = 0
    <3>. HIDE DEF r, m, b
    <3>. QED
      BY <1>1, <2>3 DEF ClientState
  <2>. HIDE DEF q, cn
  <2>. QED
    BY <1>1, <2>1, <2>2, <2>4, AgesEnd, AgesPut
<1>6. CASE SendFull(fd)
  <2>1. /\ client' = PutAt(client, turn, fd, [r EXCEPT !.responseBuffer = ToSend(r), !.age = 0])
        /\ AfterWrite(fd) /\ r.state = "WRITING_RESPONSE"
    BY <1>6 DEF SendFull, Buffered, PutClient, PutAt
  <2>2. ToSend(r) \in Tags
    BY <2>1, WriterFacts
  <2>3. [r EXCEPT !.responseBuffer = ToSend(r), !.age = 0]
        = [r EXCEPT !.responseBuffer = ToSend(r), !.age = 0,
                    !.bytesWritten = r.bytesWritten, !.response = r.response]
    BY <1>1 DEF ClientState
  <2>. QED
    BY <1>2, <1>3, <2>1, <2>2, <2>3
<1>7. CASE SendFails(fd)
  BY <1>1, <1>7, AgesClosed DEF SendFails
<1>8. CASE StreamFull(fd)
  <2>1. client' = PutAt(client, turn, fd, [r EXCEPT !.age = 0]) /\ AfterWrite(fd)
    BY <1>8 DEF StreamFull, PutClient, PutAt
  <2>2. [r EXCEPT !.age = 0]
        = [r EXCEPT !.responseBuffer = r.responseBuffer, !.age = 0,
                    !.bytesWritten = r.bytesWritten, !.response = r.response]
    BY <1>1 DEF ClientState
  <2>. QED
    BY <1>2, <1>3, <2>1, <2>2
<1>9. CASE StreamChunk(fd)
  <2>. DEFINE p == [r.response EXCEPT !.headersSent = TRUE, !.chunks = @ - 1]
  <2>1. client' = PutAt(client, turn, fd, [r EXCEPT !.age = 0, !.response = p]) /\ AfterWrite(fd)
    BY <1>1, <1>9 DEF StreamChunk, PutClient, PutAt, ClientState, Response
  <2>2. r.response.chunks > 0
    BY <1>9 DEF StreamChunk
  <2>3. p \in Response
    <3>. DEFINE v == r.response
                m == v.chunks - 1
    <3>1. v.chunks \in 0..RespSize
      BY <1>3 DEF Response
    <3>2. p = [v EXCEPT !.headersSent = TRUE, !.chunks = m] /\ v \in Response /\ v.chunks > 0
      BY <1>3, <2>2
    <3>. HIDE DEF v, p
    <3>3. m \in 0..RespSize
      BY <3>1, <3>2, ConstantsAssumption
    <3>. HIDE DEF m
    <3>. QED
      BY <3>2, <3>3 DEF Response
  <2>. HIDE DEF p
  <2>4. [r EXCEPT !.age = 0, !.response = p]
        = [r EXCEPT !.responseBuffer = r.responseBuffer, !.age = 0,
                    !.bytesWritten = r.bytesWritten, !.response = p]
    BY <1>1 DEF ClientState
  <2>. QED
    BY <1>2, <1>3, <2>1, <2>3, <2>4
<1>10. CASE StreamEnd(fd)
  <2>. DEFINE p == Finished(r.response)
              q == [r EXCEPT !.response = p]
  <2>1. /\ AfterWrite(fd)
        /\ EndResponse(fd, q, Release(fdt, {r.response.fd}),
                       Heard(fd, r.response.tag, ~r.response.headersSent, TRUE))
    BY <1>10 DEF StreamEnd
  <2>2. p \in Response
    BY <1>3 DEF Response, Finished
  <2>. HIDE DEF p
  <2>3. q \in ClientState
    BY <1>1, <2>2 DEF ClientState
  <2>. HIDE DEF q
  <2>. QED
    BY <2>1, <2>3, AgesEnd
<1>11. CASE StreamFails(fd)
  BY <1>1, <1>11, AgesEnd DEF StreamFails
<1>. QED
  BY <1>4, <1>5, <1>6, <1>7, <1>8, <1>9, <1>10, <1>11
     DEF Write, WriteNothing, SendFails, StreamFails

\* A server takes a client only below its limit.
LEMMA NextCapped == Consistent /\ Answers /\ Capped /\ [Next]_vars => Capped'
<1>. SUFFICES ASSUME Consistent, Answers, Capped, [Next]_vars, NEW s \in Servers
              PROVE  Cardinality(Clients(s)') <= MaxClients
  BY DEF Capped
<1>1. /\ turn \in Servers /\ MaxClients \in Nat /\ OlderBy(client, 0)
      /\ OlderBy(AllOlder(1), 1)
  BY OlderBounds, ConstantsAssumption DEF Consistent, TypeOK
<1>2. ASSUME Clients(s)' \subseteq Clients(s) PROVE Cardinality(Clients(s)') <= MaxClients
  <2>. DEFINE S == Clients(s)'
              C == Clients(s)
  <2>1. /\ Cardinality(S) \in Nat /\ Cardinality(S) <= Cardinality(C)
        /\ Cardinality(C) \in Nat /\ Cardinality(C) <= MaxClients
    BY <1>2, Counted DEF Capped
  <2>. HIDE DEF S, C
  <2>. QED
    BY <1>1, <2>1 DEF S
<1>3. ASSUME NEW k \in Nat, AgedBy(k) PROVE Clients(s)' \subseteq Clients(s)
  BY <1>3 DEF AgedBy
<1>4. ASSUME client' = client PROVE Clients(s)' \subseteq Clients(s)
  BY <1>4 DEF Clients, Keys
<1>5. CASE Select \/ EndServer \/ EndRound \/ SkipAccept \/ AcceptOutOfFds \/ UNCHANGED vars
  BY <1>2, <1>4, <1>5 DEF Select, EndServer, EndRound, SkipAccept, AcceptOutOfFds, vars
<1>6. CASE SelectTimeout
  <2>1. client' = AllOlder(1)
    BY <1>6 DEF SelectTimeout
  <2>2. Clients(s)' = Clients(s)
    BY <1>1, <2>1 DEF OlderBy, SameKeys, Clients
  <2>. QED
    BY <1>2, <2>2
<1>7. CASE RejectConnection \/ SweepIdle
  <2>1. PICK F, cn : CloseConnections(turn, F, client, fdt, cn)
    BY <1>7 DEF RejectConnection, SweepIdle
  <2>. QED
    BY <1>1, <1>2, <1>3, <2>1, AgesClosed
<1>8. CASE AcceptConnection
  <2>1. PICK g \in Free : client' = PutClient(turn, g, NewClient) /\ Cardinality(Clients(turn)) < MaxClients
    BY <1>1, <1>8, Counted DEF AcceptConnection, AtCap
  <2>2. g \in Fd /\ client \in [Servers -> [Fd -> ClientState]]
    BY DEF Free, Consistent, TypeOK
  <2>3. CASE s = turn
    <3>1. Clients(s)' \subseteq Clients(s) \cup {g}
      BY <2>1, <2>2, <2>3 DEF Clients, Keys, PutClient
    <3>2. /\ IsFiniteSet(Clients(s)) /\ Cardinality(Clients(s)) \in Nat
          /\ Cardinality(Clients(s)) < MaxClients
      BY <2>1, <2>3, Counted
    <3>. DEFINE C == Clients(s)
                S == Clients(s)'
    <3>3. /\ IsFiniteSet(C \cup {g}) /\ Cardinality(C \cup {g}) \in Nat
          /\ Cardinality(C \cup {g}) <= Cardinality(C) + 1
      <4>1. Cardinality(C) \in Nat /\ IsFiniteSet(C)
        BY <3>2
      <4>. HIDE DEF C
      <4>2. /\ IsFiniteSet(C \cup {g})
            /\ Cardinality(C \cup {g}) \in {Cardinality(C), Cardinality(C) + 1}
        BY <4>1, FS_AddElement
      <4>. QED
        BY <4>1, <4>2
    <3>4. Cardinality(S) \in Nat /\ Cardinality(S) <= Cardinality(C \cup {g})
      BY <3>1, <3>3, FS_Subset, FS_CardinalityType
    <3>. HIDE DEF C, S
    <3>5. Cardinality(C) \in Nat /\ Cardinality(C) < MaxClients
      BY <3>2 DEF C
    <3>6. Cardinality(S) <= MaxClients
      BY <1>1, <3>3, <3>4, <3>5
    <3>. QED
      BY <3>6 DEF S
  <2>4. CASE s # turn
    <3>1. Clients(s)' = Clients(s)
      BY <2>1, <2>2, <2>4 DEF Clients, Keys, PutClient
    <3>. QED
      BY <1>2, <3>1
  <2>. QED
    BY <2>3, <2>4
<1>9. ASSUME NEW fd \in todo, Write(fd) PROVE Cardinality(Clients(s)') <= MaxClients
  BY <1>2, <1>3, <1>9, AgesWrite
<1>10. ASSUME NEW fd \in todo, Read(fd) PROVE Cardinality(Clients(s)') <= MaxClients
  <2>1. PICK d \in HandlerDelays \cup {0} : AgedBy(d)
    BY <1>10, AgesRead
  <2>2. d \in Nat
    BY ConstantsAssumption
  <2>. QED
    BY <1>2, <1>3, <2>1, <2>2
<1>11. ASSUME NEW c \in Conns, Network(c) PROVE Cardinality(Clients(s)') <= MaxClients
  <2>1. client' = client
    BY <1>11 DEF Network, Connect, SendRequest, SendMore, Hangup, Reset, Stall, Resume
  <2>. QED
    BY SMTT(30), <1>2, <1>4, <2>1
<1>. QED
  BY <1>5, <1>6, <1>7, <1>8, <1>9, <1>10, <1>11 DEF Next, Loop, Accept

\* A step that serves a client keeps everybody within the bound.
LEMMA YoungServed ==
  ASSUME Consistent, Consistent', Capped, Young,
         phase \in {"serve", "write"}, phase' \in {"serve", "write"}, turn' = turn,
         NEW e \in Nat, AgedBy(e), Left' \in Int, Left' <= Left,
         e = 0 \/ (e \in HandlerDelays /\ Left' + 1 <= Left)
  PROVE  Young'
<1>. SUFFICES ASSUME NEW d \in HandlerDelays, Slowest(d),
                     NEW s \in Swept', NEW fd \in Clients(s)'
              PROVE  client'[s][fd].age + d * Left' <= ClientTimeout + MostDelay(d)
  BY DEF Young, Slowest
<1>1. /\ Left \in Int /\ Left' \in Int /\ Left' <= MaxClients * NServers
      /\ turn \in Servers /\ MaxClients * NServers \in Int
      /\ d \in Nat /\ ClientTimeout \in Nat
  <2>1. Left \in Int /\ Left <= MaxClients * NServers /\ turn \in Servers
    BY LeftBounds
  <2>2. MaxClients * NServers \in Int /\ d \in Nat /\ ClientTimeout \in Nat
    BY ConstantsAssumption
  <2>. QED
    BY <2>1, <2>2
<1>2. s \in Servers /\ s \in Swept
  BY <1>1, ConstantsAssumption DEF Swept, Servers
<1>3. fd \in Clients(s)
  BY <1>2 DEF AgedBy
<1>4. client[s][fd].age \in Nat /\ client'[s][fd].age \in Nat
  <2>1. client[s][fd] \in ClientState /\ fd \in Fd
    BY <1>2, <1>3, EveryClient
  <2>2. client'[s][fd] \in ClientState
    BY <1>2, <2>1 DEF Consistent, TypeOK
  <2>. QED
    BY <2>1, <2>2, ConstantsAssumption DEF ClientState
<1>5. client[s][fd].age + d * Left <= ClientTimeout + MostDelay(d)
  BY <1>2, <1>3 DEF Young
<1>6. client'[s][fd].age = 0 \/ client'[s][fd].age <= client[s][fd].age + e
  BY <1>2 DEF AgedBy
<1>7. d * Left' <= MostDelay(d) /\ d * Left' <= d * Left
  BY <1>1, Scaled DEF MostDelay
<1>8. e = 0 \/ d * Left' + e <= d * Left
  <2>. SUFFICES ASSUME e \in HandlerDelays, Left' + 1 <= Left PROVE d * Left' + e <= d * Left
    OBVIOUS
  <2>1. e <= d
    BY DEF Slowest
  <2>2. d * Left' + d <= d * Left
    BY <1>1, Scaled
  <2>. DEFINE x == d * Left
              y == d * Left'
  <2>3. x \in Int /\ y \in Int /\ y + d <= x
    BY <1>1, <2>2, Scaled
  <2>. HIDE DEF x, y
  <2>4. y + e <= x
    BY <1>1, <2>1, <2>3
  <2>. QED
    BY <2>4 DEF x, y
<1>9. d * Left' \in Int /\ d * Left \in Int /\ MostDelay(d) \in Int
  BY <1>1 DEF MostDelay
<1>. DEFINE x == d * Left
            y == d * Left'
            a == client[s][fd].age
            b == client'[s][fd].age
            m == MostDelay(d)
<1>. HIDE DEF x, y, a, b, m
<1>10. b + y <= ClientTimeout + m
  <2>1. /\ x \in Int /\ y \in Int /\ a \in Nat /\ b \in Nat /\ m \in Int
        /\ a + x <= ClientTimeout + m /\ (b = 0 \/ b <= a + e)
        /\ y <= m /\ y <= x /\ (e = 0 \/ y + e <= x)
    BY <1>4, <1>5, <1>6, <1>7, <1>8, <1>9 DEF x, y, a, b, m
  <2>. QED
    BY <1>1, <2>1
<1>. QED
  BY <1>10 DEF x, y, a, b, m

\* Every step of the loop keeps the bound.
LEMMA NextYoung ==
  Consistent /\ Consistent' /\ Answers /\ Capped /\ Young /\ [Next]_vars => Young'
<1>. SUFFICES ASSUME Consistent, Consistent', Answers, Capped, Young, [Next]_vars PROVE Young'
  OBVIOUS
<1>1. /\ turn \in Servers /\ turn \in 1..NServers /\ NServers \in Nat /\ MaxClients \in Nat
      /\ OlderBy(client, 0)
  BY OlderBounds, ConstantsAssumption DEF Consistent, TypeOK, Servers
<1>2. CASE phase' \notin {"sweep", "serve", "write"}
  BY <1>2 DEF Young
<1>3. ASSUME UNCHANGED <<phase, turn, todo, client>> PROVE Young'
  BY <1>3 DEF Young, Swept, Left, LeftHere, Clients, Keys
<1>4. CASE Select \/ EndRound
  <2>1. phase' = "accept" \/ phase' = "select"
    BY <1>4 DEF Select, EndRound
  <2>. QED
    BY <1>2, <2>1
<1>5. CASE SelectTimeout
  <2>1. phase' = "select"
    BY <1>5 DEF SelectTimeout, loopVars
  <2>. QED
    BY <1>2, <2>1
<1>6. CASE Accept
  <2>1. NextAccept
    BY <1>6 DEF Accept, SkipAccept, RejectConnection, AcceptConnection, AcceptOutOfFds
  <2>2. phase' = "accept" \/ (phase' = "sweep" /\ turn' = 1)
    BY <2>1 DEF NextAccept
  <2>3. CASE phase' = "sweep" /\ turn' = 1
    <3>1. Swept' = {}
      BY <2>3 DEF Swept
    <3>. QED
      BY <3>1 DEF Young
  <2>. QED
    BY <1>2, <2>2, <2>3
<1>7. CASE SweepIdle
  <2>. DEFINE stale == {fd \in Clients(turn) : Stale(client[turn][fd])}
  <2>1. /\ phase = "sweep" /\ phase' = "serve" /\ turn' = turn
        /\ todo' \subseteq Clients(turn) \ stale
        /\ CloseConnections(turn, stale, client, fdt, conn)
    BY <1>7 DEF SweepIdle
  <2>2. AgedBy(0) /\ \A x \in Servers : x = turn => Clients(x)' \subseteq Clients(x) \ stale
    BY <1>1, <2>1, AgesClosed
  <2>3. Cardinality(todo') \in Nat /\ Cardinality(todo') <= MaxClients
    <3>1. todo' \in SUBSET Clients(turn)
      BY <2>1
    <3>2. /\ Cardinality(todo') \in Nat /\ Cardinality(Clients(turn)) \in Nat
          /\ Cardinality(todo') <= Cardinality(Clients(turn))
      BY <1>1, <3>1, Counted
    <3>. QED
      BY <1>1, <3>2 DEF Capped
  <2>4. /\ Left \in Int /\ Left <= MaxClients * NServers /\ MaxClients * NServers \in Int
        /\ MaxClients * (NServers - turn) \in Int
    BY <1>1, <2>1, LeftBounds
  <2>5. Left' \in Int /\ Left' <= Left
    BY <1>1, <2>1, <2>3, <2>4 DEF Left, LeftHere
  <2>. SUFFICES ASSUME NEW d \in HandlerDelays, Slowest(d),
                       NEW s \in Swept', NEW fd \in Clients(s)'
                PROVE  client'[s][fd].age + d * Left' <= ClientTimeout + MostDelay(d)
    BY DEF Young, Slowest
  <2>6. s \in 1..turn /\ s \in Servers
    BY <1>1, <2>1 DEF Swept, Servers
  <2>7. fd \in Clients(s) /\ (client'[s][fd].age = 0 \/ client'[s][fd].age <= client[s][fd].age)
    <3>1. fd \in Clients(s) /\ (client'[s][fd].age = 0 \/ client'[s][fd].age <= client[s][fd].age + 0)
      BY <2>2, <2>6 DEF AgedBy
    <3>2. client[s][fd].age \in Nat
      BY <2>6, <3>1, EveryClient, ConstantsAssumption DEF ClientState
    <3>. QED
      BY <3>1, <3>2
  <2>8. client[s][fd].age \in Nat /\ client'[s][fd].age \in Nat
    <3>1. client[s][fd] \in ClientState /\ fd \in Fd
      BY <2>6, <2>7, EveryClient
    <3>2. client'[s][fd] \in ClientState
      BY <2>6, <3>1 DEF Consistent, TypeOK
    <3>. QED
      BY <3>1, <3>2, ConstantsAssumption DEF ClientState
  <2>9. d \in Nat /\ ClientTimeout \in Nat
    BY ConstantsAssumption
  <2>. DEFINE x == d * Left
              y == d * Left'
              a == client[s][fd].age
              b == client'[s][fd].age
              m == MostDelay(d)
  <2>10. x \in Int /\ y \in Int /\ m \in Int /\ y <= x /\ x <= m
    <3>1. d * Left \in Int /\ d * Left' \in Int /\ d * Left' <= d * Left
      BY <2>4, <2>5, <2>9, Scaled
    <3>2. d * (MaxClients * NServers) \in Int /\ d * Left <= d * (MaxClients * NServers)
      BY <2>4, <2>9, Scaled
    <3>. QED
      BY <3>1, <3>2 DEF MostDelay
  <2>11. a <= ClientTimeout \/ a + x <= ClientTimeout + m
    <3>1. CASE s = turn
      <4>1. fd \in Clients(turn) \ stale
        BY <2>2, <2>6, <3>1
      <4>2. ~(client[turn][fd].age > ClientTimeout)
        BY <4>1 DEF Stale
      <4>. QED
        BY <2>8, <2>9, <3>1, <4>2
    <3>2. CASE s # turn
      <4>1. s \in Swept
        BY <1>1, <2>1, <2>6, <3>2 DEF Swept
      <4>. QED
        BY <2>1, <2>7, <4>1 DEF Young
    <3>. QED
      BY <3>1, <3>2
  <2>. HIDE DEF x, y, a, b, m
  <2>12. a \in Nat /\ b \in Nat /\ (b = 0 \/ b <= a)
    BY <2>7, <2>8 DEF a, b
  <2>13. b + y <= ClientTimeout + m
    BY <2>9, <2>10, <2>11, <2>12
  <2>. QED
    BY <2>13 DEF y, b, m
<1>8. ASSUME NEW fd \in todo, Read(fd) PROVE Young'
  <2>1. PICK e \in HandlerDelays \cup {0} : AgedBy(e)
    BY <1>8, AgesRead
  <2>2. PICK stays \in BOOLEAN : Reading(fd) /\ AfterRead(fd, stays)
    BY <1>8, AgesRead
  <2>3. phase \in {"serve", "write"} /\ phase' \in {"serve", "write"} /\ turn' = turn /\ e \in Nat
    <3>1. phase' \in {"serve", "write"} /\ turn' = turn
      BY <2>2 DEF AfterRead
    <3>2. phase \in {"serve", "write"} /\ e \in Nat
      BY ServedFacts, ConstantsAssumption
    <3>. QED
      BY <3>1, <3>2
  <2>4. Left' \in Int /\ Left' + 1 <= Left
    BY <2>2, <2>3, LeftServed
  <2>5. Left' <= Left
    BY <2>3, <2>4, LeftBounds
  <2>. QED
    BY <2>1, <2>3, <2>4, <2>5, YoungServed
<1>9. ASSUME NEW fd \in todo, Write(fd) PROVE Young'
  <2>1. AgedBy(0) /\ AfterWrite(fd) /\ 0 \in Nat
    BY <1>9, AgesWrite
  <2>2. phase \in {"serve", "write"} /\ phase' \in {"serve", "write"} /\ turn' = turn
    BY <2>1, ServedFacts DEF AfterWrite
  <2>3. Left' \in Int /\ Left' <= Left
    BY <2>1, <2>2, LeftServed
  <2>. QED
    BY <2>1, <2>2, <2>3, YoungServed
<1>10. CASE EndServer
  <2>1. /\ phase = "serve" /\ todo = {} /\ turn < NServers
        /\ turn' = turn + 1 /\ phase' = "sweep" /\ client' = client
    BY <1>10 DEF EndServer
  <2>2. Left' = Left
    <3>1. Cardinality(todo) = 0
      BY <2>1, FS_EmptySet
    <3>2. LeftHere = 0 /\ LeftHere' = MaxClients
      BY <2>1, <3>1 DEF LeftHere
    <3>3. NServers - turn' = (NServers - turn) - 1 /\ NServers - turn \in Int
      BY <1>1, <2>1
    <3>4. \A m \in Nat, i \in Int : m * (i - 1) + m = m * i + 0
      OBVIOUS
    <3>. QED
      BY <1>1, <3>2, <3>3, <3>4 DEF Left
  <2>3. Swept' = Swept /\ \A s \in Servers : Clients(s)' = Clients(s)
    BY <1>1, <2>1 DEF Swept, Clients, Keys
  <2>4. Swept \subseteq Servers
    BY <1>1, <2>1 DEF Swept, Servers
  <2>. QED
    BY <2>1, <2>2, <2>3, <2>4 DEF Young, Slowest, MostDelay
<1>11. ASSUME NEW c \in Conns, Network(c) PROVE Young'
  <2>1. UNCHANGED <<phase, turn, todo, client>>
    BY <1>11 DEF Network, Connect, SendRequest, SendMore, Hangup, Reset, Stall, Resume, loopVars
  <2>. QED
    BY SMTT(30), <1>3, <2>1
<1>12. CASE UNCHANGED vars
  BY <1>3, <1>12 DEF vars
<1>. QED
  BY <1>4, <1>5, <1>6, <1>7, <1>8, <1>9, <1>10, <1>11, <1>12 DEF Next, Loop

-----------------------------------------------------------------------------
(* The theorems. *)

\* Every request is followed from the queue to its response, in every state.
THEOREM AnswersFollowed == Spec => [](Consistent /\ Answers)
<1>1. Init => Consistent /\ Answers
  BY InitConsistent, InitAnswers
<1>2. Consistent /\ Answers /\ [Next]_vars => (Consistent /\ Answers)'
  BY NextConsistent, NextAnswers
<1>. QED
  BY <1>1, <1>2, PTL DEF Spec

\* Clients hear the responses to their own requests, in order, none twice and
\* none before the one before it has ended, on any interleaving of any number of
\* connections, whatever descriptors and buffers were used before.
THEOREM AnswersStayInOrder == Spec => []AnswersInOrder
<1>1. Consistent /\ Answers => AnswersInOrder
  <2>. SUFFICES ASSUME Consistent, Answers, NEW c \in Conns
                PROVE  LET r == conn[c]
                           named == {i \in DOMAIN r.out : r.out[i] # BadRequest}
                       IN
                       /\ \A i \in named :
                            /\ r.out[i] \in {c} \X DOMAIN r.reqs
                            /\ \A j \in named : i < j => r.out[i][2] < r.out[j][2]
                       /\ \A i \in DOMAIN r.out \ named : \E n \in DOMAIN r.reqs :
                            /\ r.reqs[n] = "earlyMark"
                            /\ \A j \in named : IF j < i THEN r.out[j][2] < n
                                                         ELSE r.out[j][2] > n
                       /\ r.done <= Len(r.out) /\ Len(r.out) <= r.done + 1
    BY DEF AnswersInOrder
  <2>. DEFINE r == conn[c]
              named == {i \in DOMAIN r.out : r.out[i] # BadRequest}
  <2>1. Past(c, r) /\ r \in Connection
    BY DEF Answers, Told, Consistent, TypeOK
  <2>2. DOMAIN r.out = 1..Len(r.out) /\ Len(r.out) \in Nat
    BY <2>1, ConnectionFields
  <2>. HIDE DEF r
  <2>3. /\ \A i \in named : Number(r.out, i) = r.out[i][2]
        /\ \A i \in DOMAIN r.out \ named : Number(r.out, i) = i
    BY DEF Number
  <2>4. ASSUME NEW i \in DOMAIN r.out \ named
        PROVE  \E n \in DOMAIN r.reqs :
                 /\ r.reqs[n] = "earlyMark"
                 /\ \A j \in named : IF j < i THEN r.out[j][2] < n ELSE r.out[j][2] > n
    <3>1. i \in DOMAIN r.reqs /\ r.reqs[i] = "earlyMark"
      BY <2>1 DEF Past
    <3>2. ASSUME NEW j \in named
          PROVE  IF j < i THEN r.out[j][2] < i ELSE r.out[j][2] > i
      <4>1. j # i /\ j \in DOMAIN r.out
        OBVIOUS
      <4>2. j < i => Number(r.out, j) < i
        BY <2>1, <2>3 DEF Past
      <4>3. i < j => i < Number(r.out, j)
        BY <2>1, <2>3, <4>1 DEF Past
      <4>4. Number(r.out, j) = r.out[j][2] /\ Number(r.out, j) \in 1..Len(r.reqs)
        BY <2>1, <2>3, NumberBounds
      <4>. HIDE DEF named
      <4>. QED
        BY <2>2, <4>1, <4>2, <4>3, <4>4
    <3>. QED
      BY <3>1, <3>2
  <2>5. \A i \in named : /\ r.out[i] \in {c} \X DOMAIN r.reqs
                         /\ \A j \in named : i < j => r.out[i][2] < r.out[j][2]
    <3>1. ASSUME NEW i \in named, NEW j \in named, i < j
          PROVE  r.out[i][2] < r.out[j][2]
      <4>1. Number(r.out, i) < Number(r.out, j)
        BY <2>1, <3>1 DEF Past
      <4>. QED
        BY <2>3, <4>1
    <3>. QED
      BY <2>1, <3>1 DEF Past
  <2>6. r.done <= Len(r.out) /\ Len(r.out) <= r.done + 1
    BY <2>1 DEF Past
  <2>. QED
    BY <2>4, <2>5, <2>6 DEF r
<1>. QED
  BY <1>1, AnswersFollowed, PTL

\* A response's file stays open without an owner only after its connection was
\* closed under it or reset: no response that ends, and no next request, leaks it.
THEOREM LeaksAreLosses == Spec => LeaksOnlyOnLoss
<1>. DEFINE P == \A s \in Servers, fd, f \in Fd :
                   /\ Owner(s, fd, f) /\ fdt[f].kind = "file"
                   /\ fdt'[f].kind = "file" /\ ~Owner(s, fd, f)'
                   => LET c == ConnOf(fd) IN conn[c].peer = "rst" \/ conn'[c].status = "closed"
<1>1. Consistent /\ Answers /\ [Next]_vars => P
  <2>. SUFFICES ASSUME Consistent, Answers, [Next]_vars,
                       NEW s \in Servers, NEW fd \in Fd, NEW f \in Fd,
                       fd \in Clients(s), client[s][fd].response.fd = f,
                       fdt'[f].kind = "file",
                       ~(fd \in Clients(s)' /\ client'[s][fd].response.fd = f)
                PROVE  conn[ConnOf(fd)].peer = "rst" \/ conn'[ConnOf(fd)].status = "closed"
    BY DEF Owner
  <2>1. Gone(s, fd) \/ Stays(s, fd)
    BY NextFate DEF Fate
  <2>2. f # NoFd
    BY ConstantsAssumption DEF Fd, NoFd
  <2>. QED
    BY <2>1, <2>2 DEF Gone, Stays, KeepsFile
<1>2. Consistent /\ Answers /\ [Next]_vars => [P]_vars
  BY <1>1
<1>. QED
  BY <1>2, AnswersFollowed, PTL DEF Spec, LeaksOnlyOnLoss

\* As the code sets both timeouts to 60 (WebServ.hpp), a response is never cut
\* short while its client makes progress: with a shorter keep-alive timeout the
\* sweep would close clients that are waiting to be written to.
THEOREM ResponsesAreWhole == ClientTimeout <= KeepAliveTimeout => (Spec => NeverCutShort)
<1>. SUFFICES ASSUME ClientTimeout <= KeepAliveTimeout PROVE Spec => NeverCutShort
  OBVIOUS
<1>. DEFINE P == \A s \in Servers : \A fd \in Clients(s) :
                   LET c == ConnOf(fd) IN
                   /\ conn'[c].status = "closed" /\ Len(conn[c].out) > conn'[c].done
                   => conn[c].peer = "rst" \/ client[s][fd].age > ClientTimeout
<1>1. Consistent /\ Answers /\ [Next]_vars => P
  <2>. SUFFICES ASSUME Consistent, Answers, [Next]_vars,
                       NEW s \in Servers, NEW fd \in Clients(s),
                       conn'[ConnOf(fd)].status = "closed",
                       Len(conn[ConnOf(fd)].out) > conn'[ConnOf(fd)].done
                PROVE  conn[ConnOf(fd)].peer = "rst" \/ client[s][fd].age > ClientTimeout
    OBVIOUS
  <2>1. Gone(s, fd)
    BY NextFate DEF Fate, Stays
  <2>2. /\ Len(conn[ConnOf(fd)].out) \in Nat /\ client[s][fd].age \in Nat
        /\ conn'[ConnOf(fd)].done \in Nat
    <3>1. conn[ConnOf(fd)] \in Connection /\ client[s][fd] \in ClientState
      BY EveryClient
    <3>2. Consistent' /\ ConnOf(fd) \in Conns
      BY NextConsistent, EveryClient
    <3>3. conn'[ConnOf(fd)] \in Connection
      BY <3>2 DEF Consistent, TypeOK
    <3>4. client[s][fd].age \in 0..AgeCap
      BY <3>1 DEF ClientState
    <3>. QED
      BY <3>1, <3>3, <3>4, ConnectionFields, ConstantsAssumption
  <2>. QED
    BY <2>1, <2>2, ConstantsAssumption DEF Gone, Excused
<1>2. Consistent /\ Answers /\ [Next]_vars => [P]_vars
  BY <1>1
<1>. QED
  BY <1>2, AnswersFollowed, PTL DEF Spec, NeverCutShort

\* No server ever serves more clients than MAX_CLIENTS, however connections are
\* accepted, turned away, reaped and closed.
THEOREM NeverOverLimit == Spec => []Capped
<1>1. Init => Capped
  <2>. SUFFICES ASSUME Init PROVE Capped
    OBVIOUS
  <2>1. \A s \in Servers : Clients(s) = {}
    BY DEF Init, Clients, Keys, Absent, NewClient
  <2>. QED
    BY <2>1, FS_EmptySet, ConstantsAssumption DEF Capped
<1>. QED
  BY <1>1, NextCapped, AnswersFollowed, PTL DEF Spec

\* When a round ends nobody is left who was silent for longer than the timeout
\* and what the handlers of the round added, with any number of servers and
\* clients: no server's clients wait for a sweep that other servers put off.
THEOREM IdleAlwaysReaped == Spec => IdleReaped
<1>. DEFINE P == phase # "select" /\ phase' = "select" =>
                   \A s \in Servers : \A fd \in Clients(s) :
                     \A d \in HandlerDelays : (\A e \in HandlerDelays : e <= d) =>
                       client[s][fd].age <= ClientTimeout + d * NServers * MaxClients
<1>1. Init => Young
  BY DEF Init, Young
<1>2. /\ Consistent /\ Answers /\ Capped /\ Young /\ [Next]_vars
      /\ Consistent'
      => Young'
  BY NextYoung
<1>3. Consistent /\ Answers /\ Capped /\ Young /\ [Next]_vars => [P]_vars
  <2>. SUFFICES ASSUME Consistent, Answers, Capped, Young, [Next]_vars,
                       phase # "select", phase' = "select",
                       NEW s \in Servers, NEW fd \in Clients(s), NEW d \in HandlerDelays,
                       \A e \in HandlerDelays : e <= d
                PROVE  client[s][fd].age <= ClientTimeout + d * NServers * MaxClients
    OBVIOUS
  <2>1. phase = "serve" /\ todo = {} /\ turn = NServers
    <3>1. ASSUME NEW c \in Conns, Network(c) PROVE FALSE
      BY <3>1 DEF Network, loopVars, Connect, SendRequest, SendMore, Hangup, Reset, Stall, Resume
    <3>2. ASSUME NEW g \in todo, Read(g) \/ Write(g) PROVE FALSE
      <4>1. CASE Read(g)
        BY <4>1, AgesRead DEF AfterRead
      <4>2. CASE Write(g)
        BY <4>2, AgesWrite DEF AfterWrite
      <4>. QED
        BY <3>2, <4>1, <4>2
    <3>3. ~Accept
      BY DEF Accept, SkipAccept, RejectConnection, AcceptConnection, AcceptOutOfFds, NextAccept
    <3>4. ~Select /\ ~SelectTimeout /\ ~SweepIdle /\ ~EndServer /\ ~UNCHANGED vars
      BY DEF Select, SelectTimeout, SweepIdle, EndServer, vars
    <3>5. EndRound
      BY <3>1, <3>2, <3>3, <3>4 DEF Next, Loop
    <3>. QED
      BY SMTT(30), <3>5 DEF EndRound
  <2>2. Left = 0
    <3>1. MaxClients * (NServers - NServers) = 0 /\ Cardinality(todo) = 0
      BY <2>1, FS_EmptySet, ConstantsAssumption
    <3>. QED
      BY <2>1, <3>1 DEF Left, LeftHere
  <2>3. s \in Swept /\ Slowest(d) /\ d \in Nat
    BY <2>1, ConstantsAssumption DEF Swept, Servers, Slowest
  <2>4. client[s][fd].age + d * 0 <= ClientTimeout + MostDelay(d)
    BY <2>1, <2>2, <2>3 DEF Young
  <2>5. client[s][fd].age \in Nat
    BY EveryClient, ConstantsAssumption DEF ClientState
  <2>6. \A i, j, k \in Nat : i * 0 = 0 /\ i * (j * k) = i * k * j
    OBVIOUS
  <2>7. d * 0 = 0 /\ MostDelay(d) = d * NServers * MaxClients /\ MostDelay(d) \in Nat
    BY <2>3, <2>6, ConstantsAssumption DEF MostDelay
  <2>. QED
    BY <2>4, <2>5, <2>7, ConstantsAssumption
<1>. QED
  BY <1>1, <1>2, <1>3, AnswersFollowed, NeverOverLimit, PTL DEF Spec, IdleReaped
=============================================================================
