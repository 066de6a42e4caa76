-------------------------- MODULE ResponseWriterProofs --------------------------
(***************************************************************************)
(* For every size of headers, bodies, chunks and send buffer: as long as   *)
(* streamed files fit in the send buffer, ResponseWriter implements        *)
(* Delivery.                                                               *)
(***************************************************************************)
EXTENDS ResponseWriter, SequenceTheorems, TLAPS

\* Bytes of the response in hand that were given to the socket.
Sent == IF state = "IDLE" THEN Length
        ELSE IF file THEN (IF headersSent THEN HeaderSize ELSE 0) + pos
        ELSE written

\* What is being written is a response that was issued after the client had
\* all of the previous one.
Writing == state = "WRITING_RESPONSE" =>
             /\ Base <= Len(got) /\ link # "closed"
             /\ file => size \in FileSizes
             /\ ~headersSent => pos = 0

\* The bytes of q are those of the stream that follow the first g.
Follows(q, g) == \A i \in 1..Len(q) : q[i] = g + i

\* The client's bytes, then those in the send buffer, then those still unsent,
\* are the stream without a gap.
InStream ==
  /\ Follows(got, 0)
  /\ Len(got) <= issued
  /\ Follows(queue, Len(got))
  /\ IF link = "broken" THEN queue = <<>> ELSE Len(got) + Len(queue) = Base + Sent

\* The types, with the response being written a part of the stream.
Typed == TypeOK /\ (state = "WRITING_RESPONSE" => Base \in Nat)

IInv == Typed /\ Writing /\ InStream

USE SizesAssumption DEF SizesAssumption, Length, Base

\* Appending bytes of the stream to a sequence of them.
LEMMA AppendBytes ==
  ASSUME NEW q \in Seq(Nat), NEW from \in Nat, NEW n \in Nat
  PROVE  /\ q \o Bytes(from, n) \in Seq(Nat) /\ Len(q \o Bytes(from, n)) = Len(q) + n
         /\ \A i \in 1..(Len(q) + n) :
              (q \o Bytes(from, n))[i] = IF i <= Len(q) THEN q[i] ELSE from + (i - Len(q))
<1>. DEFINE b == Bytes(from, n)
<1>1. b \in Seq(Nat) /\ Len(b) = n /\ \A i \in 1..n : b[i] = from + i
  BY DEF Bytes
<1>. HIDE DEF b
<1>2. q \o b \in Seq(Nat) /\ Len(q \o b) = Len(q) + n
  BY <1>1
<1>3. ASSUME NEW i \in 1..(Len(q) + n)
      PROVE  (q \o b)[i] = IF i <= Len(q) THEN q[i] ELSE from + (i - Len(q))
  <2>1. (q \o b)[i] = IF i <= Len(q) THEN q[i] ELSE b[i - Len(q)]
    BY <1>1
  <2>2. Len(q) \in Nat /\ (i > Len(q) => i - Len(q) \in 1..n)
    OBVIOUS
  <2>. QED
    BY <1>1, <2>1, <2>2
<1>. QED
  BY <1>2, <1>3 DEF b

\* The queue keeps to the stream when the bytes that follow are appended.
LEMMA QueueGrows ==
  ASSUME NEW q \in Seq(Nat), NEW from \in Nat, NEW n \in Nat, NEW g \in Nat,
         Follows(q, g), from = g + Len(q)
  PROVE  Follows(q \o Bytes(from, n), g)
<1>. DEFINE r == q \o Bytes(from, n)
<1>0. Len(q) \in Nat
  OBVIOUS
<1>1. /\ Len(r) = Len(q) + n
      /\ \A i \in 1..(Len(q) + n) : r[i] = IF i <= Len(q) THEN q[i] ELSE from + (i - Len(q))
  BY AppendBytes
<1>. HIDE DEF r
<1>2. ASSUME NEW i \in 1..Len(r) PROVE r[i] = g + i
  <2>1. i \in 1..(Len(q) + n)
    BY <1>1
  <2>2. r[i] = IF i <= Len(q) THEN q[i] ELSE from + (i - Len(q))
    BY <1>1, <2>1
  <2>3. CASE i <= Len(q)
    <3>1. i \in 1..Len(q)
      BY <1>0, <2>1, <2>3
    <3>. QED
      BY <2>2, <2>3, <3>1 DEF Follows
  <2>4. CASE ~(i <= Len(q))
    BY <1>0, <2>1, <2>2, <2>4
  <2>. QED
    BY <2>3, <2>4
<1>. QED
  BY <1>2 DEF Follows, r

\* Nothing is appended when no byte is sent.
LEMMA NoBytes ==
  ASSUME NEW q \in Seq(Nat), NEW from \in Int
  PROVE  q \o Bytes(from, 0) = q
<1>1. Bytes(from, 0) = <<>>
  BY DEF Bytes
<1>. QED
  BY <1>1, ConcatEmptySeq

\* Concatenation of sequences of numbers is associative.
LEMMA NatConcatAssociative ==
  ASSUME NEW q \in Seq(Nat), NEW b \in Seq(Nat), NEW c \in Seq(Nat)
  PROVE  (q \o b) \o c = q \o (b \o c)
  BY ConcatAssociative

\* Bytes in two parts, of which the second follows the first.
LEMMA BytesTogether ==
  ASSUME NEW from \in Nat, NEW m \in Nat, NEW n \in Nat
  PROVE  /\ Bytes(from, m) \o Bytes(from + m, n) = Bytes(from, m + n)
         /\ Bytes(from, m) \in Seq(Nat) /\ Bytes(from + m, n) \in Seq(Nat)
  BY DEF Bytes

\* send() takes no more than it is given and no more than there is room for.
LEMMA FittingBounds ==
  ASSUME NEW n \in Nat, NEW room \in Nat
  PROVE  /\ Fitting(n, room) \in Nat /\ Fitting(n, room) <= n /\ Fitting(n, room) <= room
         /\ n <= room => Fitting(n, room) = n
  BY DEF Fitting

-----------------------------------------------------------------------------
(* Type correctness, whatever the sizes. *)

\* The variables start with their types.
LEMMA TypedInit == Init => Typed
<1>1. ASSUME Init PROVE Typed
  <2>1. size \in Nat /\ queue \in Seq(Nat) /\ Len(queue) <= SndBuf /\ got \in Seq(Nat)
        /\ issued \in Nat
    BY <1>1 DEF Init
  <2>2. written \in 0..Length
    BY <1>1 DEF Init
  <2>3. pos \in 0..size
    BY <1>1 DEF Init
  <2>. QED
    BY <1>1, <2>1, <2>2, <2>3 DEF Init, TypeOK, Typed
<1>. QED
  BY <1>1

\* What a call that sends leaves of the type invariant to be shown.
LEMMA SendingTyped ==
  ASSUME Typed, state = "WRITING_RESPONSE", UNCHANGED <<response, got>>,
         queue' \in Seq(Nat), Len(queue') <= SndBuf,
         written' \in 0..Length, headersSent' \in BOOLEAN, pos' \in 0..size,
         \/ UNCHANGED <<state, link>>
         \/ state' = "IDLE" /\ link' \in {"open", "broken", "closed"}
  PROVE  Typed'
  BY DEF Typed, TypeOK, response

\* Ending a response keeps the types.
LEMMA EndResponseTyped ==
  ASSUME Typed, EndResponse
  PROVE  /\ state' = "IDLE" /\ written' \in 0..Length
         /\ link' \in {"open", "broken", "closed"}
  BY DEF EndResponse, Typed, TypeOK

\* Every step keeps the types.
LEMMA TypedStep ==
  ASSUME Typed, [Next]_vars
  PROVE  Typed'
<1>0. /\ Len(queue) \in Nat /\ SndBuf - Len(queue) \in Nat /\ Length - written \in Nat
      /\ size - pos \in Nat /\ queue \in Seq(Nat) /\ size \in Nat /\ pos \in Nat
      /\ written \in 0..Length /\ headersSent \in BOOLEAN /\ HeadersDue \in Nat /\ pos \in 0..size
      /\ Len(queue) <= SndBuf
  BY DEF Typed, TypeOK, HeadersDue
<1>01. /\ Fitting(HeadersDue, SndBuf - Len(queue)) \in Nat
       /\ Fitting(HeadersDue, SndBuf - Len(queue)) <= SndBuf - Len(queue)
  <2>. DEFINE due == HeadersDue
              room == SndBuf - Len(queue)
  <2>1. due \in Nat /\ room \in Nat
    BY <1>0
  <2>. HIDE DEF due, room
  <2>2. Fitting(due, room) \in Nat /\ Fitting(due, room) <= room
    BY <2>1, FittingBounds
  <2>. QED
    BY <2>2 DEF due, room
<1>1. ASSUME NEW f \in BOOLEAN, NEW n \in BufferedSizes \cup FileSizes, NEW keep \in BOOLEAN,
             Respond(f, n, keep)
      PROVE  Typed'
  <2>1. /\ n \in Nat /\ size' = n /\ written' = 0 /\ pos' = 0 /\ issued' = issued + HeaderSize + n
        /\ state' = "WRITING_RESPONSE" /\ file' = f /\ keepAlive' = keep /\ headersSent' = FALSE
        /\ UNCHANGED <<queue, got, link>>
    BY <1>1 DEF Respond
  <2>2. issued \in Nat
    BY DEF Typed, TypeOK
  <2>3. written' \in 0..Length' /\ size' \in Nat
    BY <2>1
  <2>4. pos' \in 0..size'
    BY <2>1
  <2>5. issued' \in Nat /\ Base' \in Nat
    BY <2>1, <2>2
  <2>. QED
    BY <2>1, <2>3, <2>4, <2>5 DEF Typed, TypeOK
<1>2. CASE SendBuffered
  <2>. DEFINE n == Fitting(Length - written, SndBuf - Len(queue))
  <2>1. n \in Nat /\ n <= Length - written /\ n <= SndBuf - Len(queue)
    BY <1>0, FittingBounds
  <2>2. /\ state = "WRITING_RESPONSE" /\ queue' = queue \o Bytes(Unsent, n)
        /\ UNCHANGED <<response, headersSent, pos, got>>
        /\ \/ EndResponse
           \/ written' = written + n /\ UNCHANGED <<state, link>>
    BY <1>2 DEF SendBuffered
  <2>. HIDE DEF n
  <2>3. Unsent \in Nat
    BY <1>0, <2>2 DEF Unsent, Typed
  <2>4. queue' \in Seq(Nat) /\ Len(queue') <= SndBuf
    BY <1>0, <2>1, <2>2, <2>3, AppendBytes
  <2>5. written' \in 0..Length /\ (UNCHANGED <<state, link>> \/ (state' = "IDLE" /\ link' \in {"open", "broken", "closed"}))
    BY <1>0, <2>1, <2>2, EndResponseTyped
  <2>. QED
    BY <1>0, <2>2, <2>4, <2>5, SendingTyped
<1>3. CASE SendFails
  BY <1>3 DEF SendFails, Typed, TypeOK, response
<1>4. CASE StreamChunk
  <2>. DEFINE room == SndBuf - Len(queue)
              h == Fitting(HeadersDue, room)
              chunk == Fitting(size - pos, ChunkSize)
              n == Fitting(chunk, room - h)
  <2>1. h \in Nat /\ h <= room
    BY <1>01
  <2>2. chunk \in Nat /\ chunk <= size - pos
    <3>1. ChunkSize \in Nat
      OBVIOUS
    <3>. QED
      BY <1>0, <3>1, FittingBounds
  <2>3. room - h \in Nat
    BY <1>0, <2>1
  <2>4. n \in Nat /\ n <= room - h
    BY <2>2, <2>3, FittingBounds
  <2>5. /\ state = "WRITING_RESPONSE"
        /\ queue' = (queue \o Bytes(Base, h)) \o Bytes(Base + HeaderSize + pos, n)
        /\ headersSent' = TRUE /\ pos' = pos + chunk
        /\ UNCHANGED <<response, state, written, got, link>>
    BY <1>4 DEF StreamChunk
  <2>. HIDE DEF room, h, chunk, n
  <2>6. Base \in Nat /\ Base + HeaderSize + pos \in Nat
    BY <1>0, <2>5 DEF Typed
  <2>7. queue \o Bytes(Base, h) \in Seq(Nat) /\ Len(queue \o Bytes(Base, h)) = Len(queue) + h
    BY <1>0, <2>1, <2>6, AppendBytes
  <2>8. queue' \in Seq(Nat) /\ Len(queue') = Len(queue) + h + n
    <3>. DEFINE q == queue \o Bytes(Base, h)
                from == Base + HeaderSize + pos
    <3>1. q \in Seq(Nat) /\ Len(q) = Len(queue) + h /\ from \in Nat /\ queue' = q \o Bytes(from, n)
      BY <2>5, <2>6, <2>7
    <3>. HIDE DEF q, from
    <3>2. q \o Bytes(from, n) \in Seq(Nat) /\ Len(q \o Bytes(from, n)) = Len(q) + n
      BY <2>4, <3>1, AppendBytes
    <3>. QED
      BY <3>1, <3>2
  <2>9. Len(queue') <= SndBuf
    BY <1>0, <2>1, <2>4, <2>8 DEF room
  <2>10. written' \in 0..Length /\ headersSent' \in BOOLEAN /\ pos' \in 0..size
    BY <1>0, <2>2, <2>5
  <2>. QED
    BY <2>5, <2>8, <2>9, <2>10, SendingTyped
<1>5. CASE StreamEnd
  <2>. DEFINE h == Fitting(HeadersDue, SndBuf - Len(queue))
  <2>1. h \in Nat /\ h <= SndBuf - Len(queue)
    BY <1>01
  <2>2. /\ state = "WRITING_RESPONSE" /\ queue' = queue \o Bytes(Base, h)
        /\ headersSent' = TRUE /\ EndResponse /\ UNCHANGED <<response, pos, got>>
    BY <1>5 DEF StreamEnd
  <2>. HIDE DEF h
  <2>3. queue' \in Seq(Nat) /\ Len(queue') <= SndBuf
    <3>. DEFINE from == Base
    <3>1. from \in Nat /\ queue' = queue \o Bytes(from, h)
      BY <2>2 DEF Typed
    <3>. HIDE DEF from
    <3>. QED
      BY <1>0, <2>1, <3>1, AppendBytes
  <2>. QED
    BY <1>0, <2>2, <2>3, EndResponseTyped, SendingTyped
<1>6. CASE StreamFails
  <2>1. /\ state = "WRITING_RESPONSE" /\ EndResponse /\ UNCHANGED <<response, headersSent, queue, got>>
        /\ pos' = IF headersSent THEN pos + Fitting(size - pos, ChunkSize) ELSE pos
    BY <1>6 DEF StreamFails
  <2>2. Fitting(size - pos, ChunkSize) \in Nat /\ Fitting(size - pos, ChunkSize) <= size - pos
    <3>1. ChunkSize \in Nat
      OBVIOUS
    <3>. QED
      BY <1>0, <3>1, FittingBounds
  <2>3. pos' \in 0..size
    BY <1>0, <2>1, <2>2
  <2>. QED
    BY <1>0, <2>1, <2>3, EndResponseTyped, SendingTyped
<1>7. CASE Reset
  BY <1>7 DEF Reset, Typed, TypeOK, response
<1>8. CASE ClientReads
  <2>1. queue # <<>> /\ got' = Append(got, Head(queue)) /\ queue' = Tail(queue)
        /\ UNCHANGED <<response, state, written, headersSent, pos, link>>
    BY <1>8 DEF ClientReads
  <2>2. queue' \in Seq(Nat) /\ Len(queue') <= SndBuf /\ got' \in Seq(Nat)
    BY <1>0, <2>1, HeadTailProperties, AppendProperties DEF Typed, TypeOK
  <2>. QED
    BY <2>1, <2>2 DEF Typed, TypeOK, response
<1>9. CASE UNCHANGED vars
  BY <1>9 DEF vars, Typed, TypeOK
<1>. QED
  BY <1>1, <1>2, <1>3, <1>4, <1>5, <1>6, <1>7, <1>8, <1>9 DEF Next, Write

\* Every variable keeps its type, and the file, the response in memory and the
\* send buffer are never overrun.
THEOREM TypeCorrect == Spec => []TypeOK
<1>1. Typed => TypeOK
  BY DEF Typed
<1>. QED
  BY TypedInit, TypedStep, <1>1, PTL DEF Spec
-----------------------------------------------------------------------------
(* What the client reads, as long as streamed files fit in the send buffer. *)

HIDE DEF Base

\* Before the first response nothing was written or heard.
LEMMA StreamInit == Init => Writing /\ InStream
  BY DEF Init, Writing, InStream, Sent, Base, Follows

\* The stream goes on when a call sends the n bytes that follow.
LEMMA SendingInStream ==
  ASSUME Typed, Writing, InStream, state = "WRITING_RESPONSE", link = "open", NEW n \in Nat,
         queue' = queue \o Bytes(Base + Sent, n), UNCHANGED <<response, got>>, link' # "broken",
         Sent' = Sent + n
  PROVE  InStream'
<1>1. /\ queue \in Seq(Nat) /\ Len(queue) \in Nat /\ Len(got) \in Nat
      /\ Follows(queue, Len(got))
  BY DEF Typed, TypeOK, InStream
<1>2. Base + Sent = Len(got) + Len(queue)
  BY DEF InStream
<1>3. Len(queue') = Len(queue) + n /\ Follows(queue', Len(got))
  <2>. DEFINE q == queue
              from == Len(got) + Len(queue)
              g == Len(got)
  <2>1. queue' = q \o Bytes(from, n)
    BY <1>2, Zenon
  <2>2. q \in Seq(Nat) /\ from \in Nat /\ from = g + Len(q) /\ g \in Nat /\ Follows(q, g)
    BY <1>1
  <2>. HIDE DEF q, from, g
  <2>3. Len(q \o Bytes(from, n)) = Len(q) + n
    BY <2>2, AppendBytes
  <2>4. Follows(q \o Bytes(from, n), g)
    BY <2>2, QueueGrows
  <2>. QED
    BY <2>1, <2>3, <2>4 DEF q, g
<1>4. got' = got /\ issued' = issued /\ Base' = Base
  BY DEF response, Base
<1>5. Base' + Sent' = (Base + Sent) + n
  <2>1. Base \in Int /\ Sent \in Int
    BY DEF Typed, TypeOK, Sent, Base
  <2>. QED
    BY <1>4, <2>1
<1>6. Len(got') + Len(queue') = Base' + Sent'
  <2>1. Len(queue') = Len(queue) + n /\ Len(got') = Len(got)
    BY <1>3, <1>4
  <2>3. Len(queue') \in Int /\ Len(got') \in Int /\ Len(queue) \in Int /\ Len(got) \in Int
    BY <1>1, <2>1
  <2>2. Len(got') + Len(queue') = (Len(got) + Len(queue)) + n
    BY <2>1, <2>3
  <2>. QED
    BY <1>2, <1>5, <2>2
<1>. QED
  BY <1>3, <1>4, <1>6 DEF InStream

\* What has been given to the socket of a response is at most its length, and
\* what the send buffer holds was given since the response was started.
LEMMA QueueBounded ==
  ASSUME Typed, Writing, InStream, state = "WRITING_RESPONSE", link = "open"
  PROVE  Sent \in 0..Length /\ Len(queue) <= Sent
<1>1. Sent \in 0..Length
  BY DEF Typed, TypeOK, Sent, Writing
<1>2. Len(got) \in Nat /\ Len(queue) \in Nat /\ Base \in Nat /\ Base <= Len(got)
      /\ Len(got) + Len(queue) = Base + Sent
  BY DEF Typed, TypeOK, Writing, InStream
<1>. QED
  BY <1>1, <1>2

\* A new response starts a new stream behind what was heard.
LEMMA RespondStream ==
  ASSUME Typed, Writing, InStream, NEW f \in BOOLEAN, NEW n \in BufferedSizes \cup FileSizes,
         NEW keep \in BOOLEAN, Respond(f, n, keep)
  PROVE  Writing' /\ InStream'
<1>1. /\ Len(got) = issued /\ link = "open" /\ n \in Nat /\ (f => n \in FileSizes)
      /\ state' = "WRITING_RESPONSE" /\ file' = f /\ size' = n
      /\ written' = 0 /\ headersSent' = FALSE /\ pos' = 0 /\ issued' = issued + HeaderSize + n
      /\ UNCHANGED <<queue, got, link>>
  BY DEF Respond
<1>2. /\ issued \in Nat /\ Len(got) \in Nat /\ Len(queue) \in Nat /\ size \in Nat
      /\ state = "IDLE"
  BY DEF Typed, TypeOK, Respond
<1>3. Base + Sent = issued
  BY <1>2 DEF Sent, Base
<1>4. Len(queue) = 0
  BY <1>1, <1>2, <1>3 DEF InStream
<1>5. Base' = issued /\ Sent' = 0
  BY <1>1, <1>2 DEF Sent, Base
<1>6. Writing'
  BY <1>1, <1>2, <1>5 DEF Writing
<1>7. Len(got') <= issued'
  BY <1>1, <1>2
<1>. QED
  BY <1>1, <1>2, <1>4, <1>5, <1>6, <1>7 DEF InStream

\* A send() from the buffer moves the next bytes, and only those.
LEMMA SendBufferedStream ==
  ASSUME Typed, Typed', Writing, InStream, SendBuffered
  PROVE  Writing' /\ InStream'
<1>. DEFINE n == Fitting(Length - written, SndBuf - Len(queue))
<1>1. /\ state = "WRITING_RESPONSE" /\ ~file /\ link = "open"
      /\ queue' = queue \o Bytes(Unsent, n) /\ UNCHANGED <<response, headersSent, pos, got>>
      /\ \/ AllSent(n) /\ EndResponse
         \/ ~AllSent(n) /\ written' = written + n /\ UNCHANGED <<state, link>>
  BY DEF SendBuffered
<1>2. Length - written \in Nat /\ SndBuf - Len(queue) \in Nat
  BY DEF Typed, TypeOK
<1>3. n \in Nat /\ n <= Length - written
  BY <1>2, FittingBounds
<1>. HIDE DEF n
<1>4. Sent = written /\ Unsent = Base + Sent
  BY <1>1 DEF Sent, Unsent
<1>5. link' # "broken" /\ (state' = "WRITING_RESPONSE" => link' # "closed")
  BY <1>1 DEF EndResponse
<1>6. Sent' = Sent + n
  <2>1. CASE AllSent(n) /\ EndResponse
    <3>1. written + n = Length /\ state' = "IDLE" /\ size' = size
      BY <1>1, <1>2, <1>3, <2>1 DEF AllSent, EndResponse, response, Typed, TypeOK
    <3>. QED
      BY <1>4, <3>1 DEF Sent
  <2>2. CASE ~AllSent(n) /\ written' = written + n /\ UNCHANGED <<state, link>>
    BY <1>1, <1>4, <2>2 DEF Sent, response
  <2>. QED
    BY <1>1, <2>1, <2>2
<1>7. InStream'
  <2>1. queue' = queue \o Bytes(Base + Sent, n)
    BY <1>1, <1>4
  <2>. QED
    BY <1>1, <1>3, <1>5, <1>6, <2>1, SendingInStream
<1>8. Writing'
  BY <1>1, <1>5 DEF Writing, response, Base
<1>. QED
  BY <1>7, <1>8

\* A stream's headers and chunks find room, so that nothing of them is lost.
LEMMA RoomForFile ==
  ASSUME FilesFit, Typed, Writing, InStream, state = "WRITING_RESPONSE", link = "open", file
  PROVE  /\ Sent = (HeaderSize - HeadersDue) + pos
         /\ Fitting(HeadersDue, SndBuf - Len(queue)) = HeadersDue
         /\ size - pos <= SndBuf - Len(queue) - HeadersDue
         /\ headersSent \/ pos = 0
<1>1. /\ size \in FileSizes /\ size \in Nat /\ pos \in 0..size /\ (headersSent \/ pos = 0)
      /\ headersSent \in BOOLEAN /\ Len(queue) \in Nat
  BY DEF Typed, TypeOK, Writing
<1>2. HeaderSize + size <= SndBuf
  BY <1>1 DEF FilesFit
<1>3. Sent \in 0..Length /\ Len(queue) <= Sent
  BY QueueBounded
<1>4. Sent = (HeaderSize - HeadersDue) + pos
  BY <1>1 DEF Sent, HeadersDue
<1>5. HeadersDue \in Nat /\ (headersSent \/ HeadersDue = HeaderSize)
  BY DEF HeadersDue
<1>6. size - pos <= SndBuf - Len(queue) - HeadersDue
  BY <1>1, <1>2, <1>3, <1>4, <1>5
<1>7. HeadersDue <= SndBuf - Len(queue) /\ SndBuf - Len(queue) \in Nat
  BY <1>1, <1>5, <1>6
<1>. QED
  BY <1>1, <1>4, <1>5, <1>6, <1>7 DEF Fitting

\* A chunk sent from a file is the next one of the stream.
LEMMA StreamChunkStream ==
  ASSUME FilesFit, Typed, Writing, InStream, StreamChunk
  PROVE  Writing' /\ InStream'
<1>. DEFINE room == SndBuf - Len(queue)
            h == Fitting(HeadersDue, room)
            chunk == Fitting(size - pos, ChunkSize)
            n == Fitting(chunk, room - h)
<1>1. /\ state = "WRITING_RESPONSE" /\ file /\ link = "open"
      /\ queue' = (queue \o Bytes(Base, h)) \o Bytes(Base + HeaderSize + pos, n)
      /\ headersSent' = TRUE /\ pos' = pos + chunk
      /\ UNCHANGED <<response, state, written, got, link>>
  BY DEF StreamChunk
<1>2. /\ Sent = (HeaderSize - HeadersDue) + pos /\ h = HeadersDue
      /\ size - pos <= room - HeadersDue /\ (headersSent \/ pos = 0)
  BY <1>1, RoomForFile
<1>3. /\ size \in Nat /\ pos \in 0..size /\ size - pos \in Nat /\ Base \in Nat /\ queue \in Seq(Nat)
      /\ headersSent \in BOOLEAN /\ Len(queue) \in Nat /\ ChunkSize \in Nat /\ room \in Int
  BY <1>1 DEF Typed, TypeOK
<1>4. HeadersDue \in Nat /\ (headersSent => HeadersDue = 0) /\ (~headersSent => HeadersDue = HeaderSize)
  BY <1>3 DEF HeadersDue
<1>5. chunk \in Nat /\ chunk <= size - pos
  BY <1>3, FittingBounds
<1>. HIDE DEF chunk
<1>6. n = chunk
  <2>1. room - h \in Nat /\ chunk <= room - h
    BY <1>2, <1>3, <1>4, <1>5
  <2>. QED
    BY <1>5, <2>1 DEF Fitting
<1>. HIDE DEF n, h, room
<1>7. Base + HeaderSize + pos = (Base + Sent) + HeadersDue
  BY <1>2, <1>3, <1>4
<1>8. queue' = (queue \o Bytes(Base + Sent, HeadersDue)) \o Bytes((Base + Sent) + HeadersDue, chunk)
  <2>1. CASE headersSent
    <3>1. HeadersDue = 0 /\ Base \in Int /\ Base + Sent \in Int
      BY <1>2, <1>3, <1>4, <2>1
    <3>2. queue \o Bytes(Base, 0) = queue /\ queue \o Bytes(Base + Sent, 0) = queue
      BY <1>3, <3>1, NoBytes
    <3>. QED
      BY <1>1, <1>2, <1>6, <1>7, <3>1, <3>2
  <2>2. CASE ~headersSent
    <3>1. Base + Sent = Base
      BY <1>2, <1>3, <1>4, <2>2
    <3>. QED
      BY <1>1, <1>2, <1>6, <1>7, <3>1
  <2>. QED
    BY <2>1, <2>2
<1>9. queue' = queue \o Bytes(Base + Sent, HeadersDue + chunk)
  <2>. DEFINE from == Base + Sent
  <2>1. from \in Nat
    BY <1>2, <1>3, <1>4
  <2>2. queue' = (queue \o Bytes(from, HeadersDue)) \o Bytes(from + HeadersDue, chunk)
    BY <1>8
  <2>. HIDE DEF from
  <2>3. queue' = queue \o Bytes(from, HeadersDue + chunk)
    <3>. DEFINE q == queue
                due == HeadersDue
                b == Bytes(from, due)
                c == Bytes(from + due, chunk)
    <3>1. q \in Seq(Nat) /\ due \in Nat
      BY <1>3, <1>4
    <3>. HIDE DEF q, due
    <3>2. b \o c = Bytes(from, due + chunk) /\ b \in Seq(Nat) /\ c \in Seq(Nat)
      BY <1>5, <2>1, <3>1, BytesTogether
    <3>. HIDE DEF b, c
    <3>3. (q \o b) \o c = q \o (b \o c)
      BY <3>1, <3>2, NatConcatAssociative
    <3>. QED
      BY <2>2, <3>2, <3>3 DEF q, due, b, c
  <2>. QED
    BY <2>3 DEF from
<1>10. Sent' = Sent + (HeadersDue + chunk)
  BY <1>1, <1>2, <1>3, <1>4, <1>5 DEF Sent, response
<1>11. InStream'
  <2>1. HeadersDue + chunk \in Nat /\ link' # "broken"
    BY <1>1, <1>4, <1>5
  <2>. QED
    BY <1>1, <1>9, <1>10, <2>1, SendingInStream
<1>12. Writing'
  BY <1>1 DEF Writing, response, Base
<1>. QED
  BY <1>11, <1>12
\* The end of a file ends its stream.
LEMMA StreamEndStream ==
  ASSUME FilesFit, Typed, Writing, InStream, StreamEnd
  PROVE  Writing' /\ InStream'
<1>. DEFINE h == Fitting(HeadersDue, SndBuf - Len(queue))
<1>1. /\ state = "WRITING_RESPONSE" /\ file /\ link = "open" /\ pos = size
      /\ queue' = queue \o Bytes(Base, h)
      /\ headersSent' = TRUE /\ EndResponse /\ UNCHANGED <<response, pos, got>>
  BY DEF StreamEnd
<1>2. h = HeadersDue /\ Sent = (HeaderSize - HeadersDue) + pos /\ (headersSent \/ pos = 0)
  BY <1>1, RoomForFile
<1>. HIDE DEF h
<1>3. size \in Nat /\ Base \in Nat /\ queue \in Seq(Nat) /\ headersSent \in BOOLEAN
  BY <1>1 DEF Typed, TypeOK
<1>4. HeadersDue \in Nat /\ (headersSent => HeadersDue = 0) /\ (~headersSent => HeadersDue = HeaderSize)
  BY <1>3 DEF HeadersDue
<1>5. queue' = queue \o Bytes(Base + Sent, HeadersDue)
  <2>1. CASE headersSent
    <3>1. HeadersDue = 0 /\ Base \in Int /\ Base + Sent \in Int
      BY <1>1, <1>2, <1>3, <1>4, <2>1
    <3>2. queue \o Bytes(Base, 0) = queue /\ queue \o Bytes(Base + Sent, 0) = queue
      BY <1>3, <3>1, NoBytes
    <3>. QED
      BY <1>1, <1>2, <3>1, <3>2
  <2>2. CASE ~headersSent
    <3>1. Base + Sent = Base
      BY <1>1, <1>2, <1>3, <1>4, <2>2
    <3>. QED
      BY <1>1, <1>2, <3>1
  <2>. QED
    BY <2>1, <2>2
<1>6. Sent' = Sent + HeadersDue /\ state' = "IDLE" /\ link' # "broken"
  <2>1. state' = "IDLE" /\ size' = size /\ link' # "broken"
    BY <1>1 DEF EndResponse, response
  <2>. QED
    BY <1>1, <1>2, <1>3, <1>4, <2>1 DEF Sent
<1>7. InStream'
  BY <1>1, <1>4, <1>5, <1>6, SendingInStream
<1>. QED
  BY <1>6, <1>7 DEF Writing

\* What a client reads was next in its socket.
LEMMA ClientReadsStream ==
  ASSUME Typed, Writing, InStream, ClientReads
  PROVE  /\ Writing' /\ InStream'
         /\ Len(got) < issued /\ got' = Append(got, Len(got) + 1)
<1>1. queue # <<>> /\ got' = Append(got, Head(queue)) /\ queue' = Tail(queue)
      /\ UNCHANGED <<response, state, written, headersSent, pos, link>>
  BY DEF ClientReads
<1>2. queue \in Seq(Nat) /\ got \in Seq(Nat) /\ Len(got) \in Nat /\ Len(queue) \in Nat /\ Len(queue) > 0
  BY <1>1 DEF Typed, TypeOK
<1>3. /\ Follows(got, 0) /\ Follows(queue, Len(got)) /\ link # "broken"
      /\ Len(got) + Len(queue) = Base + Sent
  BY <1>1 DEF InStream
<1>4. Head(queue) = Len(got) + 1
  BY <1>2, <1>3 DEF Follows
<1>5. Base + Sent <= issued
  <2>1. size \in Nat /\ written \in 0..Length /\ pos \in 0..size /\ issued \in Nat
    BY DEF Typed, TypeOK
  <2>. QED
    BY <2>1 DEF Sent, Base
<1>6. got' = Append(got, Len(got) + 1) /\ Len(got') = Len(got) + 1 /\ Len(queue') = Len(queue) - 1
  BY <1>1, <1>2, <1>4
<1>7. Follows(got', 0)
  BY <1>2, <1>3, <1>6 DEF Follows
<1>8. Follows(queue', Len(got'))
  <2>1. ASSUME NEW i \in 1..Len(queue') PROVE queue'[i] = Len(got') + i
    <3>1. queue'[i] = queue[i + 1] /\ i + 1 \in 1..Len(queue) /\ i \in Nat
      BY <1>1, <1>2, <1>6, <2>1
    <3>2. queue[i + 1] = Len(got) + (i + 1)
      BY <1>3, <3>1 DEF Follows
    <3>. QED
      BY <1>2, <1>6, <3>1, <3>2
  <2>. QED
    BY <2>1 DEF Follows
<1>9. issued' = issued /\ Base' = Base /\ Sent' = Sent /\ link' = link
  BY <1>1 DEF response, Base, Sent
<1>10. Len(got) < issued /\ Len(got') <= issued' /\ Len(got') + Len(queue') = Base' + Sent'
  <2>1. Base + Sent \in Int /\ issued \in Int
    BY <1>2, <1>3 DEF Typed, TypeOK
  <2>2. Len(got) < issued
    BY <1>2, <1>3, <1>5, <2>1
  <2>. QED
    BY <1>2, <1>3, <1>6, <1>9, <2>1, <2>2
<1>11. InStream'
  BY <1>3, <1>7, <1>8, <1>9, <1>10 DEF InStream
<1>12. Writing'
  <2>1. Base <= Len(got) => Base' <= Len(got')
    BY <1>2, <1>3, <1>6, <1>9 DEF Base, Typed, TypeOK
  <2>. QED
    BY <1>1, <2>1 DEF Writing, response
<1>. QED
  BY <1>6, <1>10, <1>11, <1>12
\* Every step keeps what was heard a part of what was to be said.
LEMMA StreamStep ==
  ASSUME FilesFit, IInv, [Next]_vars
  PROVE  IInv'
<1>0. Typed /\ Writing /\ InStream
  BY DEF IInv
<1>1. Typed'
  BY <1>0, TypedStep
<1>. SUFFICES Writing' /\ InStream'
  BY <1>1 DEF IInv
<1>2. ASSUME NEW f \in BOOLEAN, NEW n \in BufferedSizes \cup FileSizes, NEW keep \in BOOLEAN,
             Respond(f, n, keep)
      PROVE  Writing' /\ InStream'
  BY <1>0, <1>2, RespondStream
<1>3. CASE SendBuffered
  BY <1>0, <1>1, <1>3, SendBufferedStream
<1>4. CASE SendFails
  BY <1>0, <1>4 DEF SendFails, Writing, InStream, response, Base
<1>5. CASE StreamChunk
  BY <1>0, <1>5, StreamChunkStream
<1>6. CASE StreamEnd
  BY <1>0, <1>6, StreamEndStream
<1>7. CASE StreamFails
  BY <1>0, <1>7 DEF StreamFails, EndResponse, Writing, InStream, response, Base
<1>8. CASE Reset
  <2>1. Len(<<>>) = 0
    OBVIOUS
  <2>. QED
    BY <1>0, <1>8, <2>1 DEF Reset, Writing, InStream, response, Base, Follows
<1>9. CASE ClientReads
  BY <1>0, <1>9, ClientReadsStream
<1>10. CASE UNCHANGED vars
  BY <1>0, <1>10 DEF vars, Writing, InStream, Base, Sent
<1>. QED
  BY <1>0, <1>1, <1>2, <1>3, <1>4, <1>5, <1>6, <1>7, <1>8, <1>9, <1>10 DEF Next, Write

-----------------------------------------------------------------------------
\* The bytes a client reads are those of the responses, in order and without a
\* gap, and a response starts when the client has the whole of the one before:
\* every step of handleClientWrite and writeNextChunk is one of Delivery or
\* leaves what the client may count on alone, whenever a streamed file and its
\* headers fit in the socket's send buffer.
THEOREM Implements == ASSUME FilesFit PROVE Spec => Delivers
<1>1. Init => IInv /\ D!Init
  BY TypedInit, StreamInit DEF IInv, Init, D!Init
<1>2. IInv /\ [Next]_vars => IInv'
  BY StreamStep
<1>3. ASSUME IInv, [Next]_vars
      PROVE  [D!Next]_<<issued, got>>
  <2>1. ASSUME NEW f \in BOOLEAN, NEW n \in BufferedSizes \cup FileSizes, NEW keep \in BOOLEAN,
               Respond(f, n, keep)
        PROVE  D!Issue
    <3>1. Len(got) = issued /\ issued' = issued + HeaderSize + n /\ got' = got
      BY <2>1 DEF Respond
    <3>2. issued \in Nat /\ n \in Nat
      BY <1>3 DEF IInv, Typed, TypeOK
    <3>3. issued' \in Nat /\ issued' > issued
      BY <3>1, <3>2
    <3>. QED
      BY <3>1, <3>3 DEF D!Issue
  <2>2. CASE Write
    BY <2>2 DEF Write, SendBuffered, SendFails, StreamChunk, StreamEnd, StreamFails, response
  <2>3. CASE Reset
    BY <2>3 DEF Reset, response
  <2>4. CASE ClientReads
    <3>1. UNCHANGED issued
      BY <2>4 DEF ClientReads, response
    <3>. QED
      BY <1>3, <2>4, <3>1, ClientReadsStream DEF IInv, D!Receive, D!Next
  <2>5. CASE UNCHANGED vars
    BY <2>5 DEF vars
  <2>. QED
    BY <1>3, <2>1, <2>2, <2>3, <2>4, <2>5 DEF Next, D!Next
<1>. QED
  BY <1>1, <1>2, <1>3, PTL DEF Spec, Delivers, D!Spec
=============================================================================
