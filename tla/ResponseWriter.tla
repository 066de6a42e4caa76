---------------------------- MODULE ResponseWriter ----------------------------
(***************************************************************************)
(* The bytes of one connection, from the responses the handlers make to    *)
(* what the client reads: handleClientWrite with a response in memory      *)
(* (responseBuffer, bytesWritten) and Response::writeNextChunk with one    *)
(* that streams a file, over a socket whose send buffer may be full.       *)
(*                                                                         *)
(* A byte is its place in the stream of all responses put together.        *)
(***************************************************************************)
EXTENDS Integers, Sequences

CONSTANTS
  HeaderSize,    \* bytes of a response before its body
  BufferedSizes, \* body sizes of responses in memory
  FileSizes,     \* sizes of files that are streamed
  ChunkSize,     \* RESPONSE_SIZE, the most one read() of a file gives
  SndBuf,        \* bytes the socket's send buffer holds
  MaxBytes       \* bound: bytes of all responses of the connection

ASSUME SizesAssumption ==
  /\ HeaderSize \in Nat \ {0} /\ ChunkSize \in Nat \ {0} /\ SndBuf \in Nat \ {0}
  /\ BufferedSizes \subseteq Nat /\ FileSizes \subseteq Nat /\ MaxBytes \in Nat

VARIABLES
  state,       \* ClientState::state
  file,        \* isFileDescriptor() of ClientState::response
  keepAlive,   \* ClientState::keepAlive
  size,        \* bytes of the body of the response
  written,     \* ClientState::bytesWritten
  headersSent, \* Response::_isHeadersSent
  pos,         \* offset of the response's file descriptor
  queue,       \* the socket's send buffer
  got,         \* bytes the client has read
  issued,      \* history: bytes of all responses so far
  link         \* "open", "closed" by the server, or "broken" by the client
               \* (the server closes it then when send() or recv() fails)

vars == <<state, file, keepAlive, size, written, headersSent, pos, queue, got, issued, link>>
response == <<file, keepAlive, size, issued>>

Init ==
  /\ state = "IDLE" /\ file = FALSE /\ keepAlive = TRUE /\ size = 0 /\ written = 0
  /\ headersSent = FALSE /\ pos = 0 /\ queue = <<>> /\ got = <<>> /\ issued = 0
  /\ link = "open"

Length == HeaderSize + size   \* of the response being written
Base == issued - Length       \* bytes of the responses before it
Bytes(from, n) == [i \in 1..n |-> from + i]

\* What send() takes of n bytes.
Fitting(n, room) == IF n < room THEN n ELSE room

-----------------------------------------------------------------------------
\* processCompleteRequests stores a new Response.  The client sends its next
\* request once it has the whole response to the previous one.
Respond(f, n, keep) ==
  /\ state = "IDLE" /\ link = "open" /\ Len(got) = issued
  /\ n \in (IF f THEN FileSizes ELSE BufferedSizes)
  /\ issued + HeaderSize + n <= MaxBytes
  /\ state' = "WRITING_RESPONSE" /\ file' = f /\ size' = n /\ keepAlive' = keep
  /\ written' = 0 /\ headersSent' = FALSE /\ pos' = 0
  /\ issued' = issued + HeaderSize + n
  /\ UNCHANGED <<queue, got, link>>

\* ClientState::clear, and closeConnection unless the connection is kept.
EndResponse ==
  /\ state' = "IDLE" /\ written' = 0
  /\ link' = IF link = "open" /\ ~keepAlive THEN "closed" ELSE link

FromStart == Base   \* mutant: the offset into the buffer is left out
Unsent == Base + written
AnySent(n) == n > 0   \* mutant: a partial send() ends the response
AllSent(n) == written + n >= Length

SendBuffered ==
  LET n == Fitting(Length - written, SndBuf - Len(queue)) IN
  /\ state = "WRITING_RESPONSE" /\ ~file /\ link = "open" /\ n > 0
  /\ queue' = queue \o Bytes(Unsent, n)
  /\ IF AllSent(n) THEN EndResponse
                   ELSE written' = written + n /\ UNCHANGED <<state, link>>
  /\ UNCHANGED <<response, headersSent, pos, got>>

SendFails ==
  /\ state = "WRITING_RESPONSE" /\ ~file /\ link = "broken"
  /\ state' = "IDLE" /\ written' = 0
  /\ UNCHANGED <<response, headersSent, pos, queue, got, link>>

EveryTime == HeaderSize   \* mutant: _isHeadersSent is not looked at
HeadersDue == IF headersSent THEN 0 ELSE HeaderSize

\* The headers, if they are due, and a chunk of the file: what send() does not
\* take of either is not sent again.
StreamChunk ==
  LET room == SndBuf - Len(queue)
      h == Fitting(HeadersDue, room)
      chunk == Fitting(size - pos, ChunkSize)
      n == Fitting(chunk, room - h)
  IN /\ state = "WRITING_RESPONSE" /\ file /\ link = "open"
     /\ headersSent \/ room > 0
     /\ chunk > 0
     /\ queue' = queue \o Bytes(Base, h) \o Bytes(Base + HeaderSize + pos, n)
     /\ headersSent' = TRUE /\ pos' = pos + chunk
     /\ UNCHANGED <<response, state, written, got, link>>

\* read() returns 0; an empty file's headers are sent in the same call.
StreamEnd ==
  LET h == Fitting(HeadersDue, SndBuf - Len(queue)) IN
  /\ state = "WRITING_RESPONSE" /\ file /\ link = "open" /\ pos = size
  /\ headersSent \/ h > 0
  /\ queue' = queue \o Bytes(Base, h) /\ headersSent' = TRUE
  /\ EndResponse
  /\ UNCHANGED <<response, pos, got>>

\* send() fails on the headers or on a chunk already read from the file; at
\* its end nothing is sent and nothing fails.
StreamFails ==
  /\ state = "WRITING_RESPONSE" /\ file /\ link = "broken"
  /\ pos' = IF headersSent THEN pos + Fitting(size - pos, ChunkSize) ELSE pos
  /\ EndResponse
  /\ UNCHANGED <<response, headersSent, queue, got>>

\* The connection is reset: what is in the send buffer is lost.
Reset ==
  /\ link = "open" /\ link' = "broken" /\ queue' = <<>>
  /\ UNCHANGED <<response, state, written, headersSent, pos, got>>

ClientReads ==
  /\ queue # <<>>
  /\ got' = Append(got, Head(queue)) /\ queue' = Tail(queue)
  /\ UNCHANGED <<response, state, written, headersSent, pos, link>>

Write == SendBuffered \/ SendFails \/ StreamChunk \/ StreamEnd \/ StreamFails
Next ==
  \/ \E f \in BOOLEAN, n \in BufferedSizes \cup FileSizes, keep \in BOOLEAN : Respond(f, n, keep)
  \/ Write \/ Reset \/ ClientReads

Spec == Init /\ [][Next]_vars

\* select() reports the socket while it is writable, and the client reads on.
FairSpec == Spec /\ WF_vars(Write) /\ WF_vars(ClientReads)

-----------------------------------------------------------------------------
\* A streamed response fits in the send buffer of an idle connection.
FilesFit == \A n \in FileSizes : HeaderSize + n <= SndBuf

\* Every variable has its type, and neither the file, the response in memory
\* nor the send buffer is overrun.
TypeOK ==
  /\ state \in {"IDLE", "WRITING_RESPONSE"} /\ file \in BOOLEAN /\ keepAlive \in BOOLEAN
  /\ size \in Nat /\ written \in 0..Length /\ headersSent \in BOOLEAN /\ pos \in 0..size
  /\ queue \in Seq(Nat) /\ Len(queue) <= SndBuf
  /\ got \in Seq(Nat) /\ issued \in Nat
  /\ link \in {"open", "broken", "closed"}

D == INSTANCE Delivery WITH issued <- issued, got <- got
\* If streamed files fit, the client's bytes are what Delivery promises.
Delivers == D!Spec

\* Every byte of a response reaches a client that stays and reads.
Completes == \A b \in 1..MaxBytes :
               (issued >= b) ~> (Len(got) >= b \/ link = "broken")

=============================================================================
