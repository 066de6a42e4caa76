-------------------------------- MODULE Request --------------------------------
(***************************************************************************)
(* The body of one request on its way in: the bytes recv() hands over in   *)
(* pieces of any size, the test by which handleClientData calls the        *)
(* request complete, and Request::parse, which takes the body out of the   *)
(* bytes received by then.                                                 *)
(*                                                                         *)
(* A byte is a number: a hexadecimal digit is its value, whatever its      *)
(* case.  Of the request line and the header fields, which EventLoop       *)
(* models the refusals of, one byte is left.                               *)
(***************************************************************************)
EXTENDS Integers, Sequences, SequencesExt, FiniteSetsExt

CONSTANTS
  Messages,   \* requests clients send
  BufferSize, \* CHUNK_BUFFER_SIZE, the most one recv() gives
  IntMax,     \* the largest int: INT_MAX, of what atoi() gives
  SizeMax     \* the largest size_t, which the length is kept in

CR == 16
LF == 17
Text == 18   \* any other byte
Byte == 0..18
CRLF == <<CR, LF>>

\* The chunks of a body, as the client cuts it up (one for a body that is not
\* chunked), its Content-Length (or None) and the bytes that follow the request.
None == -1
IsMessage(m) == /\ m.chunked \in BOOLEAN /\ m.length \in Nat \cup {None}
                /\ m.chunks \in Seq(Seq(Byte)) /\ m.tail \in Seq(Byte)

\* The client states sizes correctly, and a chunk that is not the last has data;
\* Hex has one or two digits.
StatesSizes(m) ==
  IF m.chunked THEN m.length = None /\ \A i \in DOMAIN m.chunks : Len(m.chunks[i]) \in 1..255
  ELSE m.length = IF m.chunks = <<>> /\ m.length = None THEN None ELSE Len(FlattenSeq(m.chunks))

\* A size_t is wider than an int.
ASSUME BuffersAssumption ==
  /\ BufferSize \in Nat \ {0} /\ IntMax \in Nat /\ SizeMax \in Nat /\ IntMax + 5 <= SizeMax
  /\ \A m \in Messages : IsMessage(m) /\ StatesSizes(m)

VARIABLES
  message,  \* what the client sends
  arrived,  \* how many of its bytes were received
  outcome,  \* "waiting", "refused" (a 400 is in responseBuffer) or "accepted"
  body      \* Request::_body, once accepted

vars == <<message, arrived, outcome, body>>

-----------------------------------------------------------------------------
(* The client's encoding. *)

Hex(n) == IF n < 16 THEN <<n>> ELSE <<n \div 16, n % 16>>
Chunk(data) == Hex(Len(data)) \o CRLF \o data \o CRLF
Header == <<Text>> \o CRLF \o CRLF
EncodedBody(m) ==
  IF m.chunked THEN FlattenSeq([i \in DOMAIN m.chunks |-> Chunk(m.chunks[i])])
                      \o <<0>> \o CRLF \o CRLF
               ELSE FlattenSeq(m.chunks)
Encoded(m) == Header \o EncodedBody(m)
Stream(m) == Encoded(m) \o m.tail

-----------------------------------------------------------------------------
(* std::string::find and substr *)

\* The first place at or after "from" where pat is found, or NPos.
NPos == 0
Places(s, pat, from) ==
  {i \in from..(Len(s) - Len(pat) + 1) : SubSeq(s, i, i + Len(pat) - 1) = pat}
Find(s, pat, from) == IF Places(s, pat, from) = {} THEN NPos ELSE Min(Places(s, pat, from))
From(s, i) == SubSeq(s, i, Len(s))

LineArrived(buf) == Find(buf, CRLF, 1) # NPos   \* mutant: one line end is enough
HeaderArrived(buf) == Find(buf, CRLF \o CRLF, 1) # NPos
BodyStart(buf) == Find(buf, CRLF \o CRLF, 1) + 4
ZeroLine == <<0>> \o CRLF \o CRLF   \* mutant: also within a line
Terminator == CRLF \o <<0>> \o CRLF \o CRLF

\* A Content-Length as atoi() leaves it, and then as a size_t.
Fits(length) == length <= IntMax
Ints == 2 * (IntMax + 1)
Atoi(length) == LET n == length % Ints IN IF Fits(n) THEN n ELSE n - Ints
SizeT(n) == n % (SizeMax + 1)

MoreThan(n, m) == n > m   \* mutant
AtLeast(n, m) == n >= m
\* handleClientData: the three ways a request is complete.
Complete(buf, m) ==
  /\ HeaderArrived(buf)
  /\ \/ ~m.chunked /\ m.length = None
     \/ m.length # None /\ AtLeast(Len(buf), SizeT(BodyStart(buf) - 1 + Atoi(m.length)))
     \/ m.chunked /\ Find(buf, Terminator, 1) # NPos

-----------------------------------------------------------------------------
(* Request::unchunkData *)

\* The digits of the size line that starts at pos, up to anything else.
ChunkSize(s, pos, end) ==
  LET digits == {i \in pos..(end - 1) : \A j \in pos..i : s[j] < 16}
      value[n \in 0..Cardinality(digits)] ==
        IF n = 0 THEN 0 ELSE 16 * value[n - 1] + s[pos + n - 1]
  IN value[Cardinality(digits)]

Failed == [ok |-> FALSE, data |-> <<>>]

AfterCRLF == 2
ChunkFits(last, len) == last + 2 <= len

\* The chunks from the one that starts at pos.
Unchunk(s) ==
  LET decode[pos \in 1..(Len(s) + 3)] ==
        LET end == Find(s, CRLF, pos)
            size == ChunkSize(s, pos, end)
            first == end + AfterCRLF
            last == first + size - 1
            rest == decode[last + 3]
        IN IF pos > Len(s) THEN [ok |-> TRUE, data |-> <<>>]
           ELSE IF end = NPos THEN Failed
           ELSE IF size = 0 THEN [ok |-> TRUE, data |-> <<>>]
           ELSE IF ~ChunkFits(last, Len(s)) THEN Failed
           ELSE [ok |-> rest.ok, data |-> SubSeq(s, first, last) \o rest.data]
  IN decode[1]

\* Request::parse, as far as the body goes.
Parse(buf, m) ==
  LET rest == From(buf, BodyStart(buf))
  IN IF m.chunked THEN Unchunk(rest)
     ELSE [ok |-> TRUE, data |-> IF m.length = None THEN <<>> ELSE rest]

-----------------------------------------------------------------------------
Init == /\ message \in Messages
        /\ arrived = 0 /\ outcome = "waiting" /\ body = <<>>

\* handleClientData on n more bytes.  A refused request stays in the buffer and
\* is looked at again with the next bytes; an accepted one leaves it, with
\* whatever followed.
Receive(n) ==
  LET buf == SubSeq(Stream(message), 1, arrived + n)
      parsed == Parse(buf, message)
  IN /\ outcome # "accepted"
     /\ arrived + n <= Len(Stream(message))
     /\ arrived' = arrived + n
     /\ IF ~Complete(buf, message) THEN UNCHANGED <<outcome, body>>
        ELSE IF parsed.ok THEN outcome' = "accepted" /\ body' = parsed.data
        ELSE outcome' = "refused" /\ UNCHANGED body
     /\ UNCHANGED message

Next == \E n \in 1..BufferSize : Receive(n)

Spec == Init /\ [][Next]_vars

-----------------------------------------------------------------------------
\* Every variable has its type, and nothing is decided before the header's end.
TypeOK == /\ message \in Messages /\ arrived \in 0..Len(Stream(message))
          /\ outcome \in {"waiting", "refused", "accepted"} /\ body \in Seq(Byte)
          /\ outcome # "waiting" => arrived >= Len(Header)

\* A request is accepted by the time its last byte has come, however recv() cut
\* it up, and even if an incomplete copy of it was refused on the way, unless
\* its Content-Length is no int.
Recognised == Fits(message.length) /\ arrived >= Len(Encoded(message)) => outcome = "accepted"

Sent(k) == FlattenSeq(SubSeq(message.chunks, 1, k))
All == Sent(Len(message.chunks))

\* The line ends around a chunk's data and the data may look like the end.
Misleading(data) == Find(CRLF \o data \o CRLF, CRLF \o <<0>> \o CRLF \o CRLF, 1) # NPos

\* An accepted chunked body is made of the first chunks of what the client sent,
\* and of all of them unless one misleads: data that looks like sizes, line ends
\* or terminators is never taken for them, and framing never ends up in the
\* body.  A counted body is the client's, with the bytes received behind it, if
\* its length is an int; if it is not, there may be too few.
Whole == outcome = "accepted" =>
  IF message.chunked
    THEN \E k \in 0..Len(message.chunks) :
           /\ body = Sent(k)
           /\ body = All \/ \E i \in DOMAIN message.chunks : Misleading(message.chunks[i])
  ELSE IF message.length = None THEN body = <<>>
  ELSE /\ Fits(message.length) => IsPrefix(All, body)
       /\ IsPrefix(body, All \o message.tail)
=============================================================================
