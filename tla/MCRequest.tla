------------------------------- MODULE MCRequest -------------------------------
(* An instance of Request for TLC. *)
EXTENDS Request

\* Text, a line end, things that look like a size line, and both the terminator
\* and all of it but its last line end; one chunk whose size has two digits.
Pieces == {<<Text>>, CRLF, <<1>> \o CRLF, <<0>> \o CRLF \o CRLF,
           <<Text, 0>> \o CRLF, CRLF \o <<0>> \o CRLF \o CRLF,
           CRLF \o <<0>> \o CRLF, [i \in 1..17 |-> Text]}
Bodies == {<<>>} \cup {<<p>> : p \in Pieces} \cup {<<p, q>> : p, q \in Pieces}
                 \cup {<<p, q, <<2>>>> : p, q \in Pieces}
Tails == {<<>>, <<Text>>, <<1>> \o CRLF}

\* Bodies whose length atoi() makes positive, zero, and negative with IntMax = 63.
Large == {<<[i \in 1..n |-> Text]>> : n \in {63, 64, 100, 125, 127, 128, 130}}

Length(chunks) == Len(FlattenSeq(chunks))
MCMessages ==
  {[chunked |-> TRUE, length |-> None, chunks |-> b, tail |-> t] : b \in Bodies, t \in Tails}
  \cup {[chunked |-> FALSE, length |-> Length(b), chunks |-> b, tail |-> t] : b \in Bodies \cup Large, t \in Tails}
  \cup {[chunked |-> FALSE, length |-> None, chunks |-> <<>>, tail |-> t] : t \in Tails}
=============================================================================
