------------------------------- MODULE Delivery -------------------------------
(***************************************************************************)
(* What a client may count on from the bytes of one connection: the        *)
(* responses arrive in order, without a gap, a repetition or a byte too    *)
(* many, and each is complete before the next one is started.              *)
(***************************************************************************)
EXTENDS Naturals, Sequences

VARIABLES issued, \* bytes of the responses started so far
          got     \* bytes received, each named by its place in the stream

Init == issued = 0 /\ got = <<>>

\* The next response, once the client has all of the previous one.
Issue == /\ Len(got) = issued
         /\ issued' \in {n \in Nat : n > issued}
         /\ UNCHANGED got

Receive == /\ Len(got) < issued
           /\ got' = Append(got, Len(got) + 1)
           /\ UNCHANGED issued

Next == Issue \/ Receive
Spec == Init /\ [][Next]_<<issued, got>>
=============================================================================
