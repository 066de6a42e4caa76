----------------------------- MODULE MCEventLoop -----------------------------
(* Instances of EventLoop for TLC. *)
EXTENDS EventLoop, TLC

\* Connections are interchangeable; used by safety runs only.
Symmetry == Permutations(Conns)
=============================================================================
