----------------------------- MODULE MCLifecycle -----------------------------
(* An instance of Lifecycle for TLC: one server, two, two on one port, none. *)
EXTENDS Lifecycle

MCContents == {<<1>>, <<2, 1>>, <<2, 2>>, <<>>}
=============================================================================
