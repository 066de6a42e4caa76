------------------------------- MODULE FileStore -------------------------------
(***************************************************************************)
(* What clients may count on from the files of the server, whatever steps  *)
(* an upload takes and however a response is streamed: a file changes all  *)
(* at once; a response carries the file as it was when it was asked for,   *)
(* also when the file is removed meanwhile.  What the server does not      *)
(* promise is said too: an upload over a file tears the responses that     *)
(* stream it, and one that fails or is interrupted spoils the file.        *)
(***************************************************************************)
EXTENDS Naturals, Sequences, SequencesExt

CONSTANTS Names,     \* names of files
          Clients,
          Contents,  \* what is uploaded
          None

VARIABLES
  store,    \* the content of every file that there is
  serving,  \* the clients with a response under way
  at,       \* where the file of a response is still found
  promise,  \* the content a response was announced with
  torn,     \* clients whose response was lost, or its file overwritten
  got       \* what a client has received

Init ==
  /\ store \in [Names -> Contents \cup {None}]
  /\ serving = {}
  /\ at = [c \in Clients |-> None] /\ promise = [c \in Clients |-> <<>>]
  /\ torn = {} /\ got = [c \in Clients |-> <<>>]

Begin(c, p) ==
  /\ c \notin serving /\ store[p] # None
  /\ serving' = serving \cup {c}
  /\ at' = [at EXCEPT ![c] = p] /\ promise' = [promise EXCEPT ![c] = store[p]]
  /\ torn' = torn \ {c} /\ got' = [got EXCEPT ![c] = <<>>]
  /\ UNCHANGED store

Deliver(c, s) ==
  /\ c \in serving
  /\ c \in torn \/ IsPrefix(got[c] \o s, promise[c])
  /\ got' = [got EXCEPT ![c] = @ \o s]
  /\ UNCHANGED <<store, serving, at, promise, torn>>

Ended(C) ==
  /\ C \subseteq serving /\ serving' = serving \ C
  /\ at' = [c \in Clients |-> IF c \in C THEN None ELSE at[c]]
  /\ promise' = [c \in Clients |-> IF c \in C THEN <<>> ELSE promise[c]]
  /\ got' = [c \in Clients |-> IF c \in C THEN <<>> ELSE got[c]]

\* The response ends on a connection that lives on.
Finish(c) ==
  /\ Ended({c}) /\ UNCHANGED <<store, torn>>
  /\ c \in torn \/ got[c] = promise[c]

\* Connections are lost: one, or all in a crash.
Abort(C) == Ended(C) /\ torn' = torn \cup C /\ UNCHANGED store

Overwrite(p, s) ==
  /\ store' = [store EXCEPT ![p] = s]
  /\ torn' = torn \cup {c \in serving : at[c] = p}
  /\ UNCHANGED <<serving, at, promise, got>>

Pieces == UNION {{SubSeq(s, 1, n) : n \in 0..Len(s)} : s \in Contents}

Save(p, s) == s \in Contents /\ Overwrite(p, s)

\* An upload fails: the file holds some of what came before.
Spoil(p, s) == s \in Pieces /\ Overwrite(p, s)

\* The server dies during an upload.
SpoilAll(p, s) ==
  /\ s \in Pieces /\ store' = [store EXCEPT ![p] = s]
  /\ Ended(serving) /\ torn' = torn \cup serving

Unlink(p) ==
  /\ store[p] # None
  /\ store' = [store EXCEPT ![p] = None]
  /\ at' = [c \in Clients |-> IF at[c] = p THEN None ELSE at[c]]
  /\ UNCHANGED <<serving, promise, torn, got>>

\* What a client receives and what a file becomes are taken from the step: any
\* sequence will do that satisfies the action.
Next ==
  \/ \E c \in Clients, p \in Names : Begin(c, p)
  \/ \E c \in Clients : Deliver(c, SubSeq(got'[c], Len(got[c]) + 1, Len(got'[c])))
  \/ \E c \in Clients : Finish(c)
  \/ \E C \in SUBSET Clients : Abort(C)
  \/ \E p \in Names :
       LET s == store'[p] IN Save(p, s) \/ Spoil(p, s) \/ SpoilAll(p, s)
  \/ \E p \in Names : Unlink(p)

Spec == Init /\ [][Next]_<<store, serving, at, promise, torn, got>>
=============================================================================
