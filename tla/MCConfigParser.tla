--------------------------- MODULE MCConfigParser ---------------------------
(* Files for TLC: up to two servers of up to two locations each, or three. *)
EXTENDS ConfigParser

A == [path |-> "/", methods |-> <<"GET">>]
B == [path |-> "/upload", methods |-> <<"GET", "POST">>]
MCServers == [port : {80, 81}, locations : {<<>>, <<A, B>>, <<B, B>>},
              cgi : {{}, {Line(".py", 0, FALSE)}}]
MCWritten == {<<>>} \cup {<<s>> : s \in MCServers} \cup {<<s, t>> : s, t \in MCServers}
             \cup {<<s, t, s>> : s, t \in {[port |-> p, locations |-> <<A>>, cgi |-> {}] : p \in {80, 81, 0}}}
=============================================================================
