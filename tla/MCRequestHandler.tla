--------------------------- MODULE MCRequestHandler ---------------------------
(* An instance of RequestHandler for TLC. *)
EXTENDS RequestHandler, TLC

\* Paths and blocks that match them as patterns, exactly, as prefixes or not at all.
MCPaths == {<<"/">>, <<"/", "a">>, <<"/", "a", "a">>, <<"/", "a", ".py">>, <<"/", ".py">>, <<"a">>}

Block(p) == [pattern |-> FALSE, path |-> p, redirect |-> FALSE, methods |-> {"GET", "POST"}]
Blocks == {[Block(<<".py">>) EXCEPT !.pattern = TRUE], [Block(<<"/">>) EXCEPT !.methods = {"GET", "PUT"}],
           [Block(<<"/", "a">>) EXCEPT !.redirect = TRUE],
           [Block(<<"/", "a">>) EXCEPT !.methods = Methods],
           [Block(<<"/", "a", ".py">>) EXCEPT !.methods = {"PUT"}]}
\* Every list of up to three blocks, duplicates included.
MCConfigs == {<<>>} \cup UNION {[1..n -> Blocks] : n \in 1..3}
\* A refused path, one that redirects, one that is answered.
MCLocations == <<[Block(<<"/">>) EXCEPT !.methods = {"GET", "PUT"}],
                 [Block(<<"/", "a">>) EXCEPT !.redirect = TRUE]>>

\* Browsers are interchangeable.
Symmetry == Permutations(Clients)
=============================================================================
