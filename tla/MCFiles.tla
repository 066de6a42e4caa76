-------------------------------- MODULE MCFiles --------------------------------
EXTENDS Files, TLC

\* "/" and "/up" below the root "www", and "/doc" below another root.
MCLocations == {[path |-> <<>>, root |-> <<"www">>],
                [path |-> <<"up">>, root |-> <<"www">>],
                [path |-> <<"doc">>, root |-> <<"data">>]}
MCFileNames == {"f", "a+b", "+"}
MCNames == {"f", "a+b", "ab", "a b", "up", "doc", "+", ""}
MCSanitized == [n \in MCNames |-> CASE n = "a+b" -> "ab" [] n = "+" -> "" [] OTHER -> n]
MCDecoded == [n \in MCNames |-> CASE n = "a+b" -> "a b" [] n = "+" -> " " [] OTHER -> n]
MCUrls == {<<>>, <<"f">>, <<"ab">>, <<"a+b">>, <<"up">>, <<"up", "f">>, <<"up", "ab">>,
           <<"doc">>, <<"doc", "f">>, <<"doc", "doc">>, <<"doc", "doc", "f">>}
MCPaths == {<<>>, <<"www">>, <<"www", "f">>, <<"www", "ab">>, <<"www", "a+b">>, <<"www", "a b">>,
            <<"www", "up">>, <<"www", "up", "f">>, <<"www", "up", "ab">>,
            <<"www", "up", "a+b">>,
            <<"data">>, <<"data", "f">>, <<"data", "doc">>, <<"data", "doc", "f">>,
            <<"data", "doc", "ab">>, <<"data", "doc", "a+b">>}
CONSTANTS i1, i2, i3
MCSymmetry == Permutations({i2, i3})
MCPlaced == [p \in {<<"www", "f">>} |-> i1]
================================================================================
