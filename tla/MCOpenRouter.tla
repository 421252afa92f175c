----------------------------- MODULE MCOpenRouter -----------------------------
(* A small instance of OpenRouter: the key is removed and put back, and the*)
(* account's catalogue changes.  One catalogue names a model twice, a paid *)
(* one, and one with a longer context that only suits chat requests; the   *)
(* other has that one alone.  The primary model was blacklisted in an      *)
(* earlier run, another cools down.                                        *)
EXTENDS OpenRouter

MCNames      == <<"a", "b", "c", "p">>
MCConfigured == <<"p", "b">>
MCContext    == [m \in {"a", "b", "c", "p", "free"} |-> IF m = "c" THEN 2 ELSE 1]
MCListings   == [k \in Keys |-> {<<"b", "p", "c", "b">>, <<"c">>}]
MCUnfit      == [a \in Turns \cup Chats |-> IF a \in Turns THEN {"c"} ELSE {}]
MCHistories  ==
    {[NoHealth EXCEPT !["a"].fail = 1, !["a"].black = TRUE, !["b"].fail = 1, !["b"].cool = TRUE]}
=============================================================================
