------------------------------ MODULE MCWsRelay ------------------------------
EXTENDS WsRelay

(* "a" is an ordinary byte, "m" a marker.  Alone each is an operation that *)
(* the first document allows; together they are one that only the second   *)
(* allows, so a policy that judged fragments would let it pass.            *)
MCChunks == {<<"a">>, <<"m">>}
MCReplacements == {<<"a">>}
MCClass ==
    [p \in {<<"a">>, <<"m">>} \cup ({"a", "m"} \X {"a", "m"}) |->
        IF p = <<"a", "m">> THEN "control" ELSE IF p = <<"m", "m">> THEN "invalid"
        ELSE "operation"]
MCPermits == [d \in Docs |-> IF d = "d1" THEN {<<"a">>, <<"m">>} ELSE {<<"a", "a">>, <<"m", "a">>}]
MCTextAllowed == {"d1"}
MCSetups ==
    {<<[graphql |-> TRUE, rewrite |-> TRUE, bound |-> TRUE, stored |-> FALSE], <<FALSE, TRUE>>>>,
     <<[graphql |-> FALSE, rewrite |-> TRUE, bound |-> FALSE, stored |-> TRUE], <<TRUE>>>>,
     <<[graphql |-> FALSE, rewrite |-> TRUE, bound |-> TRUE, stored |-> TRUE], << >>>>}
=============================================================================
