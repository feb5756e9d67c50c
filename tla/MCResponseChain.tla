--------------------------- MODULE MCResponseChain ---------------------------
(* One header, spelt as http.Header spells it or in lower case; one        *)
(* ordinary trailer and one that frames the message.                       *)
EXTENDS ResponseChain

MCNames == {"X"}
MCSpellings == {"X", "x"}
MCCanon == [s \in MCSpellings |-> "X"]
MCUpstream ==
    LET R(t, b, bodyless) ==
            [header |-> [n \in MCNames |-> <<0>>], trailer |-> [T |-> t, P |-> <<0>>],
             body |-> b, bodyless |-> bodyless]
    IN {R(t, b, FALSE) : t \in {Absent, <<0>>}, b \in SeqsUpTo({0}, 4)} \cup {R(Absent, Absent, TRUE)}
MCTrailerLists ==
    LET M(op, name) == [op |-> op, name |-> name]
    IN {<< >>, <<M("set", "T")>>, <<M("append", "T")>>, <<M("remove", "T"), M("set", "T")>>,
        <<M("remove", "P"), M("remove", "T")>>, <<M("set", "T"), M("set", "P")>>}
=============================================================================
