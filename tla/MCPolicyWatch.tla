---------------------------- MODULE MCPolicyWatch ----------------------------
(* PolicyWatch on five contents: two with a revision, one without, one     *)
(* that does not parse and one that the engine rejects.                    *)
EXTENDS PolicyWatch

CONSTANTS fA, fB, fPlain, fBroken, fRejected, dA, dB, dBad

MCParse ==
    [c \in Contents |->
        CASE c = fA        -> dA
          [] c = fB        -> dB
          [] c = fPlain    -> dB
          [] c = fRejected -> dBad
          [] OTHER         -> Invalid]

MCRevision == [c \in Contents |-> IF c = fPlain THEN 0 ELSE IF c = fA THEN 1 ELSE 2]
=============================================================================
