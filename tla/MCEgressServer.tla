--------------------------- MODULE MCEgressServer ---------------------------
(* Small instances of EgressServer.  Each document says something else of  *)
(* each destination, so that a verdict taken under one document and used   *)
(* under another is told apart.                                            *)
EXTENDS EgressServer, TLC

CONSTANTS dDeny, dOpen, dStrict,   \* the empty document, a lax and a tight one
          hLocal, hWeb, hData,     \* policy.local, a web and a data endpoint
          rGet, rPost

MCMatch ==
    [d \in Docs |-> [h \in Hosts |->
        CASE d = dOpen   /\ h = hWeb  -> "l4"
          [] d = dOpen   /\ h = hData -> "raw"
          [] d = dStrict /\ h = hWeb  -> "l7"
          [] d = dStrict /\ h = hData -> "credentialed"
          [] OTHER                    -> "deny"]]

MCAllows ==
    [d \in Docs |-> [h \in Hosts |->
        CASE d = dOpen   /\ h = hWeb -> Reqs
          [] d = dStrict /\ h = hWeb -> Reqs \cap {rGet}
          [] OTHER                   -> {}]]

ConnSymmetry == Permutations(Conns)
=============================================================================
