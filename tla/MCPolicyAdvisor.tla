--------------------------- MODULE MCPolicyAdvisor ---------------------------
(* PolicyAdvisor with one proposal, a document that names it and one that  *)
(* does not.                                                               *)
EXTENDS PolicyAdvisor

CONSTANTS dOld, dNew

MCNames == [d \in Docs |-> IF d = dNew THEN Ids ELSE {}]
=============================================================================
