----------------------------- MODULE MCLeafCache -----------------------------
(* LeafCache with fewer slots than hosts and a clock that outlives leafs.  *)
EXTENDS LeafCache
=============================================================================
