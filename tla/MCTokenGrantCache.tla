-------------------------- MODULE MCTokenGrantCache --------------------------
(* TokenGrantCache on two grants, one with a cache time of its own, and    *)
(* tokens shorter and longer than the margin.                              *)
EXTENDS TokenGrantCache, TLC

CONSTANTS gPlain, gFixed

MCCacheTTL == [g \in Grants |-> IF g = gFixed THEN 4 ELSE 0]

ProcSymmetry == Permutations(Procs)
=============================================================================
