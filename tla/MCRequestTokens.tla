--------------------------- MODULE MCRequestTokens ---------------------------
(* The two sides of a token grant on one instance: the pipeline that asks  *)
(* for tokens, and the cache they come from.  The modules share no state   *)
(* and each is safe by itself, so that nothing is lost when a behaviour    *)
(* leaves one side as it was initially while the other takes steps.        *)
EXTENDS MCRequestPipeline, MCTokenGrantCache

TokensInit == Init /\ GrantInit

TokensNext ==
    \/ GrantInit /\ Next /\ UNCHANGED grantVars
    \/ Init /\ GrantNext /\ UNCHANGED vars

TokensSpec == TokensInit /\ [][TokensNext]_<<vars, grantVars>>
=============================================================================
