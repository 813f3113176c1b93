----------------------------- MODULE MCPauseMenu -----------------------------
(* Small instance of PauseMenu: two function keys and a queue of one, so   *)
(* that a third command is refused.                                        *)
EXTENDS PauseMenu, TLC

CONSTANTS F4, F6

MCFunctionKeys == {F4, F6}
MCSymmetry == Permutations(MCFunctionKeys)
=============================================================================
