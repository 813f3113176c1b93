------------------------------ MODULE MCExecutor ------------------------------
(* Small instance of Executor.  `frame` is the guest's frame function: it  *)
(* calls the overridden `draw` and the service `peek`, whose handler calls *)
(* the window procedure `wndproc`, which draws and peeks again.  `draw`'s  *)
(* override calls its original in place or afresh, and before that or      *)
(* after it the guest function `blit`, by the address at which `frame`     *)
(* calls `draw` or by the one that guest_call always pushes.               *)
EXTENDS Executor

CONSTANTS callback, entry

MCFunctions == {"frame", "draw", "blit", "wndproc"}
MCOverridden == {"draw"}
MCServices == {"peek"}
MCCalls == [f \in MCFunctions |->
    CASE f = "frame" -> {"draw", "peek"}
      [] f = "draw" -> {"blit", "peek"}
      [] f = "blit" -> {"blit"}
      [] f = "wndproc" -> {"draw", "peek"}]
MCSynthetic == {callback, entry}
MCNativeCalls == [n \in MCOverridden \union MCServices \union {Main} |->
    CASE n = Main -> {<<"frame", entry>>, <<"draw", entry>>, <<"peek", entry>>}
      [] n = "draw" -> {<<"blit", <<"frame", "draw">> >>, <<"blit", callback>>, <<"draw", callback>>,
                       <<"peek", callback>>}
      [] n = "peek" -> {<<"wndproc", callback>>}]
=============================================================================
