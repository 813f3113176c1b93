------------------------------- MODULE MCKeys -------------------------------
(* Small instance of Keys: two directions of the pad with a zone that      *)
(* presses both, two keys to bind them to -- the same one, too -- of which *)
(* one is Return, on the keyboard with and without Alt, Escape on the      *)
(* keyboard (no finger presses the pause), and a ring that is soon full.   *)
EXTENDS Keys, TLC

CONSTANTS Esc, Enter, Q, f1, f2

MCPhysical == {Enter, Esc}
MCActions == <<"up", "left", "pause">>
MCZoneActions == [z \in {"up", "up-left"} |-> IF z = "up" THEN {"up"} ELSE {"up", "left"}]
MCZones == DOMAIN MCZoneActions
MCBindable == {Enter, Q}
MCSymmetry == Permutations({f1, f2})
=============================================================================
