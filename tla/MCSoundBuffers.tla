--------------------------- MODULE MCSoundBuffers ---------------------------
(***************************************************************************)
(* SoundBuffers with cursor units of half a frame: a source at half the    *)
(* device rate, one at the device rate with two-byte frames, one at one    *)
(* and a half times it, one too short to hold a pair, and one whose sound  *)
(* is shorter than a step of the cursor.                                   *)
(***************************************************************************)
EXTENDS SoundBuffers

MCFormat == {[bytes |-> 4, bps |-> 1, step |-> 1],
             [bytes |-> 6, bps |-> 2, step |-> 2],
             [bytes |-> 5, bps |-> 1, step |-> 3],
             [bytes |-> 1, bps |-> 1, step |-> 2],
             [bytes |-> 2, bps |-> 1, step |-> 5]}
=============================================================================
