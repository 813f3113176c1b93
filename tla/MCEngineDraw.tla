---------------------------- MODULE MCEngineDraw ----------------------------
(***************************************************************************)
(* EngineDraw with two sheets, one text tile, a cache of two textures and  *)
(* frame ids that wrap after two frames.  The sheet a is drawn plain and   *)
(* keyed, as two textures; the frames have runs, one longer than a draw    *)
(* may be, fills beside art of the same blend mode, and one more texture   *)
(* than the cache holds.                                                   *)
(***************************************************************************)
EXTENDS EngineDraw

CONSTANTS a, b, t

Art(s, n) == [art |-> s, blend |-> n, own |-> FALSE]
Object(s) == [art |-> s, blend |-> 1, own |-> TRUE]
Fill == [art |-> NoArt, blend |-> 0, own |-> FALSE]

MCFrames ==
    {<<Fill, Art(a, 0), Art(b, 0)>>, <<Art(a, 0), Art(a, 0), Art(a, 0), Object(a)>>,
     <<Art(b, 0), Fill, Fill>>, <<Object(a), Art(t, 2)>>,
     <<Art(a, 0), Art(a, 1), Art(b, 0)>>}
=============================================================================
