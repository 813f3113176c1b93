--------------------------- MODULE MCDisplayLists ---------------------------
(***************************************************************************)
(* DisplayLists with room for two of three surfaces, three entries a list, *)
(* an arena that three tiles overrun and a pool two textures fill.  A tile *)
(* is a glyph, a wide string or a tall icon, and a pooled texture is twice *)
(* a glyph at least.                                                       *)
(***************************************************************************)
EXTENDS DisplayLists, TLC

CONSTANTS s1, s2, s3

MCTileSizes == {[w |-> 1, h |-> 1], [w |-> 3, h |-> 1], [w |-> 1, h |-> 3]}
Symmetry == Permutations(Destinations)
=============================================================================
