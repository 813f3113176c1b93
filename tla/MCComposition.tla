---------------------------- MODULE MCComposition ----------------------------
(* Small instance of Composition: a screen of 12 columns and 4 rows, three *)
(* windows from narrower than the game to wider than is allocated, and the *)
(* five screens the code tells apart.  Four stages: a plain that repeats,  *)
(* with a band and a flickering light; a forest narrower than the widest   *)
(* views, with a plane that is continued; a wall that is drawn once; and   *)
(* the game's built-in stage.                                              *)
EXTENDS Composition

MCWindows == {<<9, 6>>, <<25, 7>>, <<80, 4>>}
MCPictureWidths == {3, NativeW}

D(name, path, l, r, rows) ==
    [name |-> name, path |-> path, l |-> l, r |-> r, rows |-> rows,
     hint |-> FALSE, menu |-> FALSE, optional |-> FALSE]
Optional(d) == [d EXCEPT !.optional = TRUE]
Menu(d) == [d EXCEPT !.menu = TRUE]

Whole(name, path, rows) == D(name, path, 0, NativeW, rows)

MCScript ==
    [menu    |-> <<Menu(Whole("backdrop", "fill", "full")), D("art", "blit", 0, 5, "tall"),
                   D("content", "blit", 4, 9, "middle"), D("content text", "text", 5, 6, "middle")>>,
     select  |-> <<Whole("backdrop", "fill", "full"), D("content", "blit", 1, 11, "middle"),
                   D("content text", "text", 5, 6, "middle"), Optional(D("overlay", "blit", 1, 5, "overlay"))>>,
     loading |-> <<Whole("backdrop", "blit", "full")>>,
     match   |-> <<Whole("layers", "stage", "middle"),
                   D("hud", "blit", 1, 4, "hud"), D("hud", "blit", 4, 7, "hud"),
                   D("hud text", "text", 2, 3, "hud"), Optional(D("banner", "blit", 0, 12, "banner")),
                   Optional(Whole("wipe", "fill", "full"))>>,
     summary |-> <<Whole("layers", "stage", "middle"), D("hud", "blit", 1, 4, "hud"),
                   D("hud", "blit", 4, 7, "hud"), D("summary", "blit", 3, 9, "header"),
                   D("summary", "blit", 3, 9, "panel"), D("summary text", "text", 6, 7, "panel")>>]

Layer(x, pic, span, loop) ==
    [x |-> x, pic |-> pic, span |-> span, loop |-> loop, tint |-> FALSE, far |-> FALSE,
     cc |-> 0, c1 |-> 0, c2 |-> 0]

MCStages ==
    [plain   |-> [builtin |-> FALSE, width |-> 34,
                  layers |-> <<Layer(0, 5, 18, 4), [Layer(0, 0, NativeW, 0) EXCEPT !.tint = TRUE],
                               [Layer(6, 2, 34, 0) EXCEPT !.cc = 2, !.c1 = 1, !.c2 = 1]>>],
     forest  |-> [builtin |-> FALSE, width |-> 18,
                  layers |-> <<[Layer(0, 14, 14, 0) EXCEPT !.far = TRUE], Layer(8, 6, 16, 0)>>],
     wall    |-> [builtin |-> FALSE, width |-> 32, layers |-> <<Layer(0, 22, 22, 0)>>],
     builtin |-> [builtin |-> TRUE, width |-> 32, layers |-> << >>]]
=============================================================================
