---------------------------- MODULE DisplayLists ----------------------------
(***************************************************************************)
(* The native renderer's frame: runtime/video/render.c and the bookkeeping *)
(* it keeps in framelife.h.  The game's draws are recorded, one list per   *)
(* destination surface; text and icons are rastered into a tile arena;     *)
(* a present replays the list of one surface, the part before the overlay  *)
(* mark lit by the engine, and gives every tile drawn the old way a texture*)
(* of a pool; then everything recorded is forgotten.                       *)
(*                                                                         *)
(* All of it runs on the game's thread, so one call is one step.  A draw is*)
(* known by the number of its request, which is also a tile's pixels.      *)
(***************************************************************************)
EXTENDS Integers, FiniteSets, Sequences

CONSTANTS
    Destinations,    \* destination surfaces
    ListsMax,    \* FL_LISTS_MAX
    ListMax,     \* LIST_MAX
    ArenaMax,    \* TILE_BYTES_MAX, in pixels
    PoolMax,     \* FL_POOL_MAX
    Grid,        \* pooled textures come in multiples of this (32)
    TileSizes,   \* [w, h] of the tiles the callers raster
    MaxRequests  \* bound on the draws recorded

ASSUME SizeAssumption ==
    /\ {ListsMax, ListMax, ArenaMax, PoolMax, MaxRequests} \subseteq Nat
    /\ Grid \in Nat \ {0}
    /\ TileSizes \subseteq [w : Nat \ {0}, h : Nat \ {0}]

VARIABLES
    list,       \* the lists there are, by destination: entries and overlay mark
    used,       \* tile_used
    arena,      \* whose pixels each place of the arena holds
    pool,       \* the pooled textures: [w, h, busy, text]
    statDropped,    \* stat_dropped
    exhausted,  \* pool_exhausted
    requests,   \* draws requested so far
    asked,      \* those of this frame: [id, dst, ui]
    shown,      \* what a present has just put on the screen
    base        \* statDropped + exhausted at the last reset

listVars == <<list, used, arena, pool, statDropped, exhausted, requests, asked,
              shown, base>>

NoMark == -1
Empty == [e |-> <<>>, ov |-> NoMark]
Software == [gpu |-> FALSE]

ListsInit ==
    /\ list = <<>> /\ used = 0 /\ pool = <<>>
    /\ arena = [k \in 0 .. ArenaMax - 1 |-> 0]
    /\ statDropped = 0 /\ exhausted = 0
    /\ requests = 0 /\ asked = {} /\ shown = Software
    /\ base = 0

Area(z) == z.w * z.h

-----------------------------------------------------------------------------
(* Recording.                                                              *)

\* list_index: a destination not met before gets a list while there is room
\* for one, and keeps it.
Indexed(s) ==
    IF s \in DOMAIN list \/ Cardinality(DOMAIN list) = ListsMax THEN list
    ELSE [d \in DOMAIN list \cup {s} |-> IF d = s THEN Empty ELSE list[d]]

\* The `ui' requests are the ones made after the port marked the overlay.
Request(s) ==
    /\ requests < MaxRequests
    /\ requests' = requests + 1
    /\ asked' = asked \cup
          {[id |-> requests + 1, dst |-> s,
            ui |-> s \in DOMAIN list /\ list[s].ov # NoMark]}
    /\ shown' = Software
    /\ UNCHANGED <<exhausted, pool, base>>

Push(l, s, entry) == [l EXCEPT ![s].e = Append(@, entry)]

\* entry_push, for a blit, a fill, a ground marker or a stage mesh.  Without
\* a list the draw is lost and not counted.
Record(s) ==
    LET l == Indexed(s)
        full == s \in DOMAIN l /\ Len(l[s].e) = ListMax
    IN  /\ Request(s)
        /\ list' = IF s \in DOMAIN l /\ ~full
                      THEN Push(l, s, [id |-> requests + 1, tile |-> FALSE])
                      ELSE l
        /\ statDropped' = IF full THEN statDropped + 1 ELSE statDropped
        /\ UNCHANGED <<used, arena>>

Refuse(l) ==
    list' = l /\ statDropped' = statDropped + 1 /\ UNCHANGED <<used, arena>>

TileFits(z) == Area(z) <= ArenaMax - used

Rastered(s, l, z) ==
    /\ list' = Push(l, s, [id |-> requests + 1, tile |-> TRUE, size |-> z,
                           off |-> used])
    /\ arena' = [k \in DOMAIN arena |->
                    IF k \in used .. used + Area(z) - 1 THEN requests + 1
                    ELSE arena[k]]
    /\ used' = used + Area(z)
    /\ UNCHANGED statDropped

\* render_tile_begin, the caller's rastering and render_tile_end; nothing is
\* recorded between the two.
Tile(s, z) ==
    LET l == Indexed(s)
    IN  /\ Request(s)
        /\ IF ~TileFits(z) THEN Refuse(list)
           ELSE IF s \notin DOMAIN l THEN Refuse(l)
           ELSE IF Len(l[s].e) = ListMax THEN Refuse(l)
           ELSE Rastered(s, l, z)

\* Mutant: every mark moves the boundary.
OverlayMarkMoves(s) ==
    /\ s \in DOMAIN list
    /\ list' = [list EXCEPT ![s].ov = Len(list[s].e)]
    /\ UNCHANGED <<used, arena, pool, statDropped, exhausted, requests, asked, shown,
                   base>>

OverlayMark(s) ==
    /\ s \in DOMAIN list /\ list[s].ov = NoMark
    /\ list' = [list EXCEPT ![s].ov = Len(list[s].e)]
    /\ UNCHANGED <<used, arena, pool, statDropped, exhausted, requests, asked, shown,
                   base>>

OverlayAt(l) == IF l.ov = NoMark THEN Len(l.e) ELSE l.ov

-----------------------------------------------------------------------------
(* The pool of tile textures.                                              *)

Bucket(v) == ((v + Grid - 1) \div Grid) * Grid

\* Mutant: a texture already claimed in this frame is claimed again.
FreeFittingBusy(p, z) == {i \in DOMAIN p : p[i].w >= z.w /\ p[i].h >= z.h}

FreeFitting(p, z) ==
    {i \in DOMAIN p : ~p[i].busy /\ p[i].w >= z.w /\ p[i].h >= z.h}

\* fl_pool_claim: the smallest, the first of equals.
Claim(p, z) ==
    CHOOSE i \in FreeFitting(p, z) : \A j \in FreeFitting(p, z) :
        Area(p[i]) < Area(p[j]) \/ (Area(p[i]) = Area(p[j]) /\ i <= j)

Pixels(e) == {arena[k] : k \in e.off .. e.off + Area(e.size) - 1}

\* What drawing leaves behind: the pool, the count of tiles not drawn, and of
\* the tiles those drawn by texture, left out, and drawn over old pixels.
Drawing == [pool |-> pool, missing |-> 0, tex |-> <<>>, stale |-> {}]

Upload(d, e, i, locks) ==
    [d EXCEPT !.pool[i].busy = TRUE,
              !.pool[i].text = IF e.id \in locks THEN Pixels(e) ELSE @,
              !.tex = Append(@, [id |-> e.id, slot |-> i, size |-> e.size]),
              !.stale = IF e.id \in locks THEN @ ELSE @ \cup {e.id}]

\* tile_texture.  SDL may refuse to make the texture (the tile is not in
\* made), or to lock it (not in locks), when the tile is drawn with what the
\* texture held.
TileTexture(d, e, made, locks) ==
    IF FreeFitting(d.pool, e.size) # {}
       THEN Upload(d, e, Claim(d.pool, e.size), locks)
    ELSE IF Len(d.pool) = PoolMax \/ e.id \notin made
       THEN [d EXCEPT !.missing = @ + 1]
    ELSE Upload([d EXCEPT !.pool = Append(@,
                    [w |-> Bucket(e.size.w), h |-> Bucket(e.size.h),
                     busy |-> TRUE, text |-> {}])],
                e, Len(d.pool) + 1, locks)

\* draw_list over a part of a list.
DrawList(entries, made, locks) ==
    LET upTo[n \in 0 .. Len(entries)] ==
            IF n = 0 THEN Drawing
            ELSE IF entries[n].tile THEN TileTexture(upTo[n - 1], entries[n], made, locks)
            ELSE upTo[n - 1]
    IN  upTo[Len(entries)]

-----------------------------------------------------------------------------
(* Presenting.                                                             *)

\* Mutant: the lists are not emptied.
FrameResetKeepsLists(p) ==
    /\ list' = list
    /\ used' = 0 /\ pool' = [i \in DOMAIN p |-> [p[i] EXCEPT !.busy = FALSE]]
    /\ asked' = {}

\* render_frame_reset.
FrameReset(p) ==
    /\ list' = [s \in DOMAIN list |-> Empty]
    /\ used' = 0
    /\ pool' = [i \in DOMAIN p |-> [p[i] EXCEPT !.busy = FALSE]]
    /\ asked' = {}

\* No list, an empty one, or no render target: the software compositor
\* presents.
PresentSoftware(s) ==
    /\ shown' = Software
    /\ FrameReset(pool) /\ base' = statDropped + exhausted
    /\ UNCHANGED <<arena, statDropped, exhausted, requests>>

Ids(entries) == {entries[i].id : i \in DOMAIN entries}
TileIds(entries) == {entries[i].id : i \in {k \in DOMAIN entries : entries[k].tile}}

\* The engine draws the picture below the overlay, or declines and draw_list
\* does; draw_list draws the rest.
PresentFrame(s) ==
    /\ s \in DOMAIN list /\ list[s].e # <<>>
    /\ LET all == list[s].e
           ov == OverlayAt(list[s])
       IN \E engine \in BOOLEAN :
          LET old == IF engine THEN SubSeq(all, ov + 1, Len(all)) ELSE all
          IN \E made, locks \in SUBSET TileIds(old) :
             LET d == DrawList(old, made, locks)
             IN /\ engine => ov > 0
                /\ exhausted' = exhausted + d.missing
                /\ shown' =
                     [gpu |-> TRUE,
                      asked |-> {a \in asked : a.dst = s},
                      drawn |-> (Ids(all) \ TileIds(old)) \cup Ids(d.tex),
                      lit |-> IF engine THEN Ids(SubSeq(all, 1, ov)) ELSE {},
                      engine |-> engine, tex |-> d.tex, stale |-> d.stale,
                      pool |-> d.pool,
                      lost |-> statDropped + exhausted + d.missing - base]
                /\ FrameReset(d.pool)
                /\ base' = statDropped + exhausted + d.missing
    /\ UNCHANGED <<arena, statDropped, requests>>

\* render_shutdown, at exit.
Shutdown ==
    /\ list' = <<>> /\ used' = 0 /\ pool' = <<>>
    /\ requests' = MaxRequests /\ asked' = {} /\ shown' = Software
    /\ exhausted' = 0 /\ base' = statDropped
    /\ UNCHANGED <<arena, statDropped>>

ListsNext ==
    \/ \E s \in Destinations :
          \/ Record(s) \/ OverlayMark(s)
          \/ PresentSoftware(s) \/ PresentFrame(s)
          \/ \E z \in TileSizes : Tile(s, z)
    \/ Shutdown

ListsSpec == ListsInit /\ [][ListsNext]_listVars

-----------------------------------------------------------------------------
(* Properties.                                                             *)

ListEntry == [id : 1 .. MaxRequests, tile : {FALSE}] \cup
         [id : 1 .. MaxRequests, tile : {TRUE}, size : TileSizes,
          off : 0 .. ArenaMax]

\* ListsTypeOK: there are never more lists, entries or pooled textures than the
\* caps of render.c, and the arena's use ends inside it.
ListsTypeOK ==
    /\ DOMAIN list \subseteq Destinations /\ Cardinality(DOMAIN list) <= ListsMax
    /\ \A s \in DOMAIN list :
          /\ list[s].e \in Seq(ListEntry) /\ Len(list[s].e) <= ListMax
          /\ list[s].ov \in NoMark .. Len(list[s].e)
    /\ used \in 0 .. ArenaMax
    /\ arena \in [0 .. ArenaMax - 1 -> 0 .. MaxRequests]
    /\ Len(pool) <= PoolMax
    /\ \A i \in DOMAIN pool :
          /\ pool[i].w \in Nat /\ pool[i].h \in Nat /\ pool[i].busy \in BOOLEAN
          /\ pool[i].text \subseteq 1 .. MaxRequests
    /\ {statDropped, exhausted, requests, base} \subseteq 0 .. MaxRequests
    /\ asked \subseteq [id : 1 .. MaxRequests, dst : Destinations, ui : BOOLEAN]

Drew == IF shown.gpu THEN shown.tex ELSE <<>>

\* TextIsOwn: when a frame is complete, the texture of every tile in it holds
\* that tile's pixels and no others: no two tiles of a frame share a texture,
\* none reads another's part of the arena, and nothing of an earlier frame is
\* left.  (A texture SDL would not lock keeps its old pixels.)
TextIsOwn ==
    \A i \in DOMAIN Drew :
        Drew[i].id \notin shown.stale =>
            shown.pool[Drew[i].slot].text = {Drew[i].id}

\* TilesFitTheirTextures: a tile is the corner of a texture at least as large
\* in both directions, however the sizes of successive tiles vary.
TilesFitTheirTextures ==
    \A i \in DOMAIN Drew :
        LET t == shown.pool[Drew[i].slot]
        IN  t.w >= Drew[i].size.w /\ t.h >= Drew[i].size.h

\* LossesAreCounted: a frame the native renderer presents replays every draw
\* made to its surface, with a texture for every tile, or counted at least as
\* many lost.  (Whether the art of a replayed blit can be had is the texture
\* caches' business.)
LossesAreCounted ==
    shown.gpu =>
        Cardinality({a.id : a \in shown.asked} \ shown.drawn) <= shown.lost

\* FrameIsThisFrame: the native renderer shows only draws of the frame being
\* presented, for the surface presented, and all of them but those it counted.
FrameIsThisFrame ==
    /\ shown.gpu => shown.drawn \subseteq {a.id : a \in shown.asked}
    /\ LossesAreCounted

\* UiIsUnlit: with the engine drawing, what the port drew after it first marked
\* the overlay is not lit, and what the game drew before is.
UiIsUnlit ==
    shown.gpu /\ shown.engine =>
        \A a \in shown.asked : a.id \in shown.drawn =>
            (a.ui <=> a.id \notin shown.lit)

\* AllocatesWhenBusy: a present makes a texture only for a tile no texture
\* already in the pool could serve: each was too small, or serves another tile
\* of the same frame.
AllocationsNeeded ==
    shown'.gpu => \A t \in DOMAIN shown'.tex :
        shown'.tex[t].slot > Len(pool) =>
            \A k \in DOMAIN pool :
                \/ pool[k].w < shown'.tex[t].size.w
                \/ pool[k].h < shown'.tex[t].size.h
                \/ \E u \in DOMAIN shown'.tex : shown'.tex[u].slot = k

AllocatesWhenBusy == [][AllocationsNeeded]_listVars
=============================================================================
