----------------------------- MODULE EngineDraw -----------------------------
(***************************************************************************)
(* The SDL_GPU engine drawing one frame, runtime/video/engine.c, and its   *)
(* texture cache, engine_textures.c and texture_lru.h.  The frame's quads  *)
(* are walked in painter order; runs that share a texture and a blend mode *)
(* become one draw; stage geometry goes in at the place the list gave it.  *)
(* Between frames the game writes the surfaces the textures are copies of. *)
(*                                                                         *)
(* engine_draw runs on the game's thread and nothing is written meanwhile, *)
(* but every texture it asks for may fail, so its walk is kept in steps.   *)
(* A picture is a number: its low bit is the pixels the sampled hash does  *)
(* not look at, the rest those it does.                                    *)
(***************************************************************************)
EXTENDS Integers, FiniteSets, Sequences

CONSTANTS
    Surfaces,   \* guest surfaces, by pixel address
    Tiles,      \* places of the tile arena, by host address
    NoArt,      \* the source of a colour fill
    Frames,     \* the frames the game composes: sequences of quads
    Capacity,   \* TEXTURE_CAPACITY
    MaxRun,     \* the most quads of one draw (4096)
    FrameIds,   \* frame_id counts modulo this (2^64)
    MaxFrames,  \* bound on the frames drawn
    MaxWrites   \* bound on the pictures written

Quad == [art : Surfaces \cup Tiles \cup {NoArt}, blend : 0 .. 2, own : BOOLEAN]

ASSUME FrameAssumption ==
    /\ Surfaces \cap Tiles = {}   \* guest and host addresses are told apart
    /\ Frames \subseteq Seq(Quad) \ {<<>>}
    /\ Capacity \in Nat /\ MaxRun \in Nat \ {0} /\ FrameIds \in Nat \ {0, 1}
    /\ MaxFrames \in Nat /\ MaxWrites \in Nat

VARIABLES
    now,       \* the picture in each surface and arena place
    quiet,     \* surfaces written since last announced as dirty
    cache,     \* textures[] and usage[]: [key, pic, seen, dirty, last]
    frame,     \* frame_id
    q,         \* the quads of the frame being drawn, <<>> when none is
    at,        \* the quad the stage geometry goes before, 0 for none
    i, j,      \* the run being gathered: from i up to j - 1
    tex,       \* the slot of its texture, 0 for none
    out,       \* the draws recorded: [from, to, slot]
    dropped,   \* quads counted in stat_dropped
    sliver,    \* the gap in the quads' depths the geometry was given, 0 for none
    refused,   \* whether the GPU refused a texture in this frame
    frames, writes

game == <<now, quiet, writes>>
walk == <<i, j, tex, out, dropped, sliver, refused>>
vars == <<game, cache, frame, q, at, walk, frames>>

Seen(p) == p \div 2
Pictures == 0 .. 3

Init ==
    /\ now = [a \in Surfaces \cup Tiles |-> 0] /\ quiet = {} /\ writes = 0
    /\ cache = <<>> /\ frame = 0 /\ frames = 0
    /\ q = <<>> /\ at = 0 /\ i = 0 /\ j = 0 /\ tex = 0
    /\ out = <<>> /\ dropped = {} /\ sliver = 0 /\ refused = FALSE

Idle == q = <<>>

-----------------------------------------------------------------------------
(* The game and the port, between frames.                                  *)

WriteTo(a) ==
    /\ Idle /\ writes < MaxWrites /\ writes' = writes + 1
    /\ \E p \in Pictures \ {now[a]} : now' = [now EXCEPT ![a] = p]
    /\ UNCHANGED <<frame, q, at, walk, frames>>

\* Mutant: only the first texture made of a surface is marked.
DirtyFirst(a) ==
    [s \in DOMAIN cache |->
        IF cache[s].key[1] = a /\ \A r \in 1 .. s - 1 : cache[r].key[1] # a
           THEN [cache[s] EXCEPT !.dirty = TRUE] ELSE cache[s]]

\* engine_textures_surface_dirty: every texture made of the surface.
Dirty(a) ==
    [s \in DOMAIN cache |->
        IF cache[s].key[1] = a THEN [cache[s] EXCEPT !.dirty = TRUE]
        ELSE cache[s]]

\* A write DirectDraw knows of: a blit, a fill, an unlock, a StretchBlt.
Write(s) == WriteTo(s) /\ cache' = Dirty(s) /\ quiet' = quiet \ {s}

\* A write nobody announces, such as GDI text.
QuietWrite(s) == WriteTo(s) /\ quiet' = quiet \cup {s} /\ UNCHANGED cache

\* A new tile at an address an earlier frame used.
TileWrite(a) == WriteTo(a) /\ UNCHANGED <<quiet, cache>>

-----------------------------------------------------------------------------
(* engine_texture_for.                                                     *)

Key(x) == <<x.art, x.blend>>

Touched(e) == [e EXCEPT !.last = frame]

Made(x) == [key |-> Key(x), pic |-> now[x.art], seen |-> Seen(now[x.art]),
            dirty |-> FALSE, last |-> frame]

Stale(e, x) == e.dirty \/ e.seen # Seen(now[x.art])

\* Mutant: the least recently used, whether or not this frame uses it.
AnyVictims == DOMAIN cache

Victims == {s \in DOMAIN cache : cache[s].last # frame}

\* texture_lru_choose: the oldest, the first of equals.
Victim ==
    CHOOSE s \in Victims : \A r \in Victims :
        cache[s].last < cache[r].last \/ (cache[s].last = cache[r].last /\ s <= r)

\* The slot a new texture goes to, 0 when every texture is live.
Place ==
    IF Len(cache) < Capacity THEN Len(cache) + 1
    ELSE IF Victims = {} THEN 0 ELSE Victim

With(s, e) == IF s > Len(cache) THEN Append(cache, e) ELSE [cache EXCEPT ![s] = e]

Fails(slot, no) == slot = 0 /\ UNCHANGED cache /\ refused' = (refused \/ no)

\* Binds slot to the texture of quad x, 0 for a fill or a failure.  The GPU may
\* refuse to make or to upload a texture; nothing is changed then.
TextureFor(x, slot) ==
    LET held == {s \in DOMAIN cache : cache[s].key = Key(x)} IN
    IF x.art = NoArt THEN Fails(slot, FALSE)
    ELSE IF held # {}
       THEN LET s == CHOOSE s \in held : \A r \in held : s <= r IN
            IF Stale(cache[s], x)
               THEN \/ slot = s /\ cache' = With(s, Made(x)) /\ UNCHANGED refused
                    \/ Fails(slot, TRUE)
               ELSE /\ slot = s /\ cache' = With(s, Touched(cache[s]))
                    /\ UNCHANGED refused
    ELSE IF Place = 0 THEN Fails(slot, FALSE)
    ELSE \/ slot = Place /\ cache' = With(Place, Made(x)) /\ UNCHANGED refused
         \/ Fails(slot, TRUE)

-----------------------------------------------------------------------------
(* engine_draw.                                                            *)

\* engine_textures_begin_frame; ids start over after the last.
BeginTextures ==
    LET f == (frame + 1) % FrameIds IN
    /\ frame' = IF f = 0 THEN 1 ELSE f
    /\ cache' = IF f # 0 THEN cache
                ELSE [s \in DOMAIN cache |-> [cache[s] EXCEPT !.last = 0]]

BeginFrame ==
    /\ Idle /\ frames < MaxFrames /\ frames' = frames + 1
    /\ BeginTextures
    /\ \/ \E x \in Frames, g \in 0 .. 4 :
             /\ g <= Len(x) + 1
             /\ q' = x /\ at' = g
             /\ i' = 1 /\ j' = 0 /\ tex' = 0
             /\ out' = <<>> /\ dropped' = {} /\ sliver' = 0 /\ refused' = FALSE
       \/ UNCHANGED <<q, at, walk>>   \* no buffer, no pass: the frame is declined
    /\ UNCHANGED game

GeometryDue == at # 0 /\ sliver = 0 /\ at <= i

\* The geometry that has come due is drawn before the run that starts at i.
Geometry ==
    /\ ~Idle /\ i <= Len(q) /\ j = 0 /\ GeometryDue
    /\ sliver' = i
    /\ UNCHANGED <<game, cache, frame, q, at, i, j, tex, out, dropped, refused,
                   frames>>

\* The texture of the run's first quad.
StartRun ==
    /\ ~Idle /\ i <= Len(q) /\ j = 0 /\ ~GeometryDue
    /\ \E s \in 0 .. Len(cache) + 1 : TextureFor(q[i], s) /\ tex' = s
    /\ j' = i + 1
    /\ UNCHANGED <<game, frame, q, at, i, out, dropped, sliver, frames>>

MayJoin ==
    /\ j <= Len(q) /\ j - i < MaxRun /\ ~(tex # 0 /\ q[i].own)
    /\ q[j].blend = q[i].blend

\* Mutant: the quad that ended the run is taken for one of it.
EndRunSkips ==
    /\ out' = Append(out, [from |-> i, to |-> j - 1, slot |-> tex])
    /\ i' = j + 1 /\ j' = 0 /\ UNCHANGED dropped

\* The run is what has been gathered when it cannot grow: its quads are drawn,
\* or counted dropped when the first is art without a texture.
EndRun ==
    /\ IF tex = 0 /\ q[i].art # NoArt
          THEN dropped' = dropped \cup (i .. j - 1) /\ UNCHANGED out
          ELSE /\ out' = Append(out, [from |-> i, to |-> j - 1, slot |-> tex])
               /\ UNCHANGED dropped
    /\ i' = j /\ j' = 0

\* The next quad joins the run if its texture is the same.
Gather ==
    /\ ~Idle /\ j # 0
    /\ \/ /\ MayJoin
          /\ \E s \in 0 .. Len(cache) + 1 :
                /\ TextureFor(q[j], s)
                /\ IF s = tex
                      THEN j' = j + 1 /\ UNCHANGED <<i, out, dropped>>
                      ELSE EndRun
       \/ /\ ~MayJoin
          /\ EndRun
          /\ UNCHANGED <<cache, refused>>
    /\ UNCHANGED <<game, frame, q, at, tex, sliver, frames>>

\* What geometry is left is drawn, and the commands are submitted.
EndFrame ==
    /\ ~Idle /\ i > Len(q)
    /\ IF at # 0 /\ sliver = 0
          THEN sliver' = Len(q) /\ UNCHANGED <<q, at, i, j, tex, out, dropped, refused>>
          ELSE /\ q' = <<>> /\ at' = 0 /\ i' = 0 /\ j' = 0 /\ tex' = 0
               /\ out' = <<>> /\ dropped' = {} /\ sliver' = 0 /\ refused' = FALSE
    /\ UNCHANGED <<game, cache, frame, frames>>

Next ==
    \/ \E s \in Surfaces : Write(s) \/ QuietWrite(s)
    \/ \E a \in Tiles : TileWrite(a)
    \/ BeginFrame \/ Geometry \/ StartRun \/ Gather \/ EndFrame

Spec == Init /\ [][Next]_vars

-----------------------------------------------------------------------------
(* Properties.                                                             *)

Entry == [key : (Surfaces \cup Tiles) \X (0 .. 2), pic : Pictures, seen : 0 .. 1,
          dirty : BOOLEAN, last : 0 .. FrameIds - 1]

\* TypeOK: the cache stays inside its table, and holds one texture per key.
TypeOK ==
    /\ now \in [Surfaces \cup Tiles -> Pictures] /\ quiet \subseteq Surfaces
    /\ cache \in Seq(Entry) /\ Len(cache) <= Capacity
    /\ \A r, s \in DOMAIN cache : cache[r].key = cache[s].key => r = s
    /\ frame \in 0 .. FrameIds - 1
    /\ q \in Frames \cup {<<>>} /\ at \in 0 .. Len(q) + 1
    /\ i \in 0 .. Len(q) + 1 /\ j \in 0 .. Len(q) + 1 /\ tex \in 0 .. Capacity
    /\ out \in Seq([from : 1 .. Len(q), to : 1 .. Len(q), slot : 0 .. Capacity])
    /\ dropped \subseteq 1 .. Len(q) /\ sliver \in 0 .. Len(q) + 1
    /\ refused \in BOOLEAN /\ frames \in 0 .. MaxFrames /\ writes \in 0 .. MaxWrites

\* The quads recorded under a texture, with its slot.
Bound == {b \in (DOMAIN q) \X (DOMAIN out) :
             /\ out[b[2]].from <= b[1] /\ b[1] <= out[b[2]].to
             /\ out[b[2]].slot # 0}

\* RunsKeepTheirTexture: until the frame is submitted, the texture a draw was
\* recorded with is the one of every quad in the draw: later requests of the
\* same frame evict none of them, and a run never joins two.
RunsKeepTheirTexture ==
    \A b \in Bound : cache[out[b[2]].slot].key = Key(q[b[1]])

\* PicturesAreCurrent: what a draw samples agrees with its surface, or tile, on
\* every pixel the hash looks at, and on all of them unless somebody wrote the
\* surface and did not say so.
PicturesAreCurrent ==
    \A b \in Bound :
        LET art == q[b[1]].art
            pic == cache[out[b[2]].slot].pic
        IN  /\ Seen(pic) = Seen(now[art])
            /\ art \in Surfaces \ quiet => pic = now[art]

\* WorkingSetFits: a frame loses art only if it uses more textures than the
\* cache holds or the GPU refused one; what earlier frames used never matters.
WorkingSetFits ==
    dropped # {} =>
        \/ refused
        \/ Cardinality({Key(q[k]) : k \in {n \in DOMAIN q : q[n].art # NoArt}})
              > Capacity

\* EveryQuadOnce: the quads passed so far are each in one draw, in painter
\* order, or counted dropped, for one of the two reasons there are.
EveryQuadOnce ==
    ~Idle =>
        /\ \A k \in 1 .. i - 1 :
              Cardinality({d \in DOMAIN out : out[d].from <= k /\ k <= out[d].to})
                  = IF k \in dropped THEN 0 ELSE 1
        /\ \A c, d \in DOMAIN out : c < d => out[c].to < out[d].from
        /\ WorkingSetFits

\* DroppedIsMissingArt: the quads counted as dropped for want of a texture are
\* art, and the quads drawn without one are fills.
DroppedIsMissingArt ==
    /\ \A k \in dropped : q[k].art # NoArt
    /\ \A d \in DOMAIN out : out[d].slot = 0 =>
          \A k \in out[d].from .. out[d].to : q[k].art = NoArt

\* GeometryKeepsItsPlace: the geometry ends up in front of the quads drawn
\* that it was to come after, and behind those it was to come before.
GeometryKeepsItsPlace ==
    sliver # 0 =>
        \A d \in DOMAIN out : \A k \in out[d].from .. out[d].to :
            k < sliver <=> k < at
=============================================================================
