-------------------------- MODULE CompositionProofs --------------------------
(***************************************************************************)
(* Proofs about the surfaces under Composition, for any windows, pictures, *)
(* page and arena: what each surface may become wide is set aside for it   *)
(* once, and the surfaces that follow the window are never pictures.  And  *)
(* about what is drawn on them, for any screens that keep ScriptAssumption *)
(* and any stages: once a screen has settled, the age of the panels tells  *)
(* what it is, and every draw lies where its kind belongs.                 *)
(***************************************************************************)
EXTENDS Composition, FiniteSetTheorems, TLAPS

\* A surface has room for the widest it may become, below the free end.
RoomInv ==
    /\ surface \in [Ids -> SurfaceType \union {None}] /\ vram \in 0 .. VramEnd
    /\ \A i \in Made :
         /\ surface[i].w <= surface[i].max
         /\ surface[i].memory + Pixels(surface[i].max) <= vram

\* The rooms of two surfaces do not overlap.
Apart(s, t) == \/ s.memory + Pixels(s.max) <= t.memory
               \/ t.memory + Pixels(t.max) <= s.memory
ApartInv == \A i \in Made : \A j \in Made \ {i} : Apart(surface[i], surface[j])

FollowInv ==
    /\ hw.width \in NativeW .. WideMax /\ follow \subseteq Made
    /\ latch \in PictureWidths \union {None}
    /\ \A i \in Made :
         /\ i \in follow => /\ surface[i].purpose # "picture" /\ surface[i].max = WideMax
                            /\ surface[i].w = hw.width
         /\ surface[i].purpose = "picture" => surface[i].w = surface[i].asked

IInv == RoomInv /\ ApartInv /\ FollowInv

-----------------------------------------------------------------------------
LEMMA RoundedHasRoom ==
    ASSUME NEW size \in Nat
    PROVE  Rounded(size) \in Nat /\ size <= Rounded(size)
BY SurfacesAssumption DEF Rounded

LEMMA PixelsGrow ==
    ASSUME NEW a \in Nat, NEW b \in Nat, a <= b
    PROVE  Pixels(a) \in Nat /\ Pixels(b) \in Nat /\ Pixels(a) <= Pixels(b)
BY SurfacesAssumption DEF Pixels

LEMMA WidthIsInRange ==
    ASSUME NEW win \in Windows
    PROVE  ComposeWidth(win) \in NativeW .. WideMax
<1> DEFINE q == (win[1] * NativeH + win[2] - 1) \div win[2]
<1>1. win[1] \in Nat \ {0} /\ win[2] \in Nat \ {0}
  BY SurfacesAssumption
<1>2. q \in Int
  BY <1>1, SurfacesAssumption
<1> HIDE DEF q
<1>3. Least(WideMax, Most(NativeW, q)) \in NativeW .. WideMax
  BY <1>2, SurfacesAssumption DEF Least, Most
<1>q. QED
  BY <1>3 DEF ComposeWidth, q

LEMMA InitHolds == Init => IInv
<1> SUFFICES ASSUME Init PROVE IInv
  OBVIOUS
<1>1. Made = {} /\ surface \in [Ids -> SurfaceType \union {None}]
  BY DEF Init, SurfacesInit, Made
<1>2. hw.width \in NativeW .. WideMax
  BY WidthIsInRange DEF Init, SurfacesInit
<1>q. QED
  BY <1>1, <1>2, SurfacesAssumption
     DEF Init, SurfacesInit, IInv, RoomInv, ApartInv, FollowInv

-----------------------------------------------------------------------------
(* A new surface.                                                          *)

LEMMA CreatePreserves ==
    ASSUME IInv, NEW id \in Ids, NEW asked \in Nat \ {0}, asked <= WideMax,
           NEW primary \in BOOLEAN, NEW purpose \in {"primary", "compose", "picture"},
           purpose = "picture" => ~primary /\ latch = asked,
           Create(id, asked, primary, purpose)
    PROVE  IInv'
<1> DEFINE f == Follows(asked, primary)
           w == IF f THEN hw.width ELSE asked
           max == IF f THEN WideMax ELSE w
           s == [w |-> w, max |-> max, memory |-> vram, asked |-> asked, purpose |-> purpose]
<1> USE SurfacesAssumption
<1>0. /\ surface[id] = None /\ vram + Rounded(Pixels(max)) <= VramEnd
      /\ vram' = vram + Rounded(Pixels(max))
      /\ surface' = [surface EXCEPT ![id] = s]
      /\ follow' \in {follow, follow \union {id}} /\ (id \in follow' => f \/ id \in follow)
      /\ latch' \in {latch, None} /\ hw' = hw
  BY DEF Create
<1>1. w \in Nat /\ max \in Nat /\ w <= max /\ hw.width \in NativeW .. WideMax
  BY DEF IInv, FollowInv
<1>2. f => purpose # "picture"
  BY DEF Follows
<1>3. s \in SurfaceType /\ s.w = w /\ s.max = max /\ s.memory = vram
      /\ s.purpose = purpose /\ s.asked = asked
  BY <1>1 DEF IInv, RoomInv, SurfaceType
<1>4. /\ vram \in Nat /\ vram' \in 0 .. VramEnd /\ vram + Pixels(max) <= vram' /\ vram <= vram'
  BY <1>0, <1>1, RoundedHasRoom, PixelsGrow DEF IInv, RoomInv
<1>5. surface \in [Ids -> SurfaceType \union {None}] /\ s # None
  BY <1>3 DEF IInv, RoomInv
<1> HIDE DEF f, w, max, s
<1>6. /\ surface' \in [Ids -> SurfaceType \union {None}] /\ surface'[id] = s
      /\ Made' = Made \union {id} /\ id \notin Made
      /\ \A i \in Made : surface'[i] = surface[i] /\ surface[i] \in SurfaceType
  BY <1>0, <1>3, <1>5 DEF Made
<1>7. RoomInv'
  <2>1. \A i \in Made : surface[i].memory + Pixels(surface[i].max) <= vram'
    <3> SUFFICES ASSUME NEW i \in Made
                 PROVE  surface[i].memory + Pixels(surface[i].max) <= vram'
      OBVIOUS
    <3>1. surface[i].memory \in Nat /\ surface[i].max \in Nat
      BY <1>6 DEF SurfaceType
    <3>2. surface[i].memory + Pixels(surface[i].max) <= vram
      BY DEF IInv, RoomInv
    <3>q. QED
      BY <1>4, <3>1, <3>2, PixelsGrow
  <2>q. QED
    BY <2>1, <1>1, <1>3, <1>4, <1>6 DEF IInv, RoomInv
<1>8. ApartInv'
  <2>1. \A i \in Made : Apart(surface[i], s) /\ Apart(s, surface[i])
    BY <1>3, <1>6 DEF IInv, RoomInv, Apart
  <2>2. \A i \in Made : \A j \in Made \ {i} : Apart(surface[i], surface[j])
    BY DEF IInv, ApartInv
  <2>q. QED
    BY <2>1, <2>2, <1>6 DEF ApartInv
<1>9. FollowInv'
  <2>1. id \in follow' => f
    BY <1>0, <1>6 DEF IInv, FollowInv
  <2>2. /\ f => s.w = hw.width /\ s.max = WideMax /\ s.purpose # "picture"
        /\ s.purpose = "picture" => s.w = s.asked
    BY <1>2, <1>3 DEF w, max
  <2>q. QED
    BY <2>1, <2>2, <1>0, <1>6 DEF IInv, FollowInv
<1>q. QED
  BY <1>7, <1>8, <1>9 DEF IInv

LEMMA SurfacesPreserve == ASSUME IInv, SurfacesNext PROVE IInv'
<1> USE SurfacesAssumption
<1>1. ASSUME NextId \in Ids, CreateScreen(NextId) PROVE IInv'
  <2>1. NativeW \in Nat \ {0} /\ NativeW <= WideMax
    OBVIOUS
  <2>2. Create(NextId, NativeW, TRUE, "primary") => IInv'
    BY <1>1, <2>1, CreatePreserves
  <2>3. Create(NextId, NativeW, FALSE, "compose") => IInv'
    BY <1>1, <2>1, CreatePreserves
  <2>q. QED
    BY <1>1, <2>2, <2>3 DEF CreateScreen
<1>2. ASSUME NextId \in Ids, CreatePicture(NextId) PROVE IInv'
  <2>1. latch # None /\ Create(NextId, latch, FALSE, "picture")
    BY <1>2 DEF CreatePicture
  <2>2. latch \in PictureWidths
    BY <2>1 DEF IInv, FollowInv
  <2>3. latch \in Nat \ {0} /\ latch <= WideMax
    BY <2>2
  <2>q. QED
    BY <1>2, <2>1, <2>3, CreatePreserves
<1>3. ASSUME NEW w \in PictureWidths, LoadPicture(w) PROVE IInv'
  BY <1>3 DEF LoadPicture, IInv, RoomInv, ApartInv, FollowInv, Made
<1>q. QED
  BY <1>1, <1>2, <1>3 DEF SurfacesNext

(* Within its room a surface follows the window.                           *)
LEMMA ResizePreserves == ASSUME IInv, NEW win \in Windows, Resize(win) PROVE IInv'
<1> USE SurfacesAssumption
<1>1. hw'.width \in NativeW .. WideMax /\ UNCHANGED <<vram, follow, latch>>
  BY WidthIsInRange DEF Resize
<1>2. /\ surface' = [i \in Ids |-> IF i \in follow
                                   THEN [surface[i] EXCEPT !.w = Least(hw'.width, surface[i].max)]
                                   ELSE surface[i]]
      /\ surface \in [Ids -> SurfaceType \union {None}] /\ follow \subseteq Made
  BY DEF Resize, IInv, RoomInv, FollowInv
<1>3. ASSUME NEW i \in Made
      PROVE  /\ surface[i] \in SurfaceType /\ surface'[i] \in SurfaceType
             /\ surface'[i].max = surface[i].max /\ surface'[i].memory = surface[i].memory
             /\ surface'[i].asked = surface[i].asked /\ surface'[i].purpose = surface[i].purpose
             /\ surface'[i].w = IF i \in follow THEN hw'.width ELSE surface[i].w
  <2>1. i \in Ids /\ surface[i] \in SurfaceType
    BY <1>2 DEF Made
  <2>2. CASE i \in follow
    <3>1. surface[i].max = WideMax /\ Least(hw'.width, WideMax) = hw'.width
      BY <1>1, <2>2 DEF IInv, FollowInv, Least
    <3>2. surface'[i] = [surface[i] EXCEPT !.w = hw'.width]
      BY <1>2, <2>1, <2>2, <3>1
    <3>q. QED
      BY <1>1, <2>1, <2>2, <3>2 DEF SurfaceType
  <2>3. CASE i \notin follow
    BY <1>2, <2>1, <2>3
  <2>q. QED
    BY <2>2, <2>3
<1>4. surface' \in [Ids -> SurfaceType \union {None}]
  <2>1. ASSUME NEW i \in Ids PROVE surface'[i] \in SurfaceType \union {None}
    <3>1. CASE i \in Made
      BY <1>3, <3>1
    <3>2. CASE i \notin Made
      BY <1>2, <3>2 DEF Made
    <3>q. QED
      BY <3>1, <3>2
  <2>q. QED
    BY <1>2, <2>1
<1>5. Made' = Made
  <2>1. ASSUME NEW i \in Ids PROVE surface'[i] = None <=> surface[i] = None
    <3>1. CASE i \in Made
      BY <1>3, <3>1 DEF Made
    <3>2. CASE i \notin Made
      BY <1>2, <3>2 DEF Made
    <3>q. QED
      BY <3>1, <3>2
  <2>q. QED
    BY <2>1 DEF Made
<1>6. RoomInv'
  BY <1>1, <1>3, <1>4, <1>5 DEF IInv, RoomInv, FollowInv
<1>7. ApartInv'
  BY <1>3, <1>5 DEF IInv, ApartInv, Apart
<1>8. FollowInv'
  BY <1>1, <1>2, <1>3, <1>5 DEF IInv, FollowInv
<1>q. QED
  BY <1>6, <1>7, <1>8 DEF IInv

LEMMA StepPreserves == IInv /\ [Next]_vars => IInv'
<1> SUFFICES ASSUME IInv, [Next]_vars PROVE IInv'
  OBVIOUS
<1>1. CASE SurfacesNext
  BY <1>1, SurfacesPreserve
<1>2. ASSUME NEW win \in Windows, WindowChanges(win) PROVE IInv'
  BY <1>2, ResizePreserves DEF WindowChanges
<1>3. CASE UNCHANGED surfaceVars
  BY <1>3 DEF surfaceVars, IInv, RoomInv, ApartInv, FollowInv, Made
<1>4. ASSUME Draw \/ DrawStage \/ Skip \/ Present \/ UNCHANGED vars PROVE UNCHANGED surfaceVars
  BY <1>4 DEF Draw, DrawStage, Skip, Present, vars
<1>5. ASSUME NEW next \in DOMAIN Script, BeginFrame(next) PROVE UNCHANGED surfaceVars
  BY <1>5 DEF BeginFrame
<1>6. ASSUME NEW b \in Sections \union {0}, SectionChanges(b) PROVE UNCHANGED surfaceVars
  BY <1>6 DEF SectionChanges
<1>q. QED
  BY <1>1, <1>2, <1>3, <1>4, <1>5, <1>6 DEF Next

(* The invariant of the surfaces holds whatever is drawn and however the   *)
(* window changes (dd_CreateSurface, hostwin_window_geometry).             *)
THEOREM Invariance == Spec => []IInv
<1>1. Init => IInv
  BY InitHolds
<1>2. IInv /\ [Next]_vars => IInv'
  BY StepPreserves
<1>q. QED
  BY <1>1, <1>2, PTL DEF Spec

(* The pixels of a surface stay in the arena and apart from those of every *)
(* other surface, for any windows and any pictures (make_surface).         *)
THEOREM MemoryIsApart == Spec => []SurfacesAreApart
<1>1. IInv => SurfacesAreApart
  <2> SUFFICES ASSUME IInv, NEW i \in Made
               PROVE  /\ surface[i].memory + Pixels(surface[i].w) <= VramEnd
                      /\ \A j \in Made \ {i} : PixelsOf(i) \intersect PixelsOf(j) = {}
    BY DEF SurfacesAreApart
  <2>1. ASSUME NEW k \in Made
        PROVE  /\ surface[k] \in SurfaceType
               /\ Pixels(surface[k].w) \in Nat /\ Pixels(surface[k].max) \in Nat
               /\ Pixels(surface[k].w) <= Pixels(surface[k].max)
               /\ surface[k].memory \in Nat
               /\ surface[k].memory + Pixels(surface[k].max) <= VramEnd
    <3>1. surface[k] \in SurfaceType
      BY DEF IInv, RoomInv, Made
    <3>2. surface[k].w \in Nat /\ surface[k].max \in Nat /\ surface[k].memory \in Nat
      BY <3>1 DEF SurfaceType
    <3>3. surface[k].w <= surface[k].max /\ surface[k].memory + Pixels(surface[k].max) <= vram
      BY DEF IInv, RoomInv
    <3>4. vram \in 0 .. VramEnd
      BY DEF IInv, RoomInv
    <3>q. QED
      BY <3>1, <3>2, <3>3, <3>4, PixelsGrow, SurfacesAssumption
  <2>2. ASSUME NEW j \in Made \ {i} PROVE PixelsOf(i) \intersect PixelsOf(j) = {}
    <3>1. Apart(surface[i], surface[j])
      BY DEF IInv, ApartInv
    <3>q. QED
      BY <2>1, <3>1 DEF Apart, PixelsOf
  <2>q. QED
    BY <2>1, <2>2, SurfacesAssumption
<1>q. QED
  BY <1>1, Invariance, PTL

(* A picture keeps its own size and the screens have the composition's     *)
(* (hostwin_window_geometry resizes exactly the surfaces that follow).     *)
THEOREM PicturesKeepTheirSize == Spec => []SurfacesFitWhatTheyHold
<1>1. IInv => SurfacesFitWhatTheyHold
  BY DEF IInv, FollowInv, SurfacesFitWhatTheyHold
<1>q. QED
  BY <1>1, Invariance, PTL

(* Both: what a surface was made for stays in it (dd_CreateSurface,        *)
(* make_surface, hostwin_window_geometry).                                 *)
THEOREM PicturesAreKept == Spec => []SurfacesKeepTheirPictures
BY MemoryIsApart, PicturesKeepTheirSize, PTL DEF SurfacesKeepTheirPictures

-----------------------------------------------------------------------------
(* The layers of a stage.                                                  *)

(* A layer moves to the left only, however wide the view (geom_layer_      *)
(* offset).                                                                *)
LEMMA LayersMoveLeft ==
    ASSUME NEW span \in Nat, NEW c \in Nat, View \in Nat, Width \in Nat
    PROVE  LayerOffset(span, c) \in Int /\ LayerOffset(span, c) <= 0
<1>1. CASE Width <= View \/ span <= View
  BY <1>1 DEF LayerOffset
<1>2. CASE ~(Width <= View \/ span <= View)
  <2> DEFINE p == (span - View) * c
             d == Width - View
  <2>1. p \in Nat /\ d \in Nat \ {0}
    BY <1>2
  <2>2. p \div d \in Nat
    BY <2>1
  <2>3. LayerOffset(span, c) = -(p \div d)
    BY <1>2 DEF LayerOffset
  <2> HIDE DEF p, d
  <2>q. QED
    BY <2>2, <2>3
<1>q. QED
  BY <1>1, <1>2

LEMMA Quotient ==
    ASSUME NEW y \in Nat, NEW l \in Nat \ {0}
    PROVE  /\ y \div l \in Nat
           /\ (y \div l) * l <= y /\ y < (y \div l) * l + l
           /\ y \div l <= (y \div l) * l
<1> DEFINE q == y \div l
<1>1. q \in Nat
  OBVIOUS
<1>2. y = l * q + (y % l) /\ y % l \in 0 .. (l - 1)
  OBVIOUS
<1>3. l * q = q * l /\ q <= q * l
  <2> HIDE DEF q
  <2>q. QED
    BY <1>1
<1>q. QED
  BY <1>1, <1>2, <1>3

(* A layer that repeats without gaps in its data leaves none in the view,  *)
(* wherever the world is drawn from and however far the view reaches       *)
(* beyond its span (the loop over a looping layer in fn_0041a250).         *)
THEOREM LoopsLeaveNoGap ==
    ASSUME IInv, stage \in DOMAIN Stages, NEW c \in Nat, NEW layer,
           layer.x = 0, layer.span \in Nat, layer.loop \in Nat \ {0},
           layer.pic \in Nat, layer.loop <= layer.pic, NEW column \in 0 .. (View - 1)
    PROVE  \E p \in Pieces(layer, c) : p.l <= column /\ column < p.r
<1> DEFINE off == LayerOffset(layer.span, c)
           y == column - off
           n == y \div layer.loop
           start == n * layer.loop
           end == Most(layer.span, View - off)
<1>0. View \in Nat /\ Width \in Nat
  BY SurfacesAssumption, StageAssumption DEF IInv, FollowInv, View, Width, Most
<1>1. off \in Int /\ off <= 0
  BY <1>0, LayersMoveLeft
<1>2. y \in Nat /\ end \in Nat /\ y < end
  BY <1>0, <1>1 DEF Most
<1>3. Pieces(layer, c) = {[l |-> x, r |-> x + layer.pic] : x \in Copies(layer, off)}
  BY DEF Pieces
<1>4. Copies(layer, off) = {off + x : x \in Starts(layer, end)}
  BY DEF Copies
<1>5. Starts(layer, end) = {x \in {layer.x + m * layer.loop : m \in 0 .. (end - layer.x)} : x < end}
  BY DEF Starts
<1> HIDE DEF off, end, y
<1>6. n \in Nat /\ start <= y /\ y < start + layer.loop /\ n <= start
  BY <1>2, Quotient
<1> HIDE DEF n
<1>7. start \in Nat /\ start < end /\ n \in 0 .. (end - layer.x) /\ start = layer.x + n * layer.loop
  BY <1>2, <1>6
<1> HIDE DEF start
<1>8. start \in Starts(layer, end)
  BY <1>5, <1>7
<1>9. off + start \in Copies(layer, off)
  BY <1>4, <1>8
<1>10. [l |-> off + start, r |-> off + start + layer.pic] \in Pieces(layer, c)
  BY <1>3, <1>9
<1>11. off + start <= column /\ column < off + start + layer.pic
  BY <1>1, <1>6, <1>7 DEF y
<1>q. QED
  BY <1>10, <1>11

-----------------------------------------------------------------------------
(* The invariant of the screens.                                           *)

\* The screens exist once anything is drawn: one primary, and one surface to
\* compose into, which follows the window.
HasCompose == \E i \in follow : surface[i].purpose = "compose"
StartInv ==
    /\ IsFiniteSet(Made)
    /\ \A i, j \in Made :
         surface[i].purpose # "picture" /\ surface[i].purpose = surface[j].purpose => i = j
    /\ \A i \in Made : surface[i].purpose = "compose" => Cardinality(Made) >= 2
    /\ pc # 0 \/ since >= 1 => HasCompose

FrameInv ==
    /\ screen \in DOMAIN Script /\ stage \in DOMAIN Stages
    /\ pc \in Nat /\ since \in 0..Settled /\ camera \in Nat /\ lock \in Int
    /\ pc # 0 /\ since >= 1 => words = hw.width

\* The panels are fresh exactly in the screens that have them, from the second
\* frame on in those, and elsewhere once they have had the time to grow old.
AgeInv ==
    /\ age \in [hud : 0..Settled, overlay : 0..Settled] /\ (pc = 0 => age.hud >= 1)
    /\ IF ShowsHud(screen)
       THEN /\ since >= 1 => age.hud <= 1
            /\ \A i \in 1..(pc - 1) : Always(Script[screen][i], "blit", "hud") => age.hud = 0
       ELSE age.hud > since \/ age.hud = Settled

ResultInv == \A i \in 1..(pc - 1) : Always(Script[screen][i], "blit", "header") => result

\* Where each kind of draw belongs, in a composition of width w, on screen s
\* and stage g.
Centred(w, part) == IF w > NativeW THEN (w - part) \div 2 ELSE 0
Fills(y, w) ==
    /\ ~y.tint /\ y.cc = 0 /\ y.x = 0
    /\ IF y.loop > 0 THEN y.loop <= y.pic ELSE y.pic >= y.span /\ (y.far \/ y.span >= w)
BandFills(y, w) == y.tint /\ y.x = 0 /\ (y.span = NativeW \/ y.span >= w)

Placed(n, k, w, s, g) ==
    /\ n \in {"backdrop", "wipe"} => k.cols = 0..(w - 1)
    /\ n = "band" /\ (Stages[g].builtin \/ \E i \in DOMAIN Stages[g].layers : BandFills(Stages[g].layers[i], w))
         => k.cols = 0..(w - 1)
    /\ n = "layers" =>
         /\ ShowsHud(s) /\ k.off = 0
         /\ (\E i \in DOMAIN Stages[g].layers : Fills(Stages[g].layers[i], w)) => k.cols = 0..(w - 1)
    /\ n \in {"content", "content text"} => k.off = IF ShowsHud(s) THEN 0 ELSE Centred(w, NativeW)
    /\ n = "hud" => ShowsHud(s)
    /\ n \in {"hud", "hud text"} /\ ShowsHud(s) => k.off = Centred(w, HudW)
    /\ n \in {"summary", "summary text"} => k.off = IF w > NativeW THEN Centred(w, PanelW) - PanelLeft ELSE 0

DrawnInv ==
    /\ \A n \in DOMAIN drawn : since >= PanelFresh /\ Placed(n, drawn[n], hw.width, screen, stage)
    /\ \A n \in DOMAIN shown : Placed(n, shown[n], hw.width, screen, stage)

ScreensInv == StartInv /\ FrameInv /\ AgeInv /\ ResultInv /\ DrawnInv

-----------------------------------------------------------------------------
(* What is known of a draw that is judged.                                 *)

LEMMA Scripted ==
    ASSUME FrameInv, pc \in DOMAIN Script[screen]
    PROVE  /\ Script[screen] \in Seq(DrawType) /\ DOMAIN Script[screen] = 1..Len(Script[screen])
           /\ Script[screen][pc] \in DrawType /\ WellDrawn(screen, pc) /\ pc # 0
<1>1. Script[screen] \in Seq(DrawType) /\ WellDrawn(screen, pc)
  BY ScriptAssumption DEF FrameInv
<1>2. DOMAIN Script[screen] = 1..Len(Script[screen])
  BY <1>1
<1>q. QED
  BY <1>1, <1>2

\* The composition has the window's width once there is one.
LEMMA ComposeFollows ==
    ASSUME IInv, StartInv, HasCompose
    PROVE  W = hw.width /\ hw.width \in Nat /\ hw.width >= NativeW /\ View = hw.width
<1>1. PICK i \in follow : surface[i].purpose = "compose"
  BY DEF HasCompose
<1>2. i \in Made /\ surface[i].w = hw.width /\ hw.width \in NativeW..WideMax
  BY DEF IInv, FollowInv
<1>3. Compose \in Made /\ surface[Compose].purpose = "compose"
  BY <1>1, <1>2 DEF Compose
<1>4. Compose = i
  BY <1>1, <1>2, <1>3 DEF StartInv
<1>q. QED
  BY <1>2, <1>4, SurfacesAssumption DEF W, View, Most

\* A frame whose draws are kept knows what its screen is.
LEMMA FrameIsSettled ==
    ASSUME IInv, ScreensInv, pc # 0, since >= PanelFresh
    PROVE  /\ W = hw.width /\ hw.width \in Nat /\ hw.width >= NativeW /\ View = hw.width
           /\ words = hw.width
           /\ HudUp(age) <=> ShowsHud(screen)
           /\ ComposeOffset(age) = IF ShowsHud(screen) THEN 0 ELSE Centred(hw.width, NativeW)
<1> USE CompositionAssumption, SurfacesAssumption
<1>1. since >= 1 /\ since \in Nat /\ HasCompose /\ words = hw.width
  BY DEF ScreensInv, StartInv, FrameInv, Settled
<1>2. W = hw.width /\ hw.width \in Nat /\ hw.width >= NativeW /\ View = hw.width
  BY <1>1, ComposeFollows DEF ScreensInv
<1>3. HudUp(age) <=> ShowsHud(screen)
  <2>1. age.hud \in 0..Settled
    BY DEF ScreensInv, AgeInv
  <2>2. CASE ShowsHud(screen)
    BY <1>1, <2>1, <2>2 DEF ScreensInv, AgeInv, HudUp
  <2>3. CASE ~ShowsHud(screen)
    BY <1>1, <2>1, <2>3 DEF ScreensInv, AgeInv, HudUp, Settled
  <2>q. QED
    BY <2>2, <2>3
<1>q. QED
  BY <1>1, <1>2, <1>3 DEF ComposeOffset, ScreenOffset, Wide, Centred

LEMMA KeptOfOne ==
    ASSUME NEW m, m.off \in Int
    PROVE  Kept({m}).cols = Columns(m.l, m.r) /\ Kept({m}).off = m.off
<1>1. UNION {Columns(x.l, x.r) : x \in {m}} = Columns(m.l, m.r)
  OBVIOUS
<1>2. {x.off : x \in {m}} = {m.off}
  OBVIOUS
<1>3. (CHOOSE k \in {x.off : x \in {m}} : \A x \in {m} : x.off <= k) = m.off
  BY <1>2
<1>q. QED
  BY <1>1, <1>3 DEF Kept

LEMMA WholeIsCovered ==
    ASSUME W \in Nat
    PROVE  Columns(0, W) = 0..(W - 1)
BY DEF Columns

-----------------------------------------------------------------------------
(* The draws of a settled frame.                                           *)

\* A fill of the whole screen, or of the view, covers the composition.
LEMMA FillCovers ==
    ASSUME IInv, ScreensInv, pc # 0, since >= PanelFresh,
           NEW d, d.l = 0, NEW r \in Int, d.r = r, r = NativeW \/ r >= W
    PROVE  Columns(Fill(d).l, Fill(d).r) = 0..(hw.width - 1) /\ Fill(d).off = 0
<1> USE SurfacesAssumption
<1>1. /\ W = hw.width /\ hw.width \in Nat /\ hw.width >= NativeW
      /\ ComposeOffset(age) = IF ShowsHud(screen) THEN 0 ELSE Centred(hw.width, NativeW)
  BY FrameIsSettled
<1>2. Fill(d).l = 0 /\ Fill(d).r \in Int /\ Fill(d).r >= W /\ Fill(d).off = 0
  <2>1. CASE r = NativeW /\ W > NativeW
    BY <1>1, <2>1 DEF Fill, Wide
  <2>2. CASE r = NativeW /\ W = NativeW
    BY <1>1, <2>2 DEF Fill, InScreen, Moved, Centred
  <2>3. CASE r # NativeW
    <3>1. r > NativeW /\ r >= W
      BY <1>1, <2>3
    <3>2. ~InScreen(d)
      BY <3>1 DEF InScreen
    <3>3. Fill(d) = Moved(d, 0)
      BY <2>3, <3>2 DEF Fill
    <3>q. QED
      BY <3>1, <3>3 DEF Moved
  <2>q. QED
    BY <1>1, <2>1, <2>2, <2>3
<1>q. QED
  BY <1>1, <1>2 DEF Columns

LEMMA FillIsPlaced ==
    ASSUME IInv, ScreensInv, pc \in DOMAIN Script[screen], since >= PanelFresh,
           Script[screen][pc].path = "fill"
    PROVE  Placed(Script[screen][pc].name, Kept({Fill(Script[screen][pc])}), hw.width, screen, stage)
<1> DEFINE d == Script[screen][pc]
<1>1. d \in DrawType /\ WellDrawn(screen, pc) /\ pc # 0 /\ d.path = "fill"
  BY Scripted DEF ScreensInv
<1>2. d.name \in {"backdrop", "wipe"} => d.l = 0 /\ d.r = NativeW
  BY <1>1 DEF WellDrawn, Backdrop
<1>3. d.name \notin {"content", "content text", "hud", "hud text", "summary", "summary text", "layers", "band"}
  BY <1>1 DEF WellDrawn
<1> HIDE DEF d
<1>4. d.name \in {"backdrop", "wipe"} => Kept({Fill(d)}).cols = 0..(hw.width - 1)
  <2>1. d.name \in {"backdrop", "wipe"} =>
          Columns(Fill(d).l, Fill(d).r) = 0..(hw.width - 1) /\ Fill(d).off = 0
    BY <1>1, <1>2, FillCovers, SurfacesAssumption
  <2>q. QED
    BY <2>1, KeptOfOne
<1>q. QED
  BY <1>3, <1>4 DEF Placed, d

\* The three offsets a blit takes on its way.
LEMMA BlitMoves ==
    ASSUME NEW d, ~IsBackdrop(d)
    PROVE  LET early == HudShift(d) + BannerShift(d) + ResultShift(d)
               late == IF IsBackdropArt(d, align) \/ ~InScreen(Moved(d, early)) THEN 0
                       ELSE ComposeOffset(AgeAfter(d))
           IN  Blit(d) = Moved(d, early + late)
BY DEF Blit

LEMMA BackdropIsPlaced ==
    ASSUME IInv, ScreensInv, pc # 0, since >= PanelFresh, ~ShowsHud(screen),
           NEW d \in DrawType, d.rows = "full", Backdrop(d)
    PROVE  Kept({Blit(d)}).cols = 0..(hw.width - 1)
<1> USE SurfacesAssumption
<1>1. /\ W = hw.width /\ hw.width \in Nat /\ hw.width >= NativeW
      /\ ~HudUp(age)
  BY FrameIsSettled
<1>2. d.l = 0 /\ d.r = NativeW /\ d.l \in Int
  BY DEF Backdrop
<1>3. HudShift(d) = 0 /\ BannerShift(d) = 0 /\ ResultShift(d) = 0 /\ AgeAfter(d) = age
  <2>1. HudShift(d) = 0 /\ BannerShift(d) = 0 /\ ResultShift(d) = 0
    BY DEF HudShift, BannerShift, ResultShift
  <2>2. age \in [hud : 0..Settled, overlay : 0..Settled]
    BY DEF ScreensInv, AgeInv
  <2>q. QED
    BY <2>1, <2>2 DEF AgeAfter
<1>4. CASE W > NativeW
  <2>1. IsBackdrop(d)
    BY <1>1, <1>2, <1>4 DEF IsBackdrop, Wide
  <2>2. ComposeOffset(age) \in Int
    BY <1>1 DEF ComposeOffset, ScreenOffset
  <2> DEFINE early == HudShift(d) + BannerShift(d) + ResultShift(d)
             late == IF IsBackdropArt(d, FALSE) \/ ~InScreen(Moved(d, early)) THEN 0
                     ELSE ComposeOffset(AgeAfter(d))
  <2>5. early \in Int /\ late \in Int
    <3>1. early = 0
      BY <1>3
    <3>2. late \in {0, ComposeOffset(AgeAfter(d))}
      OBVIOUS
    <3>3. ComposeOffset(AgeAfter(d)) \in Int
      BY <1>3, <2>2
    <3> HIDE DEF early, late
    <3>q. QED
      BY <3>1, <3>2, <3>3
  <2>6. Blit(d) = EdgeBands(Moved(d, early + late))
    BY <2>1 DEF Blit
  <2> HIDE DEF early, late
  <2>3. PICK off \in Int : Blit(d) = EdgeBands(Moved(d, off))
    BY <2>5, <2>6
  <2>4. Blit(d).l = 0 /\ Blit(d).r = W /\ Blit(d).off \in Int
    BY <2>3 DEF EdgeBands, Moved
  <2>q. QED
    BY <1>1, <2>4, KeptOfOne, WholeIsCovered
<1>5. CASE W = NativeW
  <2>1. ComposeOffset(age) = 0
    BY <1>5 DEF ComposeOffset
  <2>2. ~IsBackdrop(d)
    BY <1>5 DEF IsBackdrop
  <2>3. Blit(d).l = 0 /\ Blit(d).r = W /\ Blit(d).off = 0
    BY <1>2, <1>3, <1>5, <2>1, <2>2 DEF Blit, Moved
  <2>q. QED
    BY <1>1, <2>3, KeptOfOne, WholeIsCovered
<1>q. QED
  BY <1>1, <1>4, <1>5

\* Every blit but a backdrop: by what it is recognised, so it moves.
LEMMA BlitOffset ==
    ASSUME IInv, ScreensInv, pc # 0, since >= PanelFresh, NEW d,
           d.l \in Int, d.r \in Int, d.rows \notin {"full", "tall", "banner"},
           NEW off, off = HudShift(d) + ResultShift(d), off \in Int
    PROVE  /\ Blit(d) = Moved(d, off + (IF ~InScreen(Moved(d, off)) THEN 0 ELSE ComposeOffset(AgeAfter(d))))
           /\ d.rows # "hud" => HudShift(d) = 0 /\ HudUp(AgeAfter(d)) = HudUp(age)
           /\ d.rows \notin {"header", "panel"} => ResultShift(d) = 0
<1>1. BannerShift(d) = 0 /\ ~IsBackdrop(d) /\ ~IsBackdropArt(d, align)
  BY DEF BannerShift, IsBackdrop, IsBackdropArt
<1>2. HudShift(d) \in Int /\ ResultShift(d) \in Int
  <2>1. /\ W \in Nat /\ NativeW \in Nat
    BY FrameIsSettled, SurfacesAssumption
  <2>2. ItemOffset \in Int
    BY <2>1, CompositionAssumption DEF ItemOffset
  <2>q. QED
    BY <2>1, <2>2, CompositionAssumption DEF HudShift, ResultShift
<1>3. HudShift(d) + BannerShift(d) + ResultShift(d) = off
  BY <1>1, <1>2
<1>4. Blit(d) = Moved(d, off + (IF ~InScreen(Moved(d, off)) THEN 0 ELSE ComposeOffset(AgeAfter(d))))
  BY <1>1, <1>3 DEF Blit
<1>5. d.rows # "hud" => HudShift(d) = 0 /\ HudUp(AgeAfter(d)) = HudUp(age)
  BY DEF HudShift, AgeAfter, HudUp
<1>q. QED
  BY <1>4, <1>5 DEF ResultShift

\* The panels as they are when a draw of rows that are not theirs is placed.
LEMMA AgeStays ==
    ASSUME ScreensInv, NEW d, d.rows \notin {"hud", "overlay"}
    PROVE  AgeAfter(d) = age
<1>1. age \in [hud : 0..Settled, overlay : 0..Settled]
  BY DEF ScreensInv, AgeInv
<1>q. QED
  BY <1>1 DEF AgeAfter

LEMMA HudMeansNoOffset ==
    ASSUME NEW a, HudUp(a)
    PROVE  ComposeOffset(a) = 0
BY DEF ComposeOffset, ScreenOffset

LEMMA ContentIsPlaced ==
    ASSUME IInv, ScreensInv, pc # 0, since >= PanelFresh, NEW d \in DrawType,
           d.rows = "middle", InScreen(d)
    PROVE  Kept({Blit(d)}).off = IF ShowsHud(screen) THEN 0 ELSE Centred(hw.width, NativeW)
<1> USE SurfacesAssumption
<1>1. /\ hw.width \in Nat /\ hw.width >= NativeW
      /\ ComposeOffset(age) = IF ShowsHud(screen) THEN 0 ELSE Centred(hw.width, NativeW)
  BY FrameIsSettled
<1>2. d.l \in Int /\ d.r \in Int
  BY DEF DrawType
<1>3. HudShift(d) + ResultShift(d) = 0
  BY DEF HudShift, ResultShift
<1>4. AgeAfter(d) = age
  BY AgeStays
<1>5. InScreen(Moved(d, 0))
  BY <1>2 DEF InScreen, Moved
<1>6. Blit(d) = Moved(d, 0 + (IF ~InScreen(Moved(d, 0)) THEN 0 ELSE ComposeOffset(AgeAfter(d))))
  BY <1>2, <1>3, BlitOffset
<1>7. ComposeOffset(age) \in Int
  BY <1>1 DEF Centred
<1>8. Blit(d) = Moved(d, ComposeOffset(age))
  BY <1>4, <1>5, <1>6, <1>7
<1>q. QED
  BY <1>1, <1>7, <1>8, KeptOfOne DEF Moved

LEMMA HudIsPlaced ==
    ASSUME IInv, ScreensInv, pc # 0, since >= PanelFresh, NEW d \in DrawType,
           d.rows = "hud", ShowsHud(screen)
    PROVE  Kept({Blit(d)}).off = Centred(hw.width, HudW)
<1> USE SurfacesAssumption, CompositionAssumption
<1>1. /\ W = hw.width /\ hw.width \in Nat /\ hw.width >= NativeW /\ HudUp(age)
  BY FrameIsSettled
<1>2. d.l \in Int /\ d.r \in Int
  BY DEF DrawType
<1>3. HudShift(d) = Centred(hw.width, HudW) /\ Centred(hw.width, HudW) \in Int
  BY <1>1 DEF HudShift, Wide, Centred
<1>4. ResultShift(d) = 0
  BY DEF ResultShift
<1>5. HudUp(AgeAfter(d))
  <2>1. age \in [hud : 0..Settled, overlay : 0..Settled]
    BY DEF ScreensInv, AgeInv
  <2>2. AgeAfter(d).hud = 0
    BY <2>1 DEF AgeAfter
  <2>q. QED
    BY <2>2 DEF HudUp
<1>6. ComposeOffset(AgeAfter(d)) = 0
  BY <1>5, HudMeansNoOffset
<1> DEFINE off == HudShift(d) + ResultShift(d)
<1>7. off = Centred(hw.width, HudW) /\ off \in Int
  BY <1>3, <1>4
<1>8. Blit(d) = Moved(d, off + (IF ~InScreen(Moved(d, off)) THEN 0 ELSE ComposeOffset(AgeAfter(d))))
  BY <1>2, <1>7, BlitOffset
<1> HIDE DEF off
<1>9. Blit(d) = Moved(d, off)
  <2>1. (IF ~InScreen(Moved(d, off)) THEN 0 ELSE ComposeOffset(AgeAfter(d))) = 0
    BY <1>6
  <2>q. QED
    BY <1>7, <1>8, <2>1
<1>q. QED
  BY <1>7, <1>9, KeptOfOne DEF Moved

LEMMA SummaryIsPlaced ==
    ASSUME IInv, ScreensInv, pc # 0, since >= PanelFresh, NEW d \in DrawType,
           d.rows \in {"header", "panel"}, ResultAfter(d), InPanel(d), ShowsHud(screen)
    PROVE  Kept({Blit(d)}).off = IF hw.width > NativeW THEN Centred(hw.width, PanelW) - PanelLeft ELSE 0
<1> USE SurfacesAssumption, CompositionAssumption
<1>1. /\ W = hw.width /\ hw.width \in Nat /\ hw.width >= NativeW /\ HudUp(age)
  BY FrameIsSettled
<1>2. d.l \in Int /\ d.r \in Int
  BY DEF DrawType
<1>3. HudShift(d) = 0
  BY DEF HudShift
<1>4. ResultShift(d) = ItemOffset
  BY DEF ResultShift
<1>5. /\ ItemOffset = (IF hw.width > NativeW THEN Centred(hw.width, PanelW) - PanelLeft ELSE 0)
      /\ ItemOffset \in Int
  BY <1>1 DEF ItemOffset, Centred
<1>6. ComposeOffset(AgeAfter(d)) = 0
  BY <1>1, AgeStays, HudMeansNoOffset
<1> DEFINE off == HudShift(d) + ResultShift(d)
<1>7. off = ItemOffset /\ off \in Int
  BY <1>3, <1>4, <1>5
<1>8. Blit(d) = Moved(d, off + (IF ~InScreen(Moved(d, off)) THEN 0 ELSE ComposeOffset(AgeAfter(d))))
  BY <1>2, <1>7, BlitOffset
<1> HIDE DEF off
<1>9. Blit(d) = Moved(d, off)
  <2>1. (IF ~InScreen(Moved(d, off)) THEN 0 ELSE ComposeOffset(AgeAfter(d))) = 0
    BY <1>6
  <2>q. QED
    BY <1>7, <1>8, <2>1
<1>q. QED
  BY <1>5, <1>7, <1>9, KeptOfOne DEF Moved

\* After the header of the summary its text and its panels are recognised.
LEMMA HeaderIsKnown ==
    ASSUME ScreensInv, pc \in DOMAIN Script[screen], AfterHeader(screen, pc)
    PROVE  result
BY DEF AfterHeader, ScreensInv, ResultInv

LEMMA BlitIsPlaced ==
    ASSUME IInv, ScreensInv, pc \in DOMAIN Script[screen], since >= PanelFresh,
           Script[screen][pc].path = "blit"
    PROVE  Placed(Script[screen][pc].name, Kept({Blit(Script[screen][pc])}), hw.width, screen, stage)
<1> DEFINE d == Script[screen][pc]
<1>1. d \in DrawType /\ WellDrawn(screen, pc) /\ pc # 0 /\ d.path = "blit"
  BY Scripted DEF ScreensInv
<1>2. d.name = "backdrop" => Kept({Blit(d)}).cols = 0..(hw.width - 1)
  BY <1>1, BackdropIsPlaced DEF WellDrawn
<1>3. d.name = "content" =>
        Kept({Blit(d)}).off = IF ShowsHud(screen) THEN 0 ELSE Centred(hw.width, NativeW)
  BY <1>1, ContentIsPlaced DEF WellDrawn
<1>4. d.name = "hud" => ShowsHud(screen) /\ Kept({Blit(d)}).off = Centred(hw.width, HudW)
  BY <1>1, HudIsPlaced DEF WellDrawn
<1>5. d.name = "summary" =>
        Kept({Blit(d)}).off = IF hw.width > NativeW THEN Centred(hw.width, PanelW) - PanelLeft ELSE 0
  <2> SUFFICES ASSUME d.name = "summary"
               PROVE  Kept({Blit(d)}).off = IF hw.width > NativeW THEN Centred(hw.width, PanelW) - PanelLeft ELSE 0
    OBVIOUS
  <2>1. /\ ShowsHud(screen) /\ InPanel(d)
        /\ d.rows = "header" \/ (d.rows = "panel" /\ AfterHeader(screen, pc))
    BY <1>1 DEF WellDrawn
  <2>2. d.rows \in {"header", "panel"} /\ ResultAfter(d)
    BY <2>1, HeaderIsKnown DEF ResultAfter
  <2> HIDE DEF d
  <2>q. QED
    BY <1>1, <2>1, <2>2, SummaryIsPlaced
<1>6. d.name \notin {"wipe", "content text", "hud text", "summary text", "layers", "band"}
  BY <1>1 DEF WellDrawn
<1> HIDE DEF d
<1>q. QED
  BY <1>2, <1>3, <1>4, <1>5, <1>6 DEF Placed, d

\* The offsets that text asks for.
LEMMA TextMoves ==
    ASSUME IInv, ScreensInv, pc # 0, since >= PanelFresh
    PROVE  /\ HudOffset(age) = (IF ShowsHud(screen) THEN Centred(hw.width, HudW) ELSE 0)
           /\ ItemOffset = (IF hw.width > NativeW THEN Centred(hw.width, PanelW) - PanelLeft ELSE 0)
           /\ HudOffset(age) \in Int /\ ItemOffset \in Int /\ ComposeOffset(age) \in Int
<1> USE SurfacesAssumption, CompositionAssumption
<1>1. W = hw.width /\ hw.width \in Nat /\ hw.width >= NativeW
  BY FrameIsSettled
<1>2. HudUp(age) <=> ShowsHud(screen)
  BY FrameIsSettled
<1>3. HudOffset(age) = (IF ShowsHud(screen) THEN Centred(hw.width, HudW) ELSE 0) /\ HudOffset(age) \in Int
  <2>1. CASE ShowsHud(screen)
    <3>1. HudUp(age)
      BY <1>2, <2>1
    <3>q. QED
      BY <1>1, <2>1, <3>1 DEF HudOffset, Wide, Centred
  <2>2. CASE ~ShowsHud(screen)
    <3>1. ~HudUp(age)
      BY <1>2, <2>2
    <3>q. QED
      BY <1>1, <2>2, <3>1 DEF HudOffset
  <2>q. QED
    BY <2>1, <2>2
<1>4. /\ ItemOffset = (IF hw.width > NativeW THEN Centred(hw.width, PanelW) - PanelLeft ELSE 0)
      /\ ItemOffset \in Int
  BY <1>1 DEF ItemOffset, Centred
<1>5. ComposeOffset(age) \in Int
  BY <1>1 DEF ComposeOffset, ScreenOffset
<1>q. QED
  BY <1>3, <1>4, <1>5

LEMMA TextIsMoved ==
    ASSUME NEW d \in DrawType, NEW hud, hud \in Int, NEW compose, compose \in Int,
           hud = HudOffset(age), compose = ComposeOffset(age)
    PROVE  /\ d.rows = "hud" => Text(d) = Moved(d, hud + compose)
           /\ d.rows = "middle" => Text(d) = Moved(d, compose)
           /\ d.rows = "panel" /\ result /\ compose = 0 /\ d.l \in PanelLeft..(PanelLeft + PanelW - 1)
              /\ ItemOffset \in Int => Text(d) = Moved(d, ItemOffset)
<1>1. d.l \in Int
  BY DEF DrawType
<1>2. ASSUME d.rows = "hud" PROVE Text(d) = Moved(d, hud + compose)
  BY <1>2 DEF Text
<1>3. ASSUME d.rows = "middle" PROVE Text(d) = Moved(d, compose)
  BY <1>3 DEF Text
<1>4. ASSUME d.rows = "panel", result, compose = 0, d.l \in PanelLeft..(PanelLeft + PanelW - 1), ItemOffset \in Int
      PROVE  Text(d) = Moved(d, ItemOffset)
  <2>1. Moved(d, 0 + compose).l = d.l /\ Moved(d, 0 + compose).off = 0
    BY <1>1, <1>4 DEF Moved
  <2>2. d.l >= PanelLeft /\ d.l < PanelLeft + PanelW
    BY <1>1, <1>4, CompositionAssumption
  <2>3. Text(d) = Moved(d, 0 + ItemOffset)
    BY <1>4, <2>1, <2>2 DEF Text
  <2>q. QED
    BY <1>4, <2>3
<1>q. QED
  BY <1>2, <1>3, <1>4

LEMMA TextIsPlaced ==
    ASSUME IInv, ScreensInv, pc \in DOMAIN Script[screen], since >= PanelFresh,
           Script[screen][pc].path = "text"
    PROVE  Placed(Script[screen][pc].name, Kept({Text(Script[screen][pc])}), hw.width, screen, stage)
<1> DEFINE d == Script[screen][pc]
           hud == HudOffset(age)
           compose == ComposeOffset(age)
<1>1. d \in DrawType /\ WellDrawn(screen, pc) /\ pc # 0 /\ d.path = "text"
  BY Scripted DEF ScreensInv
<1>2. /\ hud = (IF ShowsHud(screen) THEN Centred(hw.width, HudW) ELSE 0)
      /\ ItemOffset = (IF hw.width > NativeW THEN Centred(hw.width, PanelW) - PanelLeft ELSE 0)
      /\ hud \in Int /\ ItemOffset \in Int /\ compose \in Int
  BY <1>1, TextMoves
<1>3. compose = IF ShowsHud(screen) THEN 0 ELSE Centred(hw.width, NativeW)
  BY <1>1, FrameIsSettled
<1>4. /\ d.name = "content text" => d.rows = "middle"
      /\ d.name = "hud text" => d.rows = "hud"
      /\ d.name = "summary text" =>
           /\ d.rows = "panel" /\ ShowsHud(screen) /\ result
           /\ d.l \in PanelLeft..(PanelLeft + PanelW - 1)
  BY <1>1, HeaderIsKnown DEF WellDrawn
<1>5. d.name \notin {"backdrop", "wipe", "content", "hud", "summary", "layers", "band"}
  BY <1>1 DEF WellDrawn
<1>6. /\ d.rows = "hud" => Text(d) = Moved(d, hud + compose)
      /\ d.rows = "middle" => Text(d) = Moved(d, compose)
      /\ d.rows = "panel" /\ result /\ compose = 0 /\ d.l \in PanelLeft..(PanelLeft + PanelW - 1)
           => Text(d) = Moved(d, ItemOffset)
  BY <1>1, <1>2, TextIsMoved
<1> HIDE DEF d, hud, compose
<1>0. \A x : Moved(d, x).off = x
  BY DEF Moved
<1>7. d.name = "content text" =>
        Kept({Text(d)}).off = IF ShowsHud(screen) THEN 0 ELSE Centred(hw.width, NativeW)
  <2>1. d.name = "content text" => Text(d).off = compose
    BY <1>0, <1>4, <1>6
  <2>q. QED
    BY <1>2, <1>3, <2>1, KeptOfOne
<1>8. d.name = "hud text" /\ ShowsHud(screen) => Kept({Text(d)}).off = Centred(hw.width, HudW)
  <2>1. d.name = "hud text" => Text(d).off = hud + compose
    BY <1>0, <1>4, <1>6
  <2>2. ShowsHud(screen) => hud + compose = Centred(hw.width, HudW) /\ hud + compose \in Int
    BY <1>2, <1>3
  <2>q. QED
    BY <2>1, <2>2, KeptOfOne
<1>9. d.name = "summary text" =>
        Kept({Text(d)}).off = IF hw.width > NativeW THEN Centred(hw.width, PanelW) - PanelLeft ELSE 0
  <2>1. d.name = "summary text" => Text(d).off = ItemOffset
    BY <1>0, <1>3, <1>4, <1>6
  <2>q. QED
    BY <1>2, <2>1, KeptOfOne
<1>q. QED
  BY <1>5, <1>7, <1>8, <1>9 DEF Placed, d

-----------------------------------------------------------------------------
(* The world of a match.                                                   *)

LEMMA Widths ==
    ASSUME IInv, stage \in DOMAIN Stages
    PROVE  View \in Nat /\ Width \in Nat /\ NativeW \in Nat /\ View >= NativeW
BY SurfacesAssumption, StageAssumption DEF IInv, FollowInv, View, Width, Most

\* The clamped camera, and the one the world is drawn from.
LEMMA CameraIsClamped ==
    ASSUME IInv, stage \in DOMAIN Stages, lock \in Int, NEW c \in Nat
    PROVE  /\ Clamped(c) \in Nat
           /\ DrawCamera(Clamped(c)) \in Nat
           /\ Width > View => DrawCamera(Clamped(c)) <= Width - View
<1>1. View \in Nat /\ Width \in Nat /\ NativeW \in Nat /\ View >= NativeW
  BY Widths
<1>2. CameraMax \in Nat /\ (Width > View => CameraMax <= Width - View)
  BY <1>1 DEF CameraMax, Most
<1>3. Clamped(c) \in Nat /\ Clamped(c) <= CameraMax
  BY <1>2 DEF Clamped, Least
<1>4. DrawCamera(Clamped(c)) \in Nat /\ DrawCamera(Clamped(c)) <= Clamped(c)
  <2> DEFINE k == Clamped(c)
             half == (View - NativeW) \div 2
  <2>1. half \in Nat
    BY <1>1
  <2>2. DrawCamera(k) = IF View <= NativeW THEN k ELSE Most(0, k - half)
    BY DEF DrawCamera
  <2> HIDE DEF k, half
  <2>3. k \in Nat => DrawCamera(k) \in Nat /\ DrawCamera(k) <= k
    BY <2>1, <2>2 DEF Most
  <2>q. QED
    BY <1>3, <2>3 DEF k
<1>q. QED
  BY <1>1, <1>2, <1>3, <1>4

\* A layer scrolls by no more than what it has beyond the view.
LEMMA ScrolledWithin ==
    ASSUME NEW a \in Nat, NEW c \in Nat, NEW d \in Nat \ {0}, c <= d
    PROVE  (a * c) \div d \in Nat /\ (a * c) \div d <= a
<1> DEFINE q == (a * c) \div d
<1>1. a * c \in Nat /\ a * c <= a * d
  OBVIOUS
<1>2. q \in Nat /\ q * d <= a * c
  BY <1>1, Quotient
<1> HIDE DEF q
<1>3. q * d <= a * d
  BY <1>1, <1>2
<1>4. q <= a
  <2>1. SUFFICES ASSUME q >= a + 1 PROVE FALSE
    BY <1>2
  <2>2. q * d >= (a + 1) * d
    BY <1>2, <2>1
  <2>3. (a + 1) * d = a * d + d
    OBVIOUS
  <2>q. QED
    BY <1>1, <1>2, <1>3, <2>2, <2>3
<1>q. QED
  BY <1>2, <1>4 DEF q

LEMMA LayerStaysInReach ==
    ASSUME NEW span \in Nat, NEW c \in Nat, View \in Nat, Width \in Nat,
           Width > View => c <= Width - View
    PROVE  LayerOffset(span, c) \in Int /\ LayerOffset(span, c) <= 0
           /\ (span >= View => span + LayerOffset(span, c) >= View)
           /\ (span <= View => LayerOffset(span, c) = 0)
<1>1. LayerOffset(span, c) \in Int /\ LayerOffset(span, c) <= 0
  BY LayersMoveLeft
<1>2. CASE Width <= View \/ span <= View
  BY <1>2 DEF LayerOffset
<1>3. CASE ~(Width <= View \/ span <= View)
  <2> DEFINE a == span - View
             d == Width - View
             q == (a * c) \div d
  <2>1. a \in Nat /\ d \in Nat \ {0} /\ c <= d
    BY <1>3
  <2>2. LayerOffset(span, c) = -q
    BY <1>3 DEF LayerOffset
  <2> HIDE DEF d
  <2>3. q \in Nat /\ q <= a
    BY <2>1, ScrolledWithin
  <2> HIDE DEF q
  <2>q. QED
    BY <1>3, <2>1, <2>2, <2>3
<1>q. QED
  BY <1>1, <1>2, <1>3

LEMMA PiecesAreColumns ==
    ASSUME IInv, stage \in DOMAIN Stages, NEW y \in LayerType, NEW c \in Nat, NEW p \in Pieces(y, c)
    PROVE  p.l \in Int /\ p.r \in Int
<1> DEFINE off == LayerOffset(y.span, c)
<1>1. y.x \in Nat /\ y.pic \in Nat /\ y.span \in Nat /\ y.loop \in Nat
  BY DEF LayerType
<1>2. off \in Int
  BY <1>1, Widths, LayersMoveLeft
<1>3. Pieces(y, c) = {[l |-> x, r |-> x + y.pic] : x \in IF y.loop > 0 THEN Copies(y, off) ELSE {off + y.x}}
  BY DEF Pieces
<1> HIDE DEF off
<1>4. Copies(y, off) = {off + x : x \in Starts(y, Most(y.span, View - off))}
  BY DEF Copies
<1>5. ASSUME NEW end \in Int, NEW x \in Starts(y, end) PROVE x \in Int
  <2>1. PICK n \in 0..(end - y.x) : x = y.x + n * y.loop
    BY <1>5 DEF Starts
  <2>2. n \in Int
    BY <2>1
  <2>3. n * y.loop \in Int
    BY <1>1, <2>2
  <2>q. QED
    BY <1>1, <2>1, <2>3
<1>6. Most(y.span, View - off) \in Int
  BY <1>1, <1>2, Widths DEF Most
<1>7. ASSUME NEW x \in (IF y.loop > 0 THEN Copies(y, off) ELSE {off + y.x}) PROVE x \in Int
  <2>1. CASE y.loop > 0
    <3>1. PICK z \in Starts(y, Most(y.span, View - off)) : x = off + z
      BY <1>4, <1>7, <2>1
    <3>2. z \in Int
      BY <1>5, <1>6, <3>1
    <3>q. QED
      BY <1>2, <3>1, <3>2
  <2>2. CASE ~(y.loop > 0)
    BY <1>1, <1>2, <1>7, <2>2
  <2>q. QED
    BY <2>1, <2>2
<1>8. PICK x \in (IF y.loop > 0 THEN Copies(y, off) ELSE {off + y.x}) : p = [l |-> x, r |-> x + y.pic]
  BY <1>3
<1>q. QED
  BY <1>1, <1>7, <1>8

\* Each column of the view lies in a piece of a layer that fills it.
LEMMA LayerCovers ==
    ASSUME IInv, stage \in DOMAIN Stages, NEW y \in LayerType, Fills(y, View),
           y.far => y.span >= NativeW,
           NEW c \in Nat, Width > View => c <= Width - View, NEW column \in 0..(View - 1)
    PROVE  \E p \in Pieces(y, c) :
              /\ p.l <= column /\ p.l \in Int /\ p.r \in Int /\ p.r > 0
              /\ column < p.r \/ Continued(y)
<1> DEFINE off == LayerOffset(y.span, c)
<1>0. View \in Nat /\ Width \in Nat /\ NativeW \in Nat /\ View >= NativeW
  BY Widths
<1>1. y.x = 0 /\ y.pic \in Nat /\ y.span \in Nat /\ y.loop \in Nat
  BY DEF LayerType, Fills
<1>2. CASE y.loop > 0
  <2>1. y.loop \in Nat \ {0} /\ y.loop <= y.pic
    BY <1>1, <1>2 DEF Fills
  <2>2. PICK p \in Pieces(y, c) : p.l <= column /\ column < p.r
    BY <1>1, <2>1, LoopsLeaveNoGap
  <2>3. p.l \in Int /\ p.r \in Int
    BY <2>2, PiecesAreColumns
  <2>q. QED
    BY <1>0, <2>2, <2>3
<1>3. CASE ~(y.loop > 0)
  <2>1. off \in Int /\ off <= 0 /\ (y.span >= View => y.span + off >= View) /\ (y.span <= View => off = 0)
    BY <1>0, <1>1, LayerStaysInReach
  <2>2. Pieces(y, c) = {[l |-> off + y.x, r |-> off + y.x + y.pic]}
    BY <1>3 DEF Pieces
  <2>3. y.pic >= y.span /\ (y.far \/ y.span >= View)
    BY <1>3 DEF Fills
  <2> HIDE DEF off
  <2> DEFINE p == [l |-> off + y.x, r |-> off + y.x + y.pic]
  <2>4. p \in Pieces(y, c) /\ p.l = off /\ p.r = off + y.pic
    BY <1>1, <2>1, <2>2
  <2> HIDE DEF p
  <2>5. CASE y.span >= View
    BY <1>0, <1>1, <2>1, <2>3, <2>4, <2>5
  <2>6. CASE ~(y.span >= View)
    <3>1. y.far /\ View > NativeW /\ off = 0 /\ NativeW >= 1
      BY <1>0, <1>1, <2>1, <2>3, <2>6, SurfacesAssumption
    <3>2. Continued(y)
      BY <3>1 DEF Continued
    <3>q. QED
      BY <1>0, <1>1, <2>3, <2>4, <3>1, <3>2
  <2>q. QED
    BY <2>5, <2>6
<1>q. QED
  BY <1>2, <1>3

LEMMA KeptCovers ==
    ASSUME W \in Nat, NEW S, \A column \in 0..(W - 1) : \E m \in S : column \in Columns(m.l, m.r)
    PROVE  Kept(S).cols = 0..(W - 1)
<1>1. Kept(S).cols = UNION {Columns(m.l, m.r) : m \in S}
  BY DEF Kept
<1>2. \A m \in S : Columns(m.l, m.r) \subseteq 0..(W - 1)
  <2> SUFFICES ASSUME NEW m \in S, NEW column \in Columns(m.l, m.r) PROVE column \in 0..(W - 1)
    OBVIOUS
  <2>1. column \in m.l .. (m.r - 1) /\ 0 <= column /\ column < W
    BY DEF Columns
  <2>2. column \in Int
    BY <2>1
  <2>q. QED
    BY <2>1, <2>2
<1>q. QED
  BY <1>1, <1>2

LEMMA BandIsPlaced ==
    ASSUME IInv, ScreensInv, pc # 0, since >= PanelFresh, NEW d \in DrawType,
           NEW i \in DOMAIN Layers, BandFills(Layers[i], hw.width)
    PROVE  Kept({Band(d, y) : y \in {z \in {Layers[j] : j \in DOMAIN Layers} : z.tint}}).cols
             = 0..(hw.width - 1)
<1> DEFINE y == Layers[i]
           wide == [d EXCEPT !.l = y.x, !.r = y.x + y.span, !.hint = TRUE]
           S == {Band(d, z) : z \in {z \in {Layers[j] : j \in DOMAIN Layers} : z.tint}}
<1>1. W = hw.width /\ hw.width \in Nat
  BY FrameIsSettled
<1>2. y \in LayerType
  BY StageAssumption DEF ScreensInv, FrameInv, Layers
<1>3. /\ y.tint /\ y.x = 0 /\ y.span \in Int /\ (y.span = NativeW \/ y.span >= W)
  BY <1>1, <1>2 DEF BandFills, LayerType
<1>4. wide.l = 0 /\ wide.r = y.span
  BY <1>3 DEF DrawType
<1>5. Band(d, y) \in S /\ Band(d, y) = Fill(wide)
  BY <1>3 DEF Band
<1> HIDE DEF wide, y, S
<1>6. Columns(Fill(wide).l, Fill(wide).r) = 0..(hw.width - 1)
  BY <1>3, <1>4, FillCovers
<1>7. Kept(S).cols = 0..(W - 1)
  BY <1>1, <1>5, <1>6, KeptCovers
<1>q. QED
  BY <1>1, <1>7 DEF S

LEMMA BuiltInIsPlaced ==
    ASSUME IInv, ScreensInv, pc # 0, since >= PanelFresh, NEW d \in DrawType, Backdrop(d)
    PROVE  Placed("band", Kept({Fill([d EXCEPT !.r = View, !.hint = TRUE])}), hw.width, screen, stage)
<1> DEFINE f == [d EXCEPT !.r = View, !.hint = TRUE]
<1>1. W = hw.width /\ hw.width \in Nat /\ View = hw.width
  BY FrameIsSettled
<1>2. f.l = 0 /\ f.r = View
  BY DEF DrawType, Backdrop
<1> HIDE DEF f
<1>3. Columns(Fill(f).l, Fill(f).r) = 0..(hw.width - 1) /\ Fill(f).off = 0
  BY <1>1, <1>2, FillCovers
<1>4. Kept({Fill(f)}).cols = 0..(hw.width - 1)
  BY <1>3, KeptOfOne
<1>q. QED
  BY <1>4 DEF Placed, f

\* A piece of a picture of the world lies where the layer asks for it.
LEMMA PieceIsPlaced ==
    ASSUME IInv, ScreensInv, pc # 0, since >= PanelFresh, ShowsHud(screen),
           NEW d \in DrawType, d.rows = "middle", NEW p, p.l \in Int, p.r \in Int
    PROVE  Blit(Clip(d, p)) = [l |-> Most(0, p.l), r |-> Least(words, p.r), off |-> 0]
<1> DEFINE l == Most(0, p.l)
           r == Least(words, p.r)
           e == Clip(d, p)
<1>1. words = hw.width /\ hw.width \in Nat /\ HudUp(age)
  BY FrameIsSettled
<1>2. l \in Int /\ r \in Int
  BY <1>1 DEF Most, Least
<1>3. e.l = l /\ e.r = r /\ e.rows = "middle"
  BY DEF Clip, DrawType
<1> HIDE DEF l, r, e
<1>4. HudShift(e) + ResultShift(e) = 0
  BY <1>3 DEF HudShift, ResultShift
<1>5. ComposeOffset(AgeAfter(e)) = 0
  BY <1>1, <1>3, AgeStays, HudMeansNoOffset
<1>6. Blit(e) = Moved(e, 0 + (IF ~InScreen(Moved(e, 0)) THEN 0 ELSE ComposeOffset(AgeAfter(e))))
  BY <1>2, <1>3, <1>4, BlitOffset
<1>7. (IF ~InScreen(Moved(e, 0)) THEN 0 ELSE ComposeOffset(AgeAfter(e))) = 0
  BY <1>5
<1>8. Blit(e) = Moved(e, 0)
  BY <1>6, <1>7
<1>9. Blit(e) = [l |-> l, r |-> r, off |-> 0]
  BY <1>2, <1>3, <1>8 DEF Moved
<1>q. QED
  BY <1>9 DEF l, r, e

LEMMA PicturesArePlaced ==
    ASSUME IInv, ScreensInv, pc # 0, since >= PanelFresh, ShowsHud(screen),
           NEW d \in DrawType, d.rows = "middle", NEW y \in LayerType, NEW c \in Nat
    PROVE  /\ \A m \in Pictures(d, y, c) : m.off = 0
           /\ \A p \in Pieces(y, c) : p.r > 0 /\ p.l < words =>
                [l |-> Most(0, p.l), r |-> IF Continued(y) THEN W ELSE Least(words, p.r), off |-> 0]
                  \in Pictures(d, y, c)
<1>0. HudUp(age)
  BY FrameIsSettled
<1>1. ASSUME NEW p \in Pieces(y, c)
      PROVE  Blit(Clip(d, p)) = [l |-> Most(0, p.l), r |-> Least(words, p.r), off |-> 0]
  <2>1. p.l \in Int /\ p.r \in Int
    BY PiecesAreColumns DEF ScreensInv, FrameInv
  <2>q. QED
    BY <2>1, PieceIsPlaced
<1> DEFINE On(p) == LET m == Blit(Clip(d, p)) IN IF Continued(y) /\ HudUp(age) THEN [m EXCEPT !.r = W] ELSE m
<1>2. ASSUME NEW p \in Pieces(y, c)
      PROVE  On(p) = [l |-> Most(0, p.l), r |-> IF Continued(y) THEN W ELSE Least(words, p.r), off |-> 0]
  <2>1. CASE Continued(y)
    BY <1>0, <1>1, <2>1
  <2>2. CASE ~Continued(y)
    BY <1>1, <2>2
  <2>q. QED
    BY <2>1, <2>2
<1>3. Pictures(d, y, c) = {On(p) : p \in {q \in Pieces(y, c) : q.r > 0 /\ q.l < words}}
  BY DEF Pictures
<1> HIDE DEF On
<1>q. QED
  BY <1>2, <1>3

LEMMA LayersArePlaced ==
    ASSUME IInv, ScreensInv, pc # 0, since >= PanelFresh, ShowsHud(screen),
           NEW d \in DrawType, d.rows = "middle",
           NEW pictures, pictures \subseteq {Layers[i] : i \in DOMAIN Layers},
           \A i \in DOMAIN Layers : ~Layers[i].tint /\ Layers[i].cc = 0 => Layers[i] \in pictures,
           NEW c \in Nat, Width > View => c <= Width - View
    PROVE  Placed("layers", Kept(UNION {Pictures(d, y, c) : y \in pictures}), hw.width, screen, stage)
<1> DEFINE S == UNION {Pictures(d, y, c) : y \in pictures}
<1>0. stage \in DOMAIN Stages
  BY DEF ScreensInv, FrameInv
<1>1. /\ W = hw.width /\ hw.width \in Nat /\ View = hw.width /\ words = hw.width
  BY FrameIsSettled
<1>2. \A y \in pictures : y \in LayerType /\ (y.far => y.span >= NativeW)
  BY <1>0, StageAssumption DEF Layers
<1>3. \A m \in S : m.off = 0
  BY <1>2, PicturesArePlaced
<1>4. Kept(S).off = 0
  <2>1. CASE S = {}
    BY <2>1 DEF Kept
  <2>2. CASE S # {}
    <3>1. {m.off : m \in S} = {0}
      BY <1>3, <2>2
    <3>2. (CHOOSE k \in {m.off : m \in S} : \A m \in S : m.off <= k) = 0
      BY <1>3, <3>1
    <3> HIDE DEF S
    <3>q. QED
      BY <2>2, <3>2 DEF Kept
  <2>q. QED
    BY <2>1, <2>2
<1>5. ASSUME NEW i \in DOMAIN Layers, Fills(Layers[i], hw.width)
      PROVE  Kept(S).cols = 0..(hw.width - 1)
  <2> DEFINE y == Layers[i]
  <2>1. y \in pictures /\ y \in LayerType /\ (y.far => y.span >= NativeW) /\ Fills(y, View)
    BY <1>1, <1>2, <1>5 DEF Fills
  <2>2. Pictures(d, y, c) \subseteq S
    BY <2>1
  <2> HIDE DEF y, S
  <2>3. ASSUME NEW column \in 0..(W - 1) PROVE \E m \in S : column \in Columns(m.l, m.r)
    <3>0. column \in 0..(View - 1) /\ column \in Int /\ 0 <= column /\ column < W
      BY <1>1
    <3>1. PICK p \in Pieces(y, c) : /\ p.l <= column /\ p.l \in Int /\ p.r \in Int /\ p.r > 0
                                    /\ column < p.r \/ Continued(y)
      BY <1>0, <2>1, <3>0, LayerCovers
    <3> DEFINE m == [l |-> Most(0, p.l), r |-> IF Continued(y) THEN W ELSE Least(words, p.r), off |-> 0]
    <3>2. p.r > 0 /\ p.l < words
      BY <1>1, <3>0, <3>1
    <3>3. m \in Pictures(d, y, c)
      BY <2>1, <3>2, PicturesArePlaced
    <3>4. m.l \in Int /\ m.r \in Int /\ m.l <= column /\ column < m.r
      BY <1>1, <3>0, <3>1 DEF Most, Least
    <3> HIDE DEF m
    <3>5. column \in Columns(m.l, m.r)
      BY <3>0, <3>4 DEF Columns
    <3>q. QED
      BY <2>2, <3>3, <3>5
  <2>4. W \in Nat
    BY <1>1
  <2>q. QED
    BY <1>1, <2>3, <2>4, KeptCovers
<1> HIDE DEF S
<1>6. Kept(S).off = 0 /\ ((\E i \in DOMAIN Stages[stage].layers : Fills(Stages[stage].layers[i], hw.width))
                            => Kept(S).cols = 0..(hw.width - 1))
  BY <1>4, <1>5 DEF Layers
<1>q. QED
  BY <1>6 DEF Placed, S

-----------------------------------------------------------------------------
(* The steps of a frame.                                                   *)

LEMMA DoneKeeps ==
    ASSUME DrawnInv, FrameInv, NEW f, Done(f),
           \A n \in DOMAIN f : since >= PanelFresh => Placed(n, f[n], hw.width, screen, stage)
    PROVE  \A n \in DOMAIN drawn' : since >= PanelFresh /\ Placed(n, drawn'[n], hw.width, screen, stage)
<1>1. CASE since + 1 < Settled
  <2>1. drawn' = << >>
    BY <1>1 DEF Done
  <2>q. QED
    BY <2>1
<1>2. CASE ~(since + 1 < Settled)
  <2>1. since >= PanelFresh
    BY <1>2, CompositionAssumption DEF FrameInv, Settled
  <2>2. drawn' = [n \in DOMAIN drawn \union DOMAIN f |-> IF n \in DOMAIN f THEN f[n] ELSE drawn[n]]
    BY <1>2 DEF Done
  <2>3. DOMAIN drawn' = DOMAIN drawn \union DOMAIN f
    BY <2>2
  <2> SUFFICES ASSUME NEW n \in DOMAIN drawn'
               PROVE  Placed(n, drawn'[n], hw.width, screen, stage)
    BY <2>1
  <2>4. CASE n \in DOMAIN f
    BY <2>1, <2>2, <2>4
  <2>5. CASE n \notin DOMAIN f
    BY <2>2, <2>3, <2>5 DEF DrawnInv
  <2>q. QED
    BY <2>4, <2>5
<1>q. QED
  BY <1>1, <1>2

LEMMA StartStays ==
    ASSUME StartInv, UNCHANGED surfaceVars, (pc' # 0 \/ since' >= 1) => (pc # 0 \/ since >= 1)
    PROVE  StartInv'
BY DEF StartInv, HasCompose, surfaceVars, Made

LEMMA DrawPreserves ==
    ASSUME IInv, ScreensInv, Draw
    PROVE  ScreensInv'
<1> DEFINE d == Script[screen][pc]
<1>0. /\ pc \in DOMAIN Script[screen] /\ pc' = pc + 1
      /\ UNCHANGED <<surfaceVars, stageVars, words, screen, shown, since>>
  BY DEF Draw
<1>1. /\ d \in DrawType /\ WellDrawn(screen, pc) /\ pc # 0
      /\ DOMAIN Script[screen] = 1..Len(Script[screen])
  BY <1>0, Scripted DEF ScreensInv
<1>2. pc \in Nat /\ pc' # 0
  BY <1>0 DEF ScreensInv, FrameInv
<1>3. StartInv'
  BY <1>0, <1>1, StartStays DEF ScreensInv
<1>4. FrameInv'
  BY <1>0, <1>1, <1>2 DEF ScreensInv, FrameInv, surfaceVars, stageVars
<1>5. /\ age' = IF d.path = "blit" THEN AgeAfter(d) ELSE age
      /\ result' = IF d.path = "blit" THEN ResultAfter(d) ELSE result
  BY DEF Draw, DrawFill, DrawBlit, DrawText
<1>6. age \in [hud : 0..Settled, overlay : 0..Settled]
  BY DEF ScreensInv, AgeInv
<1>7. /\ age' \in [hud : 0..Settled, overlay : 0..Settled]
      /\ age'.hud = IF d.path = "blit" /\ d.rows = "hud" THEN 0 ELSE age.hud
  <2>1. 0 \in 0..Settled
    BY CompositionAssumption DEF Settled
  <2>2. /\ AgeAfter(d) \in [hud : 0..Settled, overlay : 0..Settled]
        /\ AgeAfter(d).hud = IF d.rows = "hud" THEN 0 ELSE age.hud
    BY <1>6, <2>1 DEF AgeAfter
  <2>q. QED
    BY <1>5, <1>6, <2>2
<1>8. AgeInv'
  <2>1. ASSUME ShowsHud(screen)
        PROVE  /\ since >= 1 => age'.hud <= 1
               /\ \A i \in 1..(pc' - 1) : Always(Script[screen][i], "blit", "hud") => age'.hud = 0
    <3>1. since >= 1 => age.hud <= 1
      BY <2>1 DEF ScreensInv, AgeInv
    <3>2. ASSUME NEW i \in 1..(pc' - 1), Always(Script[screen][i], "blit", "hud") PROVE age'.hud = 0
      <4>1. CASE i = pc
        BY <1>7, <3>2, <4>1 DEF Always
      <4>2. CASE i # pc
        <5>1. i \in 1..(pc - 1)
          BY <1>0, <1>2, <4>2
        <5>2. age.hud = 0
          BY <2>1, <3>2, <5>1 DEF ScreensInv, AgeInv
        <5>q. QED
          BY <1>7, <5>2
      <4>q. QED
        BY <4>1, <4>2
    <3>q. QED
      BY <1>7, <3>1, <3>2
  <2>2. ASSUME ~ShowsHud(screen) PROVE age'.hud > since \/ age'.hud = Settled
    <3>1. age'.hud = age.hud
      BY <1>1, <1>7, <2>2 DEF WellDrawn
    <3>q. QED
      BY <2>2, <3>1 DEF ScreensInv, AgeInv
  <2>3. screen' = screen /\ since' = since
    BY <1>0
  <2>q. QED
    BY <1>2, <1>7, <2>1, <2>2, <2>3 DEF AgeInv, ShowsHud, Settled
<1>9. ResultInv'
  <2> SUFFICES ASSUME NEW i \in 1..(pc' - 1), Always(Script[screen][i], "blit", "header") PROVE result'
    BY <1>0 DEF ResultInv
  <2>1. CASE i = pc
    BY <1>5, <2>1 DEF Always, ResultAfter
  <2>2. CASE i # pc
    <3>1. i \in 1..(pc - 1)
      BY <1>0, <1>2, <2>2
    <3>2. result
      BY <3>1 DEF ScreensInv, ResultInv
    <3>q. QED
      BY <1>5, <3>2 DEF ResultAfter
  <2>q. QED
    BY <2>1, <2>2
<1>10. DrawnInv'
  <2>1. PICK m : Done(One(d, m)) /\ (since >= PanelFresh => Placed(d.name, Kept({m}), hw.width, screen, stage))
    <3>1. CASE DrawFill(d)
      BY <1>0, <3>1, FillIsPlaced DEF DrawFill
    <3>2. CASE DrawBlit(d)
      BY <1>0, <3>2, BlitIsPlaced DEF DrawBlit
    <3>3. CASE DrawText(d)
      BY <1>0, <3>3, TextIsPlaced DEF DrawText
    <3>q. QED
      BY <3>1, <3>2, <3>3 DEF Draw
  <2>2. \A n \in DOMAIN One(d, m) : since >= PanelFresh => Placed(n, One(d, m)[n], hw.width, screen, stage)
    BY <2>1 DEF One
  <2>3. \A n \in DOMAIN drawn' : since >= PanelFresh /\ Placed(n, drawn'[n], hw.width, screen, stage)
    BY <2>1, <2>2, DoneKeeps DEF ScreensInv
  <2>q. QED
    BY <1>0, <2>3 DEF ScreensInv, DrawnInv, surfaceVars, stageVars
<1>q. QED
  BY <1>3, <1>4, <1>8, <1>9, <1>10 DEF ScreensInv

LEMMA PassedOver ==
    ASSUME ScreensInv, pc \in Nat, pc' = pc + 1, UNCHANGED <<screen, age, since, result>>,
           ~Always(Script[screen][pc], "blit", "hud"), ~Always(Script[screen][pc], "blit", "header")
    PROVE  AgeInv' /\ ResultInv'
<1>1. \A i \in 1..(pc' - 1) : i = pc \/ i \in 1..(pc - 1)
  OBVIOUS
<1>2. pc' # 0
  OBVIOUS
<1>q. QED
  BY <1>1, <1>2 DEF ScreensInv, AgeInv, ResultInv, ShowsHud, Settled

LEMMA SkipPreserves ==
    ASSUME IInv, ScreensInv, Skip
    PROVE  ScreensInv'
<1>0. /\ pc \in DOMAIN Script[screen] /\ Script[screen][pc].optional /\ pc' = pc + 1
      /\ UNCHANGED <<surfaceVars, stageVars, words, age, align, result, screen, drawn, shown, since>>
  BY DEF Skip
<1>1. pc # 0 /\ pc \in Nat
  BY <1>0, Scripted DEF ScreensInv, FrameInv
<1>2. StartInv'
  BY <1>0, <1>1, StartStays DEF ScreensInv
<1>3. AgeInv' /\ ResultInv'
  BY <1>0, <1>1, PassedOver DEF Always
<1>4. FrameInv' /\ DrawnInv'
  BY <1>0, <1>1 DEF ScreensInv, FrameInv, DrawnInv, surfaceVars, stageVars
<1>q. QED
  BY <1>2, <1>3, <1>4 DEF ScreensInv

LEMMA DrawStagePreserves ==
    ASSUME IInv, ScreensInv, DrawStage
    PROVE  ScreensInv'
<1> DEFINE d == Script[screen][pc]
<1>0. /\ pc \in DOMAIN Script[screen] /\ d.path = "stage" /\ pc' = pc + 1
      /\ UNCHANGED <<surfaceVars, stage, lock, words, age, align, result, screen, shown, since>>
  BY DEF DrawStage
<1>1. /\ d \in DrawType /\ pc # 0 /\ ShowsHud(screen) /\ d.rows = "middle" /\ Backdrop(d)
  BY <1>0, Scripted DEF ScreensInv, WellDrawn
<1>2. pc \in Nat /\ stage \in DOMAIN Stages /\ camera \in Nat /\ lock \in Int
  BY DEF ScreensInv, FrameInv
<1>3. PICK c \in {k \in Cameras \union {camera} : GameCamera(k)} :
         IF Stages[stage].builtin THEN PaintBuiltIn(d, c)
         ELSE IF Layers = << >> THEN camera' = c /\ UNCHANGED <<walk, anim, drawn>>
         ELSE PaintLayers(d, c)
  BY DEF DrawStage
<1>4. c \in Nat
  BY <1>2, <1>3, StageAssumption
<1>5. Clamped(c) \in Nat /\ DrawCamera(Clamped(c)) \in Nat
      /\ (Width > View => DrawCamera(Clamped(c)) <= Width - View)
  BY <1>2, <1>4, CameraIsClamped
<1>6. StartInv'
  BY <1>0, <1>1, StartStays DEF ScreensInv
<1>7. AgeInv' /\ ResultInv'
  BY <1>0, <1>2, PassedOver DEF Always
<1> HIDE DEF d
<1>8. camera' \in Nat
  BY <1>3, <1>4, <1>5 DEF PaintBuiltIn, PaintLayers, ClampToView
<1>9. FrameInv'
  BY <1>0, <1>1, <1>2, <1>8 DEF ScreensInv, FrameInv, surfaceVars
<1>10. \A n \in DOMAIN drawn' : since >= PanelFresh /\ Placed(n, drawn'[n], hw.width, screen, stage)
  <2>1. CASE Stages[stage].builtin
    <3> DEFINE f == [band |-> Kept({Fill([d EXCEPT !.r = View, !.hint = TRUE])})]
    <3>1. Done(f)
      BY <1>3, <2>1 DEF PaintBuiltIn
    <3>2. since >= PanelFresh =>
            Placed("band", Kept({Fill([d EXCEPT !.r = View, !.hint = TRUE])}), hw.width, screen, stage)
      BY <1>1, BuiltInIsPlaced
    <3>3. \A n \in DOMAIN f : since >= PanelFresh => Placed(n, f[n], hw.width, screen, stage)
      BY <3>2
    <3> HIDE DEF f
    <3>q. QED
      BY <3>1, <3>3, DoneKeeps DEF ScreensInv
  <2>2. CASE ~Stages[stage].builtin /\ Layers = << >>
    BY <1>3, <2>2 DEF ScreensInv, DrawnInv
  <2>3. CASE ~Stages[stage].builtin /\ Layers # << >>
    <3> DEFINE stepped == [i \in DOMAIN Layers |-> Stepped(Layers[i], anim[stage][i])]
               tints == {y \in {Layers[i] : i \in DOMAIN Layers} : y.tint}
               pictures == {Layers[i] : i \in {j \in DOMAIN Layers : ~Layers[j].tint /\ Visible(Layers[j], stepped[j])}}
               from == DrawCamera(Clamped(c))
               bands == Kept({Band(d, y) : y \in tints})
               world == Kept(UNION {Pictures(d, y, from) : y \in pictures})
               f == [n \in {"layers"} \union (IF tints = {} THEN {} ELSE {"band"}) |->
                       IF n = "band" THEN bands ELSE world]
    <3>1. Done(f)
      BY <1>3, <2>3 DEF PaintLayers
    <3>2. since >= PanelFresh => Placed("band", bands, hw.width, screen, stage)
      <4> HIDE DEF stepped, pictures, from, world, f
      <4>1. ASSUME since >= PanelFresh, NEW i \in DOMAIN Layers, BandFills(Layers[i], hw.width)
            PROVE  bands.cols = 0..(hw.width - 1)
        BY <1>1, <4>1, BandIsPlaced
      <4> HIDE DEF bands
      <4>2. ASSUME since >= PanelFresh,
                   \E i \in DOMAIN Stages[stage].layers : BandFills(Stages[stage].layers[i], hw.width)
            PROVE  bands.cols = 0..(hw.width - 1)
        BY <4>1, <4>2 DEF Layers
      <4>q. QED
        BY <2>3, <4>2 DEF Placed
    <3>3. since >= PanelFresh => Placed("layers", world, hw.width, screen, stage)
      <4>1. pictures \subseteq {Layers[i] : i \in DOMAIN Layers}
        OBVIOUS
      <4>2. ASSUME NEW i \in DOMAIN Layers, ~Layers[i].tint, Layers[i].cc = 0 PROVE Layers[i] \in pictures
        BY <4>2 DEF Visible
      <4>3. from \in Nat /\ (Width > View => from <= Width - View)
        BY <1>5
      <4> HIDE DEF stepped, tints, pictures, from, bands, f
      <4>q. QED
        BY <1>1, <4>1, <4>2, <4>3, LayersArePlaced
    <3> HIDE DEF stepped, tints, pictures, from, bands, world
    <3>4. \A n \in DOMAIN f : since >= PanelFresh => Placed(n, f[n], hw.width, screen, stage)
      BY <3>2, <3>3
    <3> HIDE DEF f
    <3>q. QED
      BY <3>1, <3>4, DoneKeeps DEF ScreensInv
  <2>q. QED
    BY <2>1, <2>2, <2>3
<1>11. DrawnInv'
  BY <1>0, <1>10 DEF ScreensInv, DrawnInv, surfaceVars
<1>q. QED
  BY <1>6, <1>7, <1>9, <1>11 DEF ScreensInv

LEMMA PresentPreserves ==
    ASSUME IInv, ScreensInv, Present
    PROVE  ScreensInv'
<1> USE CompositionAssumption
<1>0. /\ pc = Len(Script[screen]) + 1 /\ pc' = 0 /\ shown' = drawn /\ result' = FALSE
      /\ age' = [hud |-> Older(age.hud), overlay |-> Older(age.overlay)]
      /\ since' = IF since < Settled THEN since + 1 ELSE since
      /\ UNCHANGED <<surfaceVars, stageVars, words, align, screen, drawn>>
  BY DEF Present
<1>1. DOMAIN Script[screen] = 1..(pc - 1) /\ pc # 0 /\ pc \in Nat
  <2>1. Script[screen] \in Seq(DrawType)
    BY ScriptAssumption DEF ScreensInv, FrameInv
  <2>2. DOMAIN Script[screen] = 1..Len(Script[screen]) /\ Len(Script[screen]) \in Nat
    BY <2>1
  <2>q. QED
    BY <1>0, <2>2
<1>2. since' \in 0..Settled /\ since' >= since
  BY <1>0 DEF ScreensInv, FrameInv, Settled
<1>3. StartInv'
  BY <1>0, <1>1, StartStays DEF ScreensInv
<1>4. FrameInv'
  BY <1>0, <1>2 DEF ScreensInv, FrameInv, surfaceVars, stageVars, Settled
<1>5. AgeInv'
  <2>1. age.hud \in 0..Settled /\ age.overlay \in 0..Settled
    BY DEF ScreensInv, AgeInv
  <2>2. \A n \in 0..Settled : Older(n) \in 1..Settled
    BY DEF Older, Settled
  <2>3. /\ age' \in [hud : 0..Settled, overlay : 0..Settled]
        /\ age'.hud = Older(age.hud) /\ age'.hud >= 1
    <3>1. Older(age.hud) \in 1..Settled /\ Older(age.overlay) \in 1..Settled
      BY <2>1, <2>2
    <3>q. QED
      BY <1>0, <3>1 DEF Settled
  <2>4. ASSUME ShowsHud(screen) PROVE age'.hud <= 1
    <3>1. PICK i \in 1..(pc - 1) : Always(Script[screen][i], "blit", "hud")
      BY <1>1, <2>4 DEF ShowsHud
    <3>2. age.hud = 0
      BY <2>4, <3>1 DEF ScreensInv, AgeInv
    <3>q. QED
      BY <2>3, <3>2 DEF Older
  <2>5. ASSUME ~ShowsHud(screen) PROVE age'.hud > since' \/ age'.hud = Settled
    <3>1. age.hud > since \/ age.hud = Settled
      BY <2>5 DEF ScreensInv, AgeInv
    <3>2. since \in 0..Settled
      BY DEF ScreensInv, FrameInv
    <3>q. QED
      BY <1>0, <2>1, <2>3, <3>1, <3>2 DEF Older, Settled
  <2>6. 1..(pc' - 1) = {}
    BY <1>0
  <2>q. QED
    BY <1>0, <2>3, <2>4, <2>5, <2>6 DEF AgeInv, ShowsHud, Settled
<1>6. ResultInv'
  BY <1>0 DEF ResultInv
<1>7. DrawnInv'
  <2>1. \A n \in DOMAIN drawn : since' >= PanelFresh /\ Placed(n, drawn[n], hw.width, screen, stage)
    <3>1. since \in Nat /\ since' \in Nat
      BY <1>2 DEF ScreensInv, FrameInv
    <3>q. QED
      BY <1>2, <3>1 DEF ScreensInv, DrawnInv
  <2>q. QED
    BY <1>0, <2>1 DEF DrawnInv, surfaceVars, stageVars
<1>q. QED
  BY <1>3, <1>4, <1>5, <1>6, <1>7 DEF ScreensInv

LEMMA BothScreensExist ==
    ASSUME IInv, StartInv, Ready
    PROVE  HasCompose
<1>1. follow \subseteq Made /\ \A i \in follow : surface[i].purpose # "picture"
  BY DEF IInv, FollowInv
<1>2. \A i \in follow : surface[i].purpose \in {"primary", "compose", "picture"}
  BY <1>1 DEF IInv, RoomInv, Made, SurfaceType
<1>3. SUFFICES ASSUME ~HasCompose PROVE FALSE
  OBVIOUS
<1>4. \A i, j \in follow : i = j
  BY <1>1, <1>2, <1>3 DEF HasCompose, StartInv
<1>5. CASE follow = {}
  BY <1>5, FS_EmptySet DEF Ready
<1>6. ASSUME NEW i \in follow PROVE FALSE
  <2>1. follow = {i}
    BY <1>4
  <2>2. Cardinality({i}) = 1
    BY FS_Singleton
  <2>q. QED
    BY <2>1, <2>2 DEF Ready
<1>q. QED
  BY <1>5, <1>6

LEMMA BeginPreserves ==
    ASSUME IInv, ScreensInv, NEW next \in DOMAIN Script, BeginFrame(next)
    PROVE  ScreensInv'
<1>0. /\ Ready /\ pc = 0 /\ pc' = 1 /\ screen' = next /\ drawn' = << >>
      /\ words' = (IF Wide THEN hw.width ELSE NativeW)
      /\ since' = (IF next = screen THEN since ELSE 0)
      /\ shown' = (IF next = screen THEN shown ELSE << >>)
      /\ UNCHANGED <<surfaceVars, age, align, result>>
  BY DEF BeginFrame
<1>1. HasCompose
  BY <1>0, BothScreensExist DEF ScreensInv
<1>2. StartInv'
  BY <1>0, <1>1 DEF ScreensInv, StartInv, HasCompose, surfaceVars, Made
<1>3. next = screen => UNCHANGED stageVars
  BY DEF BeginFrame
<1>4. stage' \in DOMAIN Stages /\ camera' \in Nat /\ lock' \in Int
  <2>1. CASE next # screen /\ next # "summary"
    BY <2>1 DEF BeginFrame, NewStage
  <2>2. CASE ~(next # screen /\ next # "summary")
    BY <2>2 DEF BeginFrame, stageVars, ScreensInv, FrameInv
  <2>q. QED
    BY <2>1, <2>2
<1>5. FrameInv'
  <2>1. words' = hw.width
    BY <1>0, <1>1, ComposeFollows, SurfacesAssumption DEF ScreensInv, Wide
  <2>2. since \in 0..Settled /\ 0 \in 0..Settled
    BY CompositionAssumption DEF ScreensInv, FrameInv, Settled
  <2>q. QED
    BY <1>0, <1>4, <2>1, <2>2 DEF FrameInv, surfaceVars, Settled
<1>6. AgeInv'
  <2>1. age \in [hud : 0..Settled, overlay : 0..Settled] /\ age.hud >= 1
    BY <1>0 DEF ScreensInv, AgeInv
  <2>2. 1..(pc' - 1) = {}
    BY <1>0
  <2>3. CASE next = screen
    BY <1>0, <2>1, <2>2, <2>3 DEF ScreensInv, AgeInv, ShowsHud, Settled
  <2>4. CASE next # screen
    <3>1. since' = 0 /\ age'.hud > since'
      BY <1>0, <2>1, <2>4
    <3>q. QED
      BY <1>0, <2>1, <2>2, <3>1 DEF AgeInv, Settled
  <2>q. QED
    BY <2>3, <2>4
<1>7. ResultInv'
  BY <1>0 DEF ResultInv
<1>8. DrawnInv'
  <2>1. \A n \in DOMAIN shown' : Placed(n, shown'[n], hw'.width, screen', stage')
    <3>1. CASE next = screen
      BY <1>0, <1>3, <3>1 DEF ScreensInv, DrawnInv, surfaceVars, stageVars
    <3>2. CASE next # screen
      BY <1>0, <3>2
    <3>q. QED
      BY <3>1, <3>2
  <2>q. QED
    BY <1>0, <2>1 DEF DrawnInv
<1>q. QED
  BY <1>2, <1>5, <1>6, <1>7, <1>8 DEF ScreensInv

LEMMA SectionPreserves ==
    ASSUME IInv, ScreensInv, NEW b \in Sections \union {0}, SectionChanges(b)
    PROVE  ScreensInv'
<1>0. /\ lock' = (IF b = 0 THEN 0 ELSE b - NativeW)
      /\ UNCHANGED <<surfaceVars, drawVars, stage, camera>>
  BY DEF SectionChanges, NewSection
<1>1. StartInv'
  BY <1>0, StartStays DEF ScreensInv, drawVars
<1>2. FrameInv'
  <2>1. Sections \subseteq Nat /\ NativeW \in Nat
    BY StageAssumption, SurfacesAssumption
  <2>2. lock' \in Int
    BY <1>0, <2>1
  <2>q. QED
    BY <1>0, <2>2 DEF ScreensInv, FrameInv, surfaceVars, drawVars, Settled
<1>3. AgeInv' /\ ResultInv' /\ DrawnInv'
  BY <1>0 DEF ScreensInv, AgeInv, ResultInv, DrawnInv, surfaceVars, drawVars, ShowsHud, Settled
<1>q. QED
  BY <1>1, <1>2, <1>3 DEF ScreensInv

LEMMA ResizeKeeps ==
    ASSUME IInv, NEW win \in Windows, Resize(win)
    PROVE  Made' = Made /\ follow' = follow /\ \A i \in Made : surface'[i].purpose = surface[i].purpose
<1>1. /\ surface' = [i \in Ids |-> IF i \in follow
                                   THEN [surface[i] EXCEPT !.w = Least(hw'.width, surface[i].max)]
                                   ELSE surface[i]]
      /\ surface \in [Ids -> SurfaceType \union {None}] /\ follow \subseteq Made /\ follow' = follow
  BY DEF Resize, IInv, RoomInv, FollowInv
<1>2. ASSUME NEW i \in Made PROVE surface'[i].purpose = surface[i].purpose
  <2>1. i \in Ids /\ surface[i] \in SurfaceType
    BY <1>1 DEF Made
  <2>q. QED
    BY <1>1, <2>1 DEF SurfaceType
<1>3. \A i \in Ids : surface'[i] = None <=> surface[i] = None
  <2> SUFFICES ASSUME NEW i \in Ids PROVE surface'[i] = None <=> surface[i] = None
    OBVIOUS
  <2>1. CASE i \in follow
    <3>1. surface[i] \in SurfaceType /\ surface[i] # None
      BY <1>1, <2>1 DEF Made
    <3>2. IInv'
      BY ResizePreserves
    <3>3. follow' \subseteq Made'
      BY <3>2 DEF IInv, FollowInv
    <3>4. surface'[i] # None
      BY <1>1, <2>1, <3>3 DEF Made
    <3>q. QED
      BY <3>1, <3>4
  <2>2. CASE i \notin follow
    BY <1>1, <2>2
  <2>q. QED
    BY <2>1, <2>2
<1>q. QED
  BY <1>1, <1>2, <1>3 DEF Made

LEMMA WindowPreserves ==
    ASSUME IInv, ScreensInv, NEW win \in Windows, WindowChanges(win)
    PROVE  ScreensInv'
<1>0. /\ Resize(win)
      /\ since' = (IF hw'.width = hw.width THEN since ELSE 0)
      /\ IF since' = 0 THEN drawn' = << >> /\ shown' = << >> ELSE UNCHANGED <<drawn, shown>>
      /\ UNCHANGED <<stageVars, words, age, align, result, screen, pc>>
  BY DEF WindowChanges
<1>1. Made' = Made /\ follow' = follow /\ \A i \in Made : surface'[i].purpose = surface[i].purpose
  BY <1>0, ResizeKeeps
<1>2. since \in 0..Settled /\ since' \in 0..Settled /\ (since' >= 1 => since' = since /\ hw'.width = hw.width)
  BY <1>0, CompositionAssumption DEF ScreensInv, FrameInv, Settled
<1>3. StartInv'
  <2>1. follow \subseteq Made
    BY DEF IInv, FollowInv
  <2>2. HasCompose => HasCompose'
    BY <1>1, <2>1 DEF HasCompose
  <2>3. since' >= 1 => since >= 1
    BY <1>2
  <2>q. QED
    BY <1>0, <1>1, <2>2, <2>3 DEF ScreensInv, StartInv
<1>4. FrameInv'
  BY <1>0, <1>2 DEF ScreensInv, FrameInv, stageVars, Settled
<1>5. AgeInv'
  <2>1. since' <= since
    BY <1>0, <1>2
  <2>2. /\ age.hud \in Int /\ since \in Int /\ since' \in Int
    BY <1>2 DEF ScreensInv, AgeInv
  <2>3. CASE ShowsHud(screen)
    BY <1>0, <2>1, <2>2, <2>3 DEF ScreensInv, AgeInv, ShowsHud, Settled
  <2>4. CASE ~ShowsHud(screen)
    BY <1>0, <2>1, <2>2, <2>4 DEF ScreensInv, AgeInv, ShowsHud, Settled
  <2>q. QED
    BY <2>3, <2>4
<1>6. ResultInv'
  BY <1>0 DEF ScreensInv, ResultInv
<1>7. DrawnInv'
  <2>1. CASE since' = 0
    BY <1>0, <2>1 DEF DrawnInv
  <2>2. CASE since' # 0
    <3>1. since' = since /\ hw'.width = hw.width /\ UNCHANGED <<drawn, shown, screen, stage>>
      BY <1>0, <1>2, <2>2 DEF stageVars
    <3>q. QED
      BY <3>1 DEF ScreensInv, DrawnInv
  <2>q. QED
    BY <2>1, <2>2
<1>q. QED
  BY <1>3, <1>4, <1>5, <1>6, <1>7 DEF ScreensInv

\* A new surface is one more, and the others stay.
LEMMA CreateAdds ==
    ASSUME IInv, NEW id \in Ids, NEW asked \in Nat \ {0}, NEW primary \in BOOLEAN,
           NEW purpose \in {"primary", "compose", "picture"}, Create(id, asked, primary, purpose)
    PROVE  /\ Made' = Made \union {id} /\ id \notin Made /\ follow \subseteq follow' /\ hw' = hw
           /\ \A i \in Made : surface'[i] = surface[i]
           /\ surface'[id].purpose = purpose
<1> DEFINE f == Follows(asked, primary)
           w == IF f THEN hw.width ELSE asked
           max == IF f THEN WideMax ELSE w
           s == [w |-> w, max |-> max, memory |-> vram, asked |-> asked, purpose |-> purpose]
<1> USE SurfacesAssumption
<1>1. /\ surface[id] = None /\ surface' = [surface EXCEPT ![id] = s]
      /\ follow' \in {follow, follow \union {id}} /\ hw' = hw
  BY DEF Create
<1>2. w \in Nat /\ max \in Nat /\ vram \in Nat
  BY DEF IInv, FollowInv, RoomInv
<1>3. s \in SurfaceType /\ s.purpose = purpose /\ s # None
  BY <1>2 DEF SurfaceType
<1>4. surface \in [Ids -> SurfaceType \union {None}]
  BY DEF IInv, RoomInv
<1> HIDE DEF f, w, max, s
<1>q. QED
  BY <1>1, <1>3, <1>4 DEF Made

LEMMA StartGrows ==
    ASSUME IInv, StartInv, NEW id \in Ids, NEW asked \in Nat \ {0}, NEW primary \in BOOLEAN,
           NEW purpose \in {"primary", "compose", "picture"}, Create(id, asked, primary, purpose),
           purpose = "primary" => Made = {},
           purpose = "compose" => Made # {} /\ Cardinality(Made) < 2,
           UNCHANGED <<pc, since>>
    PROVE  StartInv'
<1>1. /\ Made' = Made \union {id} /\ id \notin Made /\ follow \subseteq follow'
      /\ \A i \in Made : surface'[i] = surface[i]
      /\ surface'[id].purpose = purpose
  BY CreateAdds
<1>2. IsFiniteSet(Made') /\ Cardinality(Made') = Cardinality(Made) + 1 /\ Cardinality(Made) \in Nat
  BY <1>1, FS_AddElement, FS_CardinalityType DEF StartInv
<1>3. ASSUME NEW i \in Made', NEW j \in Made', surface'[i].purpose # "picture",
             surface'[i].purpose = surface'[j].purpose
      PROVE  i = j
  <2>1. CASE i \in Made /\ j \in Made
    BY <1>1, <1>3, <2>1 DEF StartInv
  <2>2. ASSUME NEW k \in Made, surface[k].purpose = purpose, purpose # "picture" PROVE FALSE
    BY <1>2, <2>2 DEF StartInv
  <2>q. QED
    BY <1>1, <1>3, <2>1, <2>2
<1>4. ASSUME NEW i \in Made', surface'[i].purpose = "compose" PROVE Cardinality(Made') >= 2
  <2>1. CASE i \in Made
    BY <1>1, <1>2, <1>4, <2>1 DEF StartInv
  <2>2. CASE i = id
    <3>1. Made # {}
      BY <1>1, <1>4, <2>2
    <3>2. Cardinality(Made) # 0
      BY <3>1, FS_EmptySet DEF StartInv
    <3>q. QED
      BY <1>2, <3>2
  <2>q. QED
    BY <1>1, <2>1, <2>2
<1>5. HasCompose => HasCompose'
  BY <1>1 DEF HasCompose, IInv, FollowInv
<1>q. QED
  BY <1>2, <1>3, <1>4, <1>5 DEF StartInv

LEMMA SurfacesKeepScreens ==
    ASSUME IInv, ScreensInv, SurfacesNext, UNCHANGED <<stageVars, drawVars>>
    PROVE  ScreensInv'
<1> USE SurfacesAssumption
<1>0. UNCHANGED <<pc, since>>
  BY DEF drawVars
<1>1. ASSUME NextId \in Ids, CreateScreen(NextId) PROVE StartInv' /\ hw' = hw
  <2>1. Cardinality(Made) < 2 /\ NativeW \in Nat \ {0}
    BY <1>1 DEF CreateScreen
  <2>2. CASE Made = {}
    <3>1. Create(NextId, NativeW, TRUE, "primary")
      BY <1>1, <2>2 DEF CreateScreen
    <3>q. QED
      BY <1>0, <1>1, <2>1, <2>2, <3>1, StartGrows, CreateAdds DEF ScreensInv
  <2>3. CASE Made # {}
    <3>1. Create(NextId, NativeW, FALSE, "compose")
      BY <1>1, <2>3 DEF CreateScreen
    <3>q. QED
      BY <1>0, <1>1, <2>1, <2>3, <3>1, StartGrows, CreateAdds DEF ScreensInv
  <2>q. QED
    BY <2>2, <2>3
<1>2. ASSUME NextId \in Ids, CreatePicture(NextId) PROVE StartInv' /\ hw' = hw
  <2>1. latch # None /\ Create(NextId, latch, FALSE, "picture")
    BY <1>2 DEF CreatePicture
  <2>2. latch \in PictureWidths
    BY <2>1 DEF IInv, FollowInv
  <2>3. latch \in Nat \ {0}
    BY <2>2
  <2>q. QED
    BY <1>0, <1>2, <2>1, <2>3, StartGrows, CreateAdds DEF ScreensInv
<1>3. ASSUME NEW w \in PictureWidths, LoadPicture(w) PROVE StartInv' /\ hw' = hw
  BY <1>0, <1>3 DEF LoadPicture, ScreensInv, StartInv, HasCompose, Made
<1>4. StartInv' /\ hw' = hw
  BY <1>1, <1>2, <1>3 DEF SurfacesNext
<1>5. FrameInv' /\ AgeInv' /\ ResultInv' /\ DrawnInv'
  BY <1>4 DEF ScreensInv, FrameInv, AgeInv, ResultInv, DrawnInv, stageVars, drawVars, ShowsHud, Settled
<1>q. QED
  BY <1>4, <1>5 DEF ScreensInv

LEMMA ScreensStep == IInv /\ ScreensInv /\ [Next]_vars => ScreensInv'
<1> SUFFICES ASSUME IInv, ScreensInv, [Next]_vars PROVE ScreensInv'
  OBVIOUS
<1>1. CASE SurfacesNext /\ UNCHANGED <<stageVars, drawVars>>
  BY <1>1, SurfacesKeepScreens
<1>2. ASSUME NEW next \in DOMAIN Script, BeginFrame(next) PROVE ScreensInv'
  BY <1>2, BeginPreserves
<1>3. CASE Draw
  BY <1>3, DrawPreserves
<1>4. CASE DrawStage
  BY <1>4, DrawStagePreserves
<1>5. CASE Skip
  BY <1>5, SkipPreserves
<1>6. CASE Present
  BY <1>6, PresentPreserves
<1>7. ASSUME NEW b \in Sections \union {0}, SectionChanges(b) PROVE ScreensInv'
  BY <1>7, SectionPreserves
<1>8. ASSUME NEW win \in Windows, WindowChanges(win) PROVE ScreensInv'
  BY <1>8, WindowPreserves
<1>9. CASE UNCHANGED vars
  BY <1>9 DEF vars, surfaceVars, stageVars, ScreensInv, StartInv, HasCompose, Made,
              FrameInv, AgeInv, ResultInv, DrawnInv, ShowsHud, Settled
<1>q. QED
  BY <1>1, <1>2, <1>3, <1>4, <1>5, <1>6, <1>7, <1>8, <1>9 DEF Next

LEMMA ScreensInit == Init => ScreensInv
<1> SUFFICES ASSUME Init PROVE ScreensInv
  OBVIOUS
<1> USE CompositionAssumption
<1>1. Made = {} /\ pc = 0 /\ since = 0 /\ drawn = << >> /\ shown = << >>
      /\ screen \in DOMAIN Script /\ stage \in DOMAIN Stages /\ camera = 0 /\ lock = 0
      /\ age = [hud |-> PanelFresh + 1, overlay |-> PanelFresh + 1]
  BY DEF Init, SurfacesInit, StageInit, Made
<1>2. StartInv
  BY <1>1, FS_EmptySet DEF StartInv
<1>3. FrameInv
  BY <1>1 DEF FrameInv, Settled
<1>4. AgeInv
  <2>1. PanelFresh + 1 \in 0..Settled /\ PanelFresh + 1 >= 1 /\ PanelFresh + 1 = Settled
    BY DEF Settled
  <2>2. 1..(pc - 1) = {}
    BY <1>1
  <2>q. QED
    BY <1>1, <2>1, <2>2 DEF AgeInv
<1>5. ResultInv /\ DrawnInv
  BY <1>1 DEF ResultInv, DrawnInv
<1>q. QED
  BY <1>2, <1>3, <1>4, <1>5 DEF ScreensInv

(* What a screen's age says of it, and where its draws lie, holds through  *)
(* every frame, resize and change of screen (surf_Blt, h_TextOutA,         *)
(* fn_0041a250, hostwin_window_geometry).                                  *)
THEOREM ScreensInvariance == Spec => [](IInv /\ ScreensInv)
<1>1. Init => IInv /\ ScreensInv
  BY InitHolds, ScreensInit
<1>2. (IInv /\ ScreensInv) /\ [Next]_vars => (IInv /\ ScreensInv)'
  BY StepPreserves, ScreensStep
<1>q. QED
  BY <1>1, <1>2, PTL DEF Spec

-----------------------------------------------------------------------------
(* What a settled screen shows.                                            *)

LEMMA SettledWidth ==
    ASSUME IInv, ScreensInv, since = Settled
    PROVE  W = hw.width /\ hw.width \in Nat /\ hw.width >= NativeW /\ View = hw.width
BY ComposeFollows, CompositionAssumption DEF ScreensInv, StartInv, Settled

(* Whatever screens the game has, its backdrops and wipes cover the        *)
(* composition, and so do the bands that are as wide as its screen and the *)
(* layers that fill the view, wherever the camera stands (surf_Blt,        *)
(* fill_layer, fn_0041a050, fn_0041a250).                                  *)
THEOREM ViewsAreCovered == Spec => []BackdropsCoverTheView
<1>1. IInv /\ ScreensInv => BackdropsCoverTheView
  <2> SUFFICES ASSUME IInv, ScreensInv, since = Settled
               PROVE  /\ \A n \in DOMAIN shown \intersect {"backdrop", "wipe"} : shown[n].cols = Covered
                      /\ /\ "band" \in DOMAIN shown
                         /\ Stages[stage].builtin \/ \E i \in DOMAIN Layers : BandFillsTheView(Layers[i])
                         => shown["band"].cols = Covered
                      /\ "layers" \in DOMAIN shown /\ (\E i \in DOMAIN Layers : FillsTheView(Layers[i]))
                            => shown["layers"].cols = Covered
    BY DEF BackdropsCoverTheView
  <2>1. W = hw.width /\ View = hw.width
    BY SettledWidth
  <2>2. Covered = 0..(hw.width - 1)
    BY <2>1 DEF Covered
  <2>3. \A n \in DOMAIN shown : Placed(n, shown[n], hw.width, screen, stage)
    BY DEF ScreensInv, DrawnInv
  <2>4. \A y : (BandFillsTheView(y) => BandFills(y, hw.width)) /\ (FillsTheView(y) => Fills(y, hw.width))
    BY <2>1 DEF BandFillsTheView, BandFills, FillsTheView, Fills
  <2>5. \A n \in DOMAIN shown \intersect {"backdrop", "wipe"} : shown[n].cols = Covered
    BY <2>2, <2>3 DEF Placed
  <2>6. ASSUME "band" \in DOMAIN shown,
               Stages[stage].builtin \/ \E i \in DOMAIN Layers : BandFillsTheView(Layers[i])
        PROVE  shown["band"].cols = Covered
    BY <2>2, <2>3, <2>4, <2>6 DEF Placed, Layers
  <2>7. ASSUME "layers" \in DOMAIN shown, \E i \in DOMAIN Layers : FillsTheView(Layers[i])
        PROVE  shown["layers"].cols = Covered
    BY <2>2, <2>3, <2>4, <2>7 DEF Placed, Layers
  <2>q. QED
    BY <2>5, <2>6, <2>7
<1>q. QED
  BY <1>1, ScreensInvariance, PTL

(* The text of a panel or a screen moves as far as the panel or the screen *)
(* (h_TextOutA against surf_Blt, result_panel_text_offset against          *)
(* result_panel_blit_offset).                                              *)
THEOREM LabelsMove == Spec => []LabelsMoveWithPanels
<1>1. IInv /\ ScreensInv => LabelsMoveWithPanels
  <2> SUFFICES ASSUME IInv, ScreensInv, since = Settled,
                      NEW p \in {<<"hud", "hud text">>, <<"summary", "summary text">>, <<"content", "content text">>},
                      {p[1], p[2]} \subseteq DOMAIN shown
               PROVE  shown[p[1]].off = shown[p[2]].off
    BY DEF LabelsMoveWithPanels
  <2>1. Placed(p[1], shown[p[1]], hw.width, screen, stage) /\ Placed(p[2], shown[p[2]], hw.width, screen, stage)
    BY DEF ScreensInv, DrawnInv
  <2>2. CASE p = <<"hud", "hud text">>
    BY <2>1, <2>2 DEF Placed
  <2>3. CASE p = <<"summary", "summary text">>
    BY <2>1, <2>3 DEF Placed
  <2>4. CASE p = <<"content", "content text">>
    BY <2>1, <2>4 DEF Placed
  <2>q. QED
    BY <2>2, <2>3, <2>4
<1>q. QED
  BY <1>1, ScreensInvariance, PTL

(* The pointer is mapped back by what the picture under it was moved       *)
(* (mouse_lparam against surf_Blt).                                        *)
THEOREM PointerHits == Spec => []PointerMatchesPicture
<1>1. IInv /\ ScreensInv => PointerMatchesPicture
  <2> SUFFICES ASSUME IInv, ScreensInv, since = Settled, NEW n \in DOMAIN shown \intersect {"content", "layers"}
               PROVE  shown[n].off = PointerOffset
    BY DEF PointerMatchesPicture
  <2>1. Placed(n, shown[n], hw.width, screen, stage)
    BY DEF ScreensInv, DrawnInv
  <2>2. hw.width \in Nat /\ hw.width >= NativeW /\ NativeW \in Nat
    BY SettledWidth, SurfacesAssumption
  <2>3. HudUp(age) <=> ShowsHud(screen)
    <3>1. age.hud \in 0..Settled
      BY DEF ScreensInv, AgeInv
    <3>2. CASE ShowsHud(screen)
      BY <3>1, <3>2, CompositionAssumption DEF ScreensInv, AgeInv, HudUp, Settled
    <3>3. CASE ~ShowsHud(screen)
      BY <3>1, <3>3, CompositionAssumption DEF ScreensInv, AgeInv, HudUp, Settled
    <3>q. QED
      BY <3>2, <3>3
  <2>4. PointerOffset = IF ShowsHud(screen) THEN 0 ELSE Centred(hw.width, NativeW)
    BY <2>2, <2>3 DEF PointerOffset, ScreenOffset, Wide, Centred
  <2>q. QED
    BY <2>1, <2>4 DEF Placed
<1>q. QED
  BY <1>1, ScreensInvariance, PTL
=============================================================================
