----------------------------- MODULE Composition -----------------------------
(***************************************************************************)
(* How the game's screens, all 794 wide, are laid out in a composition of  *)
(* the window's width (surf_Blt of video/ddraw.c, result_panel.c,          *)
(* stage_banner.c, the text path of win32/gdi.c), and how the pointer is   *)
(* mapped back (mouse_lparam of win32/win32.c).  Nothing tells the port    *)
(* which screen is up: it recognises what the game draws.                  *)
(*                                                                         *)
(* A screen is a script of draws, each an interval of columns in the       *)
(* game's own coordinates; the rows are kept as the class the code tests.  *)
(* The world of a match is the one draw that is not an interval: its       *)
(* layers are those of the stage (Stage).  Which screen the game shows,    *)
(* and which of a script's optional draws it makes, is external.           *)
(***************************************************************************)
EXTENDS Stage

CONSTANTS HudW,         \* width of the strip of panels (792)
          PanelLeft, PanelW, \* the summary panel (150, 490)
          PanelFresh,   \* frames a panel counts as up (2)
          Script        \* screen -> sequence of draws

ASSUME CompositionAssumption ==
    /\ HudW \in 1..NativeW /\ PanelFresh \in Nat \ {0}
    /\ PanelLeft \in Nat /\ PanelW \in Nat /\ PanelLeft + PanelW <= NativeW

VARIABLES
    words,    \* the width words of the game, set by wide_apply
    age,      \* frames since the panels of the HUD and the overlay were drawn
    align,    \* screen_align_left
    result,   \* result_panel.c: the summary is being drawn in this frame
    screen,   \* the screen the game shows
    pc,       \* the next draw of its script; 0 between two frames
    drawn,    \* draw -> the columns it covered and its shift, in this frame
    shown,    \* the same, as copied to the primary; empty before it is judged
    since     \* history: frames since the screen or the window changed

vars == <<surfaceVars, stageVars, words, age, align, result, screen, pc, drawn, shown, since>>
drawVars == <<words, age, align, result, screen, pc, drawn, shown, since>>

Settled == PanelFresh + 1
Compose == CHOOSE i \in Made : surface[i].purpose = "compose"
Ready == Cardinality(follow) = 2
W == surface[Compose].w
Columns(l, r) == {c \in l..(r - 1) : 0 <= c /\ c < W}
Covered == 0..(W - 1)

-----------------------------------------------------------------------------
(* Which screen is up, and by how much it is centred.                      *)

HudUp(a) == a.hud <= PanelFresh
OverlayUp(a) == a.overlay <= PanelFresh

(* screen_offset_x, hud_offset_x, geom_item_offset_x                       *)
ScreenOffset(a) == IF ~Wide \/ HudUp(a) THEN 0 ELSE (hw.width - NativeW) \div 2
HudOffset(a) == IF ~Wide \/ ~HudUp(a) \/ W <= NativeW THEN 0 ELSE (W - HudW) \div 2
ItemOffset == IF W <= NativeW THEN 0 ELSE (W - PanelW) \div 2 - PanelLeft
ComposeOffset(a) == IF W > NativeW THEN ScreenOffset(a) ELSE 0

InScreen(d) == d.l >= 0 /\ d.r <= NativeW
InPanel(d) == d.l >= PanelLeft /\ d.r <= PanelLeft + PanelW

DrawType == [name : STRING, path : {"fill", "blit", "text", "stage"}, l : Int, r : Int,
             rows : STRING, hint : BOOLEAN, menu : BOOLEAN, optional : BOOLEAN]

(* What the code counts on of the game's screens when it recognises them   *)
(* by what they draw: a screen that has the panels of the HUD draws them   *)
(* in every frame; the header of the summary comes before what stands on   *)
(* it, over a match; and what is as large as the game's screen is there a  *)
(* fill, or, in a screen without panels, a picture.                        *)
Always(d, path, rows) == d.path = path /\ d.rows = rows /\ ~d.optional
ShowsHud(s) == \E i \in DOMAIN Script[s] : Always(Script[s][i], "blit", "hud")
AfterHeader(s, n) == \E i \in 1..(n - 1) : Always(Script[s][i], "blit", "header")

Backdrop(d) == d.l = 0 /\ d.r = NativeW

WellDrawn(s, n) ==
    LET d == Script[s][n] IN
    /\ d.path = "blit" /\ d.rows = "hud" => ShowsHud(s)
    /\ d.path = "stage" => ShowsHud(s) /\ d.rows = "middle" /\ Backdrop(d)
    /\ d.name = "backdrop" =>
         Backdrop(d) /\ (d.path = "fill" \/ (d.path = "blit" /\ d.rows = "full" /\ ~ShowsHud(s)))
    /\ d.name = "wipe" => d.path = "fill" /\ Backdrop(d)
    /\ d.name = "content" => d.path = "blit" /\ d.rows = "middle" /\ InScreen(d)
    /\ d.name = "content text" => d.path = "text" /\ d.rows = "middle"
    /\ d.name = "hud" => d.path = "blit" /\ d.rows = "hud"
    /\ d.name = "hud text" => d.path = "text" /\ d.rows = "hud"
    /\ d.name = "summary" =>
         /\ d.path = "blit" /\ ShowsHud(s) /\ InPanel(d)
         /\ d.rows = "header" \/ (d.rows = "panel" /\ AfterHeader(s, n))
    /\ d.name = "summary text" =>
         /\ d.path = "text" /\ d.rows = "panel" /\ ShowsHud(s) /\ AfterHeader(s, n)
         /\ d.l \in PanelLeft..(PanelLeft + PanelW - 1)
    /\ d.name \in {"layers", "band"} => d.path = "stage"

ASSUME ScriptAssumption ==
    \A s \in DOMAIN Script : /\ Script[s] \in Seq(DrawType)
                             /\ \A n \in DOMAIN Script[s] : WellDrawn(s, n)

Moved(d, off) == [l |-> d.l + off, r |-> d.r + off, off |-> off]

-----------------------------------------------------------------------------
(* surf_Blt, the colour fill: a fill of the whole of the game's screen is  *)
(* widened to the composition, whether it is a band of the stage or the    *)
(* screen's own backdrop or wipe; a smaller one moves with the screen.     *)
FillMatchGated(d) ==
    IF d.l = 0 /\ d.r = NativeW /\ W > NativeW /\ Wide /\ (d.hint \/ ~HudUp(age))
    THEN [l |-> 0, r |-> W, off |-> 0]
    ELSE IF InScreen(d) THEN Moved(d, ComposeOffset(age)) ELSE Moved(d, 0)

Fill(d) ==
    IF d.l = 0 /\ d.r = NativeW /\ W > NativeW /\ Wide THEN [l |-> 0, r |-> W, off |-> 0]
    ELSE IF InScreen(d) THEN Moved(d, ComposeOffset(age)) ELSE Moved(d, 0)

(* screen_fill_note: only a screen's own fill names the screen.            *)
AlignAfterFill(d) ==
    IF ~d.hint /\ Backdrop(d) /\ d.rows = "full" THEN d.menu ELSE align

(* surf_Blt, the copy.  The panels of the HUD, the stage's announcement    *)
(* and the summary are recognised first, in the game's coordinates.        *)
HudShift(d) ==
    IF d.rows = "hud" /\ Wide /\ HudUp(age) /\ W > NativeW THEN (W - HudW) \div 2 ELSE 0
BannerShift(d) ==
    IF d.rows = "banner" /\ HudUp(age) /\ ~OverlayUp(age) /\ W > NativeW
    THEN (W - NativeW) \div 2 ELSE 0
ResultAfter(d) == result \/ d.rows = "header"
ResultShift(d) == IF ResultAfter(d) /\ d.rows \in {"header", "panel"} /\ InPanel(d) THEN ItemOffset ELSE 0

(* panel_note                                                              *)
AgeAfter(d) ==
    [age EXCEPT !.hud = IF d.rows = "hud" THEN 0 ELSE @,
                !.overlay = IF d.rows = "overlay" THEN 0 ELSE @]

(* A picture as large as the game's screen is that screen's background.    *)
IsBackdrop(d) ==
    d.rows = "full" /\ d.l = 0 /\ d.r = NativeW /\ Wide /\ ~HudUp(age) /\ W > NativeW

(* The portrait of the menus keeps the edge it was drawn against.          *)
IsBackdropArt(d, a) == a /\ d.l = 0 /\ d.rows \in {"full", "tall"}

(* backdrop_edge_bands: the columns on either side take its edge colours.  *)
EdgeBands(m) == [m EXCEPT !.l = 0, !.r = W]

Blit(d) ==
    LET early == HudShift(d) + BannerShift(d) + ResultShift(d)
        left == IF IsBackdrop(d) THEN FALSE ELSE align
        late == IF IsBackdropArt(d, left) \/ ~InScreen(Moved(d, early)) THEN 0
                ELSE ComposeOffset(AgeAfter(d))
        m == Moved(d, early + late)
    IN  IF IsBackdrop(d) THEN EdgeBands(m) ELSE m

(* gdi.c: text goes past Blt and asks for the three offsets itself; the    *)
(* summary is looked for at the column the others have moved it to.        *)
TextWithoutPanel(d) ==
    Moved(d, (IF d.rows = "hud" THEN HudOffset(age) ELSE 0) + ComposeOffset(age))
Text(d) ==
    LET x == Moved(d, (IF d.rows = "hud" THEN HudOffset(age) ELSE 0) + ComposeOffset(age))
    IN  IF result /\ d.rows = "panel" /\ x.l >= PanelLeft /\ x.l < PanelLeft + PanelW
        THEN Moved(d, x.off + ItemOffset) ELSE x

(* mouse_lparam, after the window's scale has been undone: what is taken   *)
(* from the pointer's column.                                              *)
PointerOffsetByAlign == IF align THEN 0 ELSE ScreenOffset(age)
PointerOffset == ScreenOffset(age)

-----------------------------------------------------------------------------
(* Steps.                                                                  *)

(* The front end's update: wide_apply, then the game draws a screen.       *)
BeginFrame(next) ==
    /\ Ready /\ pc = 0
    /\ words' = IF Wide THEN hw.width ELSE NativeW
    /\ screen' = next
    /\ since' = IF next = screen THEN since ELSE 0
    /\ pc' = 1
    /\ drawn' = << >>
    /\ shown' = IF next = screen THEN shown ELSE << >>
    /\ IF next # screen /\ next # "summary" THEN \E s \in DOMAIN Stages : NewStage(s)
       ELSE UNCHANGED stageVars
    /\ UNCHANGED <<surfaceVars, age, align, result>>

(* Kept only in the frames the properties judge: see Settled.              *)
Done(f) == drawn' = IF since + 1 < Settled THEN << >> ELSE
                    [n \in DOMAIN drawn \union DOMAIN f |-> IF n \in DOMAIN f THEN f[n] ELSE drawn[n]]

(* What is kept of the draws ms, made under one name.                      *)
Kept(ms) == [cols |-> UNION {Columns(m.l, m.r) : m \in ms},
             off |-> IF ms = {} THEN 0 ELSE CHOOSE k \in {m.off : m \in ms} : \A m \in ms : m.off <= k]
One(d, m) == [n \in {d.name} |-> Kept({m})]

(* The game clips what it draws of its world to its width words.           *)
Clip(d, p) == [d EXCEPT !.l = Most(0, p.l), !.r = Least(words, p.r)]

(* fill_layer: a tinted layer, at its own span, says that it is a band.    *)
Band(d, layer) == Fill([d EXCEPT !.l = layer.x, !.r = layer.x + layer.span, !.hint = TRUE])

(* draw_layer, for each piece of the picture that is on the screen.        *)
Pictures(d, layer, c) ==
    {LET m == Blit(Clip(d, p)) IN IF Continued(layer) /\ HudUp(age) THEN [m EXCEPT !.r = W] ELSE m :
     p \in {q \in Pieces(layer, c) : q.r > 0 /\ q.l < words}}

DrawFill(d) ==
    /\ d.path = "fill"
    /\ Done(One(d, Fill(d)))
    /\ align' = AlignAfterFill(d)
    /\ UNCHANGED <<age, result>>

DrawBlit(d) ==
    /\ d.path = "blit"
    /\ Done(One(d, Blit(d)))
    /\ age' = AgeAfter(d)
    /\ align' = IF IsBackdrop(d) THEN FALSE ELSE align
    /\ result' = ResultAfter(d)

DrawText(d) ==
    /\ d.path = "text"
    /\ Done(One(d, Text(d)))
    /\ UNCHANGED <<age, align, result>>

Draw ==
    /\ pc \in DOMAIN Script[screen]
    /\ pc' = pc + 1
    /\ LET d == Script[screen][pc] IN DrawFill(d) \/ DrawBlit(d) \/ DrawText(d)
    /\ UNCHANGED <<surfaceVars, stageVars, words, screen, shown, since>>

(* fn_0041a250: the camera is clamped to the view, then the layers are     *)
(* drawn, tints as fills and the others as blits.  The built-in stage has  *)
(* its own pass (fn_0041a050), with bands as wide as the view; a stage     *)
(* without layers draws nothing and clamps nothing.                        *)
PaintBuiltIn(d, c) ==
    /\ camera' = c
    /\ UNCHANGED <<walk, anim>>
    /\ Done([band |-> Kept({Fill([d EXCEPT !.r = View, !.hint = TRUE])})])

PaintLayers(d, c) ==
    LET stepped == [i \in DOMAIN Layers |-> Stepped(Layers[i], anim[stage][i])]
        tints == {y \in {Layers[i] : i \in DOMAIN Layers} : y.tint}
        pictures == {Layers[i] : i \in {j \in DOMAIN Layers : ~Layers[j].tint /\ Visible(Layers[j], stepped[j])}}
        from == DrawCamera(Clamped(c))
    IN  /\ ClampToView(c)
        /\ anim' = [anim EXCEPT ![stage] = stepped]
        /\ Done([n \in {"layers"} \union (IF tints = {} THEN {} ELSE {"band"}) |->
                   IF n = "band" THEN Kept({Band(d, y) : y \in tints})
                   ELSE Kept(UNION {Pictures(d, y, from) : y \in pictures})])

DrawStage ==
    /\ pc \in DOMAIN Script[screen] /\ Script[screen][pc].path = "stage"
    /\ pc' = pc + 1
    /\ \E c \in {k \in Cameras \union {camera} : GameCamera(k)} :
          IF Stages[stage].builtin THEN PaintBuiltIn(Script[screen][pc], c)
          ELSE IF Layers = << >> THEN camera' = c /\ UNCHANGED <<walk, anim, drawn>>
          ELSE PaintLayers(Script[screen][pc], c)
    /\ UNCHANGED <<surfaceVars, stage, lock, words, age, align, result, screen, shown, since>>

SectionChanges(b) ==
    /\ pc = 0 /\ screen = "match"
    /\ NewSection(b)
    /\ UNCHANGED <<surfaceVars, drawVars>>

Skip ==
    /\ pc \in DOMAIN Script[screen] /\ Script[screen][pc].optional
    /\ pc' = pc + 1
    /\ UNCHANGED <<surfaceVars, stageVars, words, age, align, result, screen, drawn, shown, since>>

Older(n) == IF n > PanelFresh THEN n ELSE n + 1

(* The copy of the whole composition to the primary, which presents it.    *)
Present ==
    /\ pc = Len(Script[screen]) + 1
    /\ shown' = drawn
    /\ pc' = 0
    /\ age' = [hud |-> Older(age.hud), overlay |-> Older(age.overlay)]
    /\ result' = FALSE
    /\ since' = IF since < Settled THEN since + 1 ELSE since
    /\ UNCHANGED <<surfaceVars, stageVars, words, align, screen, drawn>>

(* The pump runs between two frames and whenever the game polls a key.     *)
WindowChanges(win) ==
    /\ Resize(win)
    /\ since' = IF hw'.width = hw.width THEN since ELSE 0
    /\ IF since' = 0 THEN drawn' = << >> /\ shown' = << >> ELSE UNCHANGED <<drawn, shown>>
    /\ UNCHANGED <<stageVars, words, age, align, result, screen, pc>>

Init ==
    /\ SurfacesInit /\ StageInit
    /\ words = NativeW
    /\ age = [hud |-> PanelFresh + 1, overlay |-> PanelFresh + 1]
    /\ align = FALSE /\ result = FALSE
    /\ screen \in DOMAIN Script /\ pc = 0
    /\ drawn = << >> /\ shown = << >>
    /\ since = 0

Next ==
    \/ SurfacesNext /\ UNCHANGED <<stageVars, drawVars>>
    \/ \E next \in DOMAIN Script : BeginFrame(next)
    \/ Draw \/ DrawStage \/ Skip \/ Present
    \/ \E b \in Sections \union {0} : SectionChanges(b)
    \/ \E win \in Windows : WindowChanges(win)

Spec == Init /\ [][Next]_vars

-----------------------------------------------------------------------------
(* Properties of what is shown once a screen has been up, in a window of   *)
(* one size, for longer than a panel counts as fresh.                      *)

(* What covers the game's whole screen -- the menus' backdrops, the world, *)
(* the bands and wipes of a stage, the loading picture with its edges --   *)
(* covers the whole composition: no column is left black or keeps an older *)
(* picture.  The world does so wherever its camera stands if the stage has *)
(* a layer for it: one that repeats without gaps, one as wide as the span  *)
(* it scrolls by, or a plane that is continued.                            *)
FillsTheView(y) ==
    /\ ~y.tint /\ y.cc = 0 /\ y.x = 0
    /\ IF y.loop > 0 THEN y.loop <= y.pic ELSE y.pic >= y.span /\ (y.far \/ y.span >= View)

(* A band is meant for the whole screen if it is as wide as the game's, or *)
(* as the view; the bands of the built-in stage are.                       *)
BandFillsTheView(y) == y.tint /\ y.x = 0 /\ (y.span = NativeW \/ y.span >= View)

BackdropsCoverTheView ==
    since = Settled =>
        /\ \A n \in DOMAIN shown \intersect {"backdrop", "wipe"} : shown[n].cols = Covered
        /\ /\ "band" \in DOMAIN shown
           /\ Stages[stage].builtin \/ \E i \in DOMAIN Layers : BandFillsTheView(Layers[i])
           => shown["band"].cols = Covered
        /\ "layers" \in DOMAIN shown /\ (\E i \in DOMAIN Layers : FillsTheView(Layers[i]))
              => shown["layers"].cols = Covered

(* Text that the game writes onto a panel or a screen moves exactly as far *)
(* as what it is written on, though the two take different paths.          *)
LabelsMoveWithPanels ==
    since = Settled =>
        \A p \in {<<"hud", "hud text">>, <<"summary", "summary text">>, <<"content", "content text">>} :
            {p[1], p[2]} \subseteq DOMAIN shown => shown[p[1]].off = shown[p[2]].off

(* The pointer is mapped to the column of the game's screen that is shown  *)
(* under it.                                                               *)
PointerMatchesPicture ==
    since = Settled =>
        \A n \in DOMAIN shown \intersect {"content", "layers"} : shown[n].off = PointerOffset

(* What geom.h (line 358) and issues 36 and 43 say of a section: with the  *)
(* camera at its bound, the columns a fighter may walk to end at the right *)
(* edge of the view.  The code breaks it: the bound is computed for the    *)
(* game's camera, and the world is drawn from one further left.            *)
FightersReachTheEdge ==
    pc # 0 /\ "layers" \in DOMAIN drawn /\ walk > 0 /\ View > NativeW /\ camera = CameraMax
      => walk = DrawCamera(camera) + View
=============================================================================
