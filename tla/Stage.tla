-------------------------------- MODULE Stage --------------------------------
(***************************************************************************)
(* The stage behind a match in a view wider than the game's own            *)
(* (fn_0041a250 of overrides/background.c, overrides/geom.h,               *)
(* overrides/backdrop_layout.h): where the camera and the fighters may go, *)
(* from where the world is drawn, and which columns each layer covers.     *)
(*                                                                         *)
(* A stage is a record of the game's data: its width and its layers, each  *)
(* with the x and the width of its picture, the span it scrolls by, the    *)
(* step it repeats at (0: drawn once), whether it is a tint (a colour      *)
(* fill), its animation (cc frames, drawn from c1 to c2; cc = 0: none),    *)
(* and whether backdrop_layout.h continues it to the right.  The shadow    *)
(* copy of the camera is left out: the game's camera is any it may choose. *)
(***************************************************************************)
EXTENDS Surfaces, Integers, Sequences

CONSTANTS Stages,   \* name -> [builtin, width, layers]
          Sections, \* right ends of the stage mode's sections, in world columns
          Cameras   \* positions the game may ease its camera to

LayerType == [x : Nat, pic : Nat, span : Nat, loop : Nat, tint : BOOLEAN, far : BOOLEAN,
              cc : Nat, c1 : Nat, c2 : Nat]

(* The spans in backdrop_layout.h of the planes that are continued, 800 to *)
(* 1400, are all wider than the game's screen.                             *)
ASSUME StageAssumption ==
    /\ Sections \subseteq Nat /\ Cameras \subseteq Nat
    /\ \A s \in DOMAIN Stages :
          /\ Stages[s].width \in Nat /\ Stages[s].width >= NativeW /\ Stages[s].builtin \in BOOLEAN
          /\ Stages[s].layers \in Seq(LayerType)
          /\ \A i \in DOMAIN Stages[s].layers :
                Stages[s].layers[i].far => Stages[s].layers[i].span >= NativeW

VARIABLES
    stage,   \* the name of the stage that is loaded
    camera,  \* BG_CAMERA_X
    lock,    \* BG_CAMERA_LOCK: where a section holds the camera, 0 for none
    walk,    \* BG_WALK_LOCK: how far a fighter may walk, 0 for the whole stage
    anim     \* the frame counters of the layers, kept in the stages' records

stageVars == <<stage, camera, lock, walk, anim>>

Layers == Stages[stage].layers
Width == Stages[stage].width

(* bg_view_width                                                           *)
View == Most(hw.width, NativeW)

-----------------------------------------------------------------------------
(* The camera.                                                             *)

(* geom_camera_max: the screen's right edge at the end of the stage, or of *)
(* the section.                                                            *)
CameraMax ==
    Most(0, IF lock = 0 THEN Width - View
            ELSE LET held == lock + NativeW - View
                 IN  IF held < Width - View THEN held ELSE Width - View)

(* geom_walk_max: a section's bound follows the edge the view can show.    *)
WalkMax(w) == IF View <= NativeW THEN w ELSE Most(w, CameraMax + View)

(* geom_draw_camera: a wider view is centred on the game's own.            *)
DrawCamera(c) == IF View <= NativeW THEN c ELSE Most(0, c - (View - NativeW) \div 2)

(* fn_0041b5d0: the game keeps its camera within the stage, as its own     *)
(* screen shows it; a paused match leaves the camera where it is.          *)
GameCamera(c) == c <= Width - NativeW

(* camera_clamp_to_view                                                    *)
Clamped(c) == Least(c, CameraMax)
ClampToView(c) ==
    /\ camera' = Clamped(c)
    /\ walk' = IF walk > 0 THEN WalkMax(walk) ELSE walk

-----------------------------------------------------------------------------
(* The layers.                                                             *)

(* geom_layer_offset, for a world drawn from column c.                     *)
LayerOffset(span, c) ==
    IF Width <= View \/ span <= View THEN 0 ELSE -(((span - View) * c) \div (Width - View))

(* Where a looping layer starts a copy of its picture: to the end of its   *)
(* span, and as far as the view reaches beyond.                            *)
Starts(layer, end) ==
    {x \in {layer.x + n * layer.loop : n \in 0 .. (end - layer.x)} : x < end}
CopiesToSpan(layer, off) == {off + x : x \in Starts(layer, layer.span)}
Copies(layer, off) == {off + x : x \in Starts(layer, Most(layer.span, View - off))}

(* The animation of a layer moves on in every frame, drawn or not.         *)
Stepped(layer, n) == IF layer.cc > 0 THEN (n + 1) % layer.cc ELSE n
Visible(layer, n) == layer.cc > 0 => n \in layer.c1 .. layer.c2

(* backdrop_plane_placement and backdrop_mirror_segments: a plane that is  *)
(* declared to continue does so to the edge of the composition.            *)
Continued(layer) == layer.far /\ View > NativeW

(* The intervals of the screen in which a layer asks for its picture.      *)
Pieces(layer, c) ==
    LET off == LayerOffset(layer.span, c)
        starts == IF layer.loop > 0 THEN Copies(layer, off) ELSE {off + layer.x}
    IN  {[l |-> x, r |-> x + layer.pic] : x \in starts}

StageInit ==
    /\ stage \in DOMAIN Stages
    /\ camera = 0 /\ lock = 0 /\ walk = 0
    /\ anim = [s \in DOMAIN Stages |-> [i \in DOMAIN Stages[s].layers |-> 0]]

(* The game writes both words of a section from one bound.                 *)
NewSection(b) ==
    /\ lock' = IF b = 0 THEN 0 ELSE b - NativeW
    /\ walk' = b
    /\ UNCHANGED <<stage, camera, anim>>

(* The game sets its camera and its section up anew for every match.       *)
NewStage(s) ==
    /\ stage' = s
    /\ camera' = 0 /\ lock' = 0 /\ walk' = 0
    /\ UNCHANGED anim
=============================================================================
