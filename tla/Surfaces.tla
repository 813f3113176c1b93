------------------------------- MODULE Surfaces -------------------------------
(***************************************************************************)
(* The DirectDraw surfaces of the port and the window they follow          *)
(* (video/ddraw.c, overrides/geom.h).  A window of any shape shows a       *)
(* composition of the game's own height and of at least its own width; the *)
(* primary surface and the surface the game composes into take that width, *)
(* within a memory that was allocated once at the widest, from an arena    *)
(* that gives nothing back (cpu/guest_arena.c, video/surface_memory.c).    *)
(*                                                                         *)
(* What the game asks for is external: pictures at any time, each from a   *)
(* bitmap it has just loaded, and its screens before any bitmap.           *)
(***************************************************************************)
EXTENDS Naturals, FiniteSets

CONSTANTS NativeW, NativeH, \* the game's own screen (794 x 550)
          WideMax,          \* widest composition (4096)
          FollowMax,        \* surfaces that may follow the window (8)
          Windows,          \* window sizes, <<width, height>>
          PictureWidths,    \* widths of the pictures the game loads
          Page, VramEnd,    \* the arena: its alignment, and its end
          Ids, None         \* surface objects, 1 to some number

SurfaceType == [w : Nat, max : Nat, memory : Nat, asked : Nat,
                purpose : {"primary", "compose", "picture"}]

ASSUME SurfacesAssumption ==
    /\ NativeW \in Nat \ {0} /\ NativeH \in Nat \ {0}
    /\ WideMax \in Nat /\ NativeW <= WideMax
    /\ FollowMax \in Nat
    /\ Windows \subseteq (Nat \ {0}) \X (Nat \ {0})
    /\ PictureWidths \subseteq 1..WideMax
    /\ Page \in Nat \ {0} /\ VramEnd \in Nat
    /\ None \notin Nat \union SurfaceType

VARIABLES
    hw,      \* HostWin: the window and the composition's width
    surface, \* id -> width w, allocated width max, memory, purpose; or None
    vram,    \* the arena's next free address
    follow,  \* the surfaces that follow the window
    latch    \* the width of the bitmap loaded last, None once consumed

surfaceVars == <<hw, surface, vram, follow, latch>>

Least(a, b) == IF a <= b THEN a ELSE b
Most(a, b) == IF a <= b THEN b ELSE a

(* geom_compose_width: the view that fills the window, rounded up.         *)
ComposeWidth(win) ==
    Least(WideMax, Most(NativeW, (win[1] * NativeH + win[2] - 1) \div win[2]))

(* lf2_wide_width                                                          *)
Wide == hw.width > NativeW

Made == {i \in Ids : surface[i] # None}

-----------------------------------------------------------------------------
(* hostwin_window_geometry.                                                *)
Resize(win) ==
    /\ hw' = [window |-> win, width |-> ComposeWidth(win)]
    /\ surface' = [i \in Ids |->
                     IF i \in follow
                     THEN [surface[i] EXCEPT !.w = Least(hw'.width, surface[i].max)]
                     ELSE surface[i]]
    /\ UNCHANGED <<vram, follow, latch>>

(* guest_arena_alloc: what an allocation takes from the arena.             *)
Rounded(size) == ((size + Page - 1) \div Page) * Page

(* make_surface: the memory of a surface that may become max wide.         *)
Pixels(width) == width * NativeH

(* dd_CreateSurface: does the new surface follow the window?               *)
FollowsAnyScreenSize(asked, primary) == primary \/ asked = NativeW
Follows(asked, primary) == primary \/ (asked = NativeW /\ latch # asked)

(* An arena that is full ends the program: the model then has no step.     *)
Create(id, asked, primary, purpose) ==
    LET f == Follows(asked, primary)
        w == IF f THEN hw.width ELSE asked
        max == IF f THEN WideMax ELSE w
    IN  /\ surface[id] = None
        /\ vram + Rounded(Pixels(max)) <= VramEnd
        /\ vram' = vram + Rounded(Pixels(max))
        /\ surface' = [surface EXCEPT ![id] =
                         [w |-> w, max |-> max, memory |-> vram, asked |-> asked, purpose |-> purpose]]
        /\ follow' = IF f /\ Cardinality(follow) < FollowMax THEN follow \union {id} ELSE follow
        /\ latch' = IF ~primary /\ latch = asked THEN None ELSE latch
        /\ UNCHANGED hw

(* At startup: the primary, then the surface the game composes into.       *)
CreateScreen(id) ==
    /\ Cardinality(Made) < 2 /\ latch = None
    /\ IF Made = {} THEN Create(id, NativeW, TRUE, "primary")
       ELSE Create(id, NativeW, FALSE, "compose")

(* The picture loader: LoadImage, then a surface of the bitmap's own size. *)
LoadPicture(w) ==
    /\ Cardinality(Made) >= 2
    /\ latch = None
    /\ latch' = w
    /\ UNCHANGED <<hw, surface, vram, follow>>

CreatePicture(id) ==
    /\ latch # None
    /\ Create(id, latch, FALSE, "picture")

SurfacesInit ==
    /\ \E win \in Windows : hw = [window |-> win, width |-> ComposeWidth(win)]
    /\ surface = [i \in Ids |-> None]
    /\ vram = 0
    /\ follow = {} /\ latch = None

(* Objects are handed out in order (com_create).  Ids bounds them: no      *)
(* picture is loaded once there is no object left to hold it.              *)
NextId == Cardinality(Made) + 1

SurfacesNext ==
    /\ NextId \in Ids
    /\ \/ CreateScreen(NextId) \/ CreatePicture(NextId)
       \/ \E w \in PictureWidths : LoadPicture(w)

-----------------------------------------------------------------------------
(* Properties.                                                             *)

(* A surface that holds a picture keeps the picture's size, also when that *)
(* is the size of the game's screen; the screens themselves have the width *)
(* of the composition.                                                     *)
SurfacesFitWhatTheyHold ==
    \A i \in Made :
        /\ surface[i].purpose = "picture" => surface[i].w = surface[i].asked
        /\ i \in follow => surface[i].w = hw.width

(* However the window grows, the pixels of a surface stay in its own       *)
(* memory: inside the arena and apart from those of every other surface.   *)
PixelsOf(i) == surface[i].memory .. (surface[i].memory + Pixels(surface[i].w) - 1)

SurfacesAreApart ==
    \A i \in Made :
        /\ surface[i].memory + Pixels(surface[i].w) <= VramEnd
        /\ \A j \in Made \ {i} : PixelsOf(i) \intersect PixelsOf(j) = {}

(* A surface keeps its picture: nothing stretches it and nothing else      *)
(* writes over it.                                                         *)
SurfacesKeepTheirPictures == SurfacesFitWhatTheyHold /\ SurfacesAreApart
=============================================================================
