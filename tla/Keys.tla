-------------------------------- MODULE Keys --------------------------------
(***************************************************************************)
(* How a key reaches the game.  Several writers press and release keys:    *)
(* the keyboard, the on-screen controls, and the menu when it opens (the   *)
(* pulses of PauseMenu and the test scripts inject theirs in the same      *)
(* way).  Three places remember them: the port's ledger                    *)
(* (input/keyboard.c), the injected keys and the message ring              *)
(* (win32/win32.c), and behind the ring the game's own key array.  While   *)
(* the menu is up the port owns every key, and it always owns Escape: the  *)
(* ledger sees those transitions, the game never does.                     *)
(*                                                                         *)
(* Steps.  A physical event, a finger or a script transition is handled    *)
(* inside hostwin_pump, which every PeekMessage runs before it takes one   *)
(* message; pause_tick runs once in the update of a frame.  All of it is   *)
(* on the game thread, so every handler is one step.                       *)
(***************************************************************************)
EXTENDS Naturals, Sequences, FiniteSets

CONSTANTS Escape,         \* the port's own key
          PhysicalKeys,   \* keys the keyboard presses in this instance
          Return,         \* the one of them that asks for fullscreen with Alt
          Actions,        \* the actions of the on-screen controls, in order
          Pause,          \* the one of them that stands for Escape
          Zones,          \* the touch zones
          ZoneActions,    \* zone -> the set of actions it presses
          Bindable,       \* the keys a player may bind to an action
          Fingers,        \* contacts on the screen
          RingSize,       \* slots of the ring (64), one of them kept free
          None            \* nothing

ActionSet == {Actions[i] : i \in DOMAIN Actions}
Keys == {Escape} \union PhysicalKeys \union Bindable

ASSUME KeysAssumption ==
    /\ RingSize \in Nat \ {0, 1}
    /\ Actions \in Seq(ActionSet)
    /\ Return \in PhysicalKeys \ {Escape}
    /\ Escape \notin Bindable
    /\ Pause \in ActionSet
    /\ ZoneActions \in [Zones -> SUBSET ActionSet]
    /\ None \notin Zones
    /\ IsFiniteSet(Fingers)

VARIABLES
    physical,   \* keys down on the keyboard (outside the program)
    kb,         \* the port's record of keys: see KeyRecord
    game,       \* the game's key array, filled from WM_KEYDOWN and WM_KEYUP (external)
    binding,    \* action -> key, from the settings
    touch,      \* touch_input.cpp: the option, `enabled`, contacts and references
    menu,       \* the document is up
    orphaned    \* history: keys bound away or switched off under a finger

vars == <<physical, kb, game, binding, touch, menu, orphaned>>

-----------------------------------------------------------------------------
(* The record of keys.  `held` is the ledger, `escape` its latched edge,   *)
(* `ring` the messages waiting for the game.  `withheld` is history: keys  *)
(* whose last transition was kept from the game -- by the port that owns   *)
(* the key, by a full ring, or as the Return of Alt+Enter.                 *)

Message == [key : Keys, down : BOOLEAN]
KeyRecord == [held : SUBSET Keys, escape : BOOLEAN, injected : SUBSET Keys,
              ring : Seq(Message), withheld : SUBSET Keys]

With(set, k, down) == IF down THEN set \union {k} ELSE set \ {k}

(* keyboard_note: Escape's edge is latched, because a whole tap may be     *)
(* drained before the next update.                                         *)
Note(s, k, down) ==
    [s EXCEPT !.held = With(@, k, down),
              !.escape = @ \/ (down /\ k = Escape /\ k \notin s.held)]

(* The port owns Escape always and every key while its document is up.     *)
Owned(k) == k = Escape \/ menu

(* A transition on its way to the game: dropped when the port owns the key *)
(* or the ring is full.                                                    *)
ForwardOverwriting(s, k, down) ==
    IF Owned(k) THEN [s EXCEPT !.withheld = @ \union {k}]
    ELSE [s EXCEPT !.ring = Append(IF Len(s.ring) = RingSize - 1 THEN Tail(@) ELSE @,
                                   [key |-> k, down |-> down]),
                   !.withheld = @ \ {k}]
Forward(s, k, down) ==
    IF Owned(k) \/ Len(s.ring) = RingSize - 1
    THEN [s EXCEPT !.withheld = @ \union {k}]
    ELSE [s EXCEPT !.ring = Append(@, [key |-> k, down |-> down]), !.withheld = @ \ {k}]

(* push_message of a key: ledger first, then the ring.                     *)
Push(s, k, down) == Forward(Note(s, k, down), k, down)

Inject(s, k, down) ==
    Push([s EXCEPT !.injected = With(@, k, down)], k, down)

-----------------------------------------------------------------------------
(* The keyboard.                                                           *)

(* A key goes down, repeats, or comes up: noted before the document may    *)
(* consume the event, so the ledger knows of a release under the menu.     *)
PhysicalEventConsumed(k, down) ==
    /\ down \/ k \in physical
    /\ physical' = With(physical, k, down)
    /\ kb' = IF menu THEN kb ELSE Forward(Note(kb, k, down), k, down)
    /\ UNCHANGED <<game, binding, touch, menu, orphaned>>
PhysicalEvent(k, down) ==
    /\ down \/ k \in physical
    /\ physical' = With(physical, k, down)
    /\ kb' = Forward(Note(kb, k, down), k, down)
    /\ UNCHANGED <<game, binding, touch, menu, orphaned>>

(* Alt+Enter, once the document has declined it: the window's, not the     *)
(* game's.  Return has been noted, and goes down no further than that; its *)
(* release is an event like any other.                                     *)
AltReturn ==
    /\ ~menu
    /\ physical' = With(physical, Return, TRUE)
    /\ kb' = [Note(kb, Return, TRUE) EXCEPT !.withheld = @ \union {Return}]
    /\ UNCHANGED <<game, binding, touch, menu, orphaned>>

-----------------------------------------------------------------------------
(* The on-screen controls.                                                 *)

KeyOf(a) == IF a = Pause THEN Escape ELSE binding[a]

(* The transitions of a set of actions, in the order of the actions: the   *)
(* keys after the first n of them are upTo[n].                             *)
Injected(s, acts, down) ==
    LET upTo[n \in 0 .. Len(Actions)] ==
            IF n = 0 THEN s
            ELSE IF Actions[n] \in acts THEN Inject(upTo[n - 1], KeyOf(Actions[n]), down)
                 ELSE upTo[n - 1]
    IN  upTo[Len(Actions)]

(* apply_actions over one zone: a reference more or less on each of its    *)
(* actions, and a key transition for those of which the first reference    *)
(* comes or the last one goes.                                             *)
Counted(refs, z, down) ==
    [a \in ActionSet |->
        IF a \notin ZoneActions[z] THEN refs[a]
        ELSE IF down THEN refs[a] + 1
        ELSE IF refs[a] = 0 THEN 0 ELSE refs[a] - 1]

EdgesUncounted(refs, new) == {a \in ActionSet : refs[a] # new[a]}
Edges(refs, new) == {a \in ActionSet : (refs[a] > 0) # (new[a] > 0)}

ApplyZone(s, z, down) ==
    LET new == Counted(s.refs, z, down)
    IN  [refs |-> new, kb |-> Injected(s.kb, Edges(s.refs, new), down)]

NoReferences == [a \in ActionSet |-> 0]
NoContacts == [f \in Fingers |-> None]

(* cancel_all: the router forgets its contacts and every action still      *)
(* referenced is released, all in one step -- to the game only if there is *)
(* an emitter.                                                             *)
Referenced(refs) == {a \in ActionSet : refs[a] > 0}
ReleaseAll(s) == Injected(s, Referenced(touch.refs), FALSE)
Cancelled == [touch EXCEPT !.refs = NoReferences, !.contact = NoContacts]

(* Keys the controls are holding down.                                     *)
TouchKeys == {KeyOf(a) : a \in Referenced(touch.refs)}

(* sync_enabled at the head of every event: the option has been switched   *)
(* off since, and the emitter is at hand.                                  *)
Synced == touch.enabled = touch.option

Sync ==
    /\ ~Synced
    /\ touch' = [(IF touch.enabled THEN Cancelled ELSE touch) EXCEPT !.enabled = touch.option]
    /\ kb' = IF touch.enabled THEN ReleaseAll(kb) ELSE kb
    /\ UNCHANGED <<physical, game, binding, menu, orphaned>>

(* The same from the drawing path, where there is no emitter: references   *)
(* go, keys stay.                                                          *)
SyncWhileDrawing ==
    /\ ~Synced
    /\ touch' = [(IF touch.enabled THEN Cancelled ELSE touch) EXCEPT !.enabled = touch.option]
    /\ orphaned' = orphaned \union (IF touch.enabled THEN TouchKeys ELSE {})
    /\ UNCHANGED <<physical, kb, game, binding, menu>>

(* A finger comes down on a zone, lifts, or slides into another one.  The  *)
(* document does not consume fingers: rmlui_event answers 0 for them.      *)
(* (A contact the system cancels under the menu is consumed by it, and     *)
(* stays until the next cancel; here a contact ends only by lifting.)      *)
FingerDown(f, z) ==
    /\ Synced /\ touch.enabled
    /\ touch.contact[f] = None
    /\ LET s == ApplyZone([refs |-> touch.refs, kb |-> kb], z, TRUE)
       IN  /\ touch' = [touch EXCEPT !.contact[f] = z, !.refs = s.refs]
           /\ kb' = s.kb
    /\ UNCHANGED <<physical, game, binding, menu, orphaned>>

FingerUp(f) ==
    /\ Synced
    /\ touch.contact[f] # None
    /\ LET s == ApplyZone([refs |-> touch.refs, kb |-> kb], touch.contact[f], FALSE)
       IN  /\ touch' = [touch EXCEPT !.contact[f] = None, !.refs = s.refs]
           /\ kb' = s.kb
    /\ UNCHANGED <<physical, game, binding, menu, orphaned>>

FingerSlides(f, z) ==
    /\ Synced
    /\ touch.contact[f] \notin {None, z}
    /\ LET up == ApplyZone([refs |-> touch.refs, kb |-> kb], touch.contact[f], FALSE)
           s == ApplyZone(up, z, TRUE)
       IN  /\ touch' = [touch EXCEPT !.contact[f] = z, !.refs = s.refs]
           /\ kb' = s.kb
    /\ UNCHANGED <<physical, game, binding, menu, orphaned>>

(* Focus lost, application in the background, or a new layout.             *)
TouchCancelled ==
    /\ touch.refs # NoReferences
    /\ touch' = Cancelled
    /\ kb' = ReleaseAll(kb)
    /\ UNCHANGED <<physical, game, binding, menu, orphaned>>

-----------------------------------------------------------------------------
(* The menu.                                                               *)

(* pause_tick, once in the update of a frame: Escape or the controller's   *)
(* start button toggles the menu.  Opening it releases every touch first,  *)
(* while the keys are still the game's.                                    *)
PauseTick(startEdge) ==
    LET toggle == kb.escape \/ startEdge
        opens == toggle /\ ~menu
        taken == [kb EXCEPT !.escape = FALSE]
    IN  /\ menu' = (IF toggle THEN ~menu ELSE menu)
        /\ kb' = IF opens THEN ReleaseAll(taken) ELSE taken
        /\ touch' = IF opens THEN Cancelled ELSE touch
        /\ UNCHANGED <<physical, game, binding, orphaned>>

(* "Continue", a command, or Jump pressed as cancel.                       *)
CloseMenu ==
    /\ menu
    /\ menu' = FALSE
    /\ UNCHANGED <<physical, kb, game, binding, touch, orphaned>>

(* A key captured for an action, and the touch option, only in the menu.   *)
(* Nothing stops a key from standing for two actions.                      *)
Rebind(a, k) ==
    /\ menu /\ a # Pause /\ binding[a] # k
    /\ binding' = [binding EXCEPT ![a] = k]
    /\ orphaned' = orphaned \union ({binding[a]} \intersect TouchKeys)
                            \union (IF touch.refs[a] > 0 THEN {k} ELSE {})
    /\ UNCHANGED <<physical, kb, game, touch, menu>>

ToggleTouchOption ==
    /\ menu
    /\ touch' = [touch EXCEPT !.option = ~@]
    /\ UNCHANGED <<physical, kb, game, binding, menu, orphaned>>

-----------------------------------------------------------------------------
(* The game: PeekMessage with PM_REMOVE takes the oldest message and the   *)
(* window procedure files the key in the game's array.                     *)
GameTakes ==
    /\ kb.ring # << >>
    /\ kb' = [kb EXCEPT !.ring = Tail(@)]
    /\ game' = With(game, Head(kb.ring).key, Head(kb.ring).down)
    /\ UNCHANGED <<physical, binding, touch, menu, orphaned>>

-----------------------------------------------------------------------------
Init ==
    /\ physical = {} /\ game = {} /\ orphaned = {}
    /\ kb = [held |-> {}, escape |-> FALSE, injected |-> {}, ring |-> << >>, withheld |-> {}]
    /\ binding \in [ActionSet \ {Pause} -> Bindable]
    /\ touch = [option |-> TRUE, enabled |-> TRUE, contact |-> NoContacts, refs |-> NoReferences]
    /\ menu = FALSE

Keyboard == \E k \in PhysicalKeys, down \in BOOLEAN : PhysicalEvent(k, down)
Touches == \E f \in Fingers :
              \/ FingerUp(f)
              \/ \E z \in Zones : FingerDown(f, z) \/ FingerSlides(f, z)
Menu == \/ CloseMenu
        \/ \E a \in ActionSet \ {Pause}, k \in Bindable : Rebind(a, k)
        \/ ToggleTouchOption
Frame == \E startEdge \in BOOLEAN : PauseTick(startEdge)

Next == \/ Keyboard \/ AltReturn \/ Touches \/ Sync \/ SyncWhileDrawing \/ TouchCancelled
        \/ Menu \/ Frame \/ GameTakes

(* The game drains its messages; nobody has to press anything.             *)
Spec == Init /\ [][Next]_vars /\ WF_vars(GameTakes)

-----------------------------------------------------------------------------
(* Properties.                                                             *)

TypeOK ==
    /\ physical \subseteq PhysicalKeys /\ game \subseteq Keys
    /\ kb \in KeyRecord /\ Len(kb.ring) < RingSize
    /\ binding \in [ActionSet \ {Pause} -> Bindable]
    /\ touch \in [option : BOOLEAN, enabled : BOOLEAN, contact : [Fingers -> Zones \union {None}],
                  refs : [ActionSet -> 0..Cardinality(Fingers)]]
    /\ menu \in BOOLEAN /\ orphaned \subseteq Keys

(* A key the ledger holds is held by somebody: a release is never lost to  *)
(* the port itself, whatever the menu or the ring keep from the game       *)
(* (keyboard_note before rmlui_event, in hostwin_pump).                    *)
LedgerNeverSticks == kb.held \subseteq physical \union kb.injected

(* What the game, with the keys g, will think of a key once it has taken   *)
(* every message of a ring: what the last one about the key says.          *)
Pending(ring, k) == {i \in DOMAIN ring : ring[i].key = k}
WillHold(g, ring, k) ==
    IF Pending(ring, k) = {} THEN k \in g
    ELSE \E i \in Pending(ring, k) : (\A j \in Pending(ring, k) : j <= i) /\ ring[i].down

(* The game ends up with the ledger's view of every key, but for those     *)
(* whose last transition the menu, a full ring or Alt+Enter kept from it;  *)
(* and it never hears of Escape.                                           *)
GameCatchesUp ==
    /\ \A k \in Keys \ kb.withheld : WillHold(game, kb.ring, k) = (k \in kb.held)
    /\ ~WillHold(game, kb.ring, Escape)

(* The references are those of the fingers on the screen: no finger that   *)
(* was taken away, slid or cancelled leaves an action pressed.             *)
ReferencesAreFingers ==
    \A a \in ActionSet :
        touch.refs[a] = Cardinality({f \in Fingers : touch.contact[f] # None
                                                     /\ a \in ZoneActions[touch.contact[f]]})

(* What the controls hold down are keys of the actions under the fingers,  *)
(* over every slide, cancel and opening of the menu -- but for keys bound  *)
(* away, or switched off while drawing, under the finger -- and they hold  *)
(* every one of those keys, but for a key that stands for two actions:     *)
(* that one comes up with the first of the two.                            *)
Shared == {k \in Keys : \E a, b \in ActionSet : a # b /\ KeyOf(a) = k /\ KeyOf(b) = k}
TouchHoldsWhatItShows ==
    /\ ReferencesAreFingers
    /\ kb.injected \subseteq TouchKeys \union orphaned
    /\ TouchKeys \subseteq kb.injected \union orphaned \union Shared

(* While the document is up a finger changes nothing the game could see:   *)
(* rmlui_event consumes all physical input.                                *)
MenuKeepsTheFingers ==
    [][menu /\ menu' /\ (\E f \in Fingers : touch.contact[f] = None /\ touch'.contact[f] # None)
         => kb' = kb]_vars
=============================================================================
