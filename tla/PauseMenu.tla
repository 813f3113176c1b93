------------------------------ MODULE PauseMenu ------------------------------
(***************************************************************************)
(* The port's menu: the document that Escape or a controller's start       *)
(* button opens over any screen (ui/settings_ui.cpp), the actions that     *)
(* drive it from keyboard and controllers (ui/rmlui_input.cpp), the match  *)
(* it freezes (app/pause.c), and the function keys it pulses for the game  *)
(* (app/function_keys.c, overrides/cheats.c).                              *)
(*                                                                         *)
(* Steps.  Events are handled in hostwin_pump, several before the next     *)
(* frame; pause_tick runs once in the update of a frame and rmlui_render   *)
(* once in its present.  An action of the document runs inside either an   *)
(* event or a render, so the document may close under both.                *)
(***************************************************************************)
EXTENDS Naturals, Sequences, FiniteSets

CONSTANTS Attack, Jump,   \* the actions that activate and cancel
          FunctionKeys,   \* keys a command of the menu pulses
          QueueCapacity,  \* pulses that may wait (4)
          Hold,           \* frame boundaries a pulse lasts (2)
          Nothing

MenuActions == {Attack, Jump}
Entries == {"continue", "page", "rebind key", "rebind pad"}
Devices == {"key", "pad"}

ASSUME PauseMenuAssumption ==
    /\ Attack # Jump
    /\ QueueCapacity \in Nat \ {0}
    /\ Hold \in Nat \ {0}
    /\ Nothing \notin FunctionKeys /\ Nothing \notin BOOLEAN /\ Nothing \notin Devices
    /\ Entries \intersect FunctionKeys = {}

VARIABLES
    doc,      \* exists, active, and the rebinding in progress: "armed" is one
              \* of a controller button whose controllers have let go
    held,     \* device -> actions it holds
    input,    \* rmlui_input.cpp: previous, latched (action -> device), blocked
    match,    \* on: a match is on (external); paused; saved: app/pause.c, Nothing
              \* while nothing is frozen
    pulse,    \* function_keys.c: the active key, its boundaries left, the queue
    injected, \* function keys injected as down
    escape,   \* the latched edge of Escape
    log       \* history, read by properties only

menuVars == <<doc, held, input, match, pulse, injected, escape, log>>

AnyHeld == held["key"] \union held["pad"]
NoLatches == [a \in MenuActions |-> Nothing]

-----------------------------------------------------------------------------
(* Function-key pulses, over a record [pulse, injected].                   *)

Idle == [active |-> Nothing, left |-> 0, queue |-> << >>]
Accepted(p) == p.active = Nothing \/ Len(p.queue) < QueueCapacity

Start(s, k) ==
    [pulse |-> [s.pulse EXCEPT !.active = k, !.left = Hold], injected |-> s.injected \union {k}]

(* function_key_request: at once, or queued, or refused.                   *)
Request(s, k) ==
    IF s.pulse.active = Nothing THEN Start(s, k)
    ELSE IF Accepted(s.pulse) THEN [s EXCEPT !.pulse.queue = Append(@, k)]
    ELSE s

(* function_keys_tick: one boundary less, and at none left the key comes   *)
(* up; then the next one in the queue goes down, in the same tick.         *)
End(s) ==
    IF s.pulse.active = Nothing THEN s
    ELSE IF s.pulse.left > 1 THEN [s EXCEPT !.pulse.left = @ - 1]
    ELSE [pulse |-> [s.pulse EXCEPT !.active = Nothing, !.left = 0],
          injected |-> s.injected \ {s.pulse.active}]

TickKeepingHead(s) ==
    LET e == End(s)
    IN  IF e.pulse.active # Nothing \/ e.pulse.queue = << >> THEN e
        ELSE Start(e, Head(e.pulse.queue))

Tick(s) ==
    LET e == End(s)
    IN  IF e.pulse.active # Nothing \/ e.pulse.queue = << >> THEN e
        ELSE Start([e EXCEPT !.pulse.queue = Tail(@)], Head(e.pulse.queue))

Keyed == [pulse |-> pulse, injected |-> injected]

-----------------------------------------------------------------------------
(* Opening and closing.  The three words of the game's pause pipeline are  *)
(* saved, pinned and put back together: one value stands for them, TRUE    *)
(* while the match stands still.                                           *)

Frozen == match.saved # Nothing

(* open_menu.  Without a document (rmlui_init failed) nothing opens, and a *)
(* match is frozen all the same.                                           *)
OpenedMatch ==
    IF ~match.on THEN match
    ELSE [match EXCEPT !.saved = match.paused, !.paused = TRUE]

ClosedMatchPinned == [match EXCEPT !.saved = Nothing]
ClosedMatch == IF Frozen THEN [match EXCEPT !.paused = match.saved, !.saved = Nothing] ELSE match

Closed == [doc EXCEPT !.active = FALSE, !.capture = "none"]

(* rmlui_input_reset: whatever is held now must be let go first.           *)
ResetInputUnblocked == [previous |-> {}, latched |-> NoLatches, blocked |-> FALSE]
ResetInput == [previous |-> {}, latched |-> NoLatches, blocked |-> TRUE]

-----------------------------------------------------------------------------
(* What an element of the document does when it is activated.  `device` is *)
(* who did it: a controller must let go before its next button is taken.   *)

Items == Entries \union FunctionKeys

(* The document, the input state, the match and the keys after `item`.     *)
(* A command closes the menu first, and is only offered in a match.        *)
Activated(item, device, in) ==
    CASE item = "continue" ->
           [doc |-> Closed, input |-> in, match |-> ClosedMatch, keyed |-> Keyed]
      [] item = "rebind key" ->
           [doc |-> [doc EXCEPT !.capture = "key"], input |-> in, match |-> match, keyed |-> Keyed]
      [] item = "rebind pad" ->
           [doc |-> [doc EXCEPT !.capture = IF device = "key" THEN "armed" ELSE "pad"],
            input |-> [in EXCEPT !.blocked = TRUE], match |-> match, keyed |-> Keyed]
      [] item \in FunctionKeys /\ Frozen ->
           [doc |-> Closed, input |-> in, match |-> ClosedMatch, keyed |-> Request(Keyed, item)]
      [] OTHER -> [doc |-> doc, input |-> in, match |-> match, keyed |-> Keyed]

Offered(item) == item \in FunctionKeys => Frozen

(* History: the accepted requests whose key has not gone down yet.         *)
Due(item) ==
    IF item \in FunctionKeys /\ Accepted(pulse) /\ pulse.active # Nothing
    THEN Append(log.due, item) ELSE log.due

-----------------------------------------------------------------------------
(* Events.                                                                 *)

(* A key or button of an action goes down, or repeats while it is held.    *)
(* A capture takes it; otherwise it is latched for the next render.        *)
KeyDown(a, repeat) ==
    /\ repeat = (a \in held["key"])
    /\ held' = [held EXCEPT !["key"] = @ \union {a}]
    /\ IF doc.active /\ doc.capture = "key"
       THEN /\ doc' = [doc EXCEPT !.capture = "none"]
            /\ input' = [input EXCEPT !.blocked = TRUE]
            /\ UNCHANGED log
       ELSE /\ input' = IF doc.active /\ ~repeat THEN [input EXCEPT !.latched[a] = "key"] ELSE input
            /\ log' = [log EXCEPT !.credit = IF doc.active /\ ~repeat THEN @ \union {a} ELSE @]
            /\ UNCHANGED doc
    /\ UNCHANGED <<match, pulse, injected, escape>>

KeyUp(a) ==
    /\ a \in held["key"]
    /\ held' = [held EXCEPT !["key"] = @ \ {a}]
    /\ UNCHANGED <<doc, input, match, pulse, injected, escape, log>>

(* A button on a controller.  Until the controllers have let go a capture  *)
(* leaves the press to the document, which polls them.                     *)
PadDown(a) ==
    /\ a \notin held["pad"]
    /\ held' = [held EXCEPT !["pad"] = @ \union {a}]
    /\ IF doc.active /\ doc.capture \in {"pad", "armed"}
       THEN /\ doc' = [doc EXCEPT !.capture = IF @ = "armed" THEN "none" ELSE @]
            /\ input' = [input EXCEPT !.blocked = @ \/ doc.capture = "armed"]
            /\ log' = [log EXCEPT !.loose = IF doc.capture = "armed" THEN @ ELSE @ \union {a}]
       ELSE /\ input' = IF doc.active THEN [input EXCEPT !.latched[a] = "pad"] ELSE input
            /\ log' = [log EXCEPT !.credit = IF doc.active THEN @ \union {a} ELSE @]
            /\ UNCHANGED doc
    /\ UNCHANGED <<match, pulse, injected, escape>>

PadUp(a) ==
    /\ a \in held["pad"]
    /\ held' = [held EXCEPT !["pad"] = @ \ {a}]
    /\ doc' = [doc EXCEPT !.capture = IF doc.active /\ @ = "pad" THEN "armed" ELSE @]
    /\ UNCHANGED <<input, match, pulse, injected, escape, log>>

(* Escape goes down: noted by the ledger before the document sees it.  It  *)
(* cancels the capture of a key, and the menu closes at the next tick.     *)
EscapeDown ==
    /\ ~escape
    /\ escape' = TRUE
    /\ doc' = [doc EXCEPT !.capture = IF doc.active /\ @ = "key" THEN "none" ELSE @]
    /\ UNCHANGED <<held, input, match, pulse, injected, log>>

(* A click, Return or Space activates an element inside the event.         *)
Click(item) ==
    /\ doc.active /\ Offered(item)
    /\ LET r == Activated(item, "key", input)
       IN  /\ doc' = r.doc /\ input' = r.input /\ match' = r.match
           /\ pulse' = r.keyed.pulse /\ injected' = r.keyed.injected
           /\ log' = [log EXCEPT !.due = Due(item)]
    /\ UNCHANGED <<held, escape>>

-----------------------------------------------------------------------------
(* A frame.                                                                *)

(* pause_tick: the pulses, then Escape or Start toggles the menu.          *)
MenuTick(startEdge) ==
    LET t == Tick(Keyed)
        started == End(Keyed).pulse.active = Nothing /\ t.pulse.active # Nothing
        toggle == escape \/ startEdge
        opens == toggle /\ ~doc.active
        closes == toggle /\ doc.active
    IN  /\ pulse' = t.pulse /\ injected' = t.injected
        /\ escape' = FALSE
        /\ doc' = IF closes THEN Closed
                  ELSE IF opens THEN [doc EXCEPT !.active = doc.exists, !.capture = "none"] ELSE doc
        /\ input' = IF opens /\ doc.exists THEN ResetInput ELSE input
        /\ match' = IF closes THEN ClosedMatch ELSE IF opens THEN OpenedMatch ELSE match
        /\ log' = [log EXCEPT
                     !.due = IF started /\ @ # << >> THEN Tail(@) ELSE @,
                     !.wrong = @ \/ (started /\ (log.due = << >> \/ t.pulse.active # Head(log.due))),
                     !.before = IF closes THEN FALSE ELSE IF opens /\ ~Frozen THEN match.paused ELSE @,
                     !.credit = IF opens THEN {} ELSE @, !.loose = IF opens THEN {} ELSE @]
        /\ UNCHANGED held

(* rmlui_input_update while something must first be let go.                *)
RenderBlocked ==
    /\ doc.active /\ input.blocked
    /\ input' = [previous |-> AnyHeld, latched |-> NoLatches, blocked |-> AnyHeld # {}]
    /\ log' = [log EXCEPT !.credit = {}, !.loose = {}]
    /\ UNCHANGED <<doc, held, match, pulse, injected, escape>>

(* rmlui_input_update: the actions pressed since the last render act, in   *)
(* their order -- Attack activates the element in focus, Jump cancels.     *)
(* What closes the document ends this frame of it.                         *)
Pressed == {a \in MenuActions : input.latched[a] # Nothing \/ a \in AnyHeld \ input.previous}
ActedBy(a) == IF input.latched[a] # Nothing THEN input.latched[a]
              ELSE IF a \in held["pad"] THEN "pad" ELSE "key"
Settled == [input EXCEPT !.previous = AnyHeld, !.latched = NoLatches]

RenderActs(item) ==
    /\ doc.active /\ ~input.blocked
    /\ IF Attack \in Pressed THEN Offered(item) ELSE item = "page"
    /\ LET r == IF Attack \in Pressed THEN Activated(item, ActedBy(Attack), Settled)
                ELSE [doc |-> doc, input |-> Settled, match |-> match, keyed |-> Keyed]
           cancel == Jump \in Pressed
       IN  /\ doc' = IF cancel THEN [r.doc EXCEPT !.active = FALSE, !.capture = "none"] ELSE r.doc
           /\ match' = IF cancel THEN ClosedMatch ELSE r.match
           /\ input' = r.input
           /\ pulse' = r.keyed.pulse /\ injected' = r.keyed.injected
    /\ log' = [log EXCEPT !.credit = @ \ Pressed, !.loose = {},
                          !.due = IF Attack \in Pressed THEN Due(item) ELSE @]
    /\ UNCHANGED <<held, escape>>

-----------------------------------------------------------------------------
(* The match begins or ends, or the player pauses it with the game's own   *)
(* key; not while the menu holds the pipeline.                             *)
MatchChanges ==
    /\ ~doc.active /\ ~Frozen
    /\ match' = [match EXCEPT !.on = ~@, !.paused = FALSE]
    /\ UNCHANGED <<doc, held, input, pulse, injected, escape, log>>

GamePauses ==
    /\ match.on /\ ~Frozen
    /\ match' = [match EXCEPT !.paused = ~@]
    /\ UNCHANGED <<doc, held, input, pulse, injected, escape, log>>

MenuInit ==
    /\ doc \in {[exists |-> e, active |-> FALSE, capture |-> "none"] : e \in BOOLEAN}
    /\ held = [d \in Devices |-> {}]
    /\ input = ResetInput
    /\ match = [on |-> FALSE, paused |-> FALSE, saved |-> Nothing]
    /\ pulse = Idle /\ injected = {}
    /\ escape = FALSE
    /\ log = [due |-> << >>, wrong |-> FALSE, before |-> FALSE, credit |-> {}, loose |-> {}]

Event == \/ \E a \in MenuActions : KeyUp(a) \/ PadDown(a) \/ PadUp(a)
         \/ \E a \in MenuActions, repeat \in BOOLEAN : KeyDown(a, repeat)
         \/ EscapeDown
         \/ \E item \in Items : Click(item)
MenuFrame == \E startEdge \in BOOLEAN : MenuTick(startEdge)
Render == RenderBlocked \/ \E item \in Items : RenderActs(item)

MenuNext == Event \/ MenuFrame \/ Render \/ MatchChanges \/ GamePauses

MenuSpec == MenuInit /\ [][MenuNext]_menuVars

-----------------------------------------------------------------------------
(* Properties.                                                             *)

MenuTypeOK ==
    /\ doc \in [exists : BOOLEAN, active : BOOLEAN, capture : {"none", "key", "pad", "armed"}]
    /\ held \in [Devices -> SUBSET MenuActions]
    /\ input \in [previous : SUBSET MenuActions, latched : [MenuActions -> Devices \union {Nothing}], blocked : BOOLEAN]
    /\ match \in [on : BOOLEAN, paused : BOOLEAN, saved : BOOLEAN \union {Nothing}]
    /\ pulse \in [active : FunctionKeys \union {Nothing}, left : 0..Hold, queue : Seq(FunctionKeys)]
    /\ Len(pulse.queue) <= QueueCapacity
    /\ injected \subseteq FunctionKeys
    /\ escape \in BOOLEAN

(* What the next render will take for pressed are the presses made since   *)
(* the last one while the menu was up, each once: the button that opened   *)
(* the menu, activated the element or was captured does nothing until it   *)
(* is pressed again, and a tap shorter than a frame is not lost (the two   *)
(* ways a press is noticed, event and polled edge, and block_until_        *)
(* release).  `loose` presses may be lost: those a capture left alone.     *)
PressesActOnce ==
    doc.active /\ ~input.blocked =>
        Pressed \subseteq log.credit \union log.loose /\ log.credit \subseteq Pressed

(* One function key is down at a time, and it is the active one; accepted  *)
(* requests wait in the queue, go down in the order they were made, and    *)
(* never wait for nothing.                                                 *)
PulsesInOrder ==
    /\ injected = {pulse.active} \ {Nothing}
    /\ log.due = pulse.queue /\ ~log.wrong
    /\ pulse.queue # << >> => pulse.active # Nothing

(* The match the menu froze goes on as it was when the menu lets go of it: *)
(* running if it ran, paused if the player had paused it; and nothing      *)
(* stays frozen behind a closed menu, whichever way it closed.  Not if the *)
(* document does not exist: then nothing opens, and each Escape saves the  *)
(* pinned words again.                                                     *)
PauseIsGivenBack ==
    [][doc.exists =>
         /\ Frozen' => doc'.active
         /\ Frozen /\ ~Frozen' => match'.paused = log.before]_menuVars

(* "A rebind capture takes the next key": one that goes down after the     *)
(* capture began.                                                          *)
CaptureTakesTheNextKey ==
    [][doc.capture = "key" /\ doc'.capture = "none" /\ doc'.active
         => held' # held \/ escape' # escape]_menuVars
=============================================================================
