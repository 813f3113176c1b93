------------------------------- MODULE DropIn -------------------------------
(* Devices, player slots and drop-in play on the game thread:               *)
(*   runtime/input/gamepad.c     controllers come and go                    *)
(*   runtime/overrides/input.c   the per-frame gather: claims and buttons   *)
(*   runtime/overrides/coop.c    join, choose, lock in, leave               *)
(*   runtime/overrides/hud.c     the pass that shows a chooser's panel      *)
(*   runtime/app/pause.c         the menu that withholds input, drop-out    *)
(* The retail game around them (character selection, match start and end)   *)
(* is external.  A frame is: pump, one claim and one tick per device, the   *)
(* write of the buttons, the game's own step, and the HUD pass.             *)
EXTENDS Naturals, FiniteSets

CONSTANTS
  NSlots,      \* PLAYER_SLOTS (8)
  NPads,       \* GAMEPAD_MAX_DEVICES (4)
  Pads,        \* the physical controllers
  NoPad,       \* an unbound controller index
  NRoster,     \* playable characters in the registry
  Presses,     \* the button sets a device may report
  Configured,  \* slots whose selector the game sets before any match
  Listable     \* slots in which character selection may list a computer

Slots == 0 .. NSlots - 1
PadSlots == 1 .. NPads
Devices == 0 .. NPads       \* 0 is the keyboard
None == NSlots              \* "no player", -1 in the code
Picks == 0 .. NRoster - 1
Idle == NRoster             \* this slot is not choosing
Buttons == {"left", "right", "attack"}
Roles == {"none", "game", "computer", "port"}

ASSUME SlotsAssumption == NSlots \in Nat \ {0}
ASSUME PadsAssumption == NPads \in Nat /\ NoPad \notin Pads
ASSUME RosterAssumption == NRoster \in Nat \ {0}
ASSUME PressesAssumption == Presses \subseteq SUBSET Buttons /\ {} \in Presses
ASSUME ConfiguredAssumption == Configured \subseteq Slots
ASSUME ListableAssumption == Listable \subseteq Slots

VARIABLES
  mode,       \* the retail game: front end, character selection or a match
  npc,        \* a computer's fighter, at its own high index, is in the world
  exists,     \* EXISTS: the slots whose gate byte is up
  devsel,     \* DEVSEL: the slots whose device selector is positive
  joined,     \* JOINED_MASK
  role,       \* who filled each slot of the roster
  character,  \* the character each slot's record was built as
  held,       \* the buttons in each slot's record
  attached,   \* controllers that are plugged in
  pad,        \* slot[] of gamepad.c
  devPlayer,  \* dev_player[]
  devPrev,    \* dev_prev[]
  btn,        \* the buttons each device reported to this gather
  roster,     \* roster_n: not read, read, or refused for good
  choice,     \* sel_active[] and sel_pick[]
  since,      \* slots whose selection began in this frame: sel_since[]
  owned,      \* coop_owned[]
  menu,       \* the pause menu: open, opened in a match, by which device
  raised,     \* slots the HUD pass has raised
  pc, cur     \* where the frame is, and the device being gathered

game == <<mode, npc, role>>
world == <<exists, devsel, joined, character>>
pads == <<attached, pad>>
claims == <<devPlayer, devPrev, btn>>
coop == <<roster, choice, since, owned>>
vars == <<game, world, held, pads, claims, coop, menu, raised, pc, cur>>

-----------------------------------------------------------------------------
InGame == mode # "front"
Present(d) == d # 0 => pad[d] # NoPad
Choosing(s) == s \in Slots /\ choice[s] # Idle
MatchRunning == mode = "match" /\ (exists # {} \/ npc)

Lowest(S) == CHOOSE s \in S : \A t \in S : s <= t

Init ==
  /\ mode = "front" /\ npc = FALSE /\ role = [s \in Slots |-> "none"]
  /\ exists = {} /\ devsel = Configured /\ joined = {}
  /\ character = [s \in Slots |-> Idle]
  /\ held = [s \in Slots |-> {}]
  /\ attached = {} /\ pad = [i \in PadSlots |-> NoPad]
  /\ devPlayer = [d \in Devices |-> None]
  /\ devPrev = [d \in Devices |-> {}] /\ btn = [d \in Devices |-> {}]
  /\ roster = "unread"
  /\ choice = [s \in Slots |-> Idle] /\ since = {} /\ owned = {}
  /\ menu = [open |-> FALSE, inMatch |-> FALSE, dev |-> None, slot |-> None]
  /\ raised = {} /\ pc = "pump" /\ cur = 0

-----------------------------------------------------------------------------
(* The pump: hotplug, the pause menu, and the start of the gather.          *)

\* bind_available: every controller without an index is opened and takes the
\* first free one.  One that cannot be opened, or finds all taken, waits for
\* the next arrival.
BindAvailable(A) ==
  {q \in [PadSlots -> A \cup {NoPad}] :
     /\ \A i \in PadSlots : pad[i] # NoPad => q[i] = pad[i]
     /\ \A i, j \in PadSlots : i # j /\ q[i] # NoPad => q[i] # q[j]
     /\ \A i, j \in PadSlots : i < j /\ q[j] # pad[j] => q[i] # NoPad}

Attach(p) ==
  /\ pc = "pump" /\ p \notin attached
  /\ attached' = attached \cup {p}
  /\ pad' \in BindAvailable(attached')
  /\ UNCHANGED <<game, world, held, claims, coop, menu, raised, pc, cur>>

Detach(p) ==
  /\ pc = "pump" /\ p \in attached
  /\ attached' = attached \ {p}
  /\ pad' = [i \in PadSlots |-> IF pad[i] = p THEN NoPad ELSE pad[i]]
  /\ UNCHANGED <<game, world, held, claims, coop, menu, raised, pc, cur>>

OpenMenu(d) ==
  /\ pc = "pump" /\ ~menu.open /\ Present(d)
  /\ menu' = [open |-> TRUE, inMatch |-> mode = "match", dev |-> d,
              slot |-> devPlayer[d]]
  /\ UNCHANGED <<game, world, held, pads, claims, coop, raised, pc, cur>>

Closed == [open |-> FALSE, inMatch |-> FALSE, dev |-> None, slot |-> None]
CloseMenu ==
  /\ pc = "pump" /\ menu.open
  /\ menu' = Closed
  /\ UNCHANGED <<game, world, held, pads, claims, coop, raised, pc, cur>>

\* coop_leave for a slot the port filled.
Leave(s) ==
  /\ choice' = [choice EXCEPT ![s] = Idle]
  /\ exists' = exists \ {s}
  /\ devsel' = devsel \ {s}
  /\ joined' = joined \ {s}
  /\ owned' = owned \ {s}
  /\ role' = [role EXCEPT ![s] = "none"]

\* Mutant: the menu drops whoever holds the keyboard.
DropOutKeyboard ==
  LET s == devPlayer[0]
  IN  /\ pc = "pump" /\ menu.open /\ menu.inMatch
      /\ s \in owned
      /\ menu' = Closed
      /\ Leave(s)
      /\ UNCHANGED <<mode, npc, character, held, pads, claims, roster, since,
                     raised, pc, cur>>

DropOut ==
  LET s == devPlayer[menu.dev]
  IN  /\ pc = "pump" /\ menu.open /\ menu.inMatch
      /\ s \in owned
      /\ menu' = Closed
      /\ Leave(s)
      /\ UNCHANGED <<mode, npc, character, held, pads, claims, roster, since,
                     raised, pc, cur>>

StartGather ==
  /\ pc = "pump"
  /\ pc' = "claim" /\ cur' = 0 /\ since' = {}
  /\ devPlayer' = IF InGame THEN devPlayer ELSE [d \in Devices |-> None]
  /\ choice' = IF InGame THEN choice ELSE [s \in Slots |-> Idle]
  /\ owned' = IF InGame THEN owned ELSE {}
  /\ UNCHANGED <<game, world, held, pads, devPrev, btn, roster, menu, raised>>

-----------------------------------------------------------------------------
(* The gather, one device at a time.                                        *)

\* device_buttons: an open menu keeps every device's buttons from the game.
Reported == IF menu.open THEN {{}} ELSE Presses
\* Mutant: a claim sees only the devices gathered before it.
ClaimedSoFar == {devPlayer[e] : e \in {x \in Devices : x < cur}}
Claimed == {devPlayer[e] : e \in Devices}
MayClaim(d, b) ==
  InGame /\ devPlayer[d] = None /\ b \ devPrev[d] # {} /\ Slots \ Claimed # {}
FirstUnclaimed == Lowest(Slots \ Claimed)

NextDevice ==
  IF cur = NPads THEN pc' = "write" /\ cur' = 0
  ELSE pc' = "claim" /\ cur' = cur + 1

\* Mutant: a vanished device leaves its fighter standing.
AbsentKeepsFighter(d) ==
  /\ pc = "claim" /\ cur = d /\ ~Present(d)
  /\ devPrev' = [devPrev EXCEPT ![d] = {}]
  /\ btn' = [btn EXCEPT ![d] = {}]
  /\ NextDevice
  /\ UNCHANGED <<game, world, held, pads, roster, choice, since, owned,
                 devPlayer, menu, raised>>

\* A device that is gone takes with it the fighter the port gave it.
Absent(d) ==
  /\ pc = "claim" /\ cur = d /\ ~Present(d)
  /\ devPrev' = [devPrev EXCEPT ![d] = {}]
  /\ btn' = [btn EXCEPT ![d] = {}]
  /\ IF InGame /\ devPlayer[d] \in owned
     THEN Leave(devPlayer[d]) /\ devPlayer' = [devPlayer EXCEPT ![d] = None]
     ELSE UNCHANGED <<choice, exists, devsel, joined, owned, role, devPlayer>>
  /\ NextDevice
  /\ UNCHANGED <<mode, npc, character, held, pads, roster, since, menu,
                 raised>>

Read(d, b) ==
  /\ pc = "claim" /\ cur = d /\ Present(d) /\ b \in Reported
  /\ btn' = [btn EXCEPT ![d] = b]
  /\ pc' = "tick"
  /\ UNCHANGED <<mode, npc, exists, held, pads, devPrev, menu, raised, cur>>
JoinsNobody ==
  UNCHANGED <<role, devsel, joined, character, choice, since, owned>>

NoClaim(d, b) ==
  /\ Read(d, b)
  /\ ~MayClaim(d, b)
  /\ JoinsNobody /\ UNCHANGED <<devPlayer, roster>>

Claims(d, p) == devPlayer' = [devPlayer EXCEPT ![d] = p]

\* Character selection, or a slot that has its fighter: the claim is all.
ClaimSlot(d, b) ==
  /\ Read(d, b)
  /\ MayClaim(d, b) /\ (~MatchRunning \/ FirstUnclaimed \in exists)
  /\ Claims(d, FirstUnclaimed)
  /\ JoinsNobody /\ UNCHANGED roster

\* The slot a newcomer gets: the lowest with no fighter that no device holds.
\* Its own claim, just made, counts as a device's.
DropInSlot ==
  LET open == (Slots \ exists) \ (Claimed \cup {FirstUnclaimed})
  IN  IF open = {} THEN FirstUnclaimed ELSE Lowest(open)

DropsIn(d, b) ==
  /\ Read(d, b)
  /\ MayClaim(d, b) /\ MatchRunning /\ FirstUnclaimed \notin exists
  /\ Claims(d, DropInSlot)

\* coop_roster_ready: a refused read of the registry stands, one that found
\* nobody is tried again.
DropInRefused(d, b) ==
  /\ DropsIn(d, b)
  /\ roster # "ready"
  /\ roster' \in {roster, "refused"}
  /\ JoinsNobody

\* coop_select_begin and coop_join: the slot is taken, its record is built,
\* and it is put straight back out of the world.
DropIn(d, b) ==
  /\ DropsIn(d, b)
  /\ roster # "refused" /\ roster' = "ready"
  /\ LET p == DropInSlot
     IN  /\ devsel' = devsel \cup {p} /\ joined' = joined \cup {p}
         /\ owned' = owned \cup {p} /\ since' = since \cup {p}
         /\ role' = [role EXCEPT ![p] = "port"]
         /\ \E start \in Picks :
               /\ choice' = [choice EXCEPT ![p] = start]
               /\ character' = [character EXCEPT ![p] = start]

\* coop_select_tick, for the slot the device holds.  Every press is an edge.
Edge(d, b) == b \in btn[d] /\ b \notin devPrev[d]
\* Mutant: outside a match the choice is left as it is.
TicksInMatch(d) ==
  LET s == devPlayer[d]
  IN  MatchRunning /\ Choosing(s) /\ s \notin since
Ticks(d) ==
  LET s == devPlayer[d]
  IN  InGame /\ Choosing(s) /\ s \notin since

TickEnds(d) ==
  /\ pc = "tick" /\ cur = d
  /\ devPrev' = [devPrev EXCEPT ![d] = btn[d]]
  /\ NextDevice
  /\ UNCHANGED <<game, devsel, joined, held, pads, devPlayer, btn, roster,
                 since, owned, menu, raised>>

NoTick(d) ==
  /\ TickEnds(d)
  /\ \/ ~Ticks(d)
     \/ MatchRunning /\ \A b \in Buttons : ~Edge(d, b)
  /\ UNCHANGED <<exists, character, choice>>

\* The match stopped under a choice: it is given up.
Abandon(d) ==
  /\ TickEnds(d)
  /\ Ticks(d) /\ ~MatchRunning
  /\ choice' = [choice EXCEPT ![devPlayer[d]] = Idle]
  /\ UNCHANGED <<exists, character>>

\* The one place the fighter enters the world.
LockIn(d) ==
  LET s == devPlayer[d]
  IN  /\ TickEnds(d)
      /\ Ticks(d) /\ MatchRunning /\ Edge(d, "attack")
      /\ choice' = [choice EXCEPT ![s] = Idle]
      /\ character' = [character EXCEPT ![s] = choice[s]]
      /\ exists' = exists \cup {s}

\* Mutant: the rebuilt record stays in the world.
CycleOnStage(d) ==
  LET s == devPlayer[d]
      next == (choice[s] + 1) % NRoster
  IN  /\ TickEnds(d)
      /\ Ticks(d) /\ MatchRunning /\ Edge(d, "right")
      /\ choice' = [choice EXCEPT ![s] = next]
      /\ character' = [character EXCEPT ![s] = next]
      /\ exists' = exists \cup {s}

\* The record is rebuilt for the next character, out of the world.
Cycle(d) ==
  LET s == devPlayer[d]
      step == IF Edge(d, "right") THEN 1 ELSE NRoster - 1
      next == (choice[s] + step) % NRoster
  IN  /\ TickEnds(d)
      /\ Ticks(d) /\ MatchRunning /\ ~Edge(d, "attack")
      /\ Edge(d, "left") \/ Edge(d, "right")
      /\ choice' = [choice EXCEPT ![s] = next]
      /\ character' = [character EXCEPT ![s] = next]
      /\ exists' = exists \ {s}

\* Every live slot gets the buttons of its own devices; a chooser gets none.
Target(d) == IF InGame THEN devPlayer[d] ELSE 0
ButtonsFor(s) ==
  IF InGame /\ Choosing(s) THEN {}
  ELSE UNION {btn[d] : d \in {e \in Devices : Present(e) /\ Target(e) = s}}
WriteButtons ==
  /\ pc = "write"
  /\ held' = [s \in Slots |-> IF s \in devsel THEN ButtonsFor(s) ELSE held[s]]
  /\ btn' = [d \in Devices |-> {}]
  /\ pc' = "game"
  /\ UNCHANGED <<game, world, pads, devPlayer, devPrev, coop, menu, raised,
                 cur>>

-----------------------------------------------------------------------------
(* The retail game's own step (external).  It is frozen while a menu opened *)
(* in a match is up, and never goes back to its front end.  It has read the *)
(* buttons, which the next gather writes again, and outside a match the     *)
(* records are its own.                                                     *)

GameStep(from, to) ==
  /\ pc = "game" /\ mode \in from /\ mode' = to
  /\ pc' = IF to = "match" THEN "hud" ELSE "pump"
  /\ held' = [s \in Slots |-> {}]
  /\ character' = IF to = "match" THEN character ELSE [s \in Slots |-> Idle]
  /\ UNCHANGED <<pads, claims, coop, menu, raised, cur>>
Frozen == menu.inMatch

GameIdle ==
  /\ GameStep({mode}, mode)
  /\ UNCHANGED <<npc, role, exists, devsel, joined>>

EnterGame ==
  /\ GameStep({"front"}, "select")
  /\ UNCHANGED <<npc, role, exists, devsel, joined>>

\* Character selection: a player joins with its attack, or a computer is
\* listed in a slot.
JoinInSelection(s) ==
  /\ GameStep({"select"}, "select") /\ s \notin joined /\ "attack" \in held[s]
  /\ joined' = joined \cup {s}
  /\ role' = [role EXCEPT ![s] = "game"]
  /\ UNCHANGED <<npc, exists, devsel>>

ListComputer(s) ==
  /\ GameStep({"select"}, "select") /\ s \in Listable \ joined
  /\ joined' = joined \cup {s} /\ devsel' = devsel \cup {s}
  /\ role' = [role EXCEPT ![s] = "computer"]
  /\ UNCHANGED <<npc, exists>>

ClearRoster ==
  /\ GameStep({"select"}, "select")
  /\ joined' = {} /\ role' = [s \in Slots |-> "none"]
  /\ UNCHANGED <<npc, exists, devsel>>

StartMatch ==
  /\ GameStep({"select"}, "match") /\ joined # {}
  /\ exists' = {s \in joined : role[s] # "computer"}
  /\ npc' = (\E s \in joined : role[s] = "computer")
  /\ UNCHANGED <<role, devsel, joined>>

\* The game takes a fighter out of the world, or the match ends.
Sweep(s) ==
  /\ GameStep({"match"}, "match") /\ ~Frozen /\ s \in exists
  /\ exists' = exists \ {s}
  /\ UNCHANGED <<npc, role, devsel, joined>>

EndMatch ==
  /\ GameStep({"match"}, "select") /\ ~Frozen
  /\ exists' = {} /\ npc' = FALSE
  /\ UNCHANGED <<role, devsel, joined>>

\* hud.c: the slots whose panel is lit are raised for the game's own pass.
HudRaise ==
  /\ pc = "hud"
  /\ raised' \in SUBSET {s \in Slots \ exists : Choosing(s)}
  /\ exists' = exists \cup raised'
  /\ pc' = "lower"
  /\ UNCHANGED <<game, devsel, joined, character, held, pads, claims, coop,
                 menu, cur>>

HudLower ==
  /\ pc = "lower"
  /\ exists' = exists \ raised /\ raised' = {}
  /\ pc' = "pump"
  /\ UNCHANGED <<game, devsel, joined, character, held, pads, claims, coop,
                 menu, cur>>

-----------------------------------------------------------------------------
Pump ==
  \/ \E p \in Pads : Attach(p) \/ Detach(p)
  \/ \E d \in Devices : OpenMenu(d)
  \/ CloseMenu
  \/ DropOut
DeviceStep(d) ==
  \/ Absent(d)
  \/ \E b \in Presses : \/ NoClaim(d, b) \/ ClaimSlot(d, b)
                        \/ DropInRefused(d, b) \/ DropIn(d, b)
  \/ NoTick(d) \/ Abandon(d) \/ LockIn(d) \/ Cycle(d)
Game ==
  \/ GameIdle \/ EnterGame \/ ClearRoster \/ StartMatch \/ EndMatch
  \/ \E s \in Slots : JoinInSelection(s) \/ ListComputer(s) \/ Sweep(s)
\* The steps the frame loop takes by itself, whatever players do.
Frame ==
  \/ StartGather \/ (\E d \in Devices : DeviceStep(d)) \/ WriteButtons
  \/ Game \/ HudRaise \/ HudLower

Next == Pump \/ Frame

\* The game thread keeps drawing frames.
Spec == Init /\ [][Next]_vars /\ WF_vars(Frame)

-----------------------------------------------------------------------------
\* Every variable keeps its type: claims name a slot or nobody, indexes hold
\* a controller or nothing, and only the HUD pass raises gates.
TypeOK ==
  /\ mode \in {"front", "select", "match"} /\ npc \in BOOLEAN
  /\ exists \subseteq Slots /\ devsel \subseteq Slots /\ joined \subseteq Slots
  /\ role \in [Slots -> Roles]
  /\ character \in [Slots -> Picks \cup {Idle}]
  /\ held \in [Slots -> SUBSET Buttons]
  /\ attached \subseteq Pads /\ pad \in [PadSlots -> attached \cup {NoPad}]
  /\ devPlayer \in [Devices -> Slots \cup {None}]
  /\ devPrev \in [Devices -> Presses] /\ btn \in [Devices -> Presses]
  /\ roster \in {"unread", "ready", "refused"}
  /\ choice \in [Slots -> Picks \cup {Idle}]
  /\ since \subseteq Slots /\ owned \subseteq Slots
  /\ menu \in [open : BOOLEAN, inMatch : BOOLEAN,
               dev : Devices \cup {None}, slot : Slots \cup {None}]
  /\ menu.open => menu.dev \in Devices
  /\ raised \subseteq exists /\ (pc # "lower" => raised = {})
  /\ pc \in {"pump", "claim", "tick", "write", "game", "hud", "lower"}
  /\ cur \in Devices

\* No two devices drive one player, through claims, drop-ins, unplugging and
\* rebinding in any order (input.c: dev_player).
OneDevicePerPlayer ==
  \A d, e \in Devices :
     d # e /\ devPlayer[d] # None => devPlayer[d] # devPlayer[e]

\* Whoever is still choosing is not in the world: the step of the game and
\* the stage pass never see it, only the HUD pass does (coop.c, hud.c).
ChoosersStayOffStage ==
  \A s \in Slots : Choosing(s) => s \notin exists \ raised

\* A choice in progress always has a device to finish it, a selector that
\* delivers its buttons afterwards, and the port as its owner, so it can
\* neither flash for ever nor survive its player.
ChooserHasItsDevice ==
  \A s \in Slots :
     Choosing(s) => /\ s \in owned \cap devsel \cap joined
                    /\ \E d \in Devices : devPlayer[d] = s

\* The panel a chooser looks at shows the character it would lock in: the
\* record was rebuilt with the pick (coop_select_tick).
PanelShowsTheChoice ==
  mode = "match" => \A s \in Slots : Choosing(s) => character[s] = choice[s]

\* When the game takes its step, no button has reached it from behind an
\* open menu, and none from a device that is choosing.
WithheldButtonsReachNobody ==
  pc = "game" =>
     \A s \in devsel : menu.open \/ (InGame /\ Choosing(s)) => held[s] = {}

\* Dropping out from the pause menu takes the player who opened it and
\* nobody else, whatever was unplugged or replugged meanwhile (pause.c).
DropsTheOpener ==
  [][menu.open /\ pc = "pump" /\ owned' # owned
       => owned \ owned' = {menu.slot}]_vars

\* The port's joins, choices and departures implement PlayerSeats: nobody
\* goes back from the fight to the choice, nobody is built over.
Seat(s) == IF Choosing(s) THEN "choosing"
           ELSE IF s \in exists \ raised THEN "playing" ELSE "empty"
Promise == INSTANCE PlayerSeats WITH Seats <- Slots,
                                     seat <- [s \in Slots |-> Seat(s)]
SeatsAsPromised == Promise!Spec

\* A fighter the port joined leaves when its controller is gone, unless a
\* controller is bound to the same index first (input.c: drop-out).
UnpluggedFighterLeaves ==
  \A d \in PadSlots : \A s \in Slots :
     (pad[d] = NoPad /\ devPlayer[d] = s /\ s \in owned)
        ~> (pad[d] # NoPad \/ s \notin owned)
=============================================================================
