---------------------------- MODULE DropInProofs ----------------------------
(***************************************************************************)
(* Proofs about DropIn for any number of slots, controllers, characters    *)
(* and button sets.  The inductive invariant IInv adds to the properties   *)
(* what makes them hold from one frame to the next: outside a match nobody *)
(* stands in the world and every choice left over still has its device     *)
(* ahead of it in this gather, no button is kept behind an open menu, and  *)
(* the menu's device can lose its player but not get another.              *)
(***************************************************************************)
EXTENDS DropIn, TLAPS, WellFoundedInduction

\* Nothing is joined before the game proper is entered.
FrontInv == mode = "front" => owned = {} /\ \A s \in Slots : choice[s] = Idle

\* Gates are up in a match only, and so is the HUD pass.
GateInv == mode # "match" => exists = {} /\ pc \notin {"hud", "lower"}

\* A choice that outlived its match is given up before the game steps again:
\* the device that will do it is still to come.
Leftover(s) ==
  \/ pc = "pump"
  \/ /\ pc \in {"claim", "tick"} /\ s \notin since
     /\ \E d \in Devices : cur <= d /\ devPlayer[d] = s
OverInv == mode # "match" => \A s \in Slots : Choosing(s) => Leftover(s)

\* Buttons are known only inside a gather, and never behind an open menu.
ButtonInv ==
  \A d \in Devices :
     menu.open \/ pc \notin {"claim", "tick", "write"} => btn[d] = {}

\* While the menu is open its device has the player it came with, or none.
MenuInv == menu.open => devPlayer[menu.dev] \in {menu.slot, None}

SeatInv == /\ OneDevicePerPlayer /\ ChoosersStayOffStage
           /\ ChooserHasItsDevice /\ PanelShowsTheChoice
MatchInv == FrontInv /\ GateInv /\ OverInv
InputInv == ButtonInv /\ WithheldButtonsReachNobody /\ MenuInv
IInv == TypeOK /\ SeatInv /\ MatchInv /\ InputInv

-----------------------------------------------------------------------------
(* A non-empty set of slots has a lowest member, and what that says of the  *)
(* slots a device claims.                                                   *)

Less == {ss \in Nat \X Nat : ss[1] < ss[2]}

LEMMA LessIsWellFounded == IsWellFoundedOn(Less, Nat)
  BY NatLessThanWellFounded DEF OpToRel, Less

LEMMA LowestInSet ==
  ASSUME NEW S, S \subseteq Nat, S # {}
  PROVE  Lowest(S) \in S /\ \A t \in S : Lowest(S) <= t
<1>1. PICK x \in S : \A y \in S : <<y, x>> \notin Less
  BY LessIsWellFounded, WFMin
<1>2. ASSUME NEW y \in S PROVE x <= y
  <2>1. x \in Nat /\ y \in Nat OBVIOUS
  <2>2. <<y, x>> \in Less <=> y < x BY <2>1 DEF Less
  <2>. QED BY <1>1, <2>1, <2>2
<1>. QED BY <1>2 DEF Lowest

LEMMA FirstUnclaimedIsFree ==
  ASSUME Slots \ Claimed # {}
  PROVE  FirstUnclaimed \in Slots \ Claimed
<1>1. Slots \ Claimed \subseteq Nat BY SlotsAssumption DEF Slots
<1>. QED BY <1>1, LowestInSet DEF FirstUnclaimed

\* A newcomer's slot is held by no device, and has no fighter in it when the
\* claimed one had none.
LEMMA DropInSlotIsFree ==
  ASSUME Slots \ Claimed # {}
  PROVE  /\ DropInSlot \in Slots \ Claimed
         /\ FirstUnclaimed \notin exists => DropInSlot \notin exists
<1>. DEFINE open == (Slots \ exists) \ (Claimed \cup {FirstUnclaimed})
<1>1. open \subseteq Nat BY SlotsAssumption DEF Slots
<1>2. open # {} => Lowest(open) \in open BY <1>1, LowestInSet
<1>3. DropInSlot = IF open = {} THEN FirstUnclaimed ELSE Lowest(open)
  BY DEF DropInSlot
<1>. QED BY <1>2, <1>3, FirstUnclaimedIsFree

\* The same two facts, for the slot an action claims.
LEMMA ClaimedSlotIsFree ==
  ASSUME NEW d \in Devices, NEW b \in Presses, MayClaim(d, b)
  PROVE  /\ FirstUnclaimed \in Slots \ Claimed
         /\ DropInSlot \in Slots \ Claimed
         /\ FirstUnclaimed \notin exists => DropInSlot \notin exists
  BY FirstUnclaimedIsFree, DropInSlotIsFree DEF MayClaim

\* What the actions of a gather do to the slot they are about.
LEMMA ClaimEffect ==
  ASSUME NEW d \in Devices, NEW b \in Presses,
         ClaimSlot(d, b) \/ DropInRefused(d, b)
  PROVE  \E p \in Slots : /\ devPlayer[d] = None
                          /\ \A e \in Devices : devPlayer[e] # p
                          /\ devPlayer' = [devPlayer EXCEPT ![d] = p]
<1>1. MayClaim(d, b) BY DEF ClaimSlot, DropInRefused, DropsIn
<1>2. \/ Claims(d, FirstUnclaimed)
      \/ Claims(d, DropInSlot)
  BY DEF ClaimSlot, DropInRefused, DropsIn
<1>. QED BY <1>1, <1>2, ClaimedSlotIsFree DEF Claims, Claimed, MayClaim

LEMMA DropInEffect ==
  ASSUME NEW d \in Devices, NEW b \in Presses, DropIn(d, b)
  PROVE  \E p \in Slots, start \in Picks :
            /\ p \notin exists /\ devPlayer[d] = None
            /\ \A e \in Devices : devPlayer[e] # p
            /\ devPlayer' = [devPlayer EXCEPT ![d] = p]
            /\ devsel' = devsel \cup {p} /\ joined' = joined \cup {p}
            /\ owned' = owned \cup {p} /\ since' = since \cup {p}
            /\ role' = [role EXCEPT ![p] = "port"]
            /\ choice' = [choice EXCEPT ![p] = start]
            /\ character' = [character EXCEPT ![p] = start]
<1>1. MayClaim(d, b) /\ FirstUnclaimed \notin exists BY DEF DropIn, DropsIn
<1>2. /\ DropInSlot \in Slots /\ DropInSlot \notin exists
      /\ \A e \in Devices : devPlayer[e] # DropInSlot
  BY <1>1, ClaimedSlotIsFree DEF Claimed
<1>3. devPlayer' = [devPlayer EXCEPT ![d] = DropInSlot]
  BY DEF DropIn, DropsIn, Claims
<1>. QED BY <1>1, <1>2, <1>3 DEF DropIn, MayClaim

Leaves(s) ==
  /\ choice' = [choice EXCEPT ![s] = Idle]
  /\ exists' = exists \ {s} /\ owned' = owned \ {s}
  /\ devsel' = devsel \ {s} /\ joined' = joined \ {s}
  /\ role' = [role EXCEPT ![s] = "none"]

LEMMA LeavesEmpty == ASSUME NEW s, Leaves(s), exists = {} PROVE exists' = {}
  BY DEF Leaves

LEMMA AbsentEffect ==
  ASSUME TypeOK, NEW d \in Devices, Absent(d)
  PROVE  \/ \E s \in Slots :
              /\ InGame /\ s = devPlayer[d] /\ s \in owned /\ Leaves(s)
              /\ devPlayer' = [devPlayer EXCEPT ![d] = None]
         \/ /\ ~(InGame /\ devPlayer[d] \in owned)
            /\ UNCHANGED <<choice, exists, devsel, joined, owned, role,
                           devPlayer>>
<1>1. owned \subseteq Slots BY DEF TypeOK
<1>. QED BY <1>1 DEF Absent, Leave, Leaves

LEMMA DropOutEffect ==
  ASSUME TypeOK, DropOut
  PROVE  \E s \in Slots : s = devPlayer[menu.dev] /\ s \in owned /\ Leaves(s)
<1>1. owned \subseteq Slots BY DEF TypeOK
<1>. QED BY <1>1 DEF DropOut, Leave, Leaves

LEMMA AddSlot ==
  ASSUME NEW S, S \subseteq Slots, NEW p \in Slots
  PROVE  S \cup {p} \subseteq Slots /\ S \ {p} \subseteq Slots
  OBVIOUS

\* What is written to a record is made of buttons.
LEMMA ButtonsAreButtons ==
  ASSUME TypeOK, NEW s \in Slots
  PROVE  ButtonsFor(s) \in SUBSET Buttons
<1>1. \A e \in Devices : btn[e] \in Presses BY DEF TypeOK
<1>2. \A b \in Presses : b \subseteq Buttons BY PressesAssumption
<1>. QED BY <1>1, <1>2, Zenon DEF ButtonsFor

\* Every step keeps the types.
LEMMA TypeStep == IInv /\ [Next]_vars => TypeOK'
<1>. SUFFICES ASSUME IInv, [Next]_vars PROVE TypeOK'
  OBVIOUS
<1>. USE SlotsAssumption, PadsAssumption, RosterAssumption,
          PressesAssumption, ConfiguredAssumption
     DEF game, world, pads, claims, coop, IInv, Choosing, TypeOK, Slots,
         PadSlots, Devices, None, Picks, Idle, Roles, Buttons
<1>1. ASSUME NEW p \in Pads, Attach(p) PROVE TypeOK'
  BY <1>1, SMTT(30) DEF Attach, BindAvailable
<1>2. ASSUME NEW p \in Pads, Detach(p) PROVE TypeOK'
  BY <1>2, SMTT(30) DEF Detach
<1>3. ASSUME NEW d \in Devices, OpenMenu(d) PROVE TypeOK'
  BY <1>3, SMTT(30) DEF OpenMenu, Present
<1>4. ASSUME CloseMenu PROVE TypeOK'
  BY <1>4, SMTT(30) DEF CloseMenu, Closed
<1>5. ASSUME DropOut PROVE TypeOK'
  <2>1. PICK s \in Slots : s = devPlayer[menu.dev] /\ s \in owned /\ Leaves(s)
    BY <1>5, DropOutEffect
  <2>2. /\ exists' \subseteq Slots /\ devsel' \subseteq Slots
        /\ joined' \subseteq Slots /\ owned' \subseteq Slots
    BY <2>1, Zenon DEF Leaves
  <2>3. choice' \in [Slots -> Picks \cup {Idle}] /\ role' \in [Slots -> Roles]
    BY <2>1, SMTT(30) DEF Leaves
  <2>4. /\ menu' = Closed /\ raised' = raised /\ pc' = pc /\ pc = "pump"
        /\ raised = {}
    BY <1>5, SMT DEF DropOut
  <2>. QED BY <1>5, <2>2, <2>3, <2>4, SMTT(30) DEF DropOut, Closed
<1>6. ASSUME StartGather PROVE TypeOK'
  BY <1>6, SMTT(30) DEF StartGather, InGame
<1>7. ASSUME NEW d \in Devices, Absent(d) PROVE TypeOK'
  <2>1. CASE \E s \in Slots :
               /\ InGame /\ s = devPlayer[d] /\ s \in owned /\ Leaves(s)
               /\ devPlayer' = [devPlayer EXCEPT ![d] = None]
    <3>1. PICK s \in Slots :
               /\ s = devPlayer[d] /\ s \in owned /\ Leaves(s)
               /\ devPlayer' = [devPlayer EXCEPT ![d] = None]
      BY <2>1
    <3>2. /\ exists' \subseteq Slots /\ devsel' \subseteq Slots
          /\ joined' \subseteq Slots /\ owned' \subseteq Slots
      BY <3>1, Zenon DEF Leaves
    <3>3. /\ choice' \in [Slots -> Picks \cup {Idle}]
          /\ role' \in [Slots -> Roles]
          /\ devPlayer' \in [Devices -> Slots \cup {None}]
      BY <3>1, SMTT(30) DEF Leaves
    <3>. QED BY <1>7, <3>2, <3>3, SMTT(30) DEF Absent, NextDevice
  <2>2. CASE /\ ~(InGame /\ devPlayer[d] \in owned)
             /\ UNCHANGED <<choice, exists, devsel, joined, owned, role,
                            devPlayer>>
    BY <1>7, <2>2, SMTT(30) DEF Absent, NextDevice, InGame
  <2>. QED BY <1>7, <2>1, <2>2, AbsentEffect
<1>8. ASSUME NEW d \in Devices, NEW b \in Presses, NoClaim(d, b) PROVE TypeOK'
  BY <1>8, SMTT(30)
  DEF NoClaim, Read, JoinsNobody, MayClaim, Reported, Present
<1>9. ASSUME NEW d \in Devices, NEW b \in Presses,
             ClaimSlot(d, b)
      PROVE TypeOK'
  BY <1>9, ClaimedSlotIsFree, SMTT(30)
  DEF ClaimSlot, Read, JoinsNobody, MayClaim, Claims, Reported, InGame,
      Claimed, Present
<1>10. ASSUME NEW d \in Devices, NEW b \in Presses,
              DropInRefused(d, b)
       PROVE TypeOK'
  BY <1>10, ClaimedSlotIsFree, SMTT(30)
  DEF DropInRefused, DropsIn, Read, JoinsNobody, MayClaim, Claims, Reported,
      InGame, Claimed, Present
<1>11. ASSUME NEW d \in Devices, NEW b \in Presses, DropIn(d, b) PROVE TypeOK'
  <2>1. PICK p \in Slots, start \in Picks :
           /\ p \notin exists /\ devPlayer[d] = None
           /\ \A e \in Devices : devPlayer[e] # p
           /\ devPlayer' = [devPlayer EXCEPT ![d] = p]
           /\ devsel' = devsel \cup {p} /\ joined' = joined \cup {p}
           /\ owned' = owned \cup {p} /\ since' = since \cup {p}
           /\ role' = [role EXCEPT ![p] = "port"]
           /\ choice' = [choice EXCEPT ![p] = start]
           /\ character' = [character EXCEPT ![p] = start]
    BY <1>11, DropInEffect
  <2>2. /\ devsel' \subseteq Slots /\ joined' \subseteq Slots
        /\ owned' \subseteq Slots /\ since' \subseteq Slots
    BY <2>1, AddSlot
  <2>. QED BY <1>11, <2>1, <2>2, SMTT(30) DEF DropIn, DropsIn, Read, Reported
<1>12. ASSUME NEW d \in Devices, NoTick(d) PROVE TypeOK'
  BY <1>12, SMTT(30)
  DEF NoTick, TickEnds, NextDevice, Ticks, MatchRunning, InGame
<1>13. ASSUME NEW d \in Devices, Abandon(d) PROVE TypeOK'
  BY <1>13, SMTT(30)
  DEF Abandon, TickEnds, NextDevice, Ticks, MatchRunning, InGame
<1>14. ASSUME NEW d \in Devices, LockIn(d) PROVE TypeOK'
  <2>1. devPlayer[d] \in Slots
    BY <1>14, Zenon DEF LockIn, Ticks
  <2>2. exists' \subseteq Slots
    BY <1>14, <2>1, AddSlot, Zenon DEF LockIn
  <2>. QED BY <1>14, <2>1, <2>2, SMTT(30)
  DEF LockIn, TickEnds, NextDevice, Ticks
<1>15. ASSUME NEW d \in Devices, Cycle(d) PROVE TypeOK'
  <2>1. devPlayer[d] \in Slots
    BY <1>15, Zenon DEF Cycle, Ticks
  <2>2. exists' \subseteq Slots
    BY <1>15, <2>1, AddSlot, Zenon DEF Cycle
  <2>. QED BY <1>15, <2>1, <2>2, SMTT(30)
  DEF Cycle, TickEnds, NextDevice, Ticks
<1>16. ASSUME WriteButtons PROVE TypeOK'
  <2>1. \A s \in Slots : ButtonsFor(s) \in SUBSET Buttons
    BY ButtonsAreButtons
  <2>2. held' \in [Slots -> SUBSET Buttons]
    BY <1>16, <2>1, Zenon DEF WriteButtons
  <2>. QED BY <1>16, <2>2, SMTT(30) DEF WriteButtons
<1>17. ASSUME GameIdle PROVE TypeOK'
  BY <1>17, SMTT(30) DEF GameIdle, GameStep
<1>18. ASSUME EnterGame PROVE TypeOK'
  BY <1>18, SMTT(30) DEF EnterGame, GameStep
<1>19. ASSUME ClearRoster PROVE TypeOK'
  BY <1>19, SMTT(30) DEF ClearRoster, GameStep
<1>20. ASSUME StartMatch PROVE TypeOK'
  <2>1. exists' \subseteq Slots /\ npc' \in BOOLEAN
    BY <1>20, Zenon DEF StartMatch
  <2>. QED BY <1>20, <2>1, SMTT(30) DEF StartMatch, GameStep
<1>21. ASSUME EndMatch PROVE TypeOK'
  <2>1. npc' \in BOOLEAN
    BY <1>21, Zenon DEF EndMatch
  <2>. QED BY <1>21, <2>1, SMTT(30) DEF EndMatch, GameStep
<1>22. ASSUME NEW s \in Slots, JoinInSelection(s) PROVE TypeOK'
  BY <1>22, SMTT(30) DEF JoinInSelection, GameStep
<1>23. ASSUME NEW s \in Slots, ListComputer(s) PROVE TypeOK'
  BY <1>23, SMTT(30) DEF ListComputer, GameStep
<1>24. ASSUME NEW s \in Slots, Sweep(s) PROVE TypeOK'
  BY <1>24, SMTT(30) DEF Sweep, GameStep
<1>25. ASSUME HudRaise PROVE TypeOK'
  BY <1>25, SMTT(30) DEF HudRaise
<1>26. ASSUME HudLower PROVE TypeOK'
  BY <1>26, SMTT(30) DEF HudLower
<1>27. CASE UNCHANGED vars
  BY <1>27, SMTT(30) DEF vars
<1>. QED
  BY <1>1, <1>2, <1>3, <1>4, <1>5, <1>6, <1>7, <1>8,
     <1>9, <1>10, <1>11, <1>12, <1>13, <1>14, <1>15, <1>16,
     <1>17, <1>18, <1>19, <1>20, <1>21, <1>22, <1>23, <1>24,
     <1>25, <1>26, <1>27
  DEF Next, Pump, Frame, DeviceStep, Game

\* Every step keeps claims apart, choosers off the stage, with their device,
\* and their panels true.
LEMMA SeatStep == IInv /\ [Next]_vars => SeatInv'
<1>. SUFFICES ASSUME IInv, [Next]_vars PROVE SeatInv'
  OBVIOUS
<1>. USE SlotsAssumption, PadsAssumption, RosterAssumption,
          PressesAssumption, ConfiguredAssumption
     DEF game, world, pads, claims, coop, IInv, Choosing, SeatInv, MatchInv,
         TypeOK, OneDevicePerPlayer, ChoosersStayOffStage,
         ChooserHasItsDevice, PanelShowsTheChoice, FrontInv, GateInv, OverInv,
         Leftover, Slots, PadSlots, Devices, None, Picks, Idle
<1>1. ASSUME NEW p \in Pads, Attach(p) PROVE SeatInv'
  BY <1>1, SMTT(30) DEF Attach, BindAvailable
<1>2. ASSUME NEW p \in Pads, Detach(p) PROVE SeatInv'
  BY <1>2, SMTT(30) DEF Detach
<1>3. ASSUME NEW d \in Devices, OpenMenu(d) PROVE SeatInv'
  BY <1>3, SMTT(30) DEF OpenMenu, Present
<1>4. ASSUME CloseMenu PROVE SeatInv'
  BY <1>4, SMTT(30) DEF CloseMenu, Closed
<1>5. ASSUME DropOut PROVE SeatInv'
  <2>1. PICK s \in Slots : s = devPlayer[menu.dev] /\ s \in owned /\ Leaves(s)
    BY <1>5, DropOutEffect
  <2>. QED BY <1>5, <2>1, SMTT(30) DEF DropOut, Closed, Leaves
<1>6. ASSUME StartGather PROVE SeatInv'
  BY <1>6, SMTT(30) DEF StartGather, InGame
<1>7. ASSUME NEW d \in Devices, Absent(d) PROVE SeatInv'
  <2>1. CASE \E s \in Slots :
               /\ InGame /\ s = devPlayer[d] /\ s \in owned /\ Leaves(s)
               /\ devPlayer' = [devPlayer EXCEPT ![d] = None]
    <3>1. PICK s \in Slots :
               /\ s = devPlayer[d] /\ s \in owned /\ Leaves(s)
               /\ devPlayer' = [devPlayer EXCEPT ![d] = None]
      BY <2>1
    <3>. QED BY <1>7, <3>1, SMTT(30) DEF Absent, NextDevice, Leaves
  <2>2. CASE /\ ~(InGame /\ devPlayer[d] \in owned)
             /\ UNCHANGED <<choice, exists, devsel, joined, owned, role,
                            devPlayer>>
    BY <1>7, <2>2, SMTT(30) DEF Absent, NextDevice, InGame
  <2>. QED BY <1>7, <2>1, <2>2, AbsentEffect
<1>8. ASSUME NEW d \in Devices, NEW b \in Presses,
             NoClaim(d, b)
      PROVE SeatInv'
  BY <1>8, SMTT(30)
  DEF NoClaim, Read, JoinsNobody, MayClaim, Reported, Present
<1>9. ASSUME NEW d \in Devices, NEW b \in Presses,
             ClaimSlot(d, b)
      PROVE SeatInv'
  <2>1. PICK p \in Slots : /\ devPlayer[d] = None
                           /\ \A e \in Devices : devPlayer[e] # p
                           /\ devPlayer' = [devPlayer EXCEPT ![d] = p]
    BY <1>9, ClaimEffect
  <2>2. OneDevicePerPlayer' BY <1>9, <2>1, SMTT(30)
    DEF ClaimSlot, Read, JoinsNobody
  <2>3. ChoosersStayOffStage' BY <1>9, <2>1, SMTT(30)
    DEF ClaimSlot, Read, JoinsNobody
  <2>4. ChooserHasItsDevice' BY <1>9, <2>1, SMTT(30)
    DEF ClaimSlot, Read, JoinsNobody
  <2>5. PanelShowsTheChoice' BY <1>9, <2>1, SMTT(30)
    DEF ClaimSlot, Read, JoinsNobody
  <2>. QED BY <2>2, <2>3, <2>4, <2>5
<1>10. ASSUME NEW d \in Devices, NEW b \in Presses,
              DropInRefused(d, b)
       PROVE SeatInv'
  <2>1. PICK p \in Slots : /\ devPlayer[d] = None
                           /\ \A e \in Devices : devPlayer[e] # p
                           /\ devPlayer' = [devPlayer EXCEPT ![d] = p]
    BY <1>10, ClaimEffect
  <2>2. OneDevicePerPlayer' BY <1>10, <2>1, SMTT(30)
    DEF DropInRefused, DropsIn, Read, JoinsNobody
  <2>3. ChoosersStayOffStage' BY <1>10, <2>1, SMTT(30)
    DEF DropInRefused, DropsIn, Read, JoinsNobody
  <2>4. ChooserHasItsDevice' BY <1>10, <2>1, SMTT(30)
    DEF DropInRefused, DropsIn, Read, JoinsNobody
  <2>5. PanelShowsTheChoice' BY <1>10, <2>1, SMTT(30)
    DEF DropInRefused, DropsIn, Read, JoinsNobody
  <2>. QED BY <2>2, <2>3, <2>4, <2>5
<1>11. ASSUME NEW d \in Devices, NEW b \in Presses,
              DropIn(d, b)
       PROVE SeatInv'
  <2>1. PICK p \in Slots, start \in Picks :
           /\ p \notin exists /\ devPlayer[d] = None
           /\ \A e \in Devices : devPlayer[e] # p
           /\ devPlayer' = [devPlayer EXCEPT ![d] = p]
           /\ devsel' = devsel \cup {p} /\ joined' = joined \cup {p}
           /\ owned' = owned \cup {p} /\ since' = since \cup {p}
           /\ role' = [role EXCEPT ![p] = "port"]
           /\ choice' = [choice EXCEPT ![p] = start]
           /\ character' = [character EXCEPT ![p] = start]
    BY <1>11, DropInEffect
  <2>2. OneDevicePerPlayer' BY <1>11, <2>1, SMTT(30)
    DEF DropIn, DropsIn, Read, MatchRunning
  <2>3. ChoosersStayOffStage' BY <1>11, <2>1, SMTT(30)
    DEF DropIn, DropsIn, Read, MatchRunning
  <2>4. ChooserHasItsDevice' BY <1>11, <2>1, SMTT(30)
    DEF DropIn, DropsIn, Read, MatchRunning
  <2>5. PanelShowsTheChoice' BY <1>11, <2>1, SMTT(30)
    DEF DropIn, DropsIn, Read, MatchRunning
  <2>. QED BY <2>2, <2>3, <2>4, <2>5
<1>12. ASSUME NEW d \in Devices, NoTick(d) PROVE SeatInv'
  BY <1>12, SMTT(30)
  DEF NoTick, TickEnds, NextDevice, Ticks, MatchRunning, InGame
<1>13. ASSUME NEW d \in Devices, Abandon(d) PROVE SeatInv'
  BY <1>13, SMTT(30)
  DEF Abandon, TickEnds, NextDevice, Ticks, MatchRunning, InGame
<1>14. ASSUME NEW d \in Devices, LockIn(d) PROVE SeatInv'
  BY <1>14, SMTT(30)
  DEF LockIn, TickEnds, NextDevice, Ticks, MatchRunning, InGame
<1>15. ASSUME NEW d \in Devices, Cycle(d) PROVE SeatInv'
  BY <1>15, SMTT(30)
  DEF Cycle, TickEnds, NextDevice, Ticks, MatchRunning, InGame
<1>16. ASSUME WriteButtons PROVE SeatInv'
  BY <1>16, SMTT(30) DEF WriteButtons, ButtonsFor, InGame
<1>17. ASSUME GameIdle PROVE SeatInv'
  BY <1>17, SMTT(30) DEF GameIdle, GameStep
<1>18. ASSUME EnterGame PROVE SeatInv'
  BY <1>18, SMTT(30) DEF EnterGame, GameStep
<1>19. ASSUME ClearRoster PROVE SeatInv'
  BY <1>19, SMTT(30) DEF ClearRoster, GameStep
<1>20. ASSUME StartMatch PROVE SeatInv'
  BY <1>20, SMTT(30) DEF StartMatch, GameStep
<1>21. ASSUME EndMatch PROVE SeatInv'
  BY <1>21, SMTT(30) DEF EndMatch, GameStep
<1>22. ASSUME NEW s \in Slots, JoinInSelection(s) PROVE SeatInv'
  BY <1>22, SMTT(30) DEF JoinInSelection, GameStep
<1>23. ASSUME NEW s \in Slots, ListComputer(s) PROVE SeatInv'
  BY <1>23, SMTT(30) DEF ListComputer, GameStep
<1>24. ASSUME NEW s \in Slots, Sweep(s) PROVE SeatInv'
  BY <1>24, SMTT(30) DEF Sweep, GameStep
<1>25. ASSUME HudRaise PROVE SeatInv'
  BY <1>25, SMTT(30) DEF HudRaise
<1>26. ASSUME HudLower PROVE SeatInv'
  BY <1>26, SMTT(30) DEF HudLower
<1>27. CASE UNCHANGED vars
  BY <1>27, SMTT(30) DEF vars
<1>. QED
  BY <1>1, <1>2, <1>3, <1>4, <1>5, <1>6, <1>7, <1>8,
     <1>9, <1>10, <1>11, <1>12, <1>13, <1>14, <1>15, <1>16,
     <1>17, <1>18, <1>19, <1>20, <1>21, <1>22, <1>23, <1>24,
     <1>25, <1>26, <1>27
  DEF Next, Pump, Frame, DeviceStep, Game

\* Every step keeps what holds outside a match.
LEMMA MatchStep == IInv /\ [Next]_vars => MatchInv'
<1>. SUFFICES ASSUME IInv, [Next]_vars PROVE MatchInv'
  OBVIOUS
<1>. USE SlotsAssumption, PadsAssumption, RosterAssumption,
          PressesAssumption, ConfiguredAssumption
     DEF game, world, pads, claims, coop, IInv, Choosing, SeatInv, MatchInv,
         TypeOK, OneDevicePerPlayer, ChoosersStayOffStage,
         ChooserHasItsDevice, PanelShowsTheChoice, FrontInv, GateInv, OverInv,
         Leftover, Slots, PadSlots, Devices, None, Picks, Idle
<1>1. ASSUME NEW p \in Pads, Attach(p) PROVE MatchInv'
  BY <1>1, SMTT(30) DEF Attach, BindAvailable
<1>2. ASSUME NEW p \in Pads, Detach(p) PROVE MatchInv'
  BY <1>2, SMTT(30) DEF Detach
<1>3. ASSUME NEW d \in Devices, OpenMenu(d) PROVE MatchInv'
  BY <1>3, SMTT(30) DEF OpenMenu, Present
<1>4. ASSUME CloseMenu PROVE MatchInv'
  BY <1>4, SMTT(30) DEF CloseMenu, Closed
<1>5. ASSUME DropOut PROVE MatchInv'
  <2>1. PICK s \in Slots : s = devPlayer[menu.dev] /\ s \in owned /\ Leaves(s)
    BY <1>5, DropOutEffect
  <2>2. FrontInv' BY <1>5, <2>1, SMTT(30)
      DEF DropOut, Closed, Leaves
  <2>3. GateInv'
      BY <1>5, <2>1, LeavesEmpty, Zenon
      DEF DropOut
  <2>4. OverInv' BY <1>5, <2>1, SMTT(30)
      DEF DropOut, Closed, Leaves
  <2>. QED BY <2>2, <2>3, <2>4
<1>6. ASSUME StartGather PROVE MatchInv'
  BY <1>6, SMTT(30) DEF StartGather, InGame
<1>7. ASSUME NEW d \in Devices, Absent(d) PROVE MatchInv'
  <2>1. CASE \E s \in Slots :
               /\ InGame /\ s = devPlayer[d] /\ s \in owned /\ Leaves(s)
               /\ devPlayer' = [devPlayer EXCEPT ![d] = None]
    <3>1. PICK s \in Slots :
               /\ s = devPlayer[d] /\ s \in owned /\ Leaves(s)
               /\ devPlayer' = [devPlayer EXCEPT ![d] = None]
      BY <2>1
    <3>2. FrontInv' BY <1>7, <3>1, SMTT(30)
        DEF Absent, NextDevice, Leaves
    <3>3. GateInv'
        BY <1>7, <3>1, LeavesEmpty, Zenon
        DEF Absent, NextDevice
    <3>4. OverInv' BY <1>7, <3>1, SMTT(30)
        DEF Absent, NextDevice, Leaves
    <3>. QED BY <3>2, <3>3, <3>4
  <2>2. CASE /\ ~(InGame /\ devPlayer[d] \in owned)
             /\ UNCHANGED <<choice, exists, devsel, joined, owned, role,
                            devPlayer>>
    BY <1>7, <2>2, SMTT(30) DEF Absent, NextDevice, InGame
  <2>. QED BY <1>7, <2>1, <2>2, AbsentEffect
<1>8. ASSUME NEW d \in Devices, NEW b \in Presses,
             NoClaim(d, b)
      PROVE MatchInv'
  BY <1>8, SMTT(30)
  DEF NoClaim, Read, JoinsNobody, MayClaim, Reported, Present
<1>9. ASSUME NEW d \in Devices, NEW b \in Presses,
             ClaimSlot(d, b)
      PROVE MatchInv'
  BY <1>9, ClaimedSlotIsFree, SMTT(30)
  DEF ClaimSlot, Read, JoinsNobody, MayClaim, Claims, Reported, InGame,
      Claimed, Present
<1>10. ASSUME NEW d \in Devices, NEW b \in Presses,
              DropInRefused(d, b)
       PROVE MatchInv'
  BY <1>10, ClaimedSlotIsFree, SMTT(30)
  DEF DropInRefused, DropsIn, Read, JoinsNobody, MayClaim, Claims, Reported,
      InGame, Claimed, Present
<1>11. ASSUME NEW d \in Devices, NEW b \in Presses,
              DropIn(d, b)
       PROVE MatchInv'
  BY <1>11, ClaimedSlotIsFree, SMTT(30)
  DEF DropIn, DropsIn, Read, MayClaim, Claims, Reported, InGame, Claimed,
      MatchRunning, Present
<1>12. ASSUME NEW d \in Devices, NoTick(d) PROVE MatchInv'
  BY <1>12, SMTT(30)
  DEF NoTick, TickEnds, NextDevice, Ticks, MatchRunning, InGame
<1>13. ASSUME NEW d \in Devices, Abandon(d) PROVE MatchInv'
  BY <1>13, SMTT(30)
  DEF Abandon, TickEnds, NextDevice, Ticks, MatchRunning, InGame
<1>14. ASSUME NEW d \in Devices, LockIn(d) PROVE MatchInv'
  BY <1>14, SMTT(30)
  DEF LockIn, TickEnds, NextDevice, Ticks, MatchRunning, InGame
<1>15. ASSUME NEW d \in Devices, Cycle(d) PROVE MatchInv'
  BY <1>15, SMTT(30)
  DEF Cycle, TickEnds, NextDevice, Ticks, MatchRunning, InGame
<1>16. ASSUME WriteButtons PROVE MatchInv'
  BY <1>16, SMTT(30) DEF WriteButtons, ButtonsFor, InGame
<1>17. ASSUME GameIdle PROVE MatchInv'
  BY <1>17, SMTT(30) DEF GameIdle, GameStep
<1>18. ASSUME EnterGame PROVE MatchInv'
  BY <1>18, SMTT(30) DEF EnterGame, GameStep
<1>19. ASSUME ClearRoster PROVE MatchInv'
  BY <1>19, SMTT(30) DEF ClearRoster, GameStep
<1>20. ASSUME StartMatch PROVE MatchInv'
  BY <1>20, SMTT(30) DEF StartMatch, GameStep
<1>21. ASSUME EndMatch PROVE MatchInv'
  BY <1>21, SMTT(30) DEF EndMatch, GameStep
<1>22. ASSUME NEW s \in Slots, JoinInSelection(s) PROVE MatchInv'
  BY <1>22, SMTT(30) DEF JoinInSelection, GameStep
<1>23. ASSUME NEW s \in Slots, ListComputer(s) PROVE MatchInv'
  BY <1>23, SMTT(30) DEF ListComputer, GameStep
<1>24. ASSUME NEW s \in Slots, Sweep(s) PROVE MatchInv'
  BY <1>24, SMTT(30) DEF Sweep, GameStep
<1>25. ASSUME HudRaise PROVE MatchInv'
  BY <1>25, SMTT(30) DEF HudRaise
<1>26. ASSUME HudLower PROVE MatchInv'
  BY <1>26, SMTT(30) DEF HudLower
<1>27. CASE UNCHANGED vars
  BY <1>27, SMTT(30) DEF vars
<1>. QED
  BY <1>1, <1>2, <1>3, <1>4, <1>5, <1>6, <1>7, <1>8,
     <1>9, <1>10, <1>11, <1>12, <1>13, <1>14, <1>15, <1>16,
     <1>17, <1>18, <1>19, <1>20, <1>21, <1>22, <1>23, <1>24,
     <1>25, <1>26, <1>27
  DEF Next, Pump, Frame, DeviceStep, Game

\* Every step keeps withheld buttons and the menu's player.
LEMMA InputStep == IInv /\ [Next]_vars => InputInv'
<1>. SUFFICES ASSUME IInv, [Next]_vars PROVE InputInv'
  OBVIOUS
<1>. USE SlotsAssumption, PadsAssumption, RosterAssumption,
          PressesAssumption, ConfiguredAssumption
     DEF game, world, pads, claims, coop, IInv, Choosing, SeatInv, MatchInv,
         TypeOK, InputInv, ButtonInv, WithheldButtonsReachNobody, MenuInv,
         ChooserHasItsDevice, OneDevicePerPlayer, Slots, PadSlots, Devices,
         None, Picks, Idle, InGame, FrontInv
<1>1. ASSUME NEW p \in Pads, Attach(p) PROVE InputInv'
  BY <1>1, SMTT(30) DEF Attach, BindAvailable
<1>2. ASSUME NEW p \in Pads, Detach(p) PROVE InputInv'
  BY <1>2, SMTT(30) DEF Detach
<1>3. ASSUME NEW d \in Devices, OpenMenu(d) PROVE InputInv'
  BY <1>3, SMTT(30) DEF OpenMenu, Present
<1>4. ASSUME CloseMenu PROVE InputInv'
  BY <1>4, SMTT(30) DEF CloseMenu, Closed
<1>5. ASSUME DropOut PROVE InputInv'
  BY <1>5, SMTT(30) DEF DropOut, Closed, Leave
<1>6. ASSUME StartGather PROVE InputInv'
  BY <1>6, SMTT(30) DEF StartGather
<1>7. ASSUME NEW d \in Devices, Absent(d) PROVE InputInv'
  BY <1>7, SMTT(30) DEF Absent, Present, Leave, NextDevice
<1>8. ASSUME NEW d \in Devices, NEW b \in Presses,
             NoClaim(d, b)
      PROVE InputInv'
  BY <1>8, SMTT(30)
  DEF NoClaim, Read, JoinsNobody, MayClaim, Reported, Present
<1>9. ASSUME NEW d \in Devices, NEW b \in Presses,
             ClaimSlot(d, b)
      PROVE InputInv'
  BY <1>9, ClaimedSlotIsFree, SMTT(30)
  DEF ClaimSlot, Read, JoinsNobody, MayClaim, Claims, Reported, Claimed,
      Present
<1>10. ASSUME NEW d \in Devices, NEW b \in Presses,
              DropInRefused(d, b)
       PROVE InputInv'
  BY <1>10, ClaimedSlotIsFree, SMTT(30)
  DEF DropInRefused, DropsIn, Read, JoinsNobody, MayClaim, Claims, Reported,
      Claimed, Present
<1>11. ASSUME NEW d \in Devices, NEW b \in Presses,
              DropIn(d, b)
       PROVE InputInv'
  BY <1>11, ClaimedSlotIsFree, SMTT(30)
  DEF DropIn, DropsIn, Read, MayClaim, Claims, Reported, Claimed,
      MatchRunning, Present
<1>12. ASSUME NEW d \in Devices, NoTick(d) PROVE InputInv'
  BY <1>12, SMTT(30) DEF NoTick, TickEnds, NextDevice, Ticks, MatchRunning
<1>13. ASSUME NEW d \in Devices, Abandon(d) PROVE InputInv'
  BY <1>13, SMTT(30) DEF Abandon, TickEnds, NextDevice, Ticks, MatchRunning
<1>14. ASSUME NEW d \in Devices, LockIn(d) PROVE InputInv'
  BY <1>14, SMTT(30) DEF LockIn, TickEnds, NextDevice, Ticks, MatchRunning
<1>15. ASSUME NEW d \in Devices, Cycle(d) PROVE InputInv'
  BY <1>15, SMTT(30) DEF Cycle, TickEnds, NextDevice, Ticks, MatchRunning
<1>16. ASSUME WriteButtons PROVE InputInv'
  BY <1>16, SMTT(30) DEF WriteButtons, ButtonsFor
<1>17. ASSUME GameIdle PROVE InputInv'
  BY <1>17, SMTT(30) DEF GameIdle, GameStep
<1>18. ASSUME EnterGame PROVE InputInv'
  BY <1>18, SMTT(30) DEF EnterGame, GameStep
<1>19. ASSUME ClearRoster PROVE InputInv'
  BY <1>19, SMTT(30) DEF ClearRoster, GameStep
<1>20. ASSUME StartMatch PROVE InputInv'
  BY <1>20, SMTT(30) DEF StartMatch, GameStep
<1>21. ASSUME EndMatch PROVE InputInv'
  BY <1>21, SMTT(30) DEF EndMatch, GameStep
<1>22. ASSUME NEW s \in Slots, JoinInSelection(s) PROVE InputInv'
  BY <1>22, SMTT(30) DEF JoinInSelection, GameStep
<1>23. ASSUME NEW s \in Slots, ListComputer(s) PROVE InputInv'
  BY <1>23, SMTT(30) DEF ListComputer, GameStep
<1>24. ASSUME NEW s \in Slots, Sweep(s) PROVE InputInv'
  BY <1>24, SMTT(30) DEF Sweep, GameStep
<1>25. ASSUME HudRaise PROVE InputInv'
  BY <1>25, SMTT(30) DEF HudRaise
<1>26. ASSUME HudLower PROVE InputInv'
  BY <1>26, SMTT(30) DEF HudLower
<1>27. CASE UNCHANGED vars
  BY <1>27, SMTT(30) DEF vars
<1>. QED
  BY <1>1, <1>2, <1>3, <1>4, <1>5, <1>6, <1>7, <1>8,
     <1>9, <1>10, <1>11, <1>12, <1>13, <1>14, <1>15, <1>16,
     <1>17, <1>18, <1>19, <1>20, <1>21, <1>22, <1>23, <1>24,
     <1>25, <1>26, <1>27
  DEF Next, Pump, Frame, DeviceStep, Game

-----------------------------------------------------------------------------
(* The inductive invariant, and what follows from it.                       *)

LEMMA InitInv == Init => IInv
<1>. SUFFICES ASSUME Init PROVE IInv
  OBVIOUS
<1>. USE SlotsAssumption, PadsAssumption, RosterAssumption,
         PressesAssumption, ConfiguredAssumption
     DEF Init, Choosing, Slots, PadSlots, Devices, None, Picks, Idle
<1>1. TypeOK
  <2>1. /\ held \in [Slots -> SUBSET Buttons]
        /\ devPrev \in [Devices -> Presses] /\ btn \in [Devices -> Presses]
        /\ menu \in [open : BOOLEAN, inMatch : BOOLEAN,
                     dev : Devices \cup {None}, slot : Slots \cup {None}]
    BY SMT
  <2>2. /\ role \in [Slots -> Roles]
        /\ character \in [Slots -> Picks \cup {Idle}]
        /\ choice \in [Slots -> Picks \cup {Idle}]
        /\ pad \in [PadSlots -> attached \cup {NoPad}]
        /\ devPlayer \in [Devices -> Slots \cup {None}]
    BY SMT DEF Roles
  <2>3. cur \in Devices /\ ~menu.open BY SMT
  <2>4. /\ npc \in BOOLEAN /\ (pc # "lower" => raised = {})
        /\ pc \in {"pump", "claim", "tick", "write", "game", "hud", "lower"}
        /\ mode \in {"front", "select", "match"}
        /\ roster \in {"unread", "ready", "refused"}
    BY Zenon
  <2>5. /\ exists \subseteq Slots /\ devsel \subseteq Slots
        /\ joined \subseteq Slots /\ since \subseteq Slots
        /\ owned \subseteq Slots /\ attached \subseteq Pads
        /\ raised \subseteq exists
    BY ConfiguredAssumption, SMT
  <2>. QED BY <2>1, <2>2, <2>3, <2>4, <2>5, Zenon DEF TypeOK
<1>2. SeatInv
  BY SMTT(30) DEF SeatInv, OneDevicePerPlayer, ChoosersStayOffStage,
                  ChooserHasItsDevice, PanelShowsTheChoice
<1>3. MatchInv BY SMT DEF MatchInv, FrontInv, GateInv, OverInv
<1>4. InputInv
  BY SMT DEF InputInv, ButtonInv, WithheldButtonsReachNobody, MenuInv
<1>. QED BY <1>1, <1>2, <1>3, <1>4 DEF IInv

\* Claims, choices, gates, buttons and the menu fit together in every state.
THEOREM Invariance == Spec => []IInv
<1>1. IInv /\ [Next]_vars => IInv'
  BY TypeStep, SeatStep, MatchStep, InputStep DEF IInv
<1>. QED BY InitInv, <1>1, PTL DEF Spec

\* Every variable keeps its type, for any number of slots and controllers.
THEOREM TypeCorrect == Spec => []TypeOK
<1>1. IInv => TypeOK BY DEF IInv
<1>. QED BY Invariance, <1>1, PTL

\* Two devices never drive one player, however often controllers are pulled
\* and rebound and whoever joins (dev_player[] of input.c).
THEOREM DevicesStayApart == Spec => []OneDevicePerPlayer
<1>1. IInv => OneDevicePerPlayer BY DEF IInv, SeatInv
<1>. QED BY Invariance, <1>1, PTL

\* A fighter still being chosen is never in the world outside the HUD's pass.
THEOREM ChoosersOffStage == Spec => []ChoosersStayOffStage
<1>1. IInv => ChoosersStayOffStage BY DEF IInv, SeatInv
<1>. QED BY Invariance, <1>1, PTL

\* Every open choice has a device that can finish it or give it up.
THEOREM ChoosersKeepDevice == Spec => []ChooserHasItsDevice
<1>1. IInv => ChooserHasItsDevice BY DEF IInv, SeatInv
<1>. QED BY Invariance, <1>1, PTL

\* A chooser's panel shows the fighter its next press would lock in.
THEOREM PanelsAreTrue == Spec => []PanelShowsTheChoice
<1>1. IInv => PanelShowsTheChoice BY DEF IInv, SeatInv
<1>. QED BY Invariance, <1>1, PTL

\* The game never steps on a button withheld by the menu or by a choice.
THEOREM InputIsWithheld == Spec => []WithheldButtonsReachNobody
<1>1. IInv => WithheldButtonsReachNobody BY DEF IInv, InputInv
<1>. QED BY Invariance, <1>1, PTL

\* The pause menu drops the player of the device that opened it, or nobody:
\* that device may lose its player while the menu is up, but cannot be given
\* another, because the buttons that would claim one are withheld.
THEOREM DropOutTakesOpener == Spec => DropsTheOpener
<1>. DEFINE Dropped == menu.open /\ pc = "pump" /\ owned' # owned
                         => owned \ owned' = {menu.slot}
<1>1. IInv /\ [Next]_vars => [Dropped]_vars
  <2>. SUFFICES ASSUME IInv, Next, menu.open, pc = "pump", owned' # owned
                PROVE  owned \ owned' = {menu.slot}
    OBVIOUS
  <2>1. DropOut
    <3>1. ~StartGather
      <4>. SUFFICES ASSUME StartGather PROVE FALSE
        OBVIOUS
      <4>1. owned' = {} /\ mode = "front" BY DEF StartGather, InGame
      <4>. QED BY <4>1 DEF IInv, MatchInv, FrontInv
    <3>2. ASSUME NEW d \in Devices PROVE ~DeviceStep(d)
      BY DEF DeviceStep, Absent, NoClaim, ClaimSlot, DropInRefused, DropIn,
             DropsIn, Read, NoTick, Abandon, LockIn, Cycle, TickEnds
    <3>3. ~Game /\ ~WriteButtons /\ ~HudRaise /\ ~HudLower
      BY DEF Game, GameIdle, EnterGame, ClearRoster, StartMatch, EndMatch,
             JoinInSelection, ListComputer, Sweep, GameStep, WriteButtons,
             HudRaise, HudLower
    <3>4. ASSUME NEW p \in Pads PROVE ~Attach(p) /\ ~Detach(p)
      BY DEF Attach, Detach, coop
    <3>5. ~CloseMenu /\ \A d \in Devices : ~OpenMenu(d)
      BY DEF CloseMenu, OpenMenu, coop
    <3>. QED BY <3>1, <3>2, <3>3, <3>4, <3>5 DEF Next, Pump, Frame
  <2>2. PICK s \in Slots : s = devPlayer[menu.dev] /\ s \in owned /\ Leaves(s)
    BY <2>1, DropOutEffect DEF IInv
  <2>3. s # None BY SlotsAssumption DEF Slots, None
  <2>4. s = menu.slot BY <2>2, <2>3 DEF IInv, InputInv, MenuInv
  <2>. QED BY <2>2, <2>4 DEF Leaves
<1>. QED BY Invariance, <1>1, PTL DEF Spec, DropsTheOpener

-----------------------------------------------------------------------------
(* DropIn implements PlayerSeats.                                           *)

Seating == [s \in Slots |-> Seat(s)]

\* A step that changes neither choices nor the fighters on stage.
LEMMA NobodyMoves ==
  ASSUME \A s \in Slots : Seat(s)' = Seat(s)
  PROVE  UNCHANGED Seating
  BY DEF Seating

\* A step that moves one seat.
LEMMA OneMoves ==
  ASSUME NEW s \in Slots, NEW to, Seat(s)' = to,
         \A t \in Slots \ {s} : Seat(t)' = Seat(t)
  PROVE  Seating[s] = Seat(s) /\ Seating' = [Seating EXCEPT ![s] = to]
  BY DEF Seating

\* A departure empties one seat, whether it was chosen for or played.
LEMMA LeavesSeat ==
  ASSUME TypeOK, NEW s \in Slots, Leaves(s), raised = {}, raised' = {}
  PROVE  [Promise!Next]_Seating
<1>1. /\ Seat(s)' = "empty"
      /\ \A t \in Slots \ {s} : Seat(t)' = Seat(t)
  BY DEF TypeOK, Leaves, Seat, Choosing
<1>2. Seat(s) \in {"choosing", "playing", "empty"} BY DEF Seat
<1>3. CASE Seat(s) = "empty" BY <1>1, <1>3, NobodyMoves
<1>4. CASE Seat(s) = "choosing"
  BY <1>1, <1>4, OneMoves
  DEF Promise!Next, Promise!Abandon, Promise!To, Seating
<1>5. CASE Seat(s) = "playing"
  BY <1>1, <1>5, OneMoves
  DEF Promise!Next, Promise!Leave, Promise!To, Seating
<1>. QED BY <1>2, <1>3, <1>4, <1>5

LEMMA SeatsStep == IInv /\ [Next]_vars => [Promise!Next]_Seating
<1>. SUFFICES ASSUME IInv, [Next]_vars PROVE [Promise!Next]_Seating
  OBVIOUS
<1>0. TypeOK /\ (pc # "lower" => raised = {}) BY DEF IInv, TypeOK
<1>1. ASSUME UNCHANGED <<choice, exists, raised>>
      PROVE  [Promise!Next]_Seating
  BY <1>1, NobodyMoves DEF Seat, Choosing
<1>2. CASE UNCHANGED vars
  BY <1>1, <1>2 DEF vars, world, coop
<1>3. ASSUME NEW p \in Pads, Attach(p) \/ Detach(p)
      PROVE  [Promise!Next]_Seating
  BY <1>1, <1>3 DEF Attach, Detach, world, coop
<1>4. CASE CloseMenu \/ \E d \in Devices : OpenMenu(d)
  BY <1>1, <1>4 DEF OpenMenu, CloseMenu, world, coop
<1>5. CASE DropOut
  <2>1. PICK s \in Slots : Leaves(s)
    BY <1>0, <1>5, DropOutEffect
  <2>2. raised = {} /\ raised' = {} BY <1>0, <1>5 DEF DropOut
  <2>. QED BY <1>0, <2>1, <2>2, LeavesSeat
<1>6. CASE StartGather
  <2>1. choice' = choice
    BY <1>0, <1>6, SMT
    DEF StartGather, InGame, TypeOK, IInv, MatchInv, FrontInv
  <2>. QED BY <1>1, <1>6, <2>1 DEF StartGather, world
<1>7. ASSUME NEW d \in Devices, Absent(d) PROVE [Promise!Next]_Seating
  <2>1. raised = {} /\ raised' = {} BY <1>0, <1>7 DEF Absent
  <2>2. CASE \E s \in Slots : Leaves(s) BY <1>0, <2>1, <2>2, LeavesSeat
  <2>3. CASE UNCHANGED <<choice, exists>> BY <1>1, <2>1, <2>3
  <2>. QED BY <1>0, <1>7, <2>2, <2>3, AbsentEffect
<1>8. ASSUME NEW d \in Devices, NEW b \in Presses,
             NoClaim(d, b) \/ ClaimSlot(d, b) \/ DropInRefused(d, b)
      PROVE  [Promise!Next]_Seating
  BY <1>1, <1>8
  DEF NoClaim, ClaimSlot, DropInRefused, DropsIn, Read, JoinsNobody
<1>9. ASSUME NEW d \in Devices, NEW b \in Presses, DropIn(d, b)
      PROVE  [Promise!Next]_Seating
  <2>1. PICK p \in Slots, start \in Picks :
           /\ p \notin exists /\ \A e \in Devices : devPlayer[e] # p
           /\ choice' = [choice EXCEPT ![p] = start]
    BY <1>9, DropInEffect
  <2>2. exists' = exists /\ raised' = raised /\ raised = {}
    BY <1>0, <1>9 DEF DropIn, DropsIn, Read
  <2>3. start # Idle BY RosterAssumption DEF Picks, Idle
  <2>4. ~Choosing(p)
    BY <2>1 DEF IInv, SeatInv, ChooserHasItsDevice
  <2>5. /\ Seat(p) = "empty" /\ Seat(p)' = "choosing"
        /\ \A t \in Slots \ {p} : Seat(t)' = Seat(t)
    BY <1>0, <2>1, <2>2, <2>3, <2>4 DEF TypeOK, Seat, Choosing
  <2>. QED BY <2>5, OneMoves
       DEF Promise!Next, Promise!Open, Promise!To, Seating
<1>10. ASSUME NEW d \in Devices, NoTick(d) PROVE [Promise!Next]_Seating
  BY <1>1, <1>10 DEF NoTick, TickEnds
<1>11. ASSUME NEW d \in Devices, Abandon(d) PROVE [Promise!Next]_Seating
  <2>1. PICK s \in Slots :
           /\ choice[s] # Idle /\ choice' = [choice EXCEPT ![s] = Idle]
           /\ exists' = exists /\ raised' = raised /\ raised = {}
    BY <1>0, <1>11 DEF Abandon, TickEnds, Ticks, Choosing
  <2>2. s \notin exists
    BY <2>1 DEF IInv, SeatInv, ChoosersStayOffStage, Choosing
  <2>3. /\ Seat(s) = "choosing" /\ Seat(s)' = "empty"
        /\ \A t \in Slots \ {s} : Seat(t)' = Seat(t)
    BY <1>0, <2>1, <2>2 DEF TypeOK, Seat, Choosing
  <2>. QED BY <2>1, <2>3, OneMoves
       DEF Promise!Next, Promise!Abandon, Promise!To, Seating
<1>12. ASSUME NEW d \in Devices, LockIn(d) PROVE [Promise!Next]_Seating
  <2>1. PICK s \in Slots :
           /\ choice[s] # Idle /\ choice' = [choice EXCEPT ![s] = Idle]
           /\ exists' = exists \cup {s} /\ raised' = raised /\ raised = {}
    BY <1>0, <1>12 DEF LockIn, TickEnds, Ticks, Choosing
  <2>2. /\ Seat(s) = "choosing" /\ Seat(s)' = "playing"
        /\ \A t \in Slots \ {s} : Seat(t)' = Seat(t)
    BY <1>0, <2>1 DEF TypeOK, Seat, Choosing
  <2>. QED BY <2>1, <2>2, OneMoves
       DEF Promise!Next, Promise!LockIn, Promise!To, Seating
<1>13. ASSUME NEW d \in Devices, Cycle(d) PROVE [Promise!Next]_Seating
  <2>. DEFINE s == devPlayer[d]
  <2>1. PICK next \in Picks :
           /\ s \in Slots /\ choice[s] # Idle
           /\ choice' = [choice EXCEPT ![s] = next]
           /\ exists' = exists \ {s} /\ raised' = raised /\ raised = {}
    <3>1. /\ s \in Slots /\ choice[s] # Idle
          /\ exists' = exists \ {s} /\ raised' = raised /\ raised = {}
      BY <1>0, <1>13 DEF Cycle, TickEnds, Ticks, Choosing
    <3>2. choice[s] \in 0 .. NRoster BY <1>0, <3>1, RosterAssumption
      DEF TypeOK, Picks, Idle
    <3>3. /\ (choice[s] + 1) % NRoster \in Picks
          /\ (choice[s] + (NRoster - 1)) % NRoster \in Picks
      BY <3>2, RosterAssumption, SMT DEF Picks
    <3>. QED BY <1>13, <3>1, <3>3 DEF Cycle
  <2>2. next # Idle BY RosterAssumption DEF Picks, Idle
  <2>3. s \notin exists
    BY <2>1 DEF IInv, SeatInv, ChoosersStayOffStage, Choosing
  <2>4. \A t \in Slots : Seat(t)' = Seat(t)
    BY <1>0, <2>1, <2>2, <2>3 DEF TypeOK, Seat, Choosing
  <2>. QED BY <2>4, NobodyMoves
<1>14. CASE WriteButtons \/ GameIdle \/ EnterGame \/ ClearRoster
  BY <1>1, <1>14
  DEF WriteButtons, GameIdle, EnterGame, ClearRoster, GameStep, world, coop
<1>15. ASSUME NEW s \in Slots, JoinInSelection(s) \/ ListComputer(s)
       PROVE  [Promise!Next]_Seating
  BY <1>1, <1>15 DEF JoinInSelection, ListComputer, GameStep, coop
<1>16. CASE StartMatch
  <2>1. /\ mode = "select" /\ pc = "game" /\ choice' = choice
        /\ raised = {} /\ raised' = {}
    BY <1>0, <1>16 DEF StartMatch, GameStep, coop
  <2>2. exists = {} /\ \A s \in Slots : ~Choosing(s)
    BY <2>1 DEF IInv, MatchInv, GateInv, OverInv, Leftover
  <2>3. \A s \in Slots :
           /\ Seat(s) = "empty"
           /\ Seat(s)' = IF s \in exists' THEN "playing" ELSE "empty"
    BY <2>1, <2>2 DEF Seat, Choosing
  <2>4. exists' \cap Slots \in SUBSET Slots OBVIOUS
  <2>5. Promise!StartMatch
    BY <2>3, <2>4 DEF Promise!StartMatch, Seating
  <2>. QED BY <2>5 DEF Promise!Next
<1>17. CASE EndMatch
  <2>1. /\ choice' = choice /\ exists' = {} /\ raised = {} /\ raised' = {}
    BY <1>0, <1>17 DEF EndMatch, GameStep, coop
  <2>2. \A s \in Slots :
           Seat(s)' = IF Seat(s) = "playing" THEN "empty" ELSE Seat(s)
    BY <2>1 DEF Seat, Choosing
  <2>3. Promise!EndMatch BY <2>2 DEF Promise!EndMatch, Seating
  <2>. QED BY <2>3 DEF Promise!Next
<1>18. ASSUME NEW s \in Slots, Sweep(s) PROVE [Promise!Next]_Seating
  <2>1. /\ choice' = choice /\ exists' = exists \ {s} /\ s \in exists
        /\ raised = {} /\ raised' = {}
    BY <1>0, <1>18 DEF Sweep, GameStep, coop
  <2>2. ~Choosing(s)
    BY <2>1 DEF IInv, SeatInv, ChoosersStayOffStage
  <2>3. /\ Seat(s) = "playing" /\ Seat(s)' = "empty"
        /\ \A t \in Slots \ {s} : Seat(t)' = Seat(t)
    BY <2>1, <2>2 DEF Seat, Choosing
  <2>. QED BY <2>3, OneMoves
       DEF Promise!Next, Promise!Leave, Promise!To, Seating
<1>19. CASE HudRaise
  <2>1. /\ choice' = choice /\ exists' = exists \cup raised'
        /\ raised = {} /\ raised' \cap exists = {}
    BY <1>0, <1>19 DEF HudRaise, coop
  <2>2. \A t \in Slots : Seat(t)' = Seat(t) BY <2>1 DEF Seat, Choosing
  <2>. QED BY <2>2, NobodyMoves
<1>20. CASE HudLower
  <2>1. choice' = choice /\ exists' = exists \ raised /\ raised' = {}
    BY <1>20 DEF HudLower, coop
  <2>2. \A t \in Slots : Seat(t)' = Seat(t) BY <2>1 DEF Seat, Choosing
  <2>. QED BY <2>2, NobodyMoves
<1>. QED
  BY <1>2, <1>3, <1>4, <1>5, <1>6, <1>7, <1>8, <1>9, <1>10, <1>11, <1>12,
     <1>13, <1>14, <1>15, <1>16, <1>17, <1>18, <1>19, <1>20
  DEF Next, Pump, Frame, DeviceStep, Game

\* Joins, choices and departures happen in the order PlayerSeats allows: no
\* fighter is sent back to its choice, and a match seats nobody over one.
THEOREM SeatsImplemented == Spec => SeatsAsPromised
<1>1. Init => Promise!Init
  BY DEF Init, Promise!Init, Seat, Choosing, Slots
<1>2. IInv /\ [Next]_vars => [Promise!Next]_([s \in Slots |-> Seat(s)])
  BY SeatsStep DEF Seating
<1>. QED
  BY Invariance, <1>1, <1>2, PTL
  DEF Spec, SeatsAsPromised, Promise!Spec
=============================================================================
