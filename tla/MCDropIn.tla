------------------------------ MODULE MCDropIn ------------------------------
(* The instances of DropIn that TLC checks, and what the comments of the    *)
(* code say of drop-in play that the code does not do.                      *)
EXTENDS DropIn

MCPresses == {{}, {"attack"}, {"right"}}

-----------------------------------------------------------------------------
\* input.c: "it is the lowest one free -- a second human is Player 2": a
\* newcomer gets the lowest slot with no fighter in it that no other device
\* holds.
NewcomerTakesLowest ==
  [][\A d \in Devices :
       since' # since /\ devPlayer'[d] # devPlayer[d]
         => devPlayer'[d] =
              Lowest({s \in Slots \ exists :
                        \A e \in Devices \ {d} : devPlayer[e] # s})]_vars

\* coop.c: "a slot the game's own character selection filled is not ours to
\* empty": no fighter the game's selection put there is taken out by the
\* gather.
RosterIsNotOursToEmpty ==
  [][\A s \in exists : pc = "claim" /\ role[s] = "game" => s \in exists']_vars

\* coop.c: leaving is "the inverse of the join, field for field, so a slot
\* that leaves is indistinguishable from one that never joined": where the
\* game had set a selector, a slot the port no longer holds has it.
LeaveUndoesJoin == \A s \in Configured \ owned : s \in devsel
=============================================================================
