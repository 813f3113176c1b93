------------------------------ MODULE FrameClock ------------------------------
(***************************************************************************)
(* The two clocks of the port.  The guest's clock is the number of frames  *)
(* presented plus what waits were credited (win32/imports.c), and the main *)
(* loop paces the game against it (app/port_entry.c).  The host holds each *)
(* present until the wall has caught up (video/host_frame.c).              *)
(*                                                                         *)
(* Time is counted in units of which Ms make a millisecond.  Only          *)
(* differences are kept: `clock` is the guest clock less previous_tick,    *)
(* `early` the due time of the last frame less the wall clock.  What one   *)
(* frame of the game does is external: it presents and sleeps some number  *)
(* of times, MaxSteps at most in this model, and data may be loading at    *)
(* any reading of the loading flag.                                        *)
(***************************************************************************)
EXTENDS Integers

CONSTANTS Ms,        \* units in a millisecond
          Frame,     \* GUEST_FRAME_NS: units a presented frame is worth
          Slow, Fast, \* the loop's two intervals, in ms (33 and 3)
          Clamp,     \* ms of delay that are caught up with (100)
          SleepMax,  \* ms of one sleep of the loop (5)
          Resync,    \* units of lateness the pacer forgives (250 ms)
          Requests,  \* ms the game asks Sleep for inside a frame
          Works,     \* units of wall time between two steps
          MaxSteps,  \* presents and sleeps inside one frame
          NoSleep,   \* LF2_NO_SLEEP is set
          Unanchored

ASSUME FrameClockAssumption ==
    /\ Ms \in Nat \ {0} /\ SleepMax \in Nat \ {0} /\ MaxSteps \in Nat
    /\ Fast \in Nat \ {0} /\ Slow \in Nat /\ Fast <= Slow
    /\ Clamp \in Nat /\ Slow <= Clamp
    /\ Frame \in Nat /\ Slow * Ms <= Frame
    /\ Resync \in Nat /\ Frame <= Resync
    /\ Requests \subseteq Nat /\ Works \subseteq Nat
    /\ NoSleep \in BOOLEAN
    /\ Unanchored \notin Int

VARIABLES
    pc,       \* where run_main_loop stands: top, frame, rest or done
    clock,    \* the guest clock less previous_tick
    interval, \* the interval of this round
    steps,    \* presents and sleeps done by this frame of the game
    early,    \* frame_pace: due less wall at the last present, Unanchored unanchored
    log       \* history: the last wait, free frames, frames in one instant

clockVars == <<pc, clock, interval, steps, early, log>>

Smaller(a, b) == IF a <= b THEN a ELSE b

-----------------------------------------------------------------------------
(* The guest clock.                                                        *)

(* h_Sleep: what a sleep of ms is worth to the guest.  A loading screen    *)
(* does not wait; elsewhere a sleep is a floor and is worth a ms more.     *)
Credit(ms, loading) ==
    IF NoSleep THEN 0
    ELSE Ms * ((IF ms = 0 THEN 1 ELSE ms) + (IF loading THEN 0 ELSE 1))

(* The wall time it takes.                                                 *)
Slept(ms, loading) == IF NoSleep \/ loading THEN 0 ELSE Ms * ms

(* h_timeGetTime and the loop's subtraction, modulo 2^32: a previous_tick  *)
(* ahead of the clock makes the difference enormous.                       *)
Elapsed == clock \div Ms
DueStrictly(i) == Elapsed > i \/ clock < 0
Due(i) == Elapsed >= i \/ clock < 0

(* previous_tick = now - 100: the rest of a long delay is given up.        *)
Unclamped == clock
Clamped == IF Elapsed > Clamp \/ clock < 0 THEN Clamp * Ms + (clock % Ms) ELSE clock

-----------------------------------------------------------------------------
(* The pacer.                                                              *)

(* frame_pace at a present that came `work` units after the last step:     *)
(* how far due lies ahead of the wall, before and after it has waited.     *)
Ahead(work) == early + Frame - work

PacedWithoutResync(work, loading) ==
    IF loading THEN Unanchored
    ELSE IF early = Unanchored THEN 0
    ELSE IF Ahead(work) > 0 THEN 0
    ELSE Ahead(work)

Paced(work, loading) ==
    IF loading THEN Unanchored
    ELSE IF early = Unanchored THEN 0
    ELSE IF Ahead(work) > 0 \/ Ahead(work) < -Resync THEN 0
    ELSE Ahead(work)

Wait(work, loading) ==
    IF loading \/ early = Unanchored \/ Ahead(work) <= 0 THEN 0 ELSE Ahead(work)

(* Lateness beyond what is forgiven anyway is not counted on (a bound).    *)
Latest == -(Resync + Frame + 1)
Passed(e, units) ==
    IF e = Unanchored THEN Unanchored ELSE IF e - units < Latest THEN Latest ELSE e - units

-----------------------------------------------------------------------------
(* The loop.                                                               *)

(* The messages, which may bring the request to quit, and the decision.    *)
Top(quit, i) ==
    /\ pc = "top"
    /\ interval' = i
    /\ steps' = 0
    /\ IF quit THEN pc' = "done" /\ UNCHANGED clock
       ELSE IF Due(i) THEN pc' = "frame" /\ clock' = Clamped
       ELSE pc' = "rest" /\ UNCHANGED clock
    /\ log' = [log EXCEPT !.still = IF pc' = "frame" THEN @ + 1 ELSE @]
    /\ UNCHANGED early

(* hostwin_present inside the frame.                                       *)
Present(work, loading) ==
    /\ pc = "frame" /\ steps < MaxSteps
    /\ steps' = steps + 1
    /\ clock' = clock + Frame
    /\ early' = Paced(work, loading)
    /\ log' = [waited |-> Wait(work, loading), still |-> 0,
               free |-> IF work = 0 /\ ~loading /\ Wait(work, loading) = 0 THEN log.free + 1 ELSE 0]
    /\ UNCHANGED <<pc, interval>>

(* The game calls Sleep inside the frame.                                  *)
GameSleeps(ms, loading) ==
    /\ pc = "frame" /\ steps < MaxSteps
    /\ steps' = steps + 1
    /\ clock' = clock + Credit(ms, loading)
    /\ early' = Passed(early, Slept(ms, loading))
    /\ log' = [log EXCEPT !.free = 0, !.still = IF clock' = clock THEN @ ELSE 0]
    /\ UNCHANGED <<pc, interval>>

FrameEnds ==
    /\ pc = "frame"
    /\ clock' = clock - interval * Ms
    /\ pc' = "rest"
    /\ UNCHANGED <<interval, steps, early, log>>

(* The loop sleeps what is left of the interval, SleepMax at a time.       *)
Rest(loading) ==
    LET remaining == interval - Elapsed
        ms == Smaller(remaining, SleepMax)
    IN  /\ pc = "rest"
        /\ pc' = "top"
        /\ IF remaining > 0
           THEN /\ clock' = clock + Credit(ms, loading)
                /\ early' = Passed(early, Slept(ms, loading))
                /\ log' = [log EXCEPT !.free = 0, !.still = IF clock' = clock THEN @ ELSE 0]
           ELSE UNCHANGED <<clock, early, log>>
        /\ UNCHANGED <<interval, steps>>

ClockInit ==
    /\ pc = "top" /\ clock \in 0..(Ms - 1)
    /\ interval = Slow /\ steps = 0
    /\ early = Unanchored
    /\ log = [waited |-> 0, free |-> 0, still |-> 0]

(* The program returns from its main loop.                                 *)
Done == pc = "done" /\ UNCHANGED clockVars

Loop ==
    \/ \E quit \in BOOLEAN, i \in {Slow, Fast} : Top(quit, i)
    \/ \E work \in Works, loading \in BOOLEAN : Present(work, loading)
    \/ \E ms \in Requests, loading \in BOOLEAN : GameSleeps(ms, loading)
    \/ FrameEnds
    \/ \E loading \in BOOLEAN : Rest(loading)

ClockNext == Loop \/ Done

(* The thread of the loop is never starved, and the frames and sleeps of   *)
(* the host return.                                                        *)
ClockSpec == ClockInit /\ [][ClockNext]_clockVars /\ WF_clockVars(Loop)

-----------------------------------------------------------------------------
(* Properties.                                                             *)

ClockTypeOK ==
    /\ pc \in {"top", "frame", "rest", "done"}
    /\ clock \in Int /\ interval \in {Slow, Fast}
    /\ steps \in 0..MaxSteps
    /\ early \in Int \union {Unanchored}
    /\ log \in [waited : Nat, free : Nat, still : Nat]

(* previous_tick never overtakes the guest clock, through delays given up, *)
(* changes of the interval and frames that present nothing: ahead of it,   *)
(* the unsigned difference would make every round look hopelessly late.    *)
NeverAheadOfTheClock == (IF pc = "frame" THEN interval * Ms ELSE 0) <= clock

(* However long a frame was, the game is stepped only a bounded number of  *)
(* times before its clock moves again.                                     *)
CatchUpIsBounded == log.still <= Clamp \div Fast + 1

(* The loop steps the game by its clock: never ahead of it, and never far  *)
(* behind it at once.                                                      *)
StepsFollowTheClock == NeverAheadOfTheClock /\ CatchUpIsBounded

(* The pacer never holds a frame for longer than a frame lasts: time that  *)
(* passed while it was not pacing, as in a load, is not made up for.       *)
WaitsAtMostAFrame == log.waited <= Frame

(* Nor does it make up for a long stall by a long burst of frames.         *)
BurstIsBounded == log.free <= Resync \div Frame + 1

(* The game keeps being stepped until the program quits: the quantised     *)
(* clock never comes to rest where the loop neither runs nor sleeps.       *)
FramesKeepComing == []<>(pc = "frame") \/ <>(pc = "done")
=============================================================================
