----------------------------- MODULE InputProofs -----------------------------
(***************************************************************************)
(* Proofs about the menu for any keys, queue and length of a pulse: the    *)
(* order of the function keys, what becomes of the frozen match, and which *)
(* presses the document takes.  The first two invariants are inductive     *)
(* without the state of the input.                                         *)
(*                                                                         *)
(* Proofs about Keys for any actions, zones, fingers and length of the     *)
(* ring: what the ledger, the game and the controls hold.                  *)
(***************************************************************************)
EXTENDS PauseMenu, Keys, SequenceTheorems, FiniteSetTheorems, WellFoundedInduction, TLAPS

-----------------------------------------------------------------------------
(* The function keys.                                                      *)

\* What every operation on the pulses keeps: the key that is down is the
\* active one, and nothing waits while none is active.
PulseType == [active : FunctionKeys \union {Nothing}, left : Nat, queue : Seq(FunctionKeys)]
KeyedType == [pulse : PulseType, injected : SUBSET FunctionKeys]
KeyedInv(s) ==
    /\ s \in KeyedType
    /\ s.injected = {s.pulse.active} \ {Nothing}
    /\ s.pulse.queue # << >> => s.pulse.active # Nothing

LogType == [due : Seq(FunctionKeys), wrong : BOOLEAN, before : BOOLEAN,
            credit : SUBSET MenuActions, loose : SUBSET MenuActions]

PulsesInv ==
    /\ KeyedInv(Keyed) /\ log \in LogType
    /\ log.due = pulse.queue /\ ~log.wrong

-----------------------------------------------------------------------------
(* The frozen match.                                                       *)

MatchInv ==
    /\ doc \in [exists : BOOLEAN, active : BOOLEAN, capture : {"none", "key", "pad", "armed"}]
    /\ match \in [on : BOOLEAN, paused : BOOLEAN, saved : BOOLEAN \union {Nothing}]
    /\ doc.exists /\ Frozen => doc.active /\ match.saved = log.before

-----------------------------------------------------------------------------
LEMMA StartKeeps ==
    ASSUME NEW s, NEW k \in FunctionKeys,
           s \in KeyedType,
           s.pulse.active = Nothing, s.injected = {}
    PROVE  /\ KeyedInv(Start(s, k))
           /\ Start(s, k).pulse.queue = s.pulse.queue
           /\ Start(s, k).pulse.active = k
BY PauseMenuAssumption DEF KeyedType, PulseType, KeyedInv, Start

LEMMA RequestKeeps ==
    ASSUME NEW s, NEW k \in FunctionKeys, KeyedInv(s)
    PROVE  /\ KeyedInv(Request(s, k))
           /\ Request(s, k).pulse.queue =
                IF Accepted(s.pulse) /\ s.pulse.active # Nothing
                THEN Append(s.pulse.queue, k) ELSE s.pulse.queue
<1>1. CASE s.pulse.active = Nothing
  <2>1. s.injected = {}
    BY <1>1 DEF KeyedType, PulseType, KeyedInv
  <2>q. QED
    BY <1>1, <2>1, StartKeeps DEF KeyedType, PulseType, KeyedInv, Request
<1>2. CASE s.pulse.active # Nothing /\ Accepted(s.pulse)
  <2>1. Request(s, k) = [s EXCEPT !.pulse.queue = Append(@, k)]
    BY <1>2 DEF Request
  <2>0. Append(s.pulse.queue, k) \in Seq(FunctionKeys)
    BY DEF KeyedType, PulseType, KeyedInv
  <2>2. /\ Request(s, k).pulse = [s.pulse EXCEPT !.queue = Append(@, k)]
        /\ Request(s, k).injected = s.injected
        /\ Request(s, k) \in KeyedType
    BY <2>1, <2>0 DEF KeyedType, PulseType, KeyedInv
  <2>q. QED
    BY <1>2, <2>2, <2>0 DEF KeyedType, PulseType, KeyedInv
<1>3. CASE s.pulse.active # Nothing /\ ~Accepted(s.pulse)
  BY <1>3 DEF KeyedType, PulseType, KeyedInv, Request, Accepted
<1>q. QED
  BY <1>1, <1>2, <1>3

LEMMA EndKeeps ==
    ASSUME NEW s, KeyedInv(s)
    PROVE  /\ End(s) \in KeyedType
           /\ End(s).injected = {End(s).pulse.active} \ {Nothing}
           /\ End(s).pulse.queue = s.pulse.queue
<1>1. CASE s.pulse.active = Nothing
  BY <1>1 DEF KeyedType, PulseType, KeyedInv, End
<1>2. CASE s.pulse.active # Nothing /\ s.pulse.left > 1
  BY <1>2 DEF KeyedType, PulseType, KeyedInv, End
<1>3. CASE s.pulse.active # Nothing /\ ~(s.pulse.left > 1)
  BY <1>3 DEF KeyedType, PulseType, KeyedInv, End
<1>q. QED
  BY <1>1, <1>2, <1>3

LEMMA DequeuedHas ==
    ASSUME NEW s \in KeyedType, Tail(s.pulse.queue) \in Seq(FunctionKeys)
    PROVE  LET r == [s EXCEPT !.pulse.queue = Tail(@)]
           IN  /\ r \in KeyedType
               /\ r.pulse.active = s.pulse.active /\ r.injected = s.injected
               /\ r.pulse.queue = Tail(s.pulse.queue)
BY DEF KeyedType, PulseType

\* A tick starts the head of the queue exactly when no key is left active.
LEMMA TickKeeps ==
    ASSUME NEW s, KeyedInv(s)
    PROVE  LET e == End(s) t == Tick(s)
           IN  /\ KeyedInv(t)
               /\ e.pulse.active = Nothing /\ t.pulse.active # Nothing =>
                    /\ s.pulse.queue # << >> /\ t.pulse.active = Head(s.pulse.queue)
                    /\ t.pulse.queue = Tail(s.pulse.queue)
               /\ ~(e.pulse.active = Nothing /\ t.pulse.active # Nothing) =>
                    t.pulse.queue = s.pulse.queue
<1> DEFINE e == End(s)
           t == Tick(s)
           rest == [e EXCEPT !.pulse.queue = Tail(@)]
<1>0. /\ e \in KeyedType
      /\ e.injected = {e.pulse.active} \ {Nothing} /\ e.pulse.queue = s.pulse.queue
  BY EndKeeps
<1>1. CASE e.pulse.active # Nothing \/ e.pulse.queue = << >>
  <2>1. t = e
    BY <1>1 DEF Tick
  <2>q. QED
    BY <1>0, <1>1, <2>1 DEF KeyedType, PulseType, KeyedInv
<1>2. CASE e.pulse.active = Nothing /\ e.pulse.queue # << >>
  <2>1. t = Start(rest, Head(e.pulse.queue))
    BY <1>2 DEF Tick
  <2>2. Head(e.pulse.queue) \in FunctionKeys /\ Tail(e.pulse.queue) \in Seq(FunctionKeys)
    BY <1>0, <1>2 DEF KeyedType, PulseType
  <2> HIDE DEF e
  <2>3. /\ rest \in KeyedType
        /\ rest.pulse.active = Nothing /\ rest.injected = {}
        /\ rest.pulse.queue = Tail(e.pulse.queue)
    BY <1>0, <1>2, <2>2, DequeuedHas
  <2> HIDE DEF rest
  <2>4. /\ KeyedInv(Start(rest, Head(e.pulse.queue)))
        /\ Start(rest, Head(e.pulse.queue)).pulse.queue = rest.pulse.queue
        /\ Start(rest, Head(e.pulse.queue)).pulse.active = Head(e.pulse.queue)
    BY <2>2, <2>3, StartKeeps DEF KeyedType
  <2>5. Head(e.pulse.queue) # Nothing
    BY <2>2, PauseMenuAssumption
  <2> HIDE DEF t
  <2>6. KeyedInv(t) /\ t.pulse.queue = Tail(s.pulse.queue) /\ t.pulse.active = Head(s.pulse.queue)
    BY <1>0, <2>1, <2>3, <2>4
  <2>q. QED
    BY <1>0, <1>2, <2>5, <2>6 DEF e, t
<1>q. QED
  BY <1>1, <1>2

-----------------------------------------------------------------------------
(* The parts of a step.                                                    *)

\* An element leaves the pulses alone or makes one request of its key.
LEMMA ActivatedKeyed ==
    ASSUME PulsesInv, NEW item \in Items, NEW device, NEW in
    PROVE  LET s == Activated(item, device, in).keyed
           IN  KeyedInv(s) /\ (Offered(item) => Due(item) = s.pulse.queue)
<1> DEFINE s == Activated(item, device, in).keyed
<1>0. /\ KeyedInv(Keyed) /\ log.due = pulse.queue /\ Keyed.pulse = pulse
  BY DEF PulsesInv, Keyed
<1>1. CASE item \in FunctionKeys /\ Frozen
  <2>1. s = Request(Keyed, item)
    BY <1>1, PauseMenuAssumption DEF Activated, Entries
  <2>q. QED
    BY <1>0, <1>1, <2>1, RequestKeeps DEF Due
<1>2. CASE item \in Entries
  <2>1. s = Keyed
    BY <1>2, PauseMenuAssumption DEF Activated, Entries
  <2>q. QED
    BY <1>0, <1>2, <2>1, PauseMenuAssumption DEF Due
<1>3. CASE item \in FunctionKeys /\ ~Frozen
  <2>1. s = Keyed
    BY <1>3, PauseMenuAssumption DEF Activated, Entries
  <2>q. QED
    BY <1>0, <1>3, <2>1 DEF Offered
<1>q. QED
  BY <1>1, <1>2, <1>3 DEF Items

LEMMA MenuInitHolds == MenuInit => PulsesInv /\ MatchInv
<1> SUFFICES ASSUME MenuInit PROVE PulsesInv /\ MatchInv
  OBVIOUS
<1>1. KeyedInv(Keyed)
  <2>1. pulse = [active |-> Nothing, left |-> 0, queue |-> << >>] /\ injected = {}
    BY DEF MenuInit, Idle
  <2>2. Keyed = [pulse |-> [active |-> Nothing, left |-> 0, queue |-> << >>], injected |-> {}]
    BY <2>1 DEF Keyed
  <2>3. Keyed.injected = {Keyed.pulse.active} \ {Nothing} /\ Keyed.pulse.queue = << >>
    BY <2>2
  <2>4. Keyed \in KeyedType
    BY <2>2 DEF KeyedType, PulseType
  <2>q. QED
    BY <2>3, <2>4 DEF KeyedInv
<1>2. log \in LogType /\ log.due = pulse.queue /\ ~log.wrong
  BY DEF MenuInit, LogType, Idle
<1>3. MatchInv
  <2>1. match = [on |-> FALSE, paused |-> FALSE, saved |-> Nothing]
    BY DEF MenuInit
  <2>2. ~Frozen /\ match \in [on : BOOLEAN, paused : BOOLEAN, saved : BOOLEAN \union {Nothing}]
    BY <2>1 DEF Frozen
  <2>3. PICK e \in BOOLEAN : doc = [exists |-> e, active |-> FALSE, capture |-> "none"]
    BY DEF MenuInit
  <2>4. doc \in [exists : BOOLEAN, active : BOOLEAN, capture : {"none", "key", "pad", "armed"}]
    BY <2>3
  <2>q. QED
    BY <2>2, <2>4 DEF MatchInv
<1>q. QED
  BY <1>1, <1>2, <1>3 DEF PulsesInv

\* A step that leaves the pulses and the history of requests alone.
LEMMA PulsesUntouched ==
    ASSUME PulsesInv, UNCHANGED <<pulse, injected>>,
           log' \in LogType, log'.due = log.due, log'.wrong = log.wrong
    PROVE  PulsesInv'
BY DEF PulsesInv, Keyed, KeyedInv

LEMMA PulsesPreserved == PulsesInv /\ MatchInv /\ [MenuNext]_menuVars => PulsesInv'
<1> SUFFICES ASSUME PulsesInv, MatchInv, [MenuNext]_menuVars PROVE PulsesInv'
  OBVIOUS
<1>0. log \in LogType /\ match.paused \in BOOLEAN
  BY DEF PulsesInv, MatchInv
<1>1. CASE UNCHANGED <<pulse, injected, log>>
  BY <1>1, <1>0, PulsesUntouched
<1>2. ASSUME NEW a \in MenuActions, NEW repeat \in BOOLEAN, KeyDown(a, repeat) PROVE PulsesInv'
  <2>1. log' \in LogType /\ log'.due = log.due /\ log'.wrong = log.wrong
    BY <1>0, <1>2 DEF KeyDown, LogType
  <2>q. QED
    BY <2>1, <1>2, PulsesUntouched DEF KeyDown
<1>3. ASSUME NEW a \in MenuActions, PadDown(a) PROVE PulsesInv'
  <2>1. log' \in LogType /\ log'.due = log.due /\ log'.wrong = log.wrong
    BY <1>0, <1>3 DEF PadDown, LogType
  <2>q. QED
    BY <2>1, <1>3, PulsesUntouched DEF PadDown
<1>4. CASE RenderBlocked
  <2>1. log' \in LogType /\ log'.due = log.due /\ log'.wrong = log.wrong
    BY <1>0, <1>4 DEF RenderBlocked, LogType
  <2>q. QED
    BY <2>1, <1>4, PulsesUntouched DEF RenderBlocked
<1>5. ASSUME NEW item \in Items, Click(item) PROVE PulsesInv'
  <2> DEFINE s == Activated(item, "key", input).keyed
  <2>1. KeyedInv(s) /\ Due(item) = s.pulse.queue
    BY <1>5, ActivatedKeyed DEF Click
  <2>2. pulse' = s.pulse /\ injected' = s.injected /\ log' = [log EXCEPT !.due = Due(item)]
    BY <1>5 DEF Click
  <2> HIDE DEF s
  <2>3. Due(item) \in Seq(FunctionKeys)
    BY <2>1 DEF KeyedType, PulseType, KeyedInv
  <2>4. log' \in LogType /\ log'.due = pulse' .queue /\ ~log'.wrong
    BY <2>1, <2>2, <2>3, <1>0 DEF LogType, PulsesInv
  <2>5. KeyedInv(Keyed)'
    BY <2>1, <2>2 DEF KeyedType, PulseType, KeyedInv, Keyed
  <2>q. QED
    BY <2>4, <2>5 DEF PulsesInv
<1>6. ASSUME NEW item \in Items, RenderActs(item) PROVE PulsesInv'
  <2>1. CASE Attack \in Pressed
    <3> DEFINE s == Activated(item, ActedBy(Attack), Settled).keyed
    <3>1. KeyedInv(s) /\ Due(item) = s.pulse.queue
      BY <1>6, <2>1, ActivatedKeyed DEF RenderActs
    <3>2. /\ pulse' = s.pulse /\ injected' = s.injected
          /\ log' = [log EXCEPT !.credit = @ \ Pressed, !.loose = {}, !.due = Due(item)]
      BY <1>6, <2>1 DEF RenderActs
    <3> HIDE DEF s
    <3>3. Due(item) \in Seq(FunctionKeys)
      BY <3>1 DEF KeyedType, PulseType, KeyedInv
    <3>4. log' \in LogType /\ log'.due = pulse' .queue /\ ~log'.wrong
      BY <3>1, <3>2, <3>3, <1>0 DEF LogType, PulsesInv
    <3>5. KeyedInv(Keyed)'
      BY <3>1, <3>2 DEF KeyedType, PulseType, KeyedInv, Keyed
    <3>q. QED
      BY <3>4, <3>5 DEF PulsesInv
  <2>2. CASE Attack \notin Pressed
    <3>1. /\ pulse' = pulse /\ injected' = injected
          /\ log' = [log EXCEPT !.credit = @ \ Pressed, !.loose = {}, !.due = log.due]
      BY <1>6, <2>2 DEF RenderActs, Keyed
    <3>2. log' \in LogType /\ log'.due = log.due /\ log'.wrong = log.wrong
      BY <3>1, <1>0 DEF LogType
    <3>q. QED
      BY <3>1, <3>2, PulsesUntouched
  <2>q. QED
    BY <2>1, <2>2
<1>7. ASSUME NEW startEdge \in BOOLEAN, MenuTick(startEdge) PROVE PulsesInv'
  <2> DEFINE t == Tick(Keyed)
             started == End(Keyed).pulse.active = Nothing /\ t.pulse.active # Nothing
  <2>0. KeyedInv(Keyed) /\ log.due = pulse.queue /\ Keyed.pulse = pulse /\ ~log.wrong
    BY DEF PulsesInv, Keyed
  <2>1. /\ KeyedInv(t)
        /\ started => /\ pulse.queue # << >> /\ t.pulse.active = Head(pulse.queue)
                      /\ t.pulse.queue = Tail(pulse.queue)
        /\ ~started => t.pulse.queue = pulse.queue
    BY <2>0, TickKeeps
  <2>2. /\ pulse' = t.pulse /\ injected' = t.injected
        /\ log'.due = (IF started /\ log.due # << >> THEN Tail(log.due) ELSE log.due)
        /\ log'.wrong = (log.wrong \/ (started /\ (log.due = << >> \/ t.pulse.active # Head(log.due))))
        /\ log'.before \in BOOLEAN \union {match.paused}
        /\ log'.credit \in SUBSET MenuActions /\ log'.loose \in SUBSET MenuActions
        /\ DOMAIN log' = DOMAIN log
    BY <1>0, <1>7 DEF MenuTick, LogType
  <2> HIDE DEF t, started
  <2>3. KeyedInv(Keyed)'
    BY <2>1, <2>2 DEF KeyedType, PulseType, KeyedInv, Keyed
  <2>4. log'.due = pulse' .queue /\ ~log'.wrong
    BY <2>0, <2>1, <2>2
  <2>5. log' \in LogType
    <3>1. log' = [due |-> log'.due, wrong |-> log'.wrong, before |-> log'.before,
                  credit |-> log'.credit, loose |-> log'.loose]
      BY <1>0, <1>7 DEF MenuTick, LogType
    <3>2. log'.due \in Seq(FunctionKeys)
      BY <2>3, <2>4 DEF KeyedType, PulseType, KeyedInv, Keyed
    <3>3. log'.wrong \in BOOLEAN /\ log'.before \in BOOLEAN
      BY <1>0, <2>2 DEF LogType
    <3>q. QED
      BY <2>2, <3>1, <3>2, <3>3 DEF LogType
  <2>q. QED
    BY <2>3, <2>4, <2>5 DEF PulsesInv
<1>8. CASE UNCHANGED menuVars
  BY <1>8, <1>1 DEF menuVars
<1>q. QED
  BY <1>1, <1>2, <1>3, <1>4, <1>5, <1>6, <1>7, <1>8
     DEF MenuNext, Event, MenuFrame, Render, MatchChanges, GamePauses, KeyUp, PadUp, EscapeDown

-----------------------------------------------------------------------------
(* What a step does to the match and the document.                         *)

DocType == [exists : BOOLEAN, active : BOOLEAN, capture : {"none", "key", "pad", "armed"}]

\* The ways a step may change them: the menu opens, it closes, or neither.
Opens ==
    /\ ~doc.active /\ doc' \in DocType /\ doc'.exists = doc.exists /\ doc'.active = doc.exists
    /\ match' = OpenedMatch /\ (~Frozen => log'.before = match.paused)
Closes ==
    /\ doc' \in DocType /\ doc'.exists = doc.exists /\ ~doc'.active
    /\ match' = ClosedMatch
Stays ==
    /\ doc' \in DocType /\ doc'.exists = doc.exists /\ doc'.active = doc.active
    /\ match' = match \/ (~Frozen /\ ~Frozen' /\ match' \in [on : BOOLEAN, paused : BOOLEAN, saved : BOOLEAN \union {Nothing}])
    /\ log'.before = log.before

GivenBack ==
    doc.exists =>
        /\ Frozen' => doc'.active
        /\ Frozen /\ ~Frozen' => match'.paused = log.before

\* An element closes the document and gives the match back, or does neither.
LEMMA ActivatedMatch ==
    ASSUME NEW item \in Items, NEW device, NEW in, doc \in DocType
    PROVE  LET r == Activated(item, device, in)
           IN  \/ r.doc = Closed /\ r.match = ClosedMatch
               \/ /\ r.doc \in DocType /\ r.doc.exists = doc.exists /\ r.doc.active = doc.active
                  /\ r.match = match
<1>1. CASE item = "continue"
  BY <1>1 DEF Activated
<1>2. CASE item = "rebind key"
  <2>1. Activated(item, device, in) =
          [doc |-> [doc EXCEPT !.capture = "key"], input |-> in, match |-> match, keyed |-> Keyed]
    BY <1>2, PauseMenuAssumption DEF Activated, Entries
  <2>q. QED
    BY <2>1 DEF DocType
<1>3. CASE item = "rebind pad"
  <2> DEFINE how == IF device = "key" THEN "armed" ELSE "pad"
  <2>1. Activated(item, device, in) =
          [doc |-> [doc EXCEPT !.capture = how], input |-> [in EXCEPT !.blocked = TRUE],
           match |-> match, keyed |-> Keyed]
    BY <1>3, PauseMenuAssumption DEF Activated, Entries
  <2>2. how \in {"armed", "pad"}
    OBVIOUS
  <2> HIDE DEF how
  <2>q. QED
    BY <2>1, <2>2 DEF DocType
<1>4. CASE item \in FunctionKeys /\ Frozen
  BY <1>4, PauseMenuAssumption DEF Activated, Entries
<1>5. CASE item = "page" \/ (item \in FunctionKeys /\ ~Frozen)
  <2>1. item \notin {"continue", "rebind key", "rebind pad"} /\ ~(item \in FunctionKeys /\ Frozen)
    BY <1>5, PauseMenuAssumption DEF Entries
  <2>q. QED
    BY <2>1 DEF Activated
<1>q. QED
  BY <1>1, <1>2, <1>3, <1>4, <1>5 DEF Items, Entries

LEMMA ClosedCloses ==
    ASSUME doc \in DocType
    PROVE  Closed \in DocType /\ Closed.exists = doc.exists /\ ~Closed.active
BY DEF Closed, DocType

LEMMA EveryStepIsOne == PulsesInv /\ MatchInv /\ [MenuNext]_menuVars => Opens \/ Closes \/ Stays
<1> SUFFICES ASSUME PulsesInv, MatchInv, [MenuNext]_menuVars PROVE Opens \/ Closes \/ Stays
  OBVIOUS
<1>0. log \in LogType /\ doc \in DocType
  BY DEF PulsesInv, MatchInv, DocType
<1>t. match \in [on : BOOLEAN, paused : BOOLEAN, saved : BOOLEAN \union {Nothing}]
  BY DEF MatchInv
<1>1. CASE UNCHANGED <<doc, match, log>>
  BY <1>0, <1>1 DEF Stays
<1>2. ASSUME NEW a \in MenuActions, NEW repeat \in BOOLEAN, KeyDown(a, repeat) PROVE Stays
  BY <1>0, <1>2 DEF KeyDown, Stays, LogType, DocType
<1>3. ASSUME NEW a \in MenuActions, PadDown(a) PROVE Stays
  BY <1>0, <1>3 DEF PadDown, Stays, LogType, DocType
<1>4. ASSUME NEW a \in MenuActions, PadUp(a) PROVE Stays
  BY <1>0, <1>4 DEF PadUp, Stays, DocType
<1>5. CASE EscapeDown
  BY <1>0, <1>5 DEF EscapeDown, Stays, DocType
<1>6. ASSUME NEW item \in Items, Click(item) PROVE Closes \/ Stays
  <2> DEFINE r == Activated(item, "key", input)
  <2>1. doc' = r.doc /\ match' = r.match /\ log'.before = log.before
    BY <1>0, <1>6 DEF Click, LogType
  <2>2. \/ r.doc = Closed /\ r.match = ClosedMatch
        \/ /\ r.doc \in DocType /\ r.doc.exists = doc.exists /\ r.doc.active = doc.active
           /\ r.match = match
    BY <1>0, ActivatedMatch
  <2> HIDE DEF r
  <2>q. QED
    BY <1>0, <2>1, <2>2, ClosedCloses DEF Closes, Stays
<1>7. ASSUME NEW item \in Items, RenderActs(item) PROVE Closes \/ Stays
  <2> DEFINE r == Activated(item, ActedBy(Attack), Settled)
             gone == [r.doc EXCEPT !.active = FALSE, !.capture = "none"]
  <2>0. log'.before = log.before
    BY <1>0, <1>7 DEF RenderActs, LogType
  <2>1. CASE Jump \in Pressed /\ Attack \in Pressed
    <3>1. doc' = gone /\ match' = ClosedMatch
      BY <1>7, <2>1 DEF RenderActs
    <3>2. r.doc \in DocType /\ r.doc.exists = doc.exists
      BY <1>0, ActivatedMatch, ClosedCloses
    <3> HIDE DEF r
    <3>q. QED
      BY <3>1, <3>2 DEF Closes, DocType
  <2>2. CASE Jump \in Pressed /\ Attack \notin Pressed
    <3>1. doc' = Closed /\ match' = ClosedMatch
      BY <1>7, <2>2 DEF RenderActs, Closed
    <3>q. QED
      BY <1>0, <3>1, ClosedCloses DEF Closes
  <2>3. CASE Jump \notin Pressed /\ Attack \in Pressed
    <3>1. doc' = r.doc /\ match' = r.match
      BY <1>7, <2>3 DEF RenderActs
    <3>2. \/ r.doc = Closed /\ r.match = ClosedMatch
          \/ /\ r.doc \in DocType /\ r.doc.exists = doc.exists /\ r.doc.active = doc.active
             /\ r.match = match
      BY <1>0, ActivatedMatch
    <3> HIDE DEF r
    <3>q. QED
      BY <1>0, <2>0, <3>1, <3>2, ClosedCloses DEF Closes, Stays
  <2>4. CASE Jump \notin Pressed /\ Attack \notin Pressed
    <3>1. doc' = doc /\ match' = match
      BY <1>7, <2>4 DEF RenderActs
    <3>q. QED
      BY <1>0, <2>0, <3>1 DEF Stays
  <2>q. QED
    BY <2>1, <2>2, <2>3, <2>4
<1>8. CASE RenderBlocked
  BY <1>0, <1>8 DEF RenderBlocked, Stays, LogType, DocType
<1>9. ASSUME NEW startEdge \in BOOLEAN, MenuTick(startEdge) PROVE Opens \/ Closes \/ Stays
  BY <1>0, <1>9 DEF MenuTick, Closed, Opens, Closes, Stays, LogType, DocType
<1>10. CASE MatchChanges \/ GamePauses
  BY <1>0, <1>10, <1>t, PauseMenuAssumption DEF MatchChanges, GamePauses, Frozen, Stays
<1>q. QED
  BY <1>1, <1>2, <1>3, <1>4, <1>5, <1>6, <1>7, <1>8, <1>9, <1>10
     DEF MenuNext, Event, MenuFrame, Render, KeyUp, menuVars

LEMMA OpeningKeeps == MatchInv /\ Opens => MatchInv' /\ GivenBack
BY PauseMenuAssumption DEF MatchInv, Opens, OpenedMatch, Frozen, GivenBack, DocType

LEMMA ClosingKeeps == MatchInv /\ Closes => MatchInv' /\ GivenBack
BY PauseMenuAssumption DEF MatchInv, Closes, ClosedMatch, Frozen, GivenBack, DocType

LEMMA StayingKeeps == MatchInv /\ Stays => MatchInv' /\ GivenBack
BY PauseMenuAssumption DEF MatchInv, Stays, Frozen, GivenBack, DocType

LEMMA MenuStepPreserves ==
    PulsesInv /\ MatchInv /\ [MenuNext]_menuVars => PulsesInv' /\ MatchInv' /\ GivenBack
BY PulsesPreserved, EveryStepIsOne, OpeningKeeps, ClosingKeeps, StayingKeeps

(* Both invariants hold in every run of the menu (open_menu, close_menu,   *)
(* function_keys_tick).                                                    *)
THEOREM MenuInvariance == MenuSpec => [](PulsesInv /\ MatchInv)
<1>1. MenuInit => PulsesInv /\ MatchInv
  BY MenuInitHolds
<1>2. (PulsesInv /\ MatchInv) /\ [MenuNext]_menuVars => (PulsesInv /\ MatchInv)'
  BY MenuStepPreserves
<1>q. QED
  BY <1>1, <1>2, PTL DEF MenuSpec

(* Accepted function keys go down in their order, one at a time, whatever  *)
(* the length of the queue and of a pulse (function_key_request).          *)
THEOREM PulsesKeepTheirOrder == MenuSpec => []PulsesInOrder
<1>1. PulsesInv => PulsesInOrder
  BY DEF PulsesInv, KeyedInv, Keyed, PulsesInOrder
<1>q. QED
  BY <1>1, MenuInvariance, PTL

(* The frozen match is given back as it was found, whichever way the menu  *)
(* closes (pause_resume, called by every way out of the document).         *)
THEOREM MatchIsGivenBack == MenuSpec => PauseIsGivenBack
<1>1. (PulsesInv /\ MatchInv) /\ [MenuNext]_menuVars =>
        [doc.exists => /\ Frozen' => doc'.active
                       /\ Frozen /\ ~Frozen' => match'.paused = log.before]_menuVars
  BY MenuStepPreserves DEF GivenBack
<1>q. QED
  BY <1>1, MenuInvariance, PTL DEF MenuSpec, PauseIsGivenBack
-----------------------------------------------------------------------------
(* The presses.                                                            *)

InputType ==
    /\ held \in [Devices -> SUBSET MenuActions]
    /\ input \in [previous : SUBSET MenuActions,
                  latched : [MenuActions -> Devices \union {Nothing}], blocked : BOOLEAN]

\* A press that is owed is latched, and what the render would take is owed
\* or was left alone by a capture.
Owed ==
    /\ \A a \in log.credit : input.latched[a] # Nothing
    /\ Pressed \subseteq log.credit \union log.loose
PressInv == InputType /\ (doc.active /\ ~input.blocked => Owed)

\* What the document may do to the input: block it, leave it alone, or
\* neither with no press left over.
LEMMA ActivatedInput ==
    ASSUME NEW item \in Items, NEW device, NEW in, doc \in DocType,
           in \in [previous : SUBSET MenuActions,
                  latched : [MenuActions -> Devices \union {Nothing}], blocked : BOOLEAN]
    PROVE  LET r == Activated(item, device, in)
           IN  /\ r.input = in \/ r.input = [in EXCEPT !.blocked = TRUE]
               /\ r.doc.active => doc.active
<1>1. CASE item = "continue"
  BY <1>1 DEF Activated, Closed, DocType
<1>2. CASE item = "rebind key"
  <2>1. Activated(item, device, in) =
          [doc |-> [doc EXCEPT !.capture = "key"], input |-> in, match |-> match, keyed |-> Keyed]
    BY <1>2, PauseMenuAssumption DEF Activated, Entries
  <2>q. QED
    BY <2>1 DEF DocType
<1>3. CASE item = "rebind pad"
  <2> DEFINE how == IF device = "key" THEN "armed" ELSE "pad"
  <2>1. Activated(item, device, in) =
          [doc |-> [doc EXCEPT !.capture = how], input |-> [in EXCEPT !.blocked = TRUE],
           match |-> match, keyed |-> Keyed]
    BY <1>3, PauseMenuAssumption DEF Activated, Entries
  <2> HIDE DEF how
  <2>q. QED
    BY <2>1 DEF DocType
<1>4. CASE item \in FunctionKeys /\ Frozen
  <2>1. Activated(item, device, in).input = in /\ Activated(item, device, in).doc = Closed
    BY <1>4, PauseMenuAssumption DEF Activated, Entries
  <2>q. QED
    BY <2>1 DEF Closed, DocType
<1>5. CASE item = "page" \/ (item \in FunctionKeys /\ ~Frozen)
  <2>1. item \notin {"continue", "rebind key", "rebind pad"} /\ ~(item \in FunctionKeys /\ Frozen)
    BY <1>5, PauseMenuAssumption DEF Entries
  <2>q. QED
    BY <2>1 DEF Activated
<1>q. QED
  BY <1>1, <1>2, <1>3, <1>4, <1>5 DEF Items, Entries

LEMMA PressesUntouched ==
    ASSUME PressInv, UNCHANGED <<held, input>>, doc'.active => doc.active,
           log'.credit = log.credit, log'.loose = log.loose
    PROVE  PressInv'
BY DEF PressInv, InputType, Owed, Pressed, AnyHeld

LEMMA PressesPreserved ==
    PulsesInv /\ MatchInv /\ PressInv /\ [MenuNext]_menuVars => PressInv'
<1> SUFFICES ASSUME PulsesInv, MatchInv, PressInv, [MenuNext]_menuVars PROVE PressInv'
  OBVIOUS
<1>0. log \in LogType /\ doc \in DocType /\ InputType
  BY DEF PulsesInv, MatchInv, DocType, PressInv
<1>n. Nothing \notin Devices /\ {"key", "pad"} = Devices
  BY PauseMenuAssumption DEF Devices
<1>1. CASE UNCHANGED <<doc, held, input, log>>
  BY <1>1, PressesUntouched
<1>2. ASSUME NEW a \in MenuActions, NEW repeat \in BOOLEAN, KeyDown(a, repeat) PROVE PressInv'
  <2>1. held' = [held EXCEPT !["key"] = @ \union {a}] /\ held' \in [Devices -> SUBSET MenuActions]
    BY <1>0, <1>2, <1>n DEF KeyDown, InputType
  <2>2. AnyHeld' = AnyHeld \union {a}
    BY <1>0, <1>n, <2>1 DEF AnyHeld, InputType
  <2>3. CASE doc.active /\ doc.capture = "key"
    <3>1. input' = [input EXCEPT !.blocked = TRUE]
      BY <1>2, <2>3 DEF KeyDown
    <3>q. QED
      BY <1>0, <2>1, <3>1 DEF PressInv, InputType
  <2>4. CASE doc.active /\ doc.capture # "key" /\ ~repeat
    <3>1. /\ input' = [input EXCEPT !.latched[a] = "key"]
          /\ log'.credit = log.credit \union {a} /\ log'.loose = log.loose /\ doc' = doc
      BY <1>0, <1>2, <2>4 DEF KeyDown, LogType
    <3>2. InputType'
      BY <1>0, <1>n, <2>1, <3>1 DEF InputType
    <3>3. /\ input'.latched[a] = "key" /\ input'.previous = input.previous
          /\ input'.blocked = input.blocked
          /\ \A b \in MenuActions \ {a} : input'.latched[b] = input.latched[b]
      BY <1>0, <3>1 DEF InputType
    <3>4. ASSUME Owed PROVE Owed'
      <4>1. \A b \in log'.credit : input'.latched[b] # Nothing
        BY <1>0, <1>n, <3>1, <3>3, <3>4 DEF Owed, LogType
      <4>2. Pressed' \subseteq Pressed \union {a}
        BY <2>2, <3>3 DEF Pressed
      <4>q. QED
        BY <3>1, <3>4, <4>1, <4>2 DEF Owed
    <3>q. QED
      BY <3>1, <3>2, <3>3, <3>4 DEF PressInv
  <2>5. CASE doc.active /\ doc.capture # "key" /\ repeat
    <3>1. input' = input /\ log'.credit = log.credit /\ log'.loose = log.loose /\ doc' = doc
      BY <1>0, <1>2, <2>5 DEF KeyDown, LogType
    <3>2. AnyHeld' = AnyHeld
      BY <1>2, <2>2, <2>5 DEF KeyDown, AnyHeld
    <3>q. QED
      BY <1>0, <2>1, <3>1, <3>2 DEF PressInv, InputType, Owed, Pressed
  <2>6. CASE ~doc.active
    <3>1. input' = input /\ doc' = doc
      BY <1>2, <2>6 DEF KeyDown
    <3>q. QED
      BY <1>0, <2>1, <2>6, <3>1 DEF PressInv, InputType
  <2>q. QED
    BY <2>3, <2>4, <2>5, <2>6
<1>3. ASSUME NEW a \in MenuActions, PadDown(a) PROVE PressInv'
  <2>1. held' = [held EXCEPT !["pad"] = @ \union {a}] /\ held' \in [Devices -> SUBSET MenuActions]
    BY <1>0, <1>3, <1>n DEF PadDown, InputType
  <2>2. AnyHeld' = AnyHeld \union {a}
    BY <1>0, <1>n, <2>1 DEF AnyHeld, InputType
  <2>3. CASE doc.active /\ doc.capture = "armed"
    <3>1. input' = [input EXCEPT !.blocked = TRUE]
      BY <1>0, <1>3, <2>3 DEF PadDown, InputType
    <3>q. QED
      BY <1>0, <2>1, <3>1 DEF PressInv, InputType
  <2>4. CASE doc.active /\ doc.capture = "pad"
    <3>1. /\ input' = input /\ log'.credit = log.credit /\ log'.loose = log.loose \union {a}
          /\ doc' = doc
      BY <1>0, <1>3, <2>4 DEF PadDown, InputType, LogType, DocType
    <3>2. Pressed' \subseteq Pressed \union {a}
      BY <2>2, <3>1 DEF Pressed
    <3>q. QED
      BY <1>0, <2>1, <3>1, <3>2 DEF PressInv, InputType, Owed
  <2>5. CASE doc.active /\ doc.capture \notin {"armed", "pad"}
    <3>1. /\ input' = [input EXCEPT !.latched[a] = "pad"]
          /\ log'.credit = log.credit \union {a} /\ log'.loose = log.loose /\ doc' = doc
      BY <1>0, <1>3, <2>5 DEF PadDown, LogType
    <3>2. InputType'
      BY <1>0, <1>n, <2>1, <3>1 DEF InputType
    <3>3. /\ input'.latched[a] = "pad" /\ input'.previous = input.previous
          /\ input'.blocked = input.blocked
          /\ \A b \in MenuActions \ {a} : input'.latched[b] = input.latched[b]
      BY <1>0, <3>1 DEF InputType
    <3>4. ASSUME Owed PROVE Owed'
      <4>1. \A b \in log'.credit : input'.latched[b] # Nothing
        BY <1>0, <1>n, <3>1, <3>3, <3>4 DEF Owed, LogType
      <4>2. Pressed' \subseteq Pressed \union {a}
        BY <2>2, <3>3 DEF Pressed
      <4>q. QED
        BY <3>1, <3>4, <4>1, <4>2 DEF Owed
    <3>q. QED
      BY <3>1, <3>2, <3>3, <3>4 DEF PressInv
  <2>6. CASE ~doc.active
    <3>1. input' = input /\ doc' = doc
      BY <1>3, <2>6 DEF PadDown
    <3>q. QED
      BY <1>0, <2>1, <2>6, <3>1 DEF PressInv, InputType
  <2>q. QED
    BY <2>3, <2>4, <2>5, <2>6
<1>4. ASSUME NEW a \in MenuActions, KeyUp(a) \/ PadUp(a) PROVE PressInv'
  <2>1. /\ held' \in [Devices -> SUBSET MenuActions] /\ AnyHeld' \subseteq AnyHeld
        /\ input' = input /\ log' = log /\ doc'.active = doc.active
    BY <1>0, <1>4, <1>n DEF KeyUp, PadUp, InputType, AnyHeld, DocType
  <2>2. Pressed' \subseteq Pressed
    BY <2>1 DEF Pressed
  <2>q. QED
    BY <1>0, <2>1, <2>2 DEF PressInv, InputType, Owed
<1>5. CASE EscapeDown
  <2>1. doc'.active = doc.active
    BY <1>0, <1>5 DEF EscapeDown, DocType
  <2>q. QED
    BY <1>5, <2>1, PressesUntouched DEF EscapeDown
<1>6. ASSUME NEW item \in Items, Click(item) PROVE PressInv'
  <2> DEFINE r == Activated(item, "key", input)
  <2>1. /\ doc' = r.doc /\ input' = r.input /\ held' = held
        /\ log'.credit = log.credit /\ log'.loose = log.loose
    BY <1>0, <1>6 DEF Click, LogType
  <2>2. /\ r.input = input \/ r.input = [input EXCEPT !.blocked = TRUE]
        /\ r.doc.active => doc.active
    BY <1>0, ActivatedInput DEF InputType
  <2> HIDE DEF r
  <2>3. CASE r.input = input
    BY <2>1, <2>2, <2>3, PressesUntouched
  <2>4. CASE r.input = [input EXCEPT !.blocked = TRUE]
    BY <1>0, <2>1, <2>4 DEF PressInv, InputType
  <2>q. QED
    BY <2>2, <2>3, <2>4
<1>7. ASSUME NEW item \in Items, RenderActs(item) PROVE PressInv'
  <2> DEFINE r == Activated(item, ActedBy(Attack), Settled)
  <2>0. AnyHeld \subseteq MenuActions
    BY <1>0, <1>n DEF AnyHeld, InputType
  <2>1. Settled \in [previous : SUBSET MenuActions,
                    latched : [MenuActions -> Devices \union {Nothing}], blocked : BOOLEAN]
    BY <1>0, <2>0 DEF Settled, InputType, NoLatches
  <2>2. r.input = Settled \/ r.input = [Settled EXCEPT !.blocked = TRUE]
    BY <1>0, <2>1, ActivatedInput
  <2>3. /\ input' = Settled \/ input' = [Settled EXCEPT !.blocked = TRUE]
        /\ held' = held /\ log'.credit = log.credit \ Pressed
    BY <1>0, <1>7, <2>2 DEF RenderActs, LogType
  <2> HIDE DEF r
  <2>4. /\ input' \in [previous : SUBSET MenuActions,
                       latched : [MenuActions -> Devices \union {Nothing}], blocked : BOOLEAN]
        /\ input'.previous = AnyHeld /\ input'.latched = NoLatches
    BY <1>0, <2>1, <2>3 DEF Settled, InputType
  <2>5. InputType'
    BY <1>0, <2>3, <2>4 DEF InputType
  <2>6. Pressed' = {} /\ AnyHeld' = AnyHeld
    BY <2>3, <2>4 DEF Pressed, AnyHeld, NoLatches
  <2>7. doc.active /\ ~input.blocked
    BY <1>7 DEF RenderActs
  <2>8. log.credit \subseteq Pressed
    BY <1>0, <2>7 DEF PressInv, Owed, Pressed, LogType
  <2>q. QED
    BY <2>3, <2>5, <2>6, <2>8 DEF PressInv, Owed
<1>8. CASE RenderBlocked
  <2>0. AnyHeld \subseteq MenuActions
    BY <1>0, <1>n DEF AnyHeld, InputType
  <2>1. /\ input' = [previous |-> AnyHeld, latched |-> NoLatches, blocked |-> AnyHeld # {}]
        /\ held' = held /\ log'.credit = {} /\ log'.loose = {}
    BY <1>0, <1>8 DEF RenderBlocked, LogType
  <2>2. InputType' /\ AnyHeld' = AnyHeld
    BY <1>0, <2>0, <2>1 DEF InputType, NoLatches, AnyHeld
  <2>3. Pressed' = {}
    BY <2>1, <2>2 DEF Pressed, NoLatches
  <2>q. QED
    BY <2>1, <2>2, <2>3 DEF PressInv, Owed
<1>9. ASSUME NEW startEdge \in BOOLEAN, MenuTick(startEdge) PROVE PressInv'
  <2> DEFINE opens == (escape \/ startEdge) /\ ~doc.active
  <2>1. CASE opens /\ doc.exists
    <3>1. input' = ResetInput /\ held' = held
      BY <1>9, <2>1 DEF MenuTick
    <3>q. QED
      BY <1>0, <3>1 DEF ResetInput, NoLatches, PressInv, InputType
  <2>2. CASE opens /\ ~doc.exists
    <3>1. input' = input /\ held' = held /\ ~doc'.active
      BY <1>0, <1>9, <2>2 DEF MenuTick, DocType
    <3>q. QED
      BY <1>0, <3>1 DEF PressInv, InputType
  <2>3. CASE ~opens
    <3>1. /\ input' = input /\ held' = held /\ (doc'.active => doc.active)
          /\ log'.credit = log.credit /\ log'.loose = log.loose
      BY <1>0, <1>9, <2>3 DEF MenuTick, Closed, DocType, LogType
    <3>q. QED
      BY <3>1, PressesUntouched
  <2>q. QED
    BY <2>1, <2>2, <2>3
<1>10. CASE UNCHANGED menuVars
  BY <1>1, <1>10 DEF menuVars
<1>q. QED
  BY <1>1, <1>2, <1>3, <1>4, <1>5, <1>6, <1>7, <1>8, <1>9, <1>10
     DEF MenuNext, Event, MenuFrame, Render, MatchChanges, GamePauses

(* The next render takes exactly the presses made since the last one while *)
(* the menu was up: a press that opened the menu, activated an element or  *)
(* was captured is not taken a second time (rmlui_input_update with        *)
(* block_until_release).                                                   *)
THEOREM PressesAreTakenOnce == MenuSpec => []PressesActOnce
<1>1. MenuInit => PressInv
  <2> SUFFICES ASSUME MenuInit PROVE PressInv
    OBVIOUS
  <2>q. QED
    BY DEF MenuInit, ResetInput, NoLatches, PressInv, InputType
<1>2. PulsesInv /\ MatchInv /\ PressInv /\ [MenuNext]_menuVars => PressInv'
  BY PressesPreserved
<1>3. PulsesInv /\ PressInv => PressesActOnce
  BY DEF PressInv, Owed, PressesActOnce, Pressed, PulsesInv, LogType
<1>q. QED
  BY <1>1, <1>2, <1>3, MenuInvariance, PTL DEF MenuSpec

-----------------------------------------------------------------------------
(* Keys: one transition.                                                   *)

RecordType == {x \in KeyRecord : Len(x.ring) < RingSize}

LEMMA WithHas ==
    ASSUME NEW set, NEW k, NEW down \in BOOLEAN
    PROVE  \A j : j \in With(set, k, down) <=> IF j = k THEN down ELSE j \in set
BY DEF With

LEMMA KeysAreKeys ==
    ASSUME binding \in [ActionSet \ {Pause} -> Bindable]
    PROVE  \A a \in ActionSet : KeyOf(a) \in Keys
BY DEF KeyOf, Keys

\* A transition is noted; it reaches the ring, or it is withheld.
LEMMA PushDoes ==
    ASSUME NEW x \in RecordType, NEW k \in Keys, NEW down \in BOOLEAN
    PROVE  LET y == Push(x, k, down)
           IN  /\ y \in RecordType
               /\ y.held = With(x.held, k, down) /\ y.injected = x.injected
               /\ \/ y.ring = x.ring /\ y.withheld = x.withheld \union {k}
                  \/ /\ y.ring = Append(x.ring, [key |-> k, down |-> down])
                     /\ y.withheld = x.withheld \ {k} /\ k # Escape
<1> DEFINE n == Note(x, k, down)
           m == [key |-> k, down |-> down]
           y == Push(x, k, down)
<1>1. With(x.held, k, down) \in SUBSET Keys
  BY DEF With, RecordType, KeyRecord
<1>2. /\ n \in KeyRecord /\ n.held = With(x.held, k, down) /\ n.injected = x.injected
      /\ n.ring = x.ring /\ n.withheld = x.withheld /\ Len(n.ring) < RingSize
  BY <1>1 DEF Note, RecordType, KeyRecord
<1> HIDE DEF n
<1>3. CASE Owned(k) \/ Len(n.ring) = RingSize - 1
  <2>1. y = [n EXCEPT !.withheld = @ \union {k}]
    BY <1>3 DEF Push, Forward, n
  <2>q. QED
    BY <1>2, <2>1 DEF RecordType, KeyRecord
<1>4. CASE ~(Owned(k) \/ Len(n.ring) = RingSize - 1)
  <2>1. y = [n EXCEPT !.ring = Append(@, m), !.withheld = @ \ {k}]
    BY <1>4 DEF Push, Forward, n
  <2>2. k # Escape
    BY <1>4 DEF Owned
  <2>3. m \in Message /\ n.ring \in Seq(Message)
    BY <1>2 DEF Message, KeyRecord
  <2>4. /\ Append(n.ring, m) \in Seq(Message) /\ Len(Append(n.ring, m)) = Len(n.ring) + 1
        /\ Len(n.ring) \in Nat
    BY <2>3, LenProperties
  <2>5. Len(n.ring) + 1 < RingSize
    BY <1>2, <1>4, <2>4, KeysAssumption
  <2>6. /\ y \in KeyRecord /\ y.ring = Append(n.ring, m) /\ y.withheld = n.withheld \ {k}
        /\ y.held = n.held /\ y.injected = n.injected
    BY <1>2, <2>1, <2>4 DEF KeyRecord
  <2> HIDE DEF y
  <2>7. y \in RecordType
    BY <2>4, <2>5, <2>6 DEF RecordType
  <2>q. QED
    BY <1>2, <2>2, <2>6, <2>7 DEF y
<1>q. QED
  BY <1>3, <1>4

LEMMA InjectDoes ==
    ASSUME NEW x \in RecordType, NEW k \in Keys, NEW down \in BOOLEAN
    PROVE  LET y == Inject(x, k, down)
           IN  /\ y \in RecordType
               /\ y.held = With(x.held, k, down) /\ y.injected = With(x.injected, k, down)
               /\ \/ y.ring = x.ring /\ y.withheld = x.withheld \union {k}
                  \/ /\ y.ring = Append(x.ring, [key |-> k, down |-> down])
                     /\ y.withheld = x.withheld \ {k} /\ k # Escape
<1> DEFINE i == [x EXCEPT !.injected = With(@, k, down)]
<1>1. With(x.injected, k, down) \in SUBSET Keys
  BY DEF With, RecordType, KeyRecord
<1>2. /\ i \in RecordType /\ i.held = x.held /\ i.injected = With(x.injected, k, down)
      /\ i.ring = x.ring /\ i.withheld = x.withheld
  BY <1>1 DEF RecordType, KeyRecord
<1>3. Inject(x, k, down) = Push(i, k, down)
  BY DEF Inject
<1> HIDE DEF i
<1>q. QED
  BY <1>2, <1>3, PushDoes

-----------------------------------------------------------------------------
(* Keys: what the game will hold.                                          *)

Catches(g, x) ==
    /\ \A k \in Keys \ x.withheld : WillHold(g, x.ring, k) = (k \in x.held)
    /\ ~WillHold(g, x.ring, Escape)

LEMMA WillHoldIsBoolean ==
    ASSUME NEW g, NEW ring \in Seq(Message), NEW k
    PROVE  WillHold(g, ring, k) \in BOOLEAN
<1>1. CASE Pending(ring, k) = {}
  <2>1. WillHold(g, ring, k) = (k \in g)
    BY <1>1, Zenon DEF WillHold
  <2>2. (k \in g) \in BOOLEAN
    OBVIOUS
  <2>q. QED
    BY <2>1, <2>2, Zenon
<1>2. CASE Pending(ring, k) # {}

  BY <1>2, Zenon DEF WillHold
<1>q. QED
  BY <1>1, <1>2

\* One message more says what becomes of its key, and of no other.
LEMMA AppendedHolds ==
    ASSUME NEW g, NEW ring \in Seq(Message), NEW m \in Message, NEW k
    PROVE  WillHold(g, Append(ring, m), k) = IF k = m.key THEN m.down ELSE WillHold(g, ring, k)
<1> DEFINE r == Append(ring, m)
           n == Len(ring)
<1>1. /\ n \in Nat /\ DOMAIN ring = 1 .. n /\ DOMAIN r = 1 .. n + 1
      /\ r[n + 1] = m /\ \A i \in 1 .. n : r[i] = ring[i]
  BY AppendProperties, LenProperties
<1> HIDE DEF r, n
<1>2. CASE k = m.key
  <2>1. n + 1 \in Pending(r, k) /\ \A j \in Pending(r, k) : j <= n + 1
    BY <1>1, <1>2 DEF Pending
  <2>2. \A i \in Pending(r, k) : (\A j \in Pending(r, k) : j <= i) => i = n + 1
    BY <1>1, <2>1 DEF Pending
  <2>3. WillHold(g, r, k) = r[n + 1].down
    BY <1>1, <2>1, <2>2 DEF WillHold, Message
  <2>q. QED
    BY <1>1, <1>2, <2>3 DEF r
<1>3. CASE k # m.key
  <2>1. Pending(r, k) = Pending(ring, k)
    BY <1>1, <1>3 DEF Pending
  <2>2. \A i \in Pending(ring, k) : r[i] = ring[i]
    BY <1>1 DEF Pending
  <2>3. WillHold(g, r, k) = WillHold(g, ring, k)
    <3>1. CASE Pending(ring, k) = {}
      BY <2>1, <3>1, Zenon DEF WillHold
    <3>2. CASE Pending(ring, k) # {}
      <4>1. WillHold(g, r, k) <=> WillHold(g, ring, k)
        BY <2>1, <2>2, <3>2, Zenon DEF WillHold
      <4>2. r \in Seq(Message)
        BY AppendProperties DEF r
      <4>q. QED
        BY <4>1, <4>2, WillHoldIsBoolean
    <3>q. QED
      BY <3>1, <3>2
  <2>q. QED
    BY <1>3, <2>3 DEF r
<1>q. QED
  BY <1>2, <1>3

\* Taking the oldest message changes nothing in the end.
LEMMA TakenHolds ==
    ASSUME NEW g, NEW ring \in Seq(Message), ring # << >>, NEW k
    PROVE  WillHold(With(g, Head(ring).key, Head(ring).down), Tail(ring), k) = WillHold(g, ring, k)
<1> DEFINE t == Tail(ring)
           n == Len(ring)
           h == Head(ring)
           w == With(g, h.key, h.down)
<1>1. /\ n \in Nat \ {0} /\ DOMAIN ring = 1 .. n /\ t \in Seq(Message) /\ Len(t) = n - 1
      /\ \A i \in 1 .. n - 1 : t[i] = ring[i + 1]
      /\ h = ring[1] /\ h \in Message
  BY HeadTailProperties, EmptySeq, LenProperties
<1>2. DOMAIN t = 1 .. n - 1
  BY <1>1
<1>3. h.down \in BOOLEAN
  BY <1>1 DEF Message
<1>4. \A j : j \in w <=> IF j = h.key THEN h.down ELSE j \in g
  BY <1>3, WithHas
<1> HIDE DEF t, n, h, w
<1>5. \A i \in Nat : i \in Pending(t, k) <=> i # 0 /\ i + 1 \in Pending(ring, k)
  BY <1>1, <1>2 DEF Pending
<1>6. Pending(t, k) \subseteq Nat /\ Pending(ring, k) \subseteq Nat \ {0}
  BY <1>1, <1>2 DEF Pending
<1>7. CASE Pending(t, k) = {}
  <2>1. Pending(ring, k) \subseteq {1}
    <3> SUFFICES ASSUME NEW j \in Pending(ring, k), j # 1 PROVE FALSE
      OBVIOUS
    <3>1. j - 1 \in Nat /\ j - 1 # 0 /\ j - 1 + 1 = j
      BY <1>6
    <3>q. QED
      BY <1>5, <1>7, <3>1
  <2>2. CASE h.key = k
    <3>1. Pending(ring, k) = {1}
      BY <1>1, <2>1, <2>2 DEF Pending
    <3>2. WillHold(g, ring, k) = h.down
      <4>1. WillHold(g, ring, k) <=> h.down
        BY <1>1, <3>1 DEF WillHold
      <4>q. QED
        BY <1>3, <4>1, WillHoldIsBoolean

    <3>3. WillHold(w, t, k) = h.down
      BY <1>3, <1>4, <1>7, <2>2 DEF WillHold
    <3>q. QED
      BY <3>2, <3>3 DEF w, t, h
  <2>3. CASE h.key # k
    <3>1. Pending(ring, k) = {}
      BY <1>1, <2>1, <2>3 DEF Pending
    <3>2. WillHold(g, ring, k) = (k \in g) /\ WillHold(w, t, k) = (k \in w)
      BY <1>7, <3>1 DEF WillHold
    <3>q. QED
      BY <1>4, <2>3, <3>2 DEF w, t, h
  <2>q. QED
    BY <2>2, <2>3
<1>8. CASE Pending(t, k) # {}
  <2>1. Pending(ring, k) # {}
    BY <1>5, <1>6, <1>8
  <2>2. ASSUME NEW i \in Pending(t, k), \A j \in Pending(t, k) : j <= i, t[i].down
        PROVE  WillHold(g, ring, k)
    <3>1. i + 1 \in Pending(ring, k) /\ ring[i + 1].down /\ i \in Nat
      BY <1>1, <1>2, <1>5, <1>6, <2>2 DEF Pending
    <3>2. ASSUME NEW j \in Pending(ring, k) PROVE j <= i + 1
      <4>1. CASE j = 1
        BY <3>1, <4>1
      <4>2. CASE j # 1
        <5>1. j - 1 \in Nat /\ j - 1 # 0 /\ j - 1 + 1 = j
          BY <1>6, <4>2
        <5>2. j - 1 \in Pending(t, k)
          BY <1>5, <5>1
        <5>q. QED
          BY <2>2, <3>1, <5>1, <5>2
      <4>q. QED
        BY <4>1, <4>2
    <3>q. QED
      BY <2>1, <3>1, <3>2 DEF WillHold
  <2>3. ASSUME NEW i \in Pending(ring, k), \A j \in Pending(ring, k) : j <= i, ring[i].down
        PROVE  WillHold(w, t, k)
    <3>1. PICK j \in Pending(t, k) : TRUE
      BY <1>8
    <3>2. j \in Nat /\ j # 0 /\ j + 1 <= i /\ i \in Nat
      BY <1>5, <1>6, <2>3, <3>1
    <3>3. i - 1 \in Nat /\ i - 1 # 0 /\ i - 1 + 1 = i
      BY <3>2
    <3>4. i - 1 \in Pending(t, k)
      BY <1>5, <3>3
    <3>5. t[i - 1].down
      BY <1>1, <1>2, <2>3, <3>3, <3>4 DEF Pending
    <3>6. \A l \in Pending(t, k) : l <= i - 1
      BY <1>5, <1>6, <2>3, <3>2
    <3>q. QED
      BY <1>8, <3>4, <3>5, <3>6 DEF WillHold
  <2>4. WillHold(g, ring, k) <=> WillHold(w, t, k)
    BY <1>8, <2>1, <2>2, <2>3 DEF WillHold
  <2>5. WillHold(g, ring, k) \in BOOLEAN /\ WillHold(w, t, k) \in BOOLEAN
    BY <1>1, WillHoldIsBoolean
  <2>q. QED
    BY <2>4, <2>5 DEF w, t, h
<1>q. QED
  BY <1>7, <1>8

LEMMA CatchesOn ==
    ASSUME NEW g, NEW x \in RecordType, NEW y \in RecordType, NEW k \in Keys, NEW down \in BOOLEAN,
           Catches(g, x), y.held = With(x.held, k, down),
           \/ y.ring = x.ring /\ y.withheld = x.withheld \union {k}
           \/ /\ y.ring = Append(x.ring, [key |-> k, down |-> down])
              /\ y.withheld = x.withheld \ {k} /\ k # Escape
    PROVE  Catches(g, y)
<1> DEFINE m == [key |-> k, down |-> down]
<1>0. \A j : j \in y.held <=> IF j = k THEN down ELSE j \in x.held
  BY WithHas
<1>1. CASE y.ring = x.ring /\ y.withheld = x.withheld \union {k}
  BY <1>0, <1>1 DEF Catches
<1>2. CASE y.ring = Append(x.ring, m) /\ y.withheld = x.withheld \ {k} /\ k # Escape
  <2>1. m \in Message /\ m.key = k /\ m.down = down /\ x.ring \in Seq(Message)
    BY DEF Message, RecordType, KeyRecord
  <2> HIDE DEF m
  <2>2. \A j : WillHold(g, y.ring, j) = IF j = k THEN down ELSE WillHold(g, x.ring, j)
    BY <1>2, <2>1, AppendedHolds
  <2>3. ASSUME NEW j \in Keys \ y.withheld PROVE WillHold(g, y.ring, j) = (j \in y.held)
    <3>1. CASE j = k
      <4>1. WillHold(g, y.ring, j) = down /\ (j \in y.held <=> down)
        BY <1>0, <2>2, <3>1
      <4>q. QED
        BY <4>1
    <3>2. CASE j # k
      <4>1. WillHold(g, y.ring, j) = WillHold(g, x.ring, j) /\ (j \in y.held <=> j \in x.held)
        BY <1>0, <2>2, <3>2
      <4>2. j \in Keys \ x.withheld
        BY <1>2, <2>3, <3>2
      <4>q. QED
        BY <4>1, <4>2 DEF Catches
    <3>q. QED
      BY <3>1, <3>2
  <2>4. ~WillHold(g, y.ring, Escape)
    BY <1>2, <2>2 DEF Catches
  <2>q. QED
    BY <2>3, <2>4 DEF Catches
<1>q. QED
  BY <1>1, <1>2

-----------------------------------------------------------------------------
(* Keys: the transitions of several actions.                               *)

LEMMA SetInduction ==
    ASSUME NEW T, 0 \in T, \A n \in Nat : n \in T => n + 1 \in T
    PROVE  Nat \subseteq T
<1> DEFINE R == OpToRel(<, Nat)
           F == Nat \ T
<1>1. SUFFICES ASSUME F # {} PROVE FALSE
  OBVIOUS
<1>2. IsWellFoundedOn(R, Nat)
  BY NatLessThanWellFounded
<1>3. \A x, y \in Nat : y < x => <<y, x>> \in R
  BY DEF OpToRel
<1> HIDE DEF R
<1>4. PICK x \in F : \A y \in F : <<y, x>> \notin R
  <2>1. F \subseteq Nat
    OBVIOUS
  <2> HIDE DEF F
  <2>q. QED
    BY <1>1, <1>2, <2>1, WFMin
<1>5. x # 0 /\ x - 1 \in Nat /\ x - 1 < x /\ x \in Nat
  BY <1>4
<1>6. x - 1 \in T
  BY <1>3, <1>4, <1>5
<1>7. x - 1 + 1 = x
  BY <1>5
<1>q. QED
  BY <1>4, <1>5, <1>6, <1>7

\* The record after the transition of one action, and after those of the
\* first n of them.
Moved(x, a, acts, down) == IF a \in acts THEN Inject(x, KeyOf(a), down) ELSE x
Chain(s, acts, down, n, g) ==
    g = [i \in 0 .. n |->
            IF i = 0 THEN s
            ELSE IF Actions[i] \in acts THEN Inject(g[i - 1], KeyOf(Actions[i]), down) ELSE g[i - 1]]

LEMMA ChainExists ==
    ASSUME NEW s, NEW acts, NEW down, NEW n \in Nat
    PROVE  \E g : Chain(s, acts, down, n, g)
<1> DEFINE T == {k \in Nat : \E g : Chain(s, acts, down, k, g)}
           Then(x, i) == IF Actions[i] \in acts THEN Inject(x, KeyOf(Actions[i]), down) ELSE x
<1>1. 0 \in T
  <2> DEFINE g == [i \in 0 .. 0 |-> s]
  <2>1. Chain(s, acts, down, 0, g)
    BY DEF Chain
  <2>q. QED
    BY <2>1
<1>2. ASSUME NEW k \in Nat, k \in T PROVE k + 1 \in T
  <2>1. PICK g : Chain(s, acts, down, k, g)
    BY <1>2
  <2>2. \A i \in 0 .. k : g[i] = IF i = 0 THEN s ELSE Then(g[i - 1], i)
    BY <2>1, Zenon DEF Chain
  <2> HIDE DEF Then
  <2> DEFINE h == [i \in 0 .. k + 1 |-> IF i = 0 THEN s ELSE Then(g[i - 1], i)]
  <2>3. \A i \in 0 .. k : h[i] = g[i]
    BY <2>2
  <2>4. \A i \in 0 .. k + 1 : i # 0 => i - 1 \in 0 .. k
    OBVIOUS
  <2>5. h = [i \in 0 .. k + 1 |-> IF i = 0 THEN s ELSE Then(h[i - 1], i)]
    BY <2>3, <2>4, Zenon
  <2> HIDE DEF h
  <2>6. Chain(s, acts, down, k + 1, h)
    BY <2>5, Zenon DEF Chain, Then
  <2>7. \E g1 : Chain(s, acts, down, k + 1, g1)
    BY <2>6, Zenon
  <2>8. k + 1 \in Nat
    OBVIOUS
  <2>q. QED
    BY <2>7, <2>8, Zenon
<1> HIDE DEF T
<1>3. Nat \subseteq T
  BY <1>1, <1>2, SetInduction
<1>q. QED
  BY <1>3 DEF T

LEMMA InjectedIsChain ==
    ASSUME NEW s, NEW acts, NEW down
    PROVE  \E g : /\ g[0] = s /\ Injected(s, acts, down) = g[Len(Actions)]
                  /\ \A i \in 1 .. Len(Actions) : g[i] = Moved(g[i - 1], Actions[i], acts, down)
<1>0. Len(Actions) \in Nat
  BY KeysAssumption, LenProperties
<1> DEFINE n == Len(Actions)
           a == CHOOSE g : Chain(s, acts, down, n, g)
<1>1. Chain(s, acts, down, n, a)
  BY <1>0, ChainExists, Zenon
<1>2. Injected(s, acts, down) = a[n]
  BY Zenon DEF Injected, Chain
<1> HIDE DEF a, n
<1>3. \A i \in 0 .. n : a[i] = IF i = 0 THEN s
                              ELSE IF Actions[i] \in acts THEN Inject(a[i - 1], KeyOf(Actions[i]), down)
                                   ELSE a[i - 1]
  BY <1>1, Zenon DEF Chain
<1>4. /\ 0 \in 0 .. n
      /\ \A i \in 1 .. n : i \in 0 .. n /\ i # 0
  BY <1>0 DEF n
<1>5. /\ a[0] = s
      /\ \A i \in 1 .. n : a[i] = Moved(a[i - 1], Actions[i], acts, down)
  BY <1>3, <1>4, Zenon DEF Moved
<1>q. QED
  BY <1>2, <1>5, Zenon DEF n

\* What each transition keeps, they keep together.
LEMMA InjectedKeeps ==
    ASSUME NEW S, NEW s \in S, NEW acts \in SUBSET ActionSet, NEW down,
           \A x \in S, a \in acts : Inject(x, KeyOf(a), down) \in S
    PROVE  Injected(s, acts, down) \in S
<1>1. PICK g : /\ g[0] = s /\ Injected(s, acts, down) = g[Len(Actions)]
               /\ \A i \in 1 .. Len(Actions) : g[i] = Moved(g[i - 1], Actions[i], acts, down)
  BY ONLY InjectedIsChain
<1>0. Len(Actions) \in Nat
  BY KeysAssumption, LenProperties
<1> DEFINE T == {i \in Nat : i <= Len(Actions) => g[i] \in S}
<1>2. 0 \in T
  BY <1>1
<1>3. ASSUME NEW i \in Nat, i \in T PROVE i + 1 \in T
  <2>1. SUFFICES ASSUME i + 1 <= Len(Actions) PROVE g[i + 1] \in S
    OBVIOUS
  <2>2. i + 1 \in 1 .. Len(Actions) /\ i + 1 - 1 = i /\ g[i] \in S
    BY <1>0, <1>3, <2>1
  <2>3. g[i + 1] = Moved(g[i], Actions[i + 1], acts, down)
    <3>1. g[i + 1] = Moved(g[i + 1 - 1], Actions[i + 1], acts, down)
      BY ONLY <1>1, <2>2
    <3>q. QED
      BY <2>2, <3>1

  <2>q. QED
    BY <2>2, <2>3 DEF Moved
<1> HIDE DEF T
<1>4. Nat \subseteq T
  BY <1>2, <1>3, SetInduction
<1>q. QED
  BY <1>0, <1>1, <1>4 DEF T

\* Which keys they leave injected.
LEMMA InjectedHas ==
    ASSUME NEW s \in RecordType, NEW acts \in SUBSET ActionSet, NEW down \in BOOLEAN,
           binding \in [ActionSet \ {Pause} -> Bindable]
    PROVE  LET y == Injected(s, acts, down)
               keys == {KeyOf(a) : a \in acts}
           IN  y.injected = IF down THEN s.injected \union keys ELSE s.injected \ keys
<1>1. PICK g : /\ g[0] = s /\ Injected(s, acts, down) = g[Len(Actions)]
               /\ \A i \in 1 .. Len(Actions) : g[i] = Moved(g[i - 1], Actions[i], acts, down)
  BY ONLY InjectedIsChain
<1> DEFINE n == Len(Actions)
           keys(i) == {KeyOf(a) : a \in {b \in acts : \E j \in 1 .. i : Actions[j] = b}}
           Left(i) == IF down THEN s.injected \union keys(i) ELSE s.injected \ keys(i)
           T == {i \in Nat : i <= n => g[i] \in RecordType /\ g[i].injected = Left(i)}
<1>0. n \in Nat /\ \A i \in 1 .. n : Actions[i] \in ActionSet
  BY KeysAssumption, LenProperties DEF ActionSet
<1> HIDE DEF n
<1>2. 0 \in T
  <2>1. keys(0) = {}
    OBVIOUS
  <2> HIDE DEF keys
  <2>q. QED
    BY <1>1, <2>1
<1>3. ASSUME NEW i \in Nat, i \in T PROVE i + 1 \in T
  <2>1. SUFFICES ASSUME i + 1 <= n PROVE g[i + 1] \in RecordType /\ g[i + 1].injected = Left(i + 1)
    BY DEF T
  <2>2. i + 1 \in 1 .. n /\ i + 1 - 1 = i /\ g[i] \in RecordType /\ g[i].injected = Left(i)
    BY <1>0, <1>3, <2>1 DEF T
  <2> DEFINE a == Actions[i + 1]
  <2>3. g[i + 1] = Moved(g[i], a, acts, down) /\ a \in ActionSet
    <3>1. /\ a \in ActionSet
          /\ g[i + 1] = Moved(g[i + 1 - 1], a, acts, down)
      BY ONLY <1>0, <1>1, <2>2 DEF n
    <3>q. QED
      BY <2>2, <3>1
  <2>4. \A j : j \in 1 .. i + 1 <=> j \in 1 .. i \/ j = i + 1
    OBVIOUS
  <2>5. CASE a \in acts
    <3>1. keys(i + 1) = keys(i) \union {KeyOf(a)}
      BY <2>4, <2>5
    <3>2. KeyOf(a) \in Keys
      BY <2>3, KeysAreKeys
    <3>3. g[i + 1] = Inject(g[i], KeyOf(a), down)
      BY <2>3, <2>5 DEF Moved
    <3> HIDE DEF a, keys
    <3>4. /\ Inject(g[i], KeyOf(a), down) \in RecordType
          /\ Inject(g[i], KeyOf(a), down).injected = With(g[i].injected, KeyOf(a), down)
      <4>1. down \in BOOLEAN /\ g[i] \in RecordType
        BY <2>2
      <4> DEFINE x == g[i]
                 k == KeyOf(a)
      <4>2. x \in RecordType /\ k \in Keys
        BY <3>2, <4>1
      <4> HIDE DEF x, k
      <4>3. Inject(x, k, down) \in RecordType /\ Inject(x, k, down).injected = With(x.injected, k, down)
        BY ONLY <4>1, <4>2, InjectDoes
      <4>q. QED
        BY <4>3 DEF x, k


    <3>q. QED
      BY <2>2, <3>1, <3>3, <3>4 DEF With
  <2>6. CASE a \notin acts
    <3>1. keys(i + 1) = keys(i)
      BY <2>4, <2>6
    <3>2. g[i + 1] = g[i]
      BY <2>3, <2>6 DEF Moved
    <3> HIDE DEF keys
    <3>q. QED
      BY <2>2, <3>1, <3>2
  <2>q. QED
    BY <2>5, <2>6
<1> HIDE DEF T
<1>4. Nat \subseteq T
  BY <1>2, <1>3, SetInduction
<1>5. g[n].injected = Left(n)
  <2>1. n \in T /\ n <= n
    BY <1>0, <1>4
  <2>q. QED
    BY <2>1, Zenon DEF T
<1>6. keys(n) = {KeyOf(a) : a \in acts}
  <2>1. DOMAIN Actions = 1 .. n
    BY KeysAssumption, LenProperties DEF n
  <2>2. \A b \in acts : \E j \in 1 .. n : Actions[j] = b
    BY <2>1, Zenon DEF ActionSet
  <2>q. QED
    BY <2>2
<1> HIDE DEF keys
<1>q. QED
  BY <1>1, <1>5, <1>6 DEF n

-----------------------------------------------------------------------------
(* Keys: the references.                                                   *)

Contacts == [Fingers -> Zones \union {None}]
On(c, a) == {f \in Fingers : c[f] # None /\ a \in ZoneActions[c[f]]}
RefsOf(c) == [a \in ActionSet |-> Cardinality(On(c, a))]

LEMMA OnIsFinite ==
    ASSUME NEW c, NEW a
    PROVE  /\ IsFiniteSet(On(c, a)) /\ Cardinality(On(c, a)) \in Nat
           /\ Cardinality(On(c, a)) <= Cardinality(Fingers) /\ Cardinality(Fingers) \in Nat
<1>1. On(c, a) \subseteq Fingers /\ IsFiniteSet(Fingers)
  BY KeysAssumption DEF On
<1>q. QED
  BY <1>1, FS_Subset, FS_CardinalityType

LEMMA RefsAreCounted ==
    ASSUME NEW c
    PROVE  RefsOf(c) \in [ActionSet -> 0 .. Cardinality(Fingers)]
<1>1. ASSUME NEW a \in ActionSet PROVE Cardinality(On(c, a)) \in 0 .. Cardinality(Fingers)
  BY OnIsFinite
<1>q. QED
  BY <1>1 DEF RefsOf

\* A finger comes down on a zone.
LEMMA TouchedCounts ==
    ASSUME NEW c \in Contacts, NEW f \in Fingers, c[f] = None, NEW z \in Zones
    PROVE  Counted(RefsOf(c), z, TRUE) = RefsOf([c EXCEPT ![f] = z])
<1> DEFINE d == [c EXCEPT ![f] = z]
<1>0. z # None
  BY KeysAssumption
<1>1. ASSUME NEW a \in ActionSet PROVE Counted(RefsOf(c), z, TRUE)[a] = Cardinality(On(d, a))
  <2>1. CASE a \in ZoneActions[z]
    <3>1. On(d, a) = On(c, a) \union {f} /\ f \notin On(c, a)
      BY <1>0, <2>1 DEF On, Contacts
    <3>2. Cardinality(On(d, a)) = Cardinality(On(c, a)) + 1
      BY <3>1, OnIsFinite, FS_AddElement
    <3>q. QED
      BY <2>1, <3>2 DEF Counted, RefsOf
  <2>2. CASE a \notin ZoneActions[z]
    <3>1. On(d, a) = On(c, a)
      BY <2>2 DEF On, Contacts
    <3>q. QED
      BY <2>2, <3>1 DEF Counted, RefsOf
  <2>q. QED
    BY <2>1, <2>2
<1> HIDE DEF d
<1>q. QED
  BY <1>1 DEF Counted, RefsOf, d

\* A finger lifts.
LEMMA LiftedCounts ==
    ASSUME NEW c \in Contacts, NEW f \in Fingers, c[f] # None
    PROVE  Counted(RefsOf(c), c[f], FALSE) = RefsOf([c EXCEPT ![f] = None])
<1> DEFINE d == [c EXCEPT ![f] = None]
           z == c[f]
<1>1. ASSUME NEW a \in ActionSet PROVE Counted(RefsOf(c), z, FALSE)[a] = Cardinality(On(d, a))
  <2>1. CASE a \in ZoneActions[z]
    <3>1. On(d, a) = On(c, a) \ {f} /\ f \in On(c, a)
      BY <2>1 DEF On, Contacts
    <3>2. IsFiniteSet(On(c, a)) /\ IsFiniteSet(On(d, a)) /\ Cardinality(On(d, a)) \in Nat
      BY OnIsFinite
    <3>3. Cardinality(On(d, a)) = Cardinality(On(c, a)) - 1
      BY ONLY <3>1, <3>2, FS_RemoveElement
    <3>4. Cardinality(On(c, a)) \in Nat /\ Cardinality(On(c, a)) # 0
      BY <3>2, <3>3, OnIsFinite
    <3> HIDE DEF d, z
    <3>q. QED
      BY <2>1, <3>3, <3>4 DEF Counted, RefsOf, z

  <2>2. CASE a \notin ZoneActions[z]
    <3>1. On(d, a) = On(c, a)
      BY <2>2 DEF On, Contacts
    <3>q. QED
      BY <2>2, <3>1 DEF Counted, RefsOf
  <2>q. QED
    BY <2>1, <2>2
<1> HIDE DEF d, z
<1>q. QED
  BY <1>1 DEF Counted, RefsOf, d, z

LEMMA NoneTouches == RefsOf(NoContacts) = NoReferences
<1>1. ASSUME NEW a \in ActionSet PROVE Cardinality(On(NoContacts, a)) = 0
  <2>1. On(NoContacts, a) = {}
    BY DEF On, NoContacts
  <2>q. QED
    BY <2>1, FS_EmptySet
<1>q. QED
  BY <1>1 DEF RefsOf, NoReferences

-----------------------------------------------------------------------------
(* Keys: the invariant.                                                    *)

Bindings == [ActionSet \ {Pause} -> Bindable]
TouchType == [option : BOOLEAN, enabled : BOOLEAN, contact : Contacts,
              refs : [ActionSet -> 0 .. Cardinality(Fingers)]]
KeysType ==
    /\ physical \subseteq PhysicalKeys /\ game \subseteq Keys
    /\ kb \in RecordType /\ binding \in Bindings /\ touch \in TouchType
    /\ menu \in BOOLEAN /\ orphaned \subseteq Keys

KeysOf(refs) == {KeyOf(a) : a \in Referenced(refs)}

\* What the injected keys and the references have to do with each other.
Shows(keys, refs) ==
    /\ keys \subseteq KeysOf(refs) \union orphaned
    /\ KeysOf(refs) \subseteq keys \union orphaned \union Shared

LedgerOf(x) == x.held \subseteq physical \union x.injected

KeysInv ==
    /\ KeysType
    /\ LedgerOf(kb) /\ Catches(game, kb)
    /\ touch.refs = RefsOf(touch.contact) /\ Shows(kb.injected, touch.refs)

\* Transitions of the controls leave the ledger and the game in step.
Sound == {x \in RecordType : LedgerOf(x) /\ Catches(game, x)}

LEMMA InjectedIsSound ==
    ASSUME binding \in Bindings, NEW x \in Sound, NEW acts \in SUBSET ActionSet, NEW down \in BOOLEAN
    PROVE  Injected(x, acts, down) \in Sound
<1>1. ASSUME NEW y \in Sound, NEW a \in acts PROVE Inject(y, KeyOf(a), down) \in Sound
  <2> DEFINE k == KeyOf(a)
             i == Inject(y, k, down)
  <2>1. k \in Keys
    BY KeysAreKeys DEF Bindings
  <2>2. y \in RecordType /\ LedgerOf(y) /\ Catches(game, y)
    BY DEF Sound
  <2> HIDE DEF k
  <2>3. /\ i \in RecordType
        /\ i.held = With(y.held, k, down) /\ i.injected = With(y.injected, k, down)
        /\ \/ i.ring = y.ring /\ i.withheld = y.withheld \union {k}
           \/ /\ i.ring = Append(y.ring, [key |-> k, down |-> down])
              /\ i.withheld = y.withheld \ {k} /\ k # Escape
    BY <2>1, <2>2, InjectDoes
  <2> HIDE DEF i
  <2>4. LedgerOf(i)
    BY <2>2, <2>3 DEF LedgerOf, With
  <2>5. Catches(game, i)
    BY <2>1, <2>2, <2>3, CatchesOn
  <2>q. QED
    BY <2>3, <2>4, <2>5 DEF Sound, i, k
<1>q. QED
  BY <1>1, InjectedKeeps

\* A zone's actions gain or lose a reference, and what is injected follows.
LEMMA ZoneShows ==
    ASSUME binding \in Bindings, NEW x \in RecordType, NEW refs \in [ActionSet -> Nat],
           NEW z \in Zones, NEW down \in BOOLEAN, Shows(x.injected, refs),
           NEW new, new = Counted(refs, z, down)
    PROVE  Shows(Injected(x, Edges(refs, new), down).injected, new)
<1> DEFINE e == Edges(refs, new)
           keys == {KeyOf(a) : a \in e}
           y == Injected(x, e, down)
<1>1. e \in SUBSET ActionSet
  BY DEF Edges
<1>2. ASSUME NEW a \in ActionSet
      PROVE  /\ a \in Referenced(new) <=> IF a \in e THEN down ELSE a \in Referenced(refs)
             /\ a \in e => (a \in Referenced(refs) <=> ~down)
  <2>1. new[a] = IF a \notin ZoneActions[z] THEN refs[a]
                 ELSE IF down THEN refs[a] + 1
                 ELSE IF refs[a] = 0 THEN 0 ELSE refs[a] - 1
    BY DEF Counted
  <2>2. refs[a] \in Nat
    OBVIOUS
  <2>q. QED
    BY <2>1, <2>2 DEF Referenced, Edges
<1>3. y.injected = IF down THEN x.injected \union keys ELSE x.injected \ keys
  BY <1>1, InjectedHas DEF Bindings
<1>4. Referenced(new) \subseteq ActionSet /\ Referenced(refs) \subseteq ActionSet
  BY DEF Referenced
<1>5. \A a \in ActionSet : KeyOf(a) \in Keys
  BY KeysAreKeys DEF Bindings
<1> HIDE DEF e, y
<1>6. CASE down
  <2>1. Referenced(new) = Referenced(refs) \union e
    BY <1>1, <1>2, <1>4, <1>6
  <2>2. KeysOf(new) = KeysOf(refs) \union keys
    BY <2>1 DEF KeysOf
  <2> HIDE DEF keys
  <2>q. QED
    BY <1>3, <1>6, <2>2 DEF Shows, e, y
<1>7. CASE ~down
  <2>1. Referenced(new) = Referenced(refs) \ e /\ e \subseteq Referenced(refs)
    BY <1>1, <1>2, <1>4, <1>7
  <2>2. y.injected \subseteq KeysOf(new) \union orphaned
    <3> SUFFICES ASSUME NEW k \in y.injected, k \notin orphaned PROVE k \in KeysOf(new)
      OBVIOUS
    <3>1. k \in x.injected /\ k \notin keys
      BY <1>3, <1>7
    <3>2. PICK a \in Referenced(refs) : k = KeyOf(a)
      BY <3>1 DEF Shows, KeysOf
    <3>q. QED
      BY <2>1, <3>1, <3>2 DEF KeysOf
  <2>3. KeysOf(new) \subseteq y.injected \union orphaned \union Shared
    <3> SUFFICES ASSUME NEW k \in KeysOf(new), k \notin orphaned, k \notin Shared
                 PROVE  k \in y.injected
      OBVIOUS
    <3>1. PICK a \in Referenced(new) : k = KeyOf(a)
      BY DEF KeysOf
    <3>2. k \in KeysOf(refs)
      BY <2>1, <3>1 DEF KeysOf
    <3>3. k \in x.injected
      BY <3>2 DEF Shows
    <3>4. k \notin keys
      BY <1>1, <1>4, <1>5, <2>1, <3>1 DEF Shared
    <3>q. QED
      BY <1>3, <1>7, <3>3, <3>4
  <2>q. QED
    BY <2>2, <2>3 DEF Shows, e, y
<1>q. QED
  BY <1>6, <1>7

\* Every action referenced is released.
LEMMA ReleaseShows ==
    ASSUME binding \in Bindings, NEW x \in RecordType, Shows(x.injected, touch.refs)
    PROVE  Shows(ReleaseAll(x).injected, NoReferences)
<1>1. Referenced(touch.refs) \in SUBSET ActionSet
  BY DEF Referenced
<1>2. ReleaseAll(x).injected = x.injected \ KeysOf(touch.refs)
  BY <1>1, InjectedHas DEF Bindings, ReleaseAll, KeysOf
<1>3. KeysOf(NoReferences) = {}
  BY DEF KeysOf, Referenced, NoReferences
<1>q. QED
  BY <1>2, <1>3 DEF Shows

-----------------------------------------------------------------------------
(* Keys: the steps.                                                        *)

LEMMA KeysInitHolds == Init => KeysInv
<1> SUFFICES ASSUME Init PROVE KeysInv
  OBVIOUS
<1>1. /\ kb \in RecordType /\ kb.held = {} /\ kb.injected = {} /\ kb.ring = << >> /\ game = {}
  <2>1. kb = [held |-> {}, escape |-> FALSE, injected |-> {}, ring |-> << >>, withheld |-> {}]
    BY DEF Init
  <2>2. << >> \in Seq(Message) /\ Len(<< >>) = 0
    OBVIOUS
  <2>q. QED
    BY <2>1, <2>2, KeysAssumption DEF Init, RecordType, KeyRecord
<1>2. NoContacts \in Contacts
  BY DEF NoContacts, Contacts
<1>3. touch = [option |-> TRUE, enabled |-> TRUE, contact |-> NoContacts, refs |-> NoReferences]
  BY DEF Init
<1>4. touch.refs = RefsOf(touch.contact) /\ touch.refs = NoReferences
  BY <1>3, NoneTouches
<1>5. touch \in TouchType
  BY <1>2, <1>3, <1>4, RefsAreCounted DEF TouchType
<1>6. KeysType
  BY <1>1, <1>5 DEF Init, KeysType, Bindings
<1>7. \A k : ~WillHold(game, kb.ring, k)
  BY <1>1 DEF WillHold, Pending
<1>8. Catches(game, kb)
  <2>1. \A k : WillHold(game, kb.ring, k) = FALSE
    <3>1. kb.ring \in Seq(Message)
      BY <1>1 DEF RecordType, KeyRecord
    <3>q. QED
      BY <1>7, <3>1, WillHoldIsBoolean
  <2>2. \A k : (k \in kb.held) = FALSE
    BY <1>1
  <2> QED
    BY <2>1, <2>2 DEF Catches
<1>9. KeysOf(NoReferences) = {}
  BY DEF KeysOf, Referenced, NoReferences
<1>q. QED
  BY <1>1, <1>4, <1>6, <1>8, <1>9 DEF KeysInv, LedgerOf, Shows

LEMMA TouchSplits ==
    ASSUME touch \in TouchType
    PROVE  /\ touch.contact \in Contacts /\ touch.refs \in [ActionSet -> 0 .. Cardinality(Fingers)]
           /\ touch.refs \in [ActionSet -> Nat]
           /\ touch.option \in BOOLEAN /\ touch.enabled \in BOOLEAN
<1>1. touch.contact \in Contacts /\ touch.refs \in [ActionSet -> 0 .. Cardinality(Fingers)]
  BY DEF TouchType
<1>2. touch.refs \in [ActionSet -> Nat]
  <2>1. 0 .. Cardinality(Fingers) \subseteq Nat
    OBVIOUS
  <2>q. QED
    BY <1>1, <2>1
<1>q. QED
  BY <1>1, <1>2 DEF TouchType

\* The controls after a cancel.
LEMMA CancelledHas ==
    ASSUME touch \in TouchType
    PROVE  /\ Cancelled \in TouchType
           /\ Cancelled.contact = NoContacts /\ Cancelled.refs = NoReferences
           /\ Cancelled.refs = RefsOf(Cancelled.contact)
<1>1. NoContacts \in Contacts
  BY DEF NoContacts, Contacts
<1>2. NoReferences \in [ActionSet -> 0 .. Cardinality(Fingers)]
  BY NoneTouches, RefsAreCounted
<1>q. QED
  BY <1>1, <1>2, NoneTouches DEF Cancelled, TouchType

\* A step of the controls: what was shown is shown, the rest is in step.
LEMMA ControlsKeep ==
    ASSUME KeysInv, UNCHANGED <<physical, game, binding, orphaned>>, menu' \in BOOLEAN,
           kb' \in Sound, touch' \in TouchType, touch'.refs = RefsOf(touch'.contact),
           Shows(kb'.injected, touch'.refs)
    PROVE  KeysInv'
<1>1. KeysType'
  BY DEF KeysInv, KeysType, Sound, TouchType, Bindings
<1>2. LedgerOf(kb)' /\ Catches(game, kb)'
  <2>1. LedgerOf(kb') /\ Catches(game, kb')
    BY DEF Sound
  <2>q. QED
    BY <2>1 DEF LedgerOf, Catches
<1>3. Shows(kb.injected, touch.refs)'
  <2>1. \A a : KeyOf(a)' = KeyOf(a)
    BY DEF KeyOf
  <2>2. KeysOf(touch.refs)' = KeysOf(touch'.refs)
    BY <2>1 DEF KeysOf
  <2>3. Shared' = Shared
    BY <2>1 DEF Shared
  <2>q. QED
    BY <2>2, <2>3 DEF Shows
<1>q. QED
  BY <1>1, <1>2, <1>3 DEF KeysInv, RefsOf, On

LEMMA ReleaseIsSound ==
    ASSUME binding \in Bindings, NEW x \in Sound, Shows(x.injected, touch.refs)
    PROVE  ReleaseAll(x) \in Sound /\ Shows(ReleaseAll(x).injected, NoReferences)
<1>1. Referenced(touch.refs) \in SUBSET ActionSet
  BY DEF Referenced
<1>2. x \in RecordType
  BY DEF Sound
<1>q. QED
  BY <1>1, <1>2, InjectedIsSound, ReleaseShows DEF ReleaseAll

\* A zone pressed or released: the record and the references after it.
LEMMA ZoneKeeps ==
    ASSUME binding \in Bindings, NEW x \in Sound, NEW c \in Contacts, NEW d, NEW z \in Zones,
           NEW down \in BOOLEAN, NEW refs, refs = RefsOf(c), Shows(x.injected, refs),
           Counted(refs, z, down) = RefsOf(d)
    PROVE  LET s == ApplyZone([refs |-> refs, kb |-> x], z, down)
           IN  s.refs = RefsOf(d) /\ s.kb \in Sound /\ Shows(s.kb.injected, s.refs)
<1> DEFINE new == Counted(refs, z, down)
           e == Edges(refs, new)
<1>1. refs \in [ActionSet -> Nat]
  <2>1. refs \in [ActionSet -> 0 .. Cardinality(Fingers)] /\ 0 .. Cardinality(Fingers) \subseteq Nat
    BY RefsAreCounted
  <2>q. QED
    BY <2>1
<1>2. e \in SUBSET ActionSet /\ x \in RecordType
  BY DEF Edges, Sound
<1>3. Injected(x, e, down) \in Sound
  BY <1>2, InjectedIsSound
<1>4. Shows(Injected(x, e, down).injected, new)
  BY <1>1, <1>2, ZoneShows
<1> DEFINE s == ApplyZone([refs |-> refs, kb |-> x], z, down)
<1>5. s = [refs |-> new, kb |-> Injected(x, e, down)]
  BY DEF ApplyZone
<1>6. new = RefsOf(d)
  OBVIOUS
<1> HIDE DEF new, e, s
<1>7. s.refs = new /\ s.kb = Injected(x, e, down)
  BY <1>5
<1>q. QED
  BY <1>3, <1>4, <1>6, <1>7 DEF s

LEMMA ZoneTouched ==
    ASSUME binding \in Bindings, NEW x \in Sound, NEW c \in Contacts, NEW f \in Fingers,
           NEW z \in Zones, NEW refs, refs = RefsOf(c), Shows(x.injected, refs), c[f] = None
    PROVE  LET d == [c EXCEPT ![f] = z]
               s == ApplyZone([refs |-> refs, kb |-> x], z, TRUE)
           IN  d \in Contacts /\ s.refs = RefsOf(d) /\ s.kb \in Sound /\ Shows(s.kb.injected, s.refs)
<1> DEFINE d == [c EXCEPT ![f] = z]
<1>1. d \in Contacts
  BY DEF Contacts
<1>2. Counted(refs, z, TRUE) = RefsOf(d) /\ TRUE \in BOOLEAN
  BY TouchedCounts
<1> HIDE DEF d
<1>b. PICK b \in BOOLEAN : b = TRUE
  OBVIOUS
<1>3. LET s == ApplyZone([refs |-> refs, kb |-> x], z, b)
      IN  s.refs = RefsOf(d) /\ s.kb \in Sound /\ Shows(s.kb.injected, s.refs)
  <2>1. /\ binding \in Bindings /\ x \in Sound /\ c \in Contacts /\ z \in Zones /\ b \in BOOLEAN
        /\ refs = RefsOf(c) /\ Shows(x.injected, refs) /\ Counted(refs, z, b) = RefsOf(d)
    BY <1>2, <1>b
  <2>q. QED
    BY ONLY <2>1, ZoneKeeps
<1>q. QED
  BY <1>1, <1>b, <1>3 DEF d

LEMMA ZoneLifted ==
    ASSUME binding \in Bindings, NEW x \in Sound, NEW c \in Contacts, NEW f \in Fingers,
           NEW refs, refs = RefsOf(c), Shows(x.injected, refs), c[f] \in Zones
    PROVE  LET d == [c EXCEPT ![f] = None]
               s == ApplyZone([refs |-> refs, kb |-> x], c[f], FALSE)
           IN  d \in Contacts /\ s.refs = RefsOf(d) /\ s.kb \in Sound /\ Shows(s.kb.injected, s.refs)
<1> DEFINE d == [c EXCEPT ![f] = None]
           z == c[f]
<1>1. d \in Contacts /\ z # None /\ z \in Zones
  BY KeysAssumption DEF Contacts
<1>2. Counted(refs, z, FALSE) = RefsOf(d) /\ FALSE \in BOOLEAN
  BY <1>1, LiftedCounts
<1> HIDE DEF d, z
<1>b. PICK b \in BOOLEAN : b = FALSE
  OBVIOUS
<1>3. LET s == ApplyZone([refs |-> refs, kb |-> x], z, b)
      IN  s.refs = RefsOf(d) /\ s.kb \in Sound /\ Shows(s.kb.injected, s.refs)
  <2>1. /\ binding \in Bindings /\ x \in Sound /\ c \in Contacts /\ z \in Zones /\ b \in BOOLEAN
        /\ refs = RefsOf(c) /\ Shows(x.injected, refs) /\ Counted(refs, z, b) = RefsOf(d)
    BY <1>1, <1>2, <1>b
  <2>q. QED
    BY ONLY <2>1, ZoneKeeps
<1>q. QED
  BY <1>1, <1>b, <1>3 DEF d, z

LEMMA KeysStepPreserves == KeysInv /\ [Next]_vars => KeysInv'
<1> SUFFICES ASSUME KeysInv, [Next]_vars PROVE KeysInv'
  OBVIOUS
<1>0. /\ physical \subseteq PhysicalKeys /\ game \subseteq Keys /\ kb \in RecordType
      /\ binding \in Bindings /\ touch \in TouchType /\ menu \in BOOLEAN /\ orphaned \subseteq Keys
  BY DEF KeysInv, KeysType
<1>1. /\ LedgerOf(kb) /\ Catches(game, kb)
      /\ touch.refs = RefsOf(touch.contact) /\ Shows(kb.injected, touch.refs)
  BY DEF KeysInv
<1>2. kb \in Sound
  BY <1>0, <1>1 DEF Sound
<1>3. /\ touch.contact \in Contacts /\ touch.refs \in [ActionSet -> 0 .. Cardinality(Fingers)]
      /\ touch.refs \in [ActionSet -> Nat]
      /\ touch.option \in BOOLEAN /\ touch.enabled \in BOOLEAN
  BY <1>0, TouchSplits
<1>4. ReleaseAll(kb) \in Sound /\ Shows(ReleaseAll(kb).injected, NoReferences)
  BY <1>0, <1>1, <1>2, ReleaseIsSound
<1>5. /\ Cancelled \in TouchType
      /\ Cancelled.contact = NoContacts /\ Cancelled.refs = NoReferences
      /\ Cancelled.refs = RefsOf(Cancelled.contact)
  BY <1>0, CancelledHas
<1>6. CASE UNCHANGED vars
  BY <1>0, <1>1, <1>2, <1>3, <1>6, ControlsKeep DEF vars
\* A key of the keyboard is noted; it reaches the ring, or it is withheld.
<1>0a. ASSUME NEW k \in PhysicalKeys, NEW down \in BOOLEAN, NEW y \in RecordType,
              y.held = With(kb.held, k, down), y.injected = kb.injected,
              \/ y.ring = kb.ring /\ y.withheld = kb.withheld \union {k}
              \/ /\ y.ring = Append(kb.ring, [key |-> k, down |-> down])
                 /\ y.withheld = kb.withheld \ {k} /\ k # Escape,
              kb' = y, physical' = With(physical, k, down),
              UNCHANGED <<game, binding, touch, menu, orphaned>>
       PROVE  KeysInv'
  <2>0. k \in Keys
    BY DEF Keys
  <2>3. Catches(game, y)
    BY <1>0, <1>1, <1>0a, <2>0, CatchesOn
  <2>4. Catches(game, kb)'
    BY <1>0a, <2>3 DEF Catches
  <2>5. LedgerOf(kb)'
    BY <1>1, <1>0a DEF LedgerOf, With
  <2>6. KeysType'
    BY <1>0, <1>0a DEF KeysType, With, TouchType
  <2>7. Shows(kb.injected, touch.refs)'
    BY <1>1, <1>0a DEF Shows, KeysOf, Shared, KeyOf
  <2>q. QED
    BY <1>1, <1>0a, <2>4, <2>5, <2>6, <2>7 DEF KeysInv
<1>7. ASSUME NEW k \in PhysicalKeys, NEW down \in BOOLEAN, PhysicalEvent(k, down) PROVE KeysInv'
  <2> DEFINE y == Push(kb, k, down)
  <2>1. /\ y \in RecordType /\ y.held = With(kb.held, k, down) /\ y.injected = kb.injected
        /\ \/ y.ring = kb.ring /\ y.withheld = kb.withheld \union {k}
           \/ /\ y.ring = Append(kb.ring, [key |-> k, down |-> down])
              /\ y.withheld = kb.withheld \ {k} /\ k # Escape
    <3>1. k \in Keys
      BY DEF Keys
    <3>q. QED
      BY <1>0, <3>1, PushDoes
  <2>2. kb' = y /\ physical' = With(physical, k, down) /\ UNCHANGED <<game, binding, touch, menu, orphaned>>
    BY <1>7 DEF PhysicalEvent, Push
  <2> HIDE DEF y
  <2>q. QED
    BY <1>0a, <2>1, <2>2
<1>7a. ASSUME AltReturn PROVE KeysInv'
  <2> DEFINE n == Note(kb, Return, TRUE)
             y == [n EXCEPT !.withheld = @ \union {Return}]
  <2>0. Return \in PhysicalKeys /\ Return \in Keys /\ TRUE \in BOOLEAN
    BY KeysAssumption DEF Keys
  <2>1. /\ n \in RecordType /\ n.held = With(kb.held, Return, TRUE)
        /\ n.injected = kb.injected /\ n.ring = kb.ring /\ n.withheld = kb.withheld
    <3>1. With(kb.held, Return, TRUE) \in SUBSET Keys
      BY <1>0, <2>0 DEF With, RecordType, KeyRecord
    <3>q. QED
      BY <1>0, <3>1 DEF Note, RecordType, KeyRecord
  <2> HIDE DEF n
  <2>2. /\ y \in RecordType /\ y.held = n.held /\ y.injected = n.injected
        /\ y.ring = n.ring /\ y.withheld = n.withheld \union {Return}
    BY <2>0, <2>1 DEF RecordType, KeyRecord
  <2>3. /\ kb' = y /\ physical' = With(physical, Return, TRUE)
        /\ UNCHANGED <<game, binding, touch, menu, orphaned>>
    BY <1>7a DEF AltReturn, n
  <2> HIDE DEF y
  <2>q. QED
    BY <1>0a, <2>0, <2>1, <2>2, <2>3
<1>8. ASSUME NEW f \in Fingers, NEW z \in Zones, FingerDown(f, z) PROVE KeysInv'
  <2> DEFINE d == [touch.contact EXCEPT ![f] = z]
             s == ApplyZone([refs |-> touch.refs, kb |-> kb], z, TRUE)
  <2>1. /\ touch.contact[f] = None /\ kb' = s.kb
        /\ touch' = [touch EXCEPT !.contact[f] = z, !.refs = s.refs]
        /\ UNCHANGED <<physical, game, binding, menu, orphaned>>
    BY <1>8 DEF FingerDown
  <2>2. d \in Contacts /\ s.refs = RefsOf(d) /\ s.kb \in Sound /\ Shows(s.kb.injected, s.refs)
    BY ONLY <1>0, <1>1, <1>2, <1>3, <2>1, f \in Fingers, z \in Zones, ZoneTouched
  <2>3. s.refs \in [ActionSet -> 0 .. Cardinality(Fingers)]
    BY <2>2, RefsAreCounted
  <2> HIDE DEF s
  <2>4. touch' \in TouchType /\ touch'.contact = d /\ touch'.refs = s.refs
    BY <1>0, <2>1, <2>2, <2>3 DEF TouchType
  <2>q. QED
    BY <1>0, <2>1, <2>2, <2>4, ControlsKeep
<1>9. ASSUME NEW f \in Fingers, FingerUp(f) PROVE KeysInv'
  <2> DEFINE z == touch.contact[f]
             d == [touch.contact EXCEPT ![f] = None]
             s == ApplyZone([refs |-> touch.refs, kb |-> kb], z, FALSE)
  <2>1. /\ z # None /\ kb' = s.kb
        /\ touch' = [touch EXCEPT !.contact[f] = None, !.refs = s.refs]
        /\ UNCHANGED <<physical, game, binding, menu, orphaned>>
    BY <1>9 DEF FingerUp
  <2>0. z \in Zones
    BY <1>3, <2>1 DEF Contacts
  <2>2. d \in Contacts /\ s.refs = RefsOf(d) /\ s.kb \in Sound /\ Shows(s.kb.injected, s.refs)
    BY ONLY <1>0, <1>1, <1>2, <1>3, <2>0, f \in Fingers, ZoneLifted
  <2>3. s.refs \in [ActionSet -> 0 .. Cardinality(Fingers)]
    BY <2>2, RefsAreCounted
  <2> HIDE DEF s, z
  <2>4. touch' \in TouchType /\ touch'.contact = d /\ touch'.refs = s.refs
    BY <1>0, <2>1, <2>2, <2>3 DEF TouchType
  <2>q. QED
    BY <1>0, <2>1, <2>2, <2>4, ControlsKeep
<1>10. ASSUME NEW f \in Fingers, NEW z \in Zones, FingerSlides(f, z) PROVE KeysInv'
  <2> DEFINE from == touch.contact[f]
             d == [touch.contact EXCEPT ![f] = None]
             up == ApplyZone([refs |-> touch.refs, kb |-> kb], from, FALSE)
             e == [d EXCEPT ![f] = z]
             s == ApplyZone([refs |-> up.refs, kb |-> up.kb], z, TRUE)
  <2>0. from \in Zones /\ from # None
    BY <1>3, <1>10 DEF Contacts, FingerSlides
  <2>1. up = [refs |-> up.refs, kb |-> up.kb]
    BY DEF ApplyZone
  <2>2. /\ kb' = s.kb
        /\ touch' = [touch EXCEPT !.contact[f] = z, !.refs = s.refs]
        /\ UNCHANGED <<physical, game, binding, menu, orphaned>>
    <3>1. /\ kb' = ApplyZone(up, z, TRUE).kb
          /\ touch' = [touch EXCEPT !.contact[f] = z, !.refs = ApplyZone(up, z, TRUE).refs]
          /\ UNCHANGED <<physical, game, binding, menu, orphaned>>
      BY <1>10 DEF FingerSlides
    <3> HIDE DEF up
    <3>2. ApplyZone(up, z, TRUE) = s
      BY <2>1
    <3> HIDE DEF s
    <3>q. QED
      BY <3>1, <3>2
  <2>3. d \in Contacts /\ up.refs = RefsOf(d) /\ up.kb \in Sound /\ Shows(up.kb.injected, up.refs)
    BY ONLY <1>0, <1>1, <1>2, <1>3, <2>0, f \in Fingers, ZoneLifted
  <2>4. d[f] = None
    BY <1>3 DEF Contacts
  <2> HIDE DEF up, d
  <2>5. e \in Contacts /\ s.refs = RefsOf(e) /\ s.kb \in Sound /\ Shows(s.kb.injected, s.refs)
    BY ONLY <1>0, <2>3, <2>4, f \in Fingers, z \in Zones, ZoneTouched

  <2>6. s.refs \in [ActionSet -> 0 .. Cardinality(Fingers)]
    BY <2>5, RefsAreCounted
  <2>7. e = [touch.contact EXCEPT ![f] = z]
    BY <1>3 DEF d, Contacts
  <2> HIDE DEF s, e
  <2>8. touch' \in TouchType /\ touch'.contact = e /\ touch'.refs = s.refs
    BY <1>0, <2>2, <2>5, <2>6, <2>7 DEF TouchType
  <2>q. QED
    BY <1>0, <2>2, <2>5, <2>8, ControlsKeep
<1>11. CASE Sync
  <2> DEFINE base == IF touch.enabled THEN Cancelled ELSE touch
             y == IF touch.enabled THEN ReleaseAll(kb) ELSE kb
  <2>1. /\ base \in TouchType /\ base.refs = RefsOf(base.contact)
        /\ y \in Sound /\ Shows(y.injected, base.refs)
    BY <1>0, <1>1, <1>2, <1>4, <1>5
  <2>2. /\ touch' = [base EXCEPT !.enabled = touch.option] /\ kb' = y
        /\ UNCHANGED <<physical, game, binding, menu, orphaned>>
    BY <1>11 DEF Sync
  <2> HIDE DEF base, y
  <2>3. touch' \in TouchType /\ touch'.refs = base.refs /\ touch'.contact = base.contact
    BY <1>3, <2>1, <2>2 DEF TouchType
  <2>q. QED
    BY <1>0, <2>1, <2>2, <2>3, ControlsKeep
<1>12. CASE SyncWhileDrawing
  <2> DEFINE base == IF touch.enabled THEN Cancelled ELSE touch
  <2>1. base \in TouchType /\ base.refs = RefsOf(base.contact)
    BY <1>0, <1>1, <1>5
  <2>2. /\ touch' = [base EXCEPT !.enabled = touch.option]
        /\ orphaned' = orphaned \union (IF touch.enabled THEN TouchKeys ELSE {})
        /\ UNCHANGED <<physical, kb, game, binding, menu>>
    BY <1>12 DEF SyncWhileDrawing
  <2> HIDE DEF base
  <2>3. touch' \in TouchType /\ touch'.refs = base.refs /\ touch'.contact = base.contact
    BY <1>3, <2>1, <2>2 DEF TouchType
  <2>4. TouchKeys \subseteq Keys /\ KeysOf(touch.refs) = TouchKeys
    BY <1>0, KeysAreKeys DEF TouchKeys, Referenced, KeysOf, Bindings
  <2>5. KeysType'
    BY <1>0, <2>2, <2>3, <2>4 DEF KeysType, TouchType
  <2>6. LedgerOf(kb)' /\ Catches(game, kb)'
    BY <1>1, <2>2 DEF LedgerOf, Catches
  <2>7. Shared' = Shared /\ \A refs : KeysOf(refs)' = KeysOf(refs)
    BY <2>2 DEF Shared, KeysOf, KeyOf
  <2>8. Shows(kb.injected, touch.refs)'
    <3>1. CASE touch.enabled
      <4>1. touch'.refs = NoReferences
        BY <1>5, <2>3, <3>1 DEF base
      <4>2. KeysOf(touch.refs)' = {}
        BY <4>1 DEF KeysOf, Referenced, NoReferences
      <4>3. kb'.injected \subseteq orphaned'
        BY <1>1, <2>2, <2>4, <3>1 DEF Shows
      <4>q. QED
        BY <4>2, <4>3 DEF Shows
    <3>2. CASE ~touch.enabled
      <4>1. touch'.refs = touch.refs /\ orphaned' = orphaned /\ kb' = kb /\ binding' = binding
        BY <2>2, <2>3, <3>2 DEF base
      <4>q. QED
        BY <1>1, <4>1 DEF Shows, KeysOf, Shared, KeyOf
    <3>q. QED
      BY <3>1, <3>2
  <2>10. touch'.refs = RefsOf(touch'.contact)
    BY <2>1, <2>3
  <2>q. QED
    BY <2>5, <2>6, <2>8, <2>10 DEF KeysInv, RefsOf, On
<1>13. CASE TouchCancelled
  <2>1. /\ touch' = Cancelled /\ kb' = ReleaseAll(kb)
        /\ UNCHANGED <<physical, game, binding, menu, orphaned>>
    BY <1>13 DEF TouchCancelled
  <2>q. QED
    BY <1>0, <1>4, <1>5, <2>1, ControlsKeep
<1>14. CASE CloseMenu
  <2>1. menu' = FALSE /\ UNCHANGED <<physical, kb, game, binding, touch, orphaned>>
    BY <1>14 DEF CloseMenu
  <2>q. QED
    BY <1>0, <1>1, <1>2, <2>1, ControlsKeep
<1>15. ASSUME NEW a \in ActionSet \ {Pause}, NEW k \in Bindable, Rebind(a, k) PROVE KeysInv'
  <2>1. /\ binding' = [binding EXCEPT ![a] = k]
        /\ orphaned' = orphaned \union ({binding[a]} \intersect TouchKeys)
                                \union (IF touch.refs[a] > 0 THEN {k} ELSE {})
        /\ UNCHANGED <<physical, kb, game, touch, menu>>
    BY <1>15 DEF Rebind
  <2>2. binding' \in Bindings /\ \A b \in ActionSet : KeyOf(b)' = IF b = a THEN k ELSE KeyOf(b)
    BY <1>0, <2>1 DEF Bindings, KeyOf
  <2>3. KeyOf(a) = binding[a] /\ KeysOf(touch.refs) = TouchKeys
    BY DEF KeyOf, KeysOf, TouchKeys
  <2>4. TouchKeys \subseteq Keys /\ k \in Keys
    BY <1>0, KeysAreKeys DEF TouchKeys, Referenced, Bindings, Keys
  <2>5. KeysType'
    BY <1>0, <2>1, <2>2, <2>4 DEF KeysType, TouchType
  <2>6. LedgerOf(kb)' /\ Catches(game, kb)'
    BY <1>1, <2>1 DEF LedgerOf, Catches
  <2>7. Referenced(touch.refs) \subseteq ActionSet
    BY DEF Referenced
  <2>8. kb.injected \subseteq KeysOf(touch.refs)' \union orphaned'
    <3> SUFFICES ASSUME NEW j \in kb.injected, j \notin orphaned' PROVE j \in KeysOf(touch.refs)'
      OBVIOUS
    <3>1. j \in KeysOf(touch.refs)
      BY <1>1, <2>1 DEF Shows
    <3>2. PICK b \in Referenced(touch.refs) : j = KeyOf(b)
      BY <3>1 DEF KeysOf
    <3>3. b # a
      BY <2>1, <2>3, <3>1, <3>2
    <3>4. KeyOf(b)' = j /\ b \in Referenced(touch'.refs)
      BY <2>1, <2>2, <2>7, <3>2, <3>3
    <3>q. QED
      BY <3>4 DEF KeysOf
  <2>9. KeysOf(touch.refs)' \subseteq kb.injected \union orphaned' \union Shared'
    <3> SUFFICES ASSUME NEW j \in KeysOf(touch.refs)', j \notin orphaned', j \notin Shared'
                 PROVE  j \in kb.injected
      OBVIOUS
    <3>1. PICK b \in Referenced(touch.refs) : j = KeyOf(b)'
      BY <2>1 DEF KeysOf
    <3>2. b # a
      BY <2>1, <2>2, <2>7, <3>1 DEF Referenced
    <3>3. j = KeyOf(b) /\ j \in KeysOf(touch.refs) /\ j \notin orphaned
      BY <2>1, <2>2, <2>7, <3>1, <3>2 DEF KeysOf
    <3>4. j # binding[a]
      BY <2>1, <2>3, <3>3
    <3>5. j \notin Shared
      <4> SUFFICES ASSUME NEW c \in ActionSet, NEW d \in ActionSet, c # d, KeyOf(c) = j, KeyOf(d) = j
                   PROVE  FALSE
        BY DEF Shared
      <4>1. c # a /\ d # a
        BY <2>3, <3>4
      <4>2. KeyOf(c)' = j /\ KeyOf(d)' = j
        BY <2>2, <4>1
      <4>3. j \in Keys
        BY <2>3, <2>4, <3>3
      <4>q. QED
        BY <4>2, <4>3 DEF Shared
    <3>q. QED
      BY <1>1, <3>3, <3>5 DEF Shows
  <2>10. Shows(kb.injected, touch.refs)'
    BY <2>1, <2>8, <2>9 DEF Shows
  <2>q. QED
    BY <1>1, <2>1, <2>5, <2>6, <2>10 DEF KeysInv, RefsOf, On
<1>16. CASE ToggleTouchOption
  <2>1. touch' = [touch EXCEPT !.option = ~@] /\ UNCHANGED <<physical, kb, game, binding, menu, orphaned>>
    BY <1>16 DEF ToggleTouchOption
  <2>2. touch' \in TouchType /\ touch'.refs = touch.refs /\ touch'.contact = touch.contact
    BY <1>0, <2>1 DEF TouchType
  <2>q. QED
    BY <1>0, <1>1, <1>2, <2>1, <2>2, ControlsKeep
<1>17. ASSUME NEW startEdge \in BOOLEAN, PauseTick(startEdge) PROVE KeysInv'
  <2> DEFINE taken == [kb EXCEPT !.escape = FALSE]
             opens == (kb.escape \/ startEdge) /\ ~menu
  <2>1. /\ menu' \in BOOLEAN /\ kb' = (IF opens THEN ReleaseAll(taken) ELSE taken)
        /\ touch' = (IF opens THEN Cancelled ELSE touch)
        /\ UNCHANGED <<physical, game, binding, orphaned>>
    BY <1>0, <1>17 DEF PauseTick
  <2>2. /\ taken \in RecordType /\ taken.held = kb.held /\ taken.injected = kb.injected
        /\ taken.ring = kb.ring /\ taken.withheld = kb.withheld
    BY <1>0 DEF RecordType, KeyRecord
  <2> HIDE DEF taken, opens
  <2>3. taken \in Sound
    BY <1>1, <2>2 DEF Sound, LedgerOf, Catches
  <2>4. Shows(taken.injected, touch.refs)
    BY <1>1, <2>2
  <2>5. ReleaseAll(taken) \in Sound /\ Shows(ReleaseAll(taken).injected, NoReferences)
    BY <1>0, <2>3, <2>4, ReleaseIsSound
  <2>q. QED
    BY <1>0, <1>1, <1>5, <2>1, <2>3, <2>4, <2>5, ControlsKeep
<1>18. CASE GameTakes
  <2> DEFINE h == Head(kb.ring)
             t == [kb EXCEPT !.ring = Tail(@)]
  <2>1. /\ kb.ring # << >> /\ kb' = t /\ game' = With(game, h.key, h.down)
        /\ UNCHANGED <<physical, binding, touch, menu, orphaned>>
    BY <1>18 DEF GameTakes
  <2>2. kb.ring \in Seq(Message) /\ Len(kb.ring) < RingSize
    BY <1>0 DEF RecordType, KeyRecord
  <2>3. h \in Message /\ Tail(kb.ring) \in Seq(Message) /\ Len(Tail(kb.ring)) < RingSize
    <3>1. /\ h \in Message /\ Tail(kb.ring) \in Seq(Message) /\ Len(Tail(kb.ring)) = Len(kb.ring) - 1
          /\ Len(kb.ring) \in Nat
      BY <2>1, <2>2, HeadTailProperties, LenProperties
    <3>q. QED
      BY <2>2, <3>1, KeysAssumption
  <2>4. /\ t \in RecordType /\ t.held = kb.held /\ t.injected = kb.injected
        /\ t.ring = Tail(kb.ring) /\ t.withheld = kb.withheld
    BY <1>0, <2>3 DEF RecordType, KeyRecord
  <2> HIDE DEF t, h
  <2>5. game' \subseteq Keys
    BY <1>0, <2>1, <2>3 DEF With, Message
  <2>6. \A k : WillHold(game', kb'.ring, k) = WillHold(game, kb.ring, k)
    BY <2>1, <2>2, <2>4, TakenHolds DEF h
  <2>7. Catches(game, kb)'
    <3>1. Catches(game', kb')
      BY <1>1, <2>1, <2>4, <2>6 DEF Catches
    <3>q. QED
      BY <3>1 DEF Catches
  <2>8. LedgerOf(kb)'
    BY <1>1, <2>1, <2>4 DEF LedgerOf
  <2>9. KeysType'
    BY <1>0, <2>1, <2>4, <2>5 DEF KeysType, TouchType
  <2>10. Shows(kb.injected, touch.refs)'
    BY <1>1, <2>1, <2>4 DEF Shows, KeysOf, Shared, KeyOf
  <2>q. QED
    BY <1>1, <2>1, <2>7, <2>8, <2>9, <2>10 DEF KeysInv
<1>q. QED
  BY <1>6, <1>7, <1>7a, <1>8, <1>9, <1>10, <1>11, <1>12, <1>13, <1>14, <1>15, <1>16, <1>17, <1>18
     DEF Next, Keyboard, Touches, Menu, Frame

(* In every run the keys have the types they are read with, the ring never *)
(* overruns its free slot and no reference outnumbers the fingers          *)
(* (queue_message, apply_actions).                                         *)
THEOREM TypeCorrect == Spec => []TypeOK
<1>1. Init => KeysInv
  BY KeysInitHolds
<1>2. KeysInv /\ [Next]_vars => KeysInv'
  BY KeysStepPreserves
<1>3. KeysInv => TypeOK
  BY DEF KeysInv, KeysType, RecordType, Bindings, TouchType, Contacts, TypeOK
<1>q. QED
  BY <1>1, <1>2, <1>3, PTL DEF Spec

(* The three invariants together are inductive (keyboard_note before       *)
(* port_owns_key; apply_actions; cancel_all).                              *)
THEOREM KeysInvariance == Spec => []KeysInv
<1>1. Init => KeysInv
  BY KeysInitHolds
<1>2. KeysInv /\ [Next]_vars => KeysInv'
  BY KeysStepPreserves
<1>q. QED
  BY <1>1, <1>2, PTL DEF Spec

(* No key sticks in the ledger, whatever the menu or a full ring keep from *)
(* the game (keyboard_note, hostwin_pump).                                 *)
THEOREM LedgerIsFaithful == Spec => []LedgerNeverSticks
<1>1. KeysInv => LedgerNeverSticks
  BY DEF KeysInv, LedgerOf, LedgerNeverSticks
<1>q. QED
  BY <1>1, KeysInvariance, PTL

(* The game ends up with the ledger's keys but for what was kept from it,  *)
(* for any ring (push_message, port_owns_key).                             *)
THEOREM GameIsTold == Spec => []GameCatchesUp
<1>1. KeysInv => GameCatchesUp
  BY DEF KeysInv, Catches, GameCatchesUp
<1>q. QED
  BY <1>1, KeysInvariance, PTL

(* The controls hold what the fingers are on, for any zones, actions and   *)
(* fingers (apply_actions, cancel_all).                                    *)
THEOREM ControlsAreTrue == Spec => []TouchHoldsWhatItShows
<1>1. KeysInv => TouchHoldsWhatItShows
  <2> SUFFICES ASSUME KeysInv PROVE TouchHoldsWhatItShows
    OBVIOUS
  <2>1. ReferencesAreFingers
    BY DEF KeysInv, RefsOf, On, ReferencesAreFingers
  <2>2. KeysOf(touch.refs) = TouchKeys
    BY DEF KeysOf, TouchKeys
  <2>q. QED
    BY <2>1, <2>2 DEF KeysInv, Shows, TouchHoldsWhatItShows
<1>q. QED
  BY <1>1, KeysInvariance, PTL
=============================================================================
