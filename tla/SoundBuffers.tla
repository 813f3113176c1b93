---------------------------- MODULE SoundBuffers ----------------------------
(***************************************************************************)
(* The effects half of runtime/audio/dsound.c and its resampler, of which  *)
(* mixer.c is the copy the tests build: the buffers the game creates,      *)
(* duplicates, plays, stops, seeks and polls, against mix_slice, which     *)
(* advances every registered playing buffer.                               *)
(*                                                                         *)
(* Each handler is one critical section of mix_lock and so is a slice, so  *)
(* both are single steps (AudioMixer has the lock itself).  The play       *)
(* cursor, a double of source frames, is kept exactly in 1/Unit of a frame.*)
(***************************************************************************)
EXTENDS Integers, Sequences, FiniteSets

CONSTANTS
    Format,      \* buffers the game asks for: [bytes, bps, step]
    Unit,        \* cursor units in a frame; step is in these units
    MaxObjects,  \* bound on the objects the game creates
    MaxBufs,     \* MAX_BUFS: objects the mixer knows of
    MaxSlice,    \* bound on the frames of one slice
    Lead,        \* 40 ms of write-ahead, in frames
    SeekMax,     \* bound on the positions sought to: any word in the code,
                 \* here short of 2^32, where the sums of the code wrap
    MaxCalls     \* bound on the calls of the game

ASSUME FormatAssumption ==
    /\ Format \subseteq [bytes : Nat \ {0}, bps : Nat \ {0}, step : Nat \ {0}]
    /\ \A f \in Format : Unit % f.bps = 0
ASSUME BoundAssumption ==
    /\ {MaxObjects, MaxBufs, MaxSlice, MaxCalls, SeekMax} \subseteq Nat
    /\ {Unit, Lead} \subseteq Nat \ {0}

VARIABLES
    voice,   \* the SBuf objects, in creation order
    bufs,    \* bufs[]: the indices of those the mixer walks
    calls    \* calls made so far

vars == <<voice, bufs, calls>>

Init == voice = <<>> /\ bufs = {} /\ calls = 0

FramesIn(v) == v.bytes \div v.bps

-----------------------------------------------------------------------------
(* The resampler.  A cursor is on a readable pair when its frame and the   *)
(* next both exist.  A frame of output either reads the pair, wrapping     *)
(* once when the buffer loops, or ends the walk for this slice.            *)

Pair(v, c) == c \div Unit + 1 < FramesIn(v)

Wrapped(v, c) ==
    LET w == c - FramesIn(v) * Unit IN IF w < 0 THEN 0 ELSE w

\* Mutant: a one-shot that runs out is left playing.
NextFrameNeverStops(v, m) ==
    LET c == IF Pair(v, m.cur) \/ ~v.looping THEN m.cur ELSE Wrapped(v, m.cur)
    IN  IF m.on /\ Pair(v, c)
           THEN [m EXCEPT !.cur = c + v.step, !.heard = Append(@, c)]
           ELSE [m EXCEPT !.on = FALSE]

NextFrame(v, m) ==
    LET c == IF Pair(v, m.cur) \/ ~v.looping THEN m.cur ELSE Wrapped(v, m.cur)
    IN  IF ~m.on THEN m
        ELSE IF Pair(v, c)
                THEN [m EXCEPT !.cur = c + v.step, !.heard = Append(@, c)]
                ELSE [m EXCEPT !.cur = c, !.on = FALSE, !.playing = v.looping]

\* What n frames of output do: the cursor, whether the buffer still plays,
\* and the cursors it was heard at.
Mixed(v, n) ==
    LET after[k \in 0 .. n] ==
            IF k = 0
               THEN [cur |-> v.cur, playing |-> v.playing, on |-> v.playing,
                     heard |-> <<>>]
               ELSE NextFrame(v, after[k - 1])
    IN after[n]

\* Mutant: the fraction of the cursor is dropped between slices.
AfterSliceRounded(v, n) ==
    LET c == (Mixed(v, n).cur \div Unit) * Unit
    IN [v EXCEPT !.cur = c, !.playing = Mixed(v, n).playing,
                 !.pos = (c \div Unit) * v.bps]

AfterSlice(v, n) ==
    IF ~v.playing \/ FramesIn(v) = 0 THEN v
    ELSE LET m == Mixed(v, n)
         IN [v EXCEPT !.cur = m.cur, !.playing = m.playing,
                      !.pos = (m.cur \div Unit) * v.bps]

MixSlice(n) ==
    /\ voice' = [i \in DOMAIN voice |->
                    IF i \in bufs THEN AfterSlice(voice[i], n) ELSE voice[i]]
    /\ UNCHANGED <<bufs, calls>>

-----------------------------------------------------------------------------
(* The game.                                                               *)

Call == calls < MaxCalls /\ calls' = calls + 1

\* An object past MAX_BUFS exists for the game but is never mixed.
Add(v) ==
    /\ Len(voice) < MaxObjects
    /\ voice' = Append(voice, v)
    /\ bufs' = IF Cardinality(bufs) < MaxBufs
                  THEN bufs \cup {Len(voice) + 1} ELSE bufs

CreateSoundBuffer(f) ==
    Call /\ Add([bytes |-> f.bytes, bps |-> f.bps, step |-> f.step,
                 cur |-> 0, pos |-> 0, playing |-> FALSE, looping |-> FALSE,
                 volume |-> "full"])

\* Shares the PCM and the format; its own cursor.
DuplicateSoundBuffer(i) ==
    Call /\ Add([voice[i] EXCEPT !.playing = FALSE, !.pos = 0, !.cur = 0])

Play(i, loop) ==
    /\ Call
    /\ voice' = [voice EXCEPT ![i].looping = loop, ![i].playing = TRUE]
    /\ UNCHANGED bufs

Stop(i) ==
    /\ Call
    /\ voice' = [voice EXCEPT ![i].playing = FALSE]
    /\ UNCHANGED bufs

\* Mutant: the guest's cursor moves and the mixer's does not.
SeekWithoutResync(i, p) ==
    /\ Call
    /\ voice' = [voice EXCEPT ![i].pos = p]
    /\ UNCHANGED bufs

\* The position is the caller's word, also one far past the end.
SetCurrentPosition(i, p) ==
    /\ Call
    /\ voice' = [voice EXCEPT ![i].pos = p,
                              ![i].cur = (p * Unit) \div voice[i].bps]
    /\ UNCHANGED bufs

SetVolume(i) ==
    /\ Call
    /\ \E level \in {"full", "silent"} :
          voice' = [voice EXCEPT ![i].volume = level]
    /\ UNCHANGED bufs

\* GetCurrentPosition: the pair of cursors a streaming caller polls.
PlayCursor(v) == v.pos

WriteCursor(v) ==
    LET ahead == Lead * v.bps
        lead == IF ahead >= v.bytes THEN v.bytes \div 4 ELSE ahead
    IN (v.pos + lead) % v.bytes

Next ==
    \/ \E f \in Format : CreateSoundBuffer(f)
    \/ \E i \in DOMAIN voice :
          \/ DuplicateSoundBuffer(i) \/ Stop(i) \/ SetVolume(i)
          \/ \E loop \in BOOLEAN : Play(i, loop)
          \/ \E p \in 0 .. SeekMax : SetCurrentPosition(i, p)
    \/ \E n \in 1 .. MaxSlice : MixSlice(n)

(* The device keeps pulling (AudioMixer); the game owes no further call.   *)
Spec == Init /\ [][Next]_vars
             /\ WF_vars(\E n \in 1 .. MaxSlice : MixSlice(n))

-----------------------------------------------------------------------------
(* The objects keep their formats, and the mixer walks at most MAX_BUFS of *)
(* them (ds_CreateSoundBuffer).                                            *)
TypeOK ==
    /\ Len(voice) <= MaxObjects
    /\ \A i \in DOMAIN voice :
          /\ [bytes |-> voice[i].bytes, bps |-> voice[i].bps,
              step |-> voice[i].step] \in Format
          /\ voice[i].cur \in Nat /\ voice[i].pos \in Nat
          /\ {voice[i].playing, voice[i].looping} \subseteq BOOLEAN
          /\ voice[i].volume \in {"full", "silent"}
    /\ bufs \subseteq DOMAIN voice /\ Cardinality(bufs) <= MaxBufs
    /\ calls \in 0 .. MaxCalls

(* Interpolation reads frames i0 and i0 + 1: whatever the game seeks to,   *)
(* and wherever the last slice left the cursor, the next slice reads only  *)
(* inside the buffer (dsound.c 291-312).                                   *)
ReadsInsideBuffer ==
    \A i \in bufs : LET h == Mixed(voice[i], MaxSlice).heard
                    IN \A k \in DOMAIN h : /\ h[k] >= 0
                                           /\ h[k] \div Unit + 1 < FramesIn(voice[i])

\* The cursor is on a readable pair, or a loop's is after one wrap.
OneWrapAway(v) == Pair(v, v.cur) \/ Pair(v, Wrapped(v, v.cur))

\* Past its seam a loop is on a readable pair again: it holds one, is not
\* shorter than what one frame of output steps over, and has not been sought
\* farther past its end than one wrap brings back.
SeamIsReadable(v) ==
    v.looping => /\ FramesIn(v) >= 2
                 /\ v.step <= FramesIn(v) * Unit
                 /\ OneWrapAway(v)

SlicesAsOne(v, k, n) ==
    LET half == AfterSlice(v, k)
    IN /\ AfterSlice(half, n - k) = AfterSlice(v, n)
       /\ v.playing => Mixed(v, n).heard =
             Mixed(v, k).heard \o
                (IF half.playing THEN Mixed(half, n - k).heard ELSE <<>>)

(* mixer.h: mixing a signal in slices produces bit-identical output to     *)
(* mixing it in one call.  So for every one-shot and every loop with a     *)
(* readable seam.  The walk of any other loop stops for the rest of a      *)
(* slice and starts again in the next, so there it matters where slices    *)
(* end: a loop sought too far past its end is silent for the whole slice,  *)
(* however long, and one length of the buffer nearer after it.             *)
SlicingIsTransparent ==
    \A i \in bufs : \A n \in 1 .. MaxSlice :
        LET v == voice[i]
        IN /\ SeamIsReadable(v) => \A k \in 1 .. n - 1 : SlicesAsOne(v, k, n)
           /\ v.playing /\ v.looping /\ ~OneWrapAway(v) =>
                 /\ Mixed(v, n).heard = <<>>
                 /\ AfterSlice(v, n).cur = Wrapped(v, v.cur)

(* The write cursor must lead the play cursor, inside the buffer: equal    *)
(* cursors tell a streaming caller that there is no room (dsound.c 535).   *)
WriteLeadsPlay ==
    \A i \in DOMAIN voice :
        LET v == voice[i]
        IN v.bytes >= 4 => /\ WriteCursor(v) < v.bytes
                           /\ WriteCursor(v) # PlayCursor(v) % v.bytes

(* What GetCurrentPosition returns is the frame the mixer is at, after a   *)
(* slice and after a seek alike, and a write cursor ahead of it; and from  *)
(* wherever that frame is, the next slice reads only inside the buffer.    *)
PolledCursorIsMixed ==
    /\ \A i \in DOMAIN voice :
          PlayCursor(voice[i]) \div voice[i].bps = voice[i].cur \div Unit
    /\ WriteLeadsPlay
    /\ ReadsInsideBuffer

(* mixer.c: wrap by the source length so the fraction is preserved across  *)
(* the seam.                                                               *)
SeamKeepsFraction ==
    \A i \in bufs :
        LET v == voice[i]
        IN v.playing /\ v.looping /\ v.cur > 0 /\ ~Pair(v, v.cur)
              => Wrapped(v, v.cur) % Unit = v.cur % Unit

(* A registered one-shot is over after finitely many slices: once the game *)
(* makes no more calls, only loops still play.                             *)
OneShotsEnd ==
    <>[](\A i \in bufs : voice[i].playing => voice[i].looping)
=============================================================================
