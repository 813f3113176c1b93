----------------------------- MODULE SoundProofs -----------------------------
(***************************************************************************)
(* Proofs about SoundBuffers, for any formats, cursor unit and slices, and *)
(* about Decoder, for any frame size, limit, first capacity and pipe.      *)
(***************************************************************************)
EXTENDS SoundBuffers, Decoder, SequenceTheorems, FiniteSetTheorems, TLAPS

-----------------------------------------------------------------------------
(* Arithmetic.                                                             *)

LEMMA DivMod ==
    ASSUME NEW a \in Int, NEW b \in Nat \ {0}
    PROVE  /\ a \div b \in Int /\ a % b \in 0 .. b - 1
           /\ a = b * (a \div b) + (a % b)
OBVIOUS

LEMMA TimesGrows ==
    ASSUME NEW x \in Int, NEW b \in Nat \ {0}
    PROVE  /\ b * x \in Int
           /\ x >= 1 => b * x >= b
           /\ x <= -1 => b * x <= -b
OBVIOUS

LEMMA DivUnique ==
    ASSUME NEW a \in Int, NEW b \in Nat \ {0}, NEW d \in Int, NEW r \in 0 .. b - 1,
           a = b * d + r
    PROVE  a \div b = d /\ a % b = r
<1> DEFINE e == a \div b
           s == a % b
<1>1. e \in Int /\ s \in 0 .. b - 1 /\ a = b * e + s
  BY DivMod
<1> HIDE DEF e, s
<1> DEFINE x == e - d
<1>2. x \in Int /\ b * x = b * e - b * d
  BY <1>1
<1>3. b * x = r - s
  BY <1>1, <1>2, TimesGrows
<1>4. x = 0
  <2> HIDE DEF x
  <2>q. QED
    BY <1>1, <1>2, <1>3, TimesGrows
<1>5. e = d
  BY <1>1, <1>4
<1>6. s = r
  BY <1>1, <1>3, <1>5
<1>q. QED
  BY <1>5, <1>6 DEF e, s

\* A shift by less than the modulus changes the rest.
LEMMA ModShift ==
    ASSUME NEW a \in Int, NEW b \in Nat \ {0}, NEW l \in 1 .. b - 1
    PROVE  (a + l) % b # a % b
<1>1. SUFFICES ASSUME (a + l) % b = a % b PROVE FALSE
  OBVIOUS
<1> DEFINE d == a \div b
           e == (a + l) \div b
           r == a % b
<1>2. /\ d \in Int /\ e \in Int /\ r \in 0 .. b - 1
      /\ a = b * d + r /\ a + l = b * e + r
  BY <1>1, DivMod
<1> HIDE DEF d, e, r
<1> DEFINE x == e - d
<1>3. x \in Int /\ b * x = b * e - b * d
  BY <1>2
<1>4. b * x = l
  BY <1>2, <1>3, TimesGrows
<1> HIDE DEF x
<1>q. QED
  BY <1>3, <1>4, TimesGrows

LEMMA DivOfProduct ==
    ASSUME NEW a \in Nat, NEW b \in Nat \ {0}
    PROVE  (a * b) \div b = a
<1>1. a * b \in Int /\ a * b = b * a + 0 /\ 0 \in 0 .. b - 1
  OBVIOUS
<1>q. QED
  BY <1>1, DivUnique

\* The frame of a byte is the frame of the cursor it is turned into.
LEMMA DivOfScaled ==
    ASSUME NEW p \in Nat, NEW b \in Nat \ {0}, NEW u \in Nat \ {0}, u % b = 0
    PROVE  /\ (p * u) \div b \in Nat
           /\ ((p * u) \div b) \div u = p \div b
<1> DEFINE m == u \div b
<1>1. m \in Int /\ u = b * m
  BY DivMod
<1> HIDE DEF m
<1>2. m \in Nat \ {0}
  BY <1>1, TimesGrows
<1>3. p * u = b * (p * m) + 0 /\ p * m \in Nat /\ p * u \in Int /\ 0 \in 0 .. b - 1
  BY <1>1, <1>2
<1>4. (p * u) \div b = p * m
  <2> DEFINE x == p * u
             y == p * m
  <2>1. x \in Int /\ y \in Int /\ 0 \in 0 .. b - 1 /\ x = b * y + 0
    BY <1>3
  <2> HIDE DEF x, y
  <2>2. x \div b = y
    BY <2>1, DivUnique
  <2>q. QED
    BY <2>2 DEF x, y
<1> DEFINE d == p \div b
           r == p % b
<1>5. d \in Int /\ r \in 0 .. b - 1 /\ p = b * d + r
  BY DivMod
<1> HIDE DEF d, r
<1>6. p * m = u * d + r * m
  BY <1>1, <1>2, <1>5
<1>7. r * m \in Int /\ 0 <= r * m /\ r * m < u
  <2>1. r * m \in Nat /\ (b - r) * m \in Int /\ (b - r) * m >= m
    BY <1>2, <1>5
  <2>2. (b - r) * m = u - r * m
    BY <1>1, <1>2, <1>5
  <2>q. QED
    BY <1>2, <2>1, <2>2
<1>8. r * m \in 0 .. u - 1
  BY <1>7
<1>9. (p * m) \div u = d
  BY <1>3, <1>5, <1>6, <1>8, DivUnique
<1>q. QED
  BY <1>3, <1>4, <1>9 DEF d

-----------------------------------------------------------------------------
(* Induction on the frames of a slice.                                     *)

LEMMA SetInduction ==
    ASSUME NEW T, 0 \in T, \A n \in Nat : n \in T => n + 1 \in T
    PROVE  Nat \subseteq T
<1> DEFINE R == OpToRel(<, Nat)
           F == Nat \ T
<1>1. SUFFICES ASSUME F # {} PROVE FALSE
  OBVIOUS
<1>2. IsWellFoundedOn(R, Nat)
  BY NatLessThanWellFounded
<1>3. \A x, y \in Nat : y < x => <<y, x>> \in R
  BY DEF OpToRel
<1> HIDE DEF R
<1>4. PICK x \in F : \A y \in F : <<y, x>> \notin R
  <2>1. F \subseteq Nat
    OBVIOUS
  <2> HIDE DEF F
  <2>q. QED
    BY <1>1, <1>2, <2>1, WFMin
<1>5. x # 0 /\ x - 1 \in Nat /\ x - 1 < x /\ x \in Nat
  BY <1>4
<1>6. x - 1 \in T
  BY <1>3, <1>4, <1>5
<1>7. x - 1 + 1 = x
  BY <1>5
<1>q. QED
  BY <1>4, <1>5, <1>6, <1>7

Start(v) == [cur |-> v.cur, playing |-> v.playing, on |-> v.playing, heard |-> <<>>]

\* The states of the resampler through the first n frames.
Walked(v, n, g) ==
    g = [k \in 0 .. n |-> IF k = 0 THEN Start(v) ELSE NextFrame(v, g[k - 1])]

LEMMA WalkIsOne ==
    ASSUME NEW v, NEW n \in Nat, NEW m \in Nat, NEW g, NEW h,
           Walked(v, n, g), Walked(v, m, h), n <= m
    PROVE  \A k \in 0 .. n : g[k] = h[k]
<1> DEFINE T == {k \in Nat : k <= n => g[k] = h[k]}
<1>1. /\ \A k \in 0 .. n : g[k] = IF k = 0 THEN Start(v) ELSE NextFrame(v, g[k - 1])
      /\ \A k \in 0 .. m : h[k] = IF k = 0 THEN Start(v) ELSE NextFrame(v, h[k - 1])
  BY Zenon DEF Walked
<1>2. 0 \in T
  BY <1>1
<1>3. ASSUME NEW k \in Nat, k \in T PROVE k + 1 \in T
  <2>1. SUFFICES ASSUME k + 1 <= n PROVE g[k + 1] = h[k + 1]
    OBVIOUS
  <2>2. k + 1 \in 0 .. n /\ k + 1 \in 0 .. m /\ k + 1 # 0 /\ k + 1 - 1 = k /\ g[k] = h[k]
    BY <1>3, <2>1
  <2>q. QED
    BY <1>1, <2>2
<1> HIDE DEF T
<1>4. Nat \subseteq T
  BY <1>2, <1>3, SetInduction
<1>q. QED
  BY <1>4 DEF T

LEMMA WalkExists ==
    ASSUME NEW v, NEW n \in Nat
    PROVE  \E g : Walked(v, n, g)
<1> DEFINE T == {k \in Nat : \E g : Walked(v, k, g)}
<1>1. 0 \in T
  <2> DEFINE g == [k \in 0 .. 0 |-> Start(v)]
  <2>1. Walked(v, 0, g)
    BY DEF Walked
  <2>q. QED
    BY <2>1
<1>2. ASSUME NEW k \in Nat, k \in T PROVE k + 1 \in T
  <2>1. PICK g : Walked(v, k, g)
    BY <1>2
  <2>2. \A l \in 0 .. k : g[l] = IF l = 0 THEN Start(v) ELSE NextFrame(v, g[l - 1])
    BY <2>1, Zenon DEF Walked
  <2> DEFINE h == [l \in 0 .. k + 1 |-> IF l = 0 THEN Start(v) ELSE NextFrame(v, g[l - 1])]
  <2>3. \A l \in 0 .. k : h[l] = g[l]
    BY <2>2
  <2>4. \A l \in 0 .. k + 1 : l # 0 => l - 1 \in 0 .. k
    OBVIOUS
  <2>5. h = [l \in 0 .. k + 1 |-> IF l = 0 THEN Start(v) ELSE NextFrame(v, h[l - 1])]
    BY <2>3, <2>4, Zenon
  <2>6. Walked(v, k + 1, h)
    BY <2>5, Zenon DEF Walked
  <2> HIDE DEF h
  <2>7. \E g1 : Walked(v, k + 1, g1)
    BY <2>6, Zenon
  <2>8. k + 1 \in Nat
    OBVIOUS
  <2>q. QED
    BY <2>7, <2>8, Zenon
<1> HIDE DEF T
<1>3. Nat \subseteq T
  BY <1>1, <1>2, SetInduction
<1>q. QED
  BY <1>3 DEF T

\* The recursive function of Mixed, frame by frame.
LEMMA MixedIsWalked ==
    ASSUME NEW v, NEW n \in Nat
    PROVE  \E g : Walked(v, n, g) /\ Mixed(v, n) = g[n]
<1> DEFINE a == CHOOSE g : Walked(v, n, g)
<1>1. Walked(v, n, a)
  BY WalkExists, Zenon
<1>2. Mixed(v, n) = a[n]
  BY Zenon DEF Mixed, Walked, Start
<1>q. QED
  BY <1>1, <1>2, Zenon

LEMMA MixedUnrolls ==
    ASSUME NEW v
    PROVE  /\ Mixed(v, 0) = Start(v)
           /\ \A n \in Nat : Mixed(v, n + 1) = NextFrame(v, Mixed(v, n))
<1>1. Mixed(v, 0) = Start(v)
  <2>1. PICK g : Walked(v, 0, g) /\ Mixed(v, 0) = g[0]
    BY MixedIsWalked
  <2>q. QED
    BY <2>1 DEF Walked
<1>2. ASSUME NEW n \in Nat PROVE Mixed(v, n + 1) = NextFrame(v, Mixed(v, n))
  <2>1. PICK g : Walked(v, n, g) /\ Mixed(v, n) = g[n]
    BY MixedIsWalked
  <2>2. PICK h : Walked(v, n + 1, h) /\ Mixed(v, n + 1) = h[n + 1]
    BY MixedIsWalked
  <2>3. g[n] = h[n]
    BY <2>1, <2>2, WalkIsOne
  <2>4. \A k \in 0 .. n + 1 : h[k] = IF k = 0 THEN Start(v) ELSE NextFrame(v, h[k - 1])
    BY <2>2, Zenon DEF Walked
  <2>5. n + 1 \in 0 .. n + 1 /\ n + 1 # 0 /\ n + 1 - 1 = n
    OBVIOUS
  <2>q. QED
    BY <2>1, <2>2, <2>3, <2>4, <2>5
<1>q. QED
  BY <1>1, <1>2
-----------------------------------------------------------------------------
(* The voices.                                                             *)

Voices == [bytes : Nat \ {0}, bps : Nat \ {0}, step : Nat \ {0}, cur : Nat,
           pos : Nat, playing : BOOLEAN, looping : BOOLEAN,
           volume : {"full", "silent"}]
Length(v) == FramesIn(v) * Unit

LEMMA VoiceFacts ==
    ASSUME NEW v \in Voices
    PROVE  /\ v.bytes \in Nat \ {0} /\ v.bps \in Nat \ {0} /\ v.step \in Nat \ {0}
           /\ v.cur \in Nat /\ v.pos \in Nat
           /\ v.playing \in BOOLEAN /\ v.looping \in BOOLEAN
           /\ FramesIn(v) \in Nat /\ Length(v) \in Nat /\ Unit \in Nat \ {0}
<1>1. v.bytes \in Nat \ {0} /\ v.bps \in Nat \ {0} /\ v.step \in Nat \ {0}
      /\ v.cur \in Nat /\ v.pos \in Nat /\ v.playing \in BOOLEAN /\ v.looping \in BOOLEAN
  BY DEF Voices
<1>2. v.bytes \div v.bps \in Nat
  BY <1>1
<1>3. Unit \in Nat \ {0}
  BY BoundAssumption
<1>4. FramesIn(v) \in Nat
  BY <1>2 DEF FramesIn
<1>5. FramesIn(v) * Unit \in Nat
  BY <1>3, <1>4
<1>q. QED
  BY <1>1, <1>3, <1>4, <1>5 DEF Length

\* A readable pair in cursor units.
LEMMA PairInUnits ==
    ASSUME NEW v \in Voices, NEW c \in Nat
    PROVE  Pair(v, c) <=> c < Length(v) - Unit
<1> DEFINE n == FramesIn(v)
           d == c \div Unit
           r == c % Unit
<1>1. n \in Nat /\ Unit \in Nat \ {0} /\ Length(v) = n * Unit
  BY VoiceFacts DEF Length
<1>2. d \in Int /\ r \in 0 .. Unit - 1 /\ c = Unit * d + r
  <2>1. Unit \in Nat \ {0} /\ c \in Int
    BY <1>1
  <2>q. QED
    BY <2>1, DivMod
<1>3. Pair(v, c) <=> d + 1 < n
  BY DEF Pair
<1> HIDE DEF n, d, r
<1> DEFINE x == n - 1 - d
<1>4. x \in Int /\ Unit * x = n * Unit - Unit - Unit * d
  BY <1>1, <1>2
<1>5. x >= 1 => Unit * x >= Unit
  BY <1>1, <1>4, TimesGrows
<1>6. x <= -1 => Unit * x <= -Unit
  BY <1>1, <1>4, TimesGrows
<1>7. x = 0 => Unit * x = 0
  BY <1>1
<1>8. d + 1 < n <=> x >= 1
  BY <1>1, <1>2
<1> DEFINE y == Unit * x
           z == Unit * d
           l == n * Unit
<1>9. /\ y \in Int /\ z \in Int /\ l \in Int /\ y = l - Unit - z /\ c = z + r
      /\ x >= 1 => y >= Unit
      /\ x <= -1 => y <= -Unit
      /\ x = 0 => y = 0
  BY <1>1, <1>2, <1>4, <1>5, <1>6, <1>7
<1> HIDE DEF x, y, z, l
<1>10. x >= 1 <=> c < l - Unit
  BY <1>1, <1>2, <1>4, <1>9
<1>q. QED
  BY <1>1, <1>3, <1>8, <1>10 DEF l

LEMMA WrappedInUnits ==
    ASSUME NEW v \in Voices, NEW c \in Nat
    PROVE  /\ Wrapped(v, c) \in Nat
           /\ Wrapped(v, c) = IF c < Length(v) THEN 0 ELSE c - Length(v)
BY VoiceFacts DEF Wrapped, Length

\* What a walk of the resampler keeps.
WalkState == [cur : Nat, playing : BOOLEAN, on : BOOLEAN, heard : Seq(Nat)]

InWalk(v, m) ==
    /\ m \in WalkState
    /\ \A k \in DOMAIN m.heard : Pair(v, m.heard[k])
    /\ m.on => v.playing
    /\ m.playing = (v.playing /\ (m.on \/ v.looping))

LEMMA NextFrameCases ==
    ASSUME NEW v \in Voices, NEW m \in WalkState
    PROVE  \/ ~m.on /\ NextFrame(v, m) = m
           \/ /\ m.on
              /\ \E c \in Nat :
                    /\ c <= m.cur
                    /\ \/ /\ Pair(v, c)
                          /\ NextFrame(v, m) = [m EXCEPT !.cur = c + v.step,
                                                         !.heard = Append(@, c)]
                       \/ /\ ~Pair(v, c) /\ (v.looping => c = Wrapped(v, m.cur))
                          /\ NextFrame(v, m) = [m EXCEPT !.cur = c, !.on = FALSE,
                                                         !.playing = v.looping]
<1> DEFINE c == IF Pair(v, m.cur) \/ ~v.looping THEN m.cur ELSE Wrapped(v, m.cur)
<1>1. m.cur \in Nat /\ m.on \in BOOLEAN
  BY DEF WalkState
<1>2. c \in Nat /\ c <= m.cur
  BY <1>1, WrappedInUnits, VoiceFacts
<1>4. NextFrame(v, m) =
          IF ~m.on THEN m
          ELSE IF Pair(v, c)
                  THEN [m EXCEPT !.cur = c + v.step, !.heard = Append(@, c)]
                  ELSE [m EXCEPT !.cur = c, !.on = FALSE, !.playing = v.looping]
  BY Zenon DEF NextFrame
<1>5. ~Pair(v, c) /\ v.looping => c = Wrapped(v, m.cur)
  OBVIOUS
<1> HIDE DEF c
<1>q. QED
  BY <1>1, <1>2, <1>4, <1>5

LEMMA NextFrameKeeps ==
    ASSUME NEW v \in Voices, NEW m, InWalk(v, m)
    PROVE  InWalk(v, NextFrame(v, m))
<1>0. /\ m \in WalkState /\ m.cur \in Nat /\ m.heard \in Seq(Nat)
      /\ m.on \in BOOLEAN /\ m.playing \in BOOLEAN
      /\ \A k \in DOMAIN m.heard : Pair(v, m.heard[k])
      /\ m.on => v.playing
      /\ m.playing = (v.playing /\ (m.on \/ v.looping))
  BY DEF InWalk, WalkState
<1>1. CASE ~m.on /\ NextFrame(v, m) = m
  BY <1>1
<1>2. ASSUME m.on, NEW c \in Nat, c <= m.cur, Pair(v, c),
             NextFrame(v, m) = [m EXCEPT !.cur = c + v.step, !.heard = Append(@, c)]
      PROVE  InWalk(v, NextFrame(v, m))
  <2> DEFINE w == [m EXCEPT !.cur = c + v.step, !.heard = Append(@, c)]
  <2>1. /\ w \in WalkState /\ w.cur = c + v.step /\ w.heard = Append(m.heard, c)
        /\ w.on = m.on /\ w.playing = m.playing
    <3>1. c + v.step \in Nat /\ Append(m.heard, c) \in Seq(Nat)
      BY <1>0, VoiceFacts
    <3>q. QED
      BY <1>0, <3>1 DEF WalkState
  <2> HIDE DEF w
  <2>2. \A k \in DOMAIN w.heard : Pair(v, w.heard[k])
    <3> DEFINE s == m.heard
    <3>1. /\ s \in Seq(Nat) /\ w.heard = Append(s, c)
          /\ \A k \in DOMAIN s : Pair(v, s[k])
      BY <1>0, <2>1
    <3> HIDE DEF s
    <3>2. /\ DOMAIN Append(s, c) = 1 .. Len(s) + 1 /\ DOMAIN s = 1 .. Len(s)
          /\ \A k \in 1 .. Len(s) : Append(s, c)[k] = s[k]
          /\ Append(s, c)[Len(s) + 1] = c /\ Len(s) \in Nat
      BY <3>1
    <3>3. ASSUME NEW k \in 1 .. Len(s) + 1 PROVE Pair(v, Append(s, c)[k])
      <4>1. CASE k = Len(s) + 1
        BY <1>2, <3>2, <4>1
      <4>2. CASE k # Len(s) + 1
        <5>1. k \in 1 .. Len(s)
          BY <3>2, <4>2
        <5>q. QED
          BY <3>1, <3>2, <5>1
      <4>q. QED
        BY <4>1, <4>2
    <3>q. QED
      BY <3>1, <3>2, <3>3
  <2>4. InWalk(v, w)
    BY <1>0, <2>1, <2>2 DEF InWalk
  <2>q. QED
    BY <1>2, <2>4 DEF w
<1>3. ASSUME m.on, NEW c \in Nat, c <= m.cur,
             NextFrame(v, m) = [m EXCEPT !.cur = c, !.on = FALSE, !.playing = v.looping]
      PROVE  InWalk(v, NextFrame(v, m))
  <2> DEFINE w == [m EXCEPT !.cur = c, !.on = FALSE, !.playing = v.looping]
  <2>1. /\ w \in WalkState /\ w.cur = c /\ w.heard = m.heard
        /\ w.on = FALSE /\ w.playing = v.looping
    BY <1>0, VoiceFacts DEF WalkState
  <2> HIDE DEF w
  <2>3. w.playing = (v.playing /\ (w.on \/ v.looping))
    BY <1>0, <1>3, <2>1, VoiceFacts
  <2>4. InWalk(v, w)
    BY <1>0, <2>1, <2>3 DEF InWalk
  <2>q. QED
    BY <1>3, <2>4 DEF w
<1>q. QED
  BY <1>0, <1>1, <1>2, <1>3, NextFrameCases

\* From where a voice can be, a slice of any length hears readable pairs only.
LEMMA MixedInWalk ==
    ASSUME NEW v \in Voices
    PROVE  \A n \in Nat : InWalk(v, Mixed(v, n))
<1> DEFINE T == {n \in Nat : InWalk(v, Mixed(v, n))}
<1>1. 0 \in T
  <2>1. Start(v) \in WalkState
    BY VoiceFacts DEF Start, WalkState
  <2>2. InWalk(v, Start(v))
    BY <2>1, VoiceFacts DEF Start, InWalk
  <2>q. QED
    BY <2>2, MixedUnrolls
<1>2. ASSUME NEW n \in Nat, n \in T PROVE n + 1 \in T
  <2>1. InWalk(v, NextFrame(v, Mixed(v, n)))
    BY <1>2, NextFrameKeeps
  <2>q. QED
    BY <1>2, <2>1, MixedUnrolls
<1> HIDE DEF T
<1>3. Nat \subseteq T
  BY <1>1, <1>2, SetInduction
<1>q. QED
  BY <1>3 DEF T
-----------------------------------------------------------------------------
(* The invariant: a voice keeps its format, and the cursor the game polls  *)
(* is the frame of the mixer's.                                            *)

VoiceOK(v) ==
    /\ v \in Voices
    /\ [bytes |-> v.bytes, bps |-> v.bps, step |-> v.step] \in Format
    /\ v.pos \div v.bps = v.cur \div Unit

IInv ==
    /\ voice \in Seq(Voices) /\ Len(voice) <= MaxObjects
    /\ \A i \in DOMAIN voice : VoiceOK(voice[i])
    /\ bufs \subseteq DOMAIN voice /\ IsFiniteSet(bufs) /\ Cardinality(bufs) <= MaxBufs
    /\ calls \in 0 .. MaxCalls

LEMMA FormatOf ==
    ASSUME NEW v \in Voices, [bytes |-> v.bytes, bps |-> v.bps, step |-> v.step] \in Format
    PROVE  Unit % v.bps = 0
BY FormatAssumption

\* A voice at its start.
LEMMA RewoundOK ==
    ASSUME NEW v \in Voices, v.pos = 0, v.cur = 0,
           [bytes |-> v.bytes, bps |-> v.bps, step |-> v.step] \in Format
    PROVE  VoiceOK(v)
<1>1. v.bps \in Nat \ {0} /\ Unit \in Nat \ {0} /\ Length(v) \in Nat
  BY VoiceFacts
<1>2. v.pos \div v.bps = 0 /\ v.cur \div Unit = 0
  BY <1>1
<1>q. QED
  BY <1>2 DEF VoiceOK

LEMMA CreatedOK ==
    ASSUME NEW f \in Format
    PROVE  VoiceOK([bytes |-> f.bytes, bps |-> f.bps, step |-> f.step,
                    cur |-> 0, pos |-> 0, playing |-> FALSE, looping |-> FALSE,
                    volume |-> "full"])
<1> DEFINE v == [bytes |-> f.bytes, bps |-> f.bps, step |-> f.step,
                 cur |-> 0, pos |-> 0, playing |-> FALSE, looping |-> FALSE,
                 volume |-> "full"]
<1>1. v \in Voices
  BY FormatAssumption DEF Voices
<1>2. v.pos = 0 /\ v.cur = 0
  OBVIOUS
<1>3. [bytes |-> v.bytes, bps |-> v.bps, step |-> v.step] \in Format
  BY FormatAssumption
<1> HIDE DEF v
<1>4. VoiceOK(v)
  BY <1>1, <1>2, <1>3, RewoundOK
<1>q. QED
  BY <1>4 DEF v

LEMMA DuplicatedOK ==
    ASSUME NEW v, VoiceOK(v)
    PROVE  VoiceOK([v EXCEPT !.playing = FALSE, !.pos = 0, !.cur = 0])
<1> DEFINE w == [v EXCEPT !.playing = FALSE, !.pos = 0, !.cur = 0]
<1>1. /\ w \in Voices /\ w.pos = 0 /\ w.cur = 0 /\ w.bytes = v.bytes /\ w.bps = v.bps
      /\ w.step = v.step
  BY DEF VoiceOK, Voices
<1> HIDE DEF w
<1>2. VoiceOK(w)
  BY <1>1, RewoundOK DEF VoiceOK
<1>q. QED
  BY <1>2 DEF w

\* Same sound and cursor, whatever else.
LEMMA SameCursorOK ==
    ASSUME NEW v, VoiceOK(v), NEW w \in Voices,
           w.bytes = v.bytes, w.bps = v.bps, w.step = v.step, w.cur = v.cur, w.pos = v.pos
    PROVE  VoiceOK(w)
BY DEF VoiceOK

LEMMA SoughtOK ==
    ASSUME NEW v, VoiceOK(v), NEW p \in Nat
    PROVE  VoiceOK([v EXCEPT !.pos = p, !.cur = (p * Unit) \div v.bps])
<1> DEFINE c == (p * Unit) \div v.bps
           w == [v EXCEPT !.pos = p, !.cur = c]
<1>1. /\ v \in Voices /\ v.bps \in Nat \ {0} /\ Unit \in Nat \ {0} /\ Unit % v.bps = 0
      /\ v.bytes \in Nat /\ p \in Nat
  BY VoiceFacts, FormatOf DEF VoiceOK
<1>2. c \in Nat /\ c \div Unit = p \div v.bps
  BY <1>1, DivOfScaled
<1> HIDE DEF c
<1>3. /\ w \in Voices /\ w.bytes = v.bytes /\ w.bps = v.bps /\ w.step = v.step
      /\ w.cur = c /\ w.pos = p
  BY <1>1, <1>2 DEF Voices
<1>4. [bytes |-> w.bytes, bps |-> w.bps, step |-> w.step] \in Format
  BY <1>3 DEF VoiceOK
<1> HIDE DEF w
<1>6. VoiceOK(w)
  BY <1>2, <1>3, <1>4 DEF VoiceOK
<1>q. QED
  BY <1>6 DEF w, c

LEMMA SlicedOK ==
    ASSUME NEW v, VoiceOK(v), NEW n \in Nat
    PROVE  VoiceOK(AfterSlice(v, n))
<1>1. CASE ~v.playing \/ FramesIn(v) = 0
  BY <1>1 DEF AfterSlice
<1>2. CASE ~(~v.playing \/ FramesIn(v) = 0)
  <2> DEFINE m == Mixed(v, n)
             p == (m.cur \div Unit) * v.bps
             w == [v EXCEPT !.cur = m.cur, !.playing = m.playing, !.pos = p]
  <2>1. v \in Voices
    BY DEF VoiceOK
  <2>2. InWalk(v, m)
    BY <2>1, MixedInWalk
  <2>3. AfterSlice(v, n) = w
    BY <1>2 DEF AfterSlice
  <2> HIDE DEF m
  <2>4. m.cur \in Nat /\ m.playing \in BOOLEAN
    BY <2>2 DEF InWalk, WalkState
  <2>5. m.cur \div Unit \in Nat /\ v.bps \in Nat \ {0}
    BY <2>1, <2>4, VoiceFacts
  <2>6. p \in Nat /\ p \div v.bps = m.cur \div Unit
    BY <2>5, DivOfProduct, SMTT(30)
  <2> HIDE DEF p
  <2>7. /\ w \in Voices /\ w.bytes = v.bytes /\ w.bps = v.bps /\ w.step = v.step
        /\ w.cur = m.cur /\ w.pos = p
    BY <2>1, <2>4, <2>6 DEF Voices
  <2> HIDE DEF w
  <2>9. VoiceOK(w)
    BY <2>6, <2>7 DEF VoiceOK
  <2>q. QED
    BY <2>3, <2>9
<1>q. QED
  BY <1>1, <1>2

-----------------------------------------------------------------------------
(* The steps.                                                              *)

LEMMA AddHolds ==
    ASSUME IInv, Call, NEW v, VoiceOK(v), Add(v)
    PROVE  IInv'
<1>0. /\ voice \in Seq(Voices) /\ Len(voice) \in Nat /\ DOMAIN voice = 1 .. Len(voice)
      /\ v \in Voices /\ MaxCalls \in Nat /\ MaxObjects \in Nat /\ MaxBufs \in Nat
      /\ \A i \in DOMAIN voice : VoiceOK(voice[i])
  BY BoundAssumption DEF IInv, VoiceOK
<1>1. voice' = Append(voice, v) /\ Len(voice) < MaxObjects
  BY DEF Add
<1>2. /\ voice' \in Seq(Voices) /\ Len(voice') = Len(voice) + 1
      /\ DOMAIN voice' = 1 .. Len(voice) + 1 /\ voice'[Len(voice) + 1] = v
      /\ \A i \in 1 .. Len(voice) : voice'[i] = voice[i]
  BY <1>0, <1>1
<1>3. \A i \in DOMAIN voice' : VoiceOK(voice'[i])
  <2>1. TAKE i \in DOMAIN voice'
  <2>2. CASE i = Len(voice) + 1
    BY <1>2, <2>2
  <2>3. CASE i # Len(voice) + 1
    BY <1>0, <1>2, <2>3
  <2>q. QED
    BY <2>2, <2>3
<1>4. bufs' \subseteq DOMAIN voice' /\ IsFiniteSet(bufs') /\ Cardinality(bufs') <= MaxBufs
  <2>1. IsFiniteSet(bufs) /\ Cardinality(bufs) \in Nat /\ Cardinality(bufs) <= MaxBufs
        /\ bufs \subseteq 1 .. Len(voice)
    BY <1>0, FS_CardinalityType DEF IInv
  <2>2. CASE Cardinality(bufs) < MaxBufs
    <3>1. bufs' = bufs \cup {Len(voice) + 1}
      BY <2>2 DEF Add
    <3>2. IsFiniteSet(bufs') /\ (Cardinality(bufs') = Cardinality(bufs)
                                 \/ Cardinality(bufs') = Cardinality(bufs) + 1)
      BY <2>1, <3>1, FS_AddElement
    <3>3. bufs' \subseteq DOMAIN voice'
      <4>1. 1 .. Len(voice) \subseteq 1 .. Len(voice) + 1
            /\ Len(voice) + 1 \in 1 .. Len(voice) + 1
        BY <1>0
      <4>q. QED
        BY <1>2, <2>1, <3>1, <4>1
    <3>q. QED
      BY <1>0, <2>1, <2>2, <3>2, <3>3
  <2>3. CASE ~(Cardinality(bufs) < MaxBufs)
    <3>1. bufs' = bufs
      BY <2>3 DEF Add
    <3>q. QED
      BY <1>0, <1>2, <2>1, <3>1
  <2>q. QED
    BY <2>2, <2>3
<1>5. calls' \in 0 .. MaxCalls
  BY <1>0 DEF Call, IInv
<1>6. Len(voice') <= MaxObjects
  BY <1>0, <1>1, <1>2
<1>7. \A i \in DOMAIN voice' : VoiceOK(voice[i])' <=> VoiceOK(voice'[i])
  BY DEF VoiceOK
<1>q. QED
  BY <1>2, <1>3, <1>4, <1>5, <1>6 DEF IInv, VoiceOK

\* One voice is changed by a call.
LEMMA ChangeHolds ==
    ASSUME IInv, Call, NEW i \in DOMAIN voice, NEW w, VoiceOK(w),
           voice' = [voice EXCEPT ![i] = w], bufs' = bufs
    PROVE  IInv'
<1>0. /\ voice \in Seq(Voices) /\ w \in Voices /\ MaxCalls \in Nat
      /\ \A k \in DOMAIN voice : VoiceOK(voice[k])
  BY BoundAssumption DEF IInv, VoiceOK
<1>1. /\ voice' \in Seq(Voices) /\ Len(voice') = Len(voice) /\ DOMAIN voice' = DOMAIN voice
      /\ \A k \in DOMAIN voice : voice'[k] = IF k = i THEN w ELSE voice[k]
  BY <1>0
<1>2. \A k \in DOMAIN voice' : VoiceOK(voice'[k])
  BY <1>0, <1>1
<1>3. calls' \in 0 .. MaxCalls
  BY <1>0 DEF Call, IInv
<1>q. QED
  BY <1>1, <1>2, <1>3 DEF IInv, VoiceOK

LEMMA MixSliceHolds ==
    ASSUME IInv, NEW n \in 1 .. MaxSlice, MixSlice(n)
    PROVE  IInv'
<1>0. /\ voice \in Seq(Voices) /\ n \in Nat /\ DOMAIN voice = 1 .. Len(voice)
      /\ Len(voice) \in Nat
      /\ \A k \in DOMAIN voice : VoiceOK(voice[k])
  BY BoundAssumption DEF IInv
<1> DEFINE w(k) == IF k \in bufs THEN AfterSlice(voice[k], n) ELSE voice[k]
<1>1. \A k \in DOMAIN voice : VoiceOK(w(k)) /\ w(k) \in Voices
  <2>1. TAKE k \in DOMAIN voice
  <2>2. VoiceOK(w(k))
    BY <1>0, SlicedOK
  <2>q. QED
    BY <2>2 DEF VoiceOK
<1>2. voice' = [k \in 1 .. Len(voice) |-> w(k)]
  BY <1>0 DEF MixSlice
<1> HIDE DEF w
<1>3. /\ voice' \in Seq(Voices) /\ Len(voice') = Len(voice) /\ DOMAIN voice' = DOMAIN voice
      /\ \A k \in DOMAIN voice : voice'[k] = w(k)
  BY <1>0, <1>1, <1>2
<1>4. \A k \in DOMAIN voice' : VoiceOK(voice'[k])
  BY <1>1, <1>3
<1>5. bufs' = bufs /\ calls' = calls
  BY DEF MixSlice
<1>q. QED
  BY <1>3, <1>4, <1>5 DEF IInv, VoiceOK

LEMMA InitHolds == Init => IInv
<1>1. SUFFICES ASSUME Init PROVE IInv
  OBVIOUS
<1>2. IsFiniteSet({}) /\ Cardinality({}) = 0
  BY FS_EmptySet
<1>q. QED
  BY <1>1, <1>2, BoundAssumption DEF Init, IInv

LEMMA StepPreserves == IInv /\ [Next]_vars => IInv'
<1> SUFFICES ASSUME IInv, [Next]_vars PROVE IInv'
  OBVIOUS
<1>0. \A i \in DOMAIN voice : VoiceOK(voice[i]) /\ voice[i] \in Voices
  BY DEF IInv, VoiceOK
<1>1. ASSUME NEW f \in Format, CreateSoundBuffer(f) PROVE IInv'
  BY <1>1, CreatedOK, AddHolds DEF CreateSoundBuffer
<1>2. ASSUME NEW i \in DOMAIN voice, DuplicateSoundBuffer(i) PROVE IInv'
  BY <1>0, <1>2, DuplicatedOK, AddHolds DEF DuplicateSoundBuffer
<1>3. ASSUME NEW i \in DOMAIN voice, Stop(i) PROVE IInv'
  <2> DEFINE w == [voice[i] EXCEPT !.playing = FALSE]
  <2>1. VoiceOK(w)
    BY <1>0, SameCursorOK DEF Voices
  <2>2. voice' = [voice EXCEPT ![i] = w] /\ bufs' = bufs /\ Call
    BY <1>3 DEF Stop
  <2> HIDE DEF w
  <2>q. QED
    BY <2>1, <2>2, ChangeHolds
<1>4. ASSUME NEW i \in DOMAIN voice, SetVolume(i) PROVE IInv'
  <2>1. PICK level \in {"full", "silent"} : voice' = [voice EXCEPT ![i].volume = level]
    BY <1>4 DEF SetVolume
  <2> DEFINE w == [voice[i] EXCEPT !.volume = level]
  <2>2. VoiceOK(w)
    BY <1>0, SameCursorOK DEF Voices
  <2>3. voice' = [voice EXCEPT ![i] = w] /\ bufs' = bufs /\ Call
    BY <1>4, <2>1 DEF SetVolume
  <2> HIDE DEF w
  <2>q. QED
    BY <2>2, <2>3, ChangeHolds
<1>5. ASSUME NEW i \in DOMAIN voice, NEW loop \in BOOLEAN, Play(i, loop) PROVE IInv'
  <2> DEFINE w == [voice[i] EXCEPT !.looping = loop, !.playing = TRUE]
  <2>1. VoiceOK(w)
    BY <1>0, SameCursorOK DEF Voices
  <2>2. voice' = [voice EXCEPT ![i] = w] /\ bufs' = bufs /\ Call
    BY <1>5 DEF Play
  <2> HIDE DEF w
  <2>q. QED
    BY <2>1, <2>2, ChangeHolds
<1>6. ASSUME NEW i \in DOMAIN voice, NEW p \in 0 .. SeekMax, SetCurrentPosition(i, p)
      PROVE  IInv'
  <2> DEFINE w == [voice[i] EXCEPT !.pos = p, !.cur = (p * Unit) \div voice[i].bps]
  <2>1. VoiceOK(w)
    <3>1. p \in Nat
      BY BoundAssumption
    <3>q. QED
      BY <1>0, <3>1, SoughtOK
  <2>2. voice' = [voice EXCEPT ![i] = w] /\ bufs' = bufs /\ Call
    BY <1>6 DEF SetCurrentPosition
  <2> HIDE DEF w
  <2>q. QED
    BY <2>1, <2>2, ChangeHolds
<1>7. ASSUME NEW n \in 1 .. MaxSlice, MixSlice(n) PROVE IInv'
  BY <1>7, MixSliceHolds
<1>8. CASE UNCHANGED vars
  BY <1>8 DEF vars, IInv, VoiceOK
<1>q. QED
  BY <1>1, <1>2, <1>3, <1>4, <1>5, <1>6, <1>7, <1>8 DEF Next

LEMMA Invariance == Spec => []IInv
BY InitHolds, StepPreserves, PTL DEF Spec
-----------------------------------------------------------------------------
(* Slices.                                                                 *)

\* A cursor that is on a readable pair, or after one wrap.
Near(v, c) == c < 2 * Length(v) - Unit

LEMMA NearInUnits ==
    ASSUME NEW v \in Voices, NEW c \in Nat, Unit < Length(v)
    PROVE  Near(v, c) <=> Pair(v, c) \/ Pair(v, Wrapped(v, c))
<1>1. /\ Wrapped(v, c) \in Nat
      /\ Wrapped(v, c) = IF c < Length(v) THEN 0 ELSE c - Length(v)
      /\ Length(v) \in Nat /\ Unit \in Nat \ {0}
  BY WrappedInUnits, VoiceFacts
<1>2. Pair(v, c) <=> c < Length(v) - Unit
  BY PairInUnits
<1>3. Pair(v, Wrapped(v, c)) <=> Wrapped(v, c) < Length(v) - Unit
  BY <1>1, PairInUnits
<1>q. QED
  BY <1>1, <1>2, <1>3 DEF Near

\* A loop with a readable seam never stops within a slice.
LEMMA LoopRunsOn ==
    ASSUME NEW v \in Voices, SeamIsReadable(v), v.looping, v.playing
    PROVE  \A n \in Nat : Mixed(v, n).on
<1> DEFINE T == {n \in Nat : Mixed(v, n).on /\ Near(v, Mixed(v, n).cur)}
<1>0. /\ Unit \in Nat \ {0} /\ Length(v) \in Nat /\ v.step \in Nat
      /\ v.step <= Length(v) /\ Unit <= Length(v) - Unit
  <2>1. FramesIn(v) \in Nat /\ FramesIn(v) >= 2 /\ Unit \in Nat \ {0} /\ Length(v) \in Nat
    BY VoiceFacts DEF SeamIsReadable
  <2>2. \A n \in Nat, u \in Nat \ {0} : n >= 2 => u <= n * u - u
    OBVIOUS
  <2>q. QED
    BY <2>1, <2>2, VoiceFacts DEF SeamIsReadable, Length
<1>1. 0 \in T
  <2>1. Near(v, v.cur)
    BY <1>0, VoiceFacts, NearInUnits DEF SeamIsReadable, OneWrapAway
  <2>q. QED
    BY <2>1, MixedUnrolls DEF Start
<1>2. ASSUME NEW n \in Nat, n \in T PROVE n + 1 \in T
  <2> DEFINE m == Mixed(v, n)
  <2>1. InWalk(v, m)
    BY MixedInWalk
  <2>2. m \in WalkState /\ m.cur \in Nat /\ Near(v, m.cur) /\ m.on
    BY <1>2, <2>1 DEF InWalk, WalkState
  <2>3. Mixed(v, n + 1) = NextFrame(v, m)
    BY MixedUnrolls
  <2> HIDE DEF m
  <2>4. Pair(v, Wrapped(v, m.cur))
    <3> DEFINE w == Wrapped(v, m.cur)
    <3>1. w \in Nat /\ w = IF m.cur < Length(v) THEN 0 ELSE m.cur - Length(v)
      BY <2>2, WrappedInUnits
    <3>2. w < Length(v) - Unit
      BY <1>0, <2>2, <3>1 DEF Near
    <3>q. QED
      BY <3>1, <3>2, PairInUnits
  <2>5. NextFrame(v, m).on /\ Near(v, NextFrame(v, m).cur)
    <3>1. CASE ~m.on
      BY <2>2, <3>1
    <3>2. ASSUME NEW c \in Nat, Pair(v, c),
                 NextFrame(v, m) = [m EXCEPT !.cur = c + v.step, !.heard = Append(@, c)]
          PROVE  NextFrame(v, m).on /\ Near(v, NextFrame(v, m).cur)
      <4>1. NextFrame(v, m).on /\ NextFrame(v, m).cur = c + v.step
        BY <2>2, <3>2 DEF WalkState
      <4>2. c < Length(v) - Unit
        BY <3>2, PairInUnits
      <4>q. QED
        BY <1>0, <4>1, <4>2 DEF Near
    <3>3. ASSUME NEW c \in Nat, ~Pair(v, c), v.looping => c = Wrapped(v, m.cur)
          PROVE  FALSE
      BY <2>4, <3>3
    <3>q. QED
      BY <2>2, <3>1, <3>2, <3>3, NextFrameCases
  <2>q. QED
    BY <2>3, <2>5
<1> HIDE DEF T
<1>3. Nat \subseteq T
  BY <1>1, <1>2, SetInduction
<1>q. QED
  BY <1>3 DEF T

\* A walk that has stopped stays where it is.
LEMMA StoppedStays ==
    ASSUME NEW v \in Voices, NEW k \in Nat, ~Mixed(v, k).on
    PROVE  \A m \in Nat : Mixed(v, k + m) = Mixed(v, k)
<1> DEFINE T == {m \in Nat : Mixed(v, k + m) = Mixed(v, k)}
<1>1. 0 \in T
  <2>1. k + 0 = k
    OBVIOUS
  <2>q. QED
    BY <2>1
<1>2. ASSUME NEW m \in Nat, m \in T PROVE m + 1 \in T
  <2>1. k + m \in Nat /\ k + (m + 1) = (k + m) + 1
    OBVIOUS
  <2>2. Mixed(v, k + (m + 1)) = NextFrame(v, Mixed(v, k))
    BY <1>2, <2>1, MixedUnrolls
  <2>3. NextFrame(v, Mixed(v, k)) = Mixed(v, k)
    BY Zenon DEF NextFrame
  <2>q. QED
    BY <2>2, <2>3
<1> HIDE DEF T
<1>3. Nat \subseteq T
  BY <1>1, <1>2, SetInduction
<1>q. QED
  BY <1>3 DEF T

\* A loop farther than a wrap from a readable pair is not heard: the first
\* frame of the slice wraps it once and stops the walk.
LEMMA FarLoopIsSilent ==
    ASSUME NEW v \in Voices, v.playing, v.looping, ~OneWrapAway(v), NEW n \in Nat \ {0}
    PROVE  Mixed(v, n).heard = <<>> /\ AfterSlice(v, n).cur = Wrapped(v, v.cur)
<1> DEFINE w == Wrapped(v, v.cur)
           m == [Start(v) EXCEPT !.cur = w, !.on = FALSE, !.playing = v.looping]
<1>0. w \in Nat
  BY WrappedInUnits, VoiceFacts
<1>1. Start(v).cur = v.cur /\ Start(v).on
  BY DEF Start
<1>2. ~Pair(v, v.cur) /\ ~Pair(v, w)
  BY DEF OneWrapAway
<1>3. NextFrame(v, Start(v)) = m
  <2> DEFINE x == Start(v)
  <2>1. x.cur = v.cur /\ x.on
    BY <1>1
  <2> HIDE DEF x, w
  <2>2. NextFrame(v, x) = [x EXCEPT !.cur = w, !.on = FALSE, !.playing = v.looping]
    BY <1>2, <2>1 DEF NextFrame, w
  <2>q. QED
    BY <2>2 DEF x
<1>4. Mixed(v, 1) = m
  <2>1. Mixed(v, 0 + 1) = NextFrame(v, Mixed(v, 0)) /\ Mixed(v, 0) = Start(v)
    BY MixedUnrolls
  <2>q. QED
    BY <1>3, <2>1
<1>5. m.cur = w /\ ~m.on /\ m.heard = <<>>
  BY DEF Start
<1> HIDE DEF m, w
<1>6. Mixed(v, n) = m
  <2>1. PICK k \in Nat : n = 1 + k
    <3>1. n - 1 \in Nat /\ n = 1 + (n - 1)
      OBVIOUS
    <3>q. QED
      BY <3>1
  <2>2. ~Mixed(v, 1).on
    BY <1>4, <1>5
  <2>q. QED
    BY <1>4, <2>1, <2>2, StoppedStays
<1>7. AfterSlice(v, n).cur = w
  <2>1. CASE FramesIn(v) = 0
    <3>1. AfterSlice(v, n) = v
      BY <2>1 DEF AfterSlice
    <3>2. w = v.cur
      <4>1. Length(v) = 0
        BY <2>1, VoiceFacts DEF Length
      <4>q. QED
        BY <4>1, WrappedInUnits, VoiceFacts DEF w
    <3>q. QED
      BY <3>1, <3>2
  <2>2. CASE FramesIn(v) # 0
    <3>1. AfterSlice(v, n) = [v EXCEPT !.cur = m.cur, !.playing = m.playing,
                                       !.pos = (m.cur \div Unit) * v.bps]
      BY <1>6, <2>2 DEF AfterSlice
    <3>q. QED
      BY <1>5, <3>1 DEF Voices
  <2>q. QED
    BY <2>1, <2>2
<1>q. QED
  BY <1>5, <1>6, <1>7 DEF w

\* What is heard before a frame is in front of what is heard in it.
Preceded(h, m) == [m EXCEPT !.heard = h \o m.heard]

LEMMA NextFrameAfter ==
    ASSUME NEW v \in Voices, NEW w \in Voices, NEW m \in WalkState, NEW h \in Seq(Nat),
           w.bytes = v.bytes, w.bps = v.bps, w.step = v.step, w.looping = v.looping
    PROVE  NextFrame(v, Preceded(h, m)) = Preceded(h, NextFrame(w, m))
<1> USE DEF Preceded
<1> DEFINE x == [m EXCEPT !.heard = h \o m.heard]
           c == IF Pair(v, m.cur) \/ ~v.looping THEN m.cur ELSE Wrapped(v, m.cur)
<1>1. /\ x.cur = m.cur /\ x.on = m.on /\ x.playing = m.playing /\ x.heard = h \o m.heard
      /\ m.heard \in Seq(Nat) /\ m.cur \in Nat /\ m.on \in BOOLEAN
      /\ x \in WalkState
  <2>1. m.heard \in Seq(Nat)
    BY DEF WalkState
  <2>2. h \o m.heard \in Seq(Nat)
    BY <2>1, ConcatProperties
  <2>q. QED
    BY <2>1, <2>2 DEF WalkState
<1>2. \A d : (Pair(w, d) <=> Pair(v, d)) /\ Wrapped(w, d) = Wrapped(v, d)
  BY DEF Pair, Wrapped, FramesIn
<1>3. c \in Nat
  BY <1>1, WrappedInUnits
<1>4. NextFrame(v, x) = IF ~m.on THEN x
          ELSE IF Pair(v, c)
                  THEN [x EXCEPT !.cur = c + v.step, !.heard = Append(x.heard, c)]
                  ELSE [x EXCEPT !.cur = c, !.on = FALSE, !.playing = v.looping]
  BY <1>1 DEF NextFrame
<1>5. NextFrame(w, m) = IF ~m.on THEN m
          ELSE IF Pair(v, c)
                  THEN [m EXCEPT !.cur = c + v.step, !.heard = Append(m.heard, c)]
                  ELSE [m EXCEPT !.cur = c, !.on = FALSE, !.playing = v.looping]
  <2> DEFINE d == IF Pair(w, m.cur) \/ ~w.looping THEN m.cur ELSE Wrapped(w, m.cur)
  <2>1. d = c
    BY <1>2
  <2>2. NextFrame(w, m) = IF ~m.on THEN m
          ELSE IF Pair(w, d)
                  THEN [m EXCEPT !.cur = d + w.step, !.heard = Append(m.heard, d)]
                  ELSE [m EXCEPT !.cur = d, !.on = FALSE, !.playing = w.looping]
    BY Zenon DEF NextFrame
  <2> HIDE DEF c, d
  <2>3. Pair(w, d) <=> Pair(v, c)
    BY <1>2, <2>1
  <2>q. QED
    BY <2>1, <2>2, <2>3
<1> HIDE DEF c
<1>6. Append(x.heard, c) = h \o Append(m.heard, c)
  <2>1. <<c>> \in Seq(Nat) /\ x.heard \in Seq(Nat)
    BY <1>1, <1>3, ConcatProperties
  <2>2. Append(x.heard, c) = x.heard \o <<c>> /\ Append(m.heard, c) = m.heard \o <<c>>
    BY <1>1, <1>3, <2>1, AppendIsConcat
  <2>3. (h \o m.heard) \o <<c>> = h \o (m.heard \o <<c>>)
    <3>1. ASSUME NEW s \in Seq(Nat), NEW t \in Seq(Nat), NEW u \in Seq(Nat)
          PROVE  (s \o t) \o u = s \o (t \o u)
      OBVIOUS
    <3>q. QED
      BY <1>1, <2>1, <3>1
  <2>q. QED
    BY <1>1, <2>2, <2>3
<1>7. CASE ~m.on
  BY <1>4, <1>5, <1>7
<1>8. CASE m.on /\ Pair(v, c)
  <2>1. NextFrame(w, m) = [m EXCEPT !.cur = c + v.step, !.heard = Append(m.heard, c)]
    BY <1>5, <1>8
  <2>2. NextFrame(w, m).heard = Append(m.heard, c)
    BY <2>1 DEF WalkState
  <2>3. NextFrame(v, x) = [x EXCEPT !.cur = c + v.step, !.heard = h \o Append(m.heard, c)]
    BY <1>4, <1>6, <1>8
  <2>q. QED
    BY <2>1, <2>2, <2>3 DEF WalkState
<1>9. CASE m.on /\ ~Pair(v, c)
  <2>1. NextFrame(w, m) = [m EXCEPT !.cur = c, !.on = FALSE, !.playing = v.looping]
    BY <1>5, <1>9
  <2>2. NextFrame(v, x) = [x EXCEPT !.cur = c, !.on = FALSE, !.playing = v.looping]
    BY <1>4, <1>9
  <2>q. QED
    BY <1>1, <2>1, <2>2 DEF WalkState
<1>q. QED
  BY <1>1, <1>7, <1>8, <1>9
\* The walk of the rest of a slice, taken up by the next slice.
LEMMA ResumedWalk ==
    ASSUME NEW v \in Voices, NEW k \in Nat, NEW w \in Voices,
           Mixed(v, k).on,
           w.bytes = v.bytes, w.bps = v.bps, w.step = v.step, w.looping = v.looping,
           w.cur = Mixed(v, k).cur, w.playing = Mixed(v, k).playing
    PROVE  \A m \in Nat :
              Mixed(v, k + m) = Preceded(Mixed(v, k).heard, Mixed(w, m))
<1> DEFINE a == Mixed(v, k)
           h == a.heard
           T == {m \in Nat : Mixed(v, k + m) = Preceded(h, Mixed(w, m))}
<1>0. /\ a \in WalkState /\ h \in Seq(Nat) /\ a.playing = TRUE /\ a.on = TRUE
      /\ w.playing = TRUE /\ w.cur = a.cur
  <2>1. InWalk(v, a)
    BY MixedInWalk
  <2>q. QED
    BY <2>1 DEF InWalk, WalkState
<1> HIDE DEF a
<1>1. 0 \in T
  <2>1. k + 0 = k
    OBVIOUS
  <2>2. Mixed(w, 0) = [cur |-> a.cur, playing |-> TRUE, on |-> TRUE, heard |-> <<>>]
    BY <1>0, MixedUnrolls DEF Start
  <2>3. h \o <<>> = h
    BY <1>0, ConcatEmptySeq
  <2>4. Preceded(h, Mixed(w, 0)) =
            [cur |-> a.cur, playing |-> TRUE, on |-> TRUE, heard |-> h]
    <3> DEFINE x == Mixed(w, 0)
    <3>1. x.heard = <<>> /\ x = [cur |-> a.cur, playing |-> TRUE, on |-> TRUE, heard |-> <<>>]
      BY <2>2
    <3> HIDE DEF x, h
    <3>2. h \o x.heard = h
      BY <2>3, <3>1
    <3>3. [x EXCEPT !.heard = h] = [cur |-> a.cur, playing |-> TRUE, on |-> TRUE, heard |-> h]
      <4>1. x \in WalkState /\ x.cur = a.cur /\ x.playing = TRUE /\ x.on = TRUE
        BY <1>0, <3>1 DEF WalkState
      <4>2. [x EXCEPT !.heard = h] =
               [cur |-> x.cur, playing |-> x.playing, on |-> x.on, heard |-> h]
        BY <4>1 DEF WalkState
      <4>q. QED
        BY <4>1, <4>2
    <3>4. [x EXCEPT !.heard = h \o x.heard] = [x EXCEPT !.heard = h]
      BY <3>2, Zenon
    <3>q. QED
      BY <3>3, <3>4 DEF x, Preceded
  <2>5. a = [cur |-> a.cur, playing |-> TRUE, on |-> TRUE, heard |-> h]
    BY <1>0 DEF WalkState
  <2>6. Mixed(v, k + 0) = a
    BY <2>1 DEF a
  <2> HIDE DEF h
  <2>q. QED
    BY <2>4, <2>5, <2>6
<1>2. ASSUME NEW m \in Nat, m \in T PROVE m + 1 \in T
  <2> DEFINE b == Mixed(w, m)
  <2>1. b \in WalkState
    BY <1>0, MixedInWalk DEF InWalk
  <2>2. Mixed(v, k + m) = Preceded(h, b)
    BY <1>2
  <2>3. k + m \in Nat /\ k + (m + 1) = (k + m) + 1
    OBVIOUS
  <2>4. Mixed(v, k + (m + 1)) = NextFrame(v, Mixed(v, k + m))
    BY <2>3, MixedUnrolls
  <2>5. Mixed(w, m + 1) = NextFrame(w, b)
    BY MixedUnrolls
  <2>0. h \in Seq(Nat)
    BY <1>0
  <2> HIDE DEF b, h
  <2>6. NextFrame(v, Preceded(h, b)) = Preceded(h, NextFrame(w, b))
    BY <2>0, <2>1, NextFrameAfter
  <2>q. QED
    BY <2>2, <2>4, <2>5, <2>6
<1> HIDE DEF T
<1>3. Nat \subseteq T
  BY <1>1, <1>2, SetInduction
<1>q. QED
  BY <1>3 DEF T, h, a

\* Nothing is heard of a buffer without a frame.
LEMMA NothingHeard ==
    ASSUME NEW v \in Voices, FramesIn(v) = 0, NEW n \in Nat
    PROVE  Mixed(v, n).heard = <<>>
<1> DEFINE h == Mixed(v, n).heard
<1>1. h \in Seq(Nat) /\ \A k \in DOMAIN h : Pair(v, h[k])
  BY MixedInWalk DEF InWalk, WalkState
<1> HIDE DEF h
<1>2. \A k \in DOMAIN h : h[k] \in Nat
  BY <1>1
<1>3. \A c \in Nat : ~Pair(v, c)
  BY PairInUnits, VoiceFacts DEF Length
<1>4. DOMAIN h = {}
  BY <1>1, <1>2, <1>3
<1>5. h = <<>>
  BY <1>1, <1>4
<1>q. QED
  BY <1>5 DEF h

LEMMA SameVoice ==
    ASSUME NEW v \in Voices, NEW w \in Voices,
           w.bytes = v.bytes, w.bps = v.bps, w.step = v.step, w.cur = v.cur,
           w.pos = v.pos, w.playing = v.playing, w.looping = v.looping,
           w.volume = v.volume
    PROVE  v = w
BY DEF Voices

\* What is heard of voice w in m more frames.
More(w, m) == IF w.playing THEN Mixed(w, m).heard ELSE <<>>

LEMMA SlicedInTwo ==
    ASSUME NEW v, VoiceOK(v), SeamIsReadable(v), NEW k \in Nat, NEW m \in Nat
    PROVE  /\ AfterSlice(AfterSlice(v, k), m) = AfterSlice(v, k + m)
           /\ v.playing => Mixed(v, k + m).heard =
                 Mixed(v, k).heard \o More(AfterSlice(v, k), m)
<1> USE DEF More
<1> DEFINE half == AfterSlice(v, k)
           a == Mixed(v, k)
           p == (a.cur \div Unit) * v.bps
<1>0. /\ v \in Voices /\ k + m \in Nat
      /\ VoiceOK(half) /\ half \in Voices
  BY SlicedOK DEF VoiceOK
<1>1. InWalk(v, a) /\ a \in WalkState /\ a.heard \in Seq(Nat)
  BY <1>0, MixedInWalk DEF InWalk, WalkState
<1>2. a.heard \o <<>> = a.heard
  BY <1>1, ConcatEmptySeq
<1>3. CASE ~v.playing
  BY <1>3 DEF AfterSlice
<1>4. CASE v.playing /\ FramesIn(v) = 0
  <2>1. half = v /\ AfterSlice(half, m) = v /\ AfterSlice(v, k + m) = v
    BY <1>4 DEF AfterSlice
  <2>2. Mixed(v, k + m).heard = <<>> /\ a.heard = <<>> /\ Mixed(v, m).heard = <<>>
    BY <1>0, <1>4, NothingHeard
  <2>q. QED
    BY <1>2, <1>4, <2>1, <2>2
<1>5. CASE v.playing /\ FramesIn(v) # 0
  <2>1. half = [v EXCEPT !.cur = a.cur, !.playing = a.playing, !.pos = p]
    BY <1>5 DEF AfterSlice
  <2> HIDE DEF p
  <2>2. /\ half.bytes = v.bytes /\ half.bps = v.bps /\ half.step = v.step
        /\ half.looping = v.looping /\ half.cur = a.cur /\ half.playing = a.playing
        /\ half.volume = v.volume /\ half.pos = p /\ FramesIn(half) = FramesIn(v)
    BY <1>0, <2>1 DEF Voices, FramesIn
  <2>3. AfterSlice(v, k + m) =
           [v EXCEPT !.cur = Mixed(v, k + m).cur, !.playing = Mixed(v, k + m).playing,
                     !.pos = (Mixed(v, k + m).cur \div Unit) * v.bps]
    BY <1>5 DEF AfterSlice
  <2>4. CASE ~a.on
    <3>1. Mixed(v, k + m) = a
      BY <1>0, <2>4, StoppedStays
    <3>2. ~v.looping
      BY <1>0, <1>5, <2>4, LoopRunsOn
    <3>3. ~half.playing
      BY <1>1, <2>2, <2>4, <3>2 DEF InWalk
    <3>4. AfterSlice(half, m) = half
      BY <3>3 DEF AfterSlice
    <3>5. AfterSlice(v, k + m) = half
      BY <2>1, <2>3, <3>1 DEF p
    <3>q. QED
      BY <1>2, <3>1, <3>3, <3>4, <3>5
  <2>5. CASE a.on
    <3>1. a.playing
      BY <1>1, <1>5, <2>5 DEF InWalk
    <3> DEFINE b == Mixed(half, m)
    <3>2. Mixed(v, k + m) = Preceded(a.heard, b)
      <4>1. /\ half.bytes = v.bytes /\ half.bps = v.bps /\ half.step = v.step
            /\ half.looping = v.looping /\ half.cur = Mixed(v, k).cur
            /\ half.playing = Mixed(v, k).playing /\ half \in Voices /\ Mixed(v, k).on
            /\ v \in Voices
        BY <1>0, <2>2, <2>5
      <4> HIDE DEF half, a, b
      <4>2. \A l \in Nat : Mixed(v, k + l) = Preceded(Mixed(v, k).heard, Mixed(half, l))
        BY <4>1, ResumedWalk
      <4>q. QED
        BY <4>2 DEF a, b
    <3>3. b \in WalkState
      BY <1>0, MixedInWalk DEF InWalk
    <3>4. AfterSlice(half, m) =
             [half EXCEPT !.cur = b.cur, !.playing = b.playing,
                          !.pos = (b.cur \div Unit) * half.bps]
      BY <1>5, <2>2, <3>1 DEF AfterSlice
    <3> DEFINE x == Mixed(v, k + m)
    <3> HIDE DEF b, a
    <3>5. x.cur = b.cur /\ x.playing = b.playing /\ x.heard = a.heard \o b.heard
      BY <3>2, <3>3 DEF WalkState, Preceded
    <3> HIDE DEF half, x
    <3>6. AfterSlice(half, m) = AfterSlice(v, k + m)
      <4> DEFINE y == (b.cur \div Unit) * v.bps
      <4>1. AfterSlice(half, m) = [half EXCEPT !.cur = b.cur, !.playing = b.playing, !.pos = y]
        BY <2>2, <3>4
      <4>2. AfterSlice(v, k + m) = [v EXCEPT !.cur = b.cur, !.playing = b.playing, !.pos = y]
        BY <2>3, <3>5 DEF x
      <4> HIDE DEF y
      <4>q. QED
        <5> DEFINE z1 == [half EXCEPT !.cur = b.cur, !.playing = b.playing, !.pos = y]
                   z2 == [v EXCEPT !.cur = b.cur, !.playing = b.playing, !.pos = y]
        <5>0. b.cur \in Nat /\ b.playing \in BOOLEAN /\ y \in Nat
          <6>1. b.cur \in Nat /\ b.playing \in BOOLEAN
            BY <3>3 DEF WalkState
          <6>2. Unit \in Nat \ {0} /\ v.bps \in Nat
            BY <1>0, VoiceFacts
          <6>3. b.cur \div Unit \in Nat
            BY <6>1, <6>2
          <6>q. QED
            BY <6>1, <6>2, <6>3 DEF y
        <5>1. /\ z1 \in Voices /\ z1.bytes = v.bytes /\ z1.bps = v.bps /\ z1.step = v.step
              /\ z1.cur = b.cur /\ z1.pos = y /\ z1.playing = b.playing
              /\ z1.looping = v.looping /\ z1.volume = v.volume
          BY <1>0, <2>2, <5>0 DEF Voices
        <5>2. /\ z2 \in Voices /\ z2.bytes = v.bytes /\ z2.bps = v.bps /\ z2.step = v.step
              /\ z2.cur = b.cur /\ z2.pos = y /\ z2.playing = b.playing
              /\ z2.looping = v.looping /\ z2.volume = v.volume
          BY <1>0, <5>0 DEF Voices
        <5> HIDE DEF z1, z2
        <5>3. z1 = z2
          BY <5>1, <5>2, SameVoice
        <5>q. QED
          BY <4>1, <4>2, <5>3 DEF z1, z2
    <3>q. QED
      BY <2>2, <3>1, <3>5, <3>6 DEF half, x, b, a
  <2>q. QED
    BY <2>4, <2>5
<1>q. QED
  BY <1>0, <1>3, <1>4, <1>5, VoiceFacts

-----------------------------------------------------------------------------
(* The theorems.                                                           *)

(* The objects keep their formats and the mixer walks at most MAX_BUFS.    *)
THEOREM TypeCorrect == Spec => []TypeOK
<1>1. ASSUME IInv PROVE TypeOK
  <2>1. ASSUME NEW i \in DOMAIN voice
        PROVE  /\ [bytes |-> voice[i].bytes, bps |-> voice[i].bps,
                   step |-> voice[i].step] \in Format
               /\ voice[i].cur \in Nat /\ voice[i].pos \in Nat
               /\ {voice[i].playing, voice[i].looping} \subseteq BOOLEAN
               /\ voice[i].volume \in {"full", "silent"}
    BY <1>1, <2>1 DEF IInv, VoiceOK, Voices
  <2>q. QED
    BY <1>1, <2>1 DEF IInv, TypeOK
<1>q. QED
  BY <1>1, Invariance, PTL

(* GetCurrentPosition: the polled cursor is the frame the mixer is at, the *)
(* write cursor leads it, and the next slice reads inside the buffer.      *)
THEOREM CursorsAgree == Spec => []PolledCursorIsMixed
<1>1. ASSUME IInv PROVE PolledCursorIsMixed
  <2>1. \A i \in DOMAIN voice : VoiceOK(voice[i]) /\ voice[i] \in Voices
    BY <1>1 DEF IInv, VoiceOK
  <2>2. WriteLeadsPlay
    <3>1. ASSUME NEW v \in Voices, v.bytes >= 4
          PROVE  WriteCursor(v) < v.bytes /\ WriteCursor(v) # PlayCursor(v) % v.bytes
      <4> DEFINE ahead == Lead * v.bps
                 lead == IF ahead >= v.bytes THEN v.bytes \div 4 ELSE ahead
      <4>1. v.bytes \in Nat \ {0} /\ v.bps \in Nat \ {0} /\ Lead \in Nat \ {0} /\ v.pos \in Nat
        BY BoundAssumption, VoiceFacts
      <4>2. ahead \in Nat \ {0}
        BY <4>1
      <4>3. v.bytes \div 4 \in 1 .. v.bytes - 1
        BY <3>1, <4>1
      <4>4. lead \in 1 .. v.bytes - 1
        <5> HIDE DEF ahead
        <5>q. QED
          BY <4>1, <4>2, <4>3
      <4>5. WriteCursor(v) = (v.pos + lead) % v.bytes
        BY DEF WriteCursor
      <4> HIDE DEF lead
      <4>6. v.pos \in Int /\ v.pos + lead \in Int
        BY <4>1, <4>4
      <4>7. (v.pos + lead) % v.bytes # v.pos % v.bytes
        BY <4>1, <4>4, <4>6, ModShift
      <4>8. (v.pos + lead) % v.bytes < v.bytes
        BY <4>1, <4>6
      <4>q. QED
        BY <4>5, <4>7, <4>8 DEF PlayCursor
    <3>q. QED
      BY <2>1, <3>1 DEF WriteLeadsPlay
  <2>3. ReadsInsideBuffer
    <3>1. ASSUME NEW i \in bufs, NEW k \in DOMAIN Mixed(voice[i], MaxSlice).heard
          PROVE  /\ Mixed(voice[i], MaxSlice).heard[k] >= 0
                 /\ Mixed(voice[i], MaxSlice).heard[k] \div Unit + 1 < FramesIn(voice[i])
      <4>1. VoiceOK(voice[i]) /\ MaxSlice \in Nat
        BY <1>1, <2>1, BoundAssumption DEF IInv
      <4> DEFINE v == voice[i]
                 h == Mixed(v, MaxSlice).heard
      <4>2. h \in Seq(Nat) /\ Pair(v, h[k])
        BY <4>1, MixedInWalk DEF VoiceOK, InWalk, WalkState
      <4>3. h[k] \in Nat
        BY <4>2
      <4>q. QED
        BY <4>2, <4>3 DEF Pair
    <3>q. QED
      BY <3>1 DEF ReadsInsideBuffer
  <2>4. \A i \in DOMAIN voice :
           PlayCursor(voice[i]) \div voice[i].bps = voice[i].cur \div Unit
    BY <2>1 DEF VoiceOK, PlayCursor
  <2>q. QED
    BY <2>2, <2>3, <2>4 DEF PolledCursorIsMixed
<1>q. QED
  BY <1>1, Invariance, PTL

(* mixer.h: however the frames of a one-shot, or of a loop with a readable *)
(* seam, are cut into slices, the same is heard and the same cursor left;  *)
(* and a loop sought too far past its end is silent for a whole slice.     *)
THEOREM SlicesDoNotMatter == Spec => []SlicingIsTransparent
<1>1. ASSUME IInv PROVE SlicingIsTransparent
  <2>1. ASSUME NEW i \in bufs, NEW n \in 1 .. MaxSlice, NEW k \in 1 .. n - 1,
               SeamIsReadable(voice[i])
        PROVE  SlicesAsOne(voice[i], k, n)
    <3>1. VoiceOK(voice[i])
      BY <1>1 DEF IInv
    <3>2. PICK v : v = voice[i]
      OBVIOUS
    <3>3. PICK m \in Nat : k \in Nat /\ n - k = m /\ k + m = n
      BY BoundAssumption
    <3>4. VoiceOK(v) /\ SeamIsReadable(v)
      BY <2>1, <3>1, <3>2
    <3>5. /\ AfterSlice(AfterSlice(v, k), m) = AfterSlice(v, n)
          /\ v.playing => Mixed(v, n).heard =
                Mixed(v, k).heard \o More(AfterSlice(v, k), m)
      <4>1. k \in Nat /\ m \in Nat /\ k + m = n
        BY <3>3
      <4>2. /\ AfterSlice(AfterSlice(v, k), m) = AfterSlice(v, k + m)
            /\ v.playing => Mixed(v, k + m).heard =
                  Mixed(v, k).heard \o More(AfterSlice(v, k), m)
        BY <3>4, <4>1, SlicedInTwo
      <4>q. QED
        BY <4>1, <4>2, Zenon
    <3>q. QED
      BY <3>2, <3>3, <3>5 DEF More, SlicesAsOne
  <2>2. ASSUME NEW i \in bufs, NEW n \in 1 .. MaxSlice,
               voice[i].playing, voice[i].looping, ~OneWrapAway(voice[i])
        PROVE  /\ Mixed(voice[i], n).heard = <<>>
               /\ AfterSlice(voice[i], n).cur = Wrapped(voice[i], voice[i].cur)
    <3>1. voice[i] \in Voices
      BY <1>1 DEF IInv, VoiceOK
    <3>2. n \in Nat \ {0}
      BY BoundAssumption
    <3>q. QED
      BY <2>2, <3>1, <3>2, FarLoopIsSilent
  <2>q. QED
    BY <2>1, <2>2 DEF SlicingIsTransparent
<1>q. QED
  BY <1>1, Invariance, PTL

-----------------------------------------------------------------------------
(* Decoder.  The inductive invariant says which child each point of the    *)
(* parent can meet, and that what was written is in the buffer or in the   *)
(* pipe.                                                                   *)

Alive == {"running", "closed", "zombie"}

\* Where the parent stands tells what has become of the child.
ChildInv ==
    /\ pc = "open" => child = "none" /\ result = "none"
    /\ pc \in {"read", "reap"} => child \in Alive /\ result = "none"
    /\ pc = "kill" => child \in Alive /\ result = "failed"
    /\ pc = "wait" => child = "zombie" /\ result = "failed"
    /\ pc = "done" => child \in {"none", "gone"}

\* No byte is lost or read twice, and the end of the output is its end.
BytesInv ==
    /\ written = length + pipe /\ length <= capacity
    /\ pc = "reap" => pipe = 0 /\ child # "running"
    /\ result = "music" => /\ pc = "done" /\ pipe = 0 /\ status = "ok"
                           /\ length % FrameBytes = 0

DecodeInv == DecodeTypeOK /\ ChildInv /\ BytesInv

-----------------------------------------------------------------------------
LEMMA DecodeInitHolds == DecodeInit => DecodeInv
<1> SUFFICES ASSUME DecodeInit PROVE DecodeInv
  OBVIOUS
<1> USE DecoderAssumption DEF DecodeInit
<1>1. DecodeTypeOK
  <2>1. pipe \in 0 .. PipeBytes /\ capacity \in 1 .. MaxBytes
    OBVIOUS
  <2>2. written \in Nat /\ length \in Nat
    OBVIOUS
  <2>3. late \in BOOLEAN /\ result \in {"none", "music", "failed"}
    OBVIOUS
  <2>q. QED
    BY <2>1, <2>2, <2>3 DEF DecodeTypeOK
<1>2. ChildInv
  BY DEF ChildInv
<1>3. BytesInv
  BY DEF BytesInv
<1>q. QED
  BY <1>1, <1>2, <1>3 DEF DecodeInv

LEMMA ChildPreserves == ASSUME DecodeInv, Child PROVE DecodeInv'
<1> USE DecoderAssumption DEF DecodeInv, DecodeTypeOK, ChildInv, BytesInv, Alive
<1>1. CASE ChildWrites
  BY <1>1 DEF ChildWrites
<1>2. CASE ChildCloses
  BY <1>2 DEF ChildCloses
<1>3. CASE \E how \in {"ok", "bad"} : ChildExits(how)
  BY <1>3 DEF ChildExits
<1>q. QED
  BY <1>1, <1>2, <1>3 DEF Child

LEMMA ParentPreserves == ASSUME DecodeInv, Parent PROVE DecodeInv'
<1> USE DecoderAssumption DEF DecodeInv, DecodeTypeOK, ChildInv, BytesInv, Alive, childVars, Fail
<1>1. CASE Open
  BY <1>1 DEF Open
<1>2. CASE Grow
  <2>1. Lower(2 * capacity, MaxBytes) \in capacity .. MaxBytes
    BY DEF Lower
  <2>q. QED
    BY <1>2, <2>1 DEF Grow
<1>3. CASE EndOfOutput
  BY <1>3 DEF EndOfOutput
<1>4. CASE ReadFails
  BY <1>4 DEF ReadFails
<1>5. CASE Reap
  BY <1>5 DEF Reap, Accepted
<1>6. CASE ReapTooLate
  BY <1>6 DEF ReapTooLate
<1>7. CASE Kill
  BY <1>7 DEF Kill
<1>8. CASE Wait
  BY <1>8 DEF Wait
<1>9. CASE \E n \in 1 .. PipeBytes : ReadSome(n)
  BY <1>9 DEF ReadSome
<1>q. QED
  BY <1>1, <1>2, <1>3, <1>4, <1>5, <1>6, <1>7, <1>8, <1>9 DEF Parent

LEMMA DecodeStepPreserves == DecodeInv /\ [DecodeNext]_decodeVars => DecodeInv'
<1> SUFFICES ASSUME DecodeInv, [DecodeNext]_decodeVars PROVE DecodeInv'
  OBVIOUS
<1>1. CASE Parent
  BY <1>1, ParentPreserves
<1>2. CASE Child
  BY <1>2, ChildPreserves
<1>3. CASE Deadline
  BY <1>3 DEF Deadline, DecodeInv, DecodeTypeOK, ChildInv, BytesInv, Alive, childVars
<1>4. CASE UNCHANGED decodeVars
  BY <1>4 DEF decodeVars, DecodeInv, DecodeTypeOK, ChildInv, BytesInv, Alive
<1>q. QED
  BY <1>1, <1>2, <1>3, <1>4 DEF DecodeNext

(* The invariant holds throughout a decode (music_decode_file), and with   *)
(* it the types: the buffer never outgrows the limit.                      *)
THEOREM DecodeInvariance == DecodeSpec => []DecodeInv
<1>1. DecodeInit => DecodeInv
  BY DecodeInitHolds
<1>2. DecodeInv /\ [DecodeNext]_decodeVars => DecodeInv'
  BY DecodeStepPreserves
<1>q. QED
  BY <1>1, <1>2, PTL DEF DecodeSpec

(* Only the whole output of a child that succeeded is ever music, for any  *)
(* sizes and however the child behaves (the tests after the last read).    *)
THEOREM OnlyWholeMusic == DecodeSpec => []MusicIsWhole
<1>1. DecodeInv => MusicIsWhole
  BY DecoderAssumption DEF DecodeInv, DecodeTypeOK, BytesInv, MusicIsWhole
<1>q. QED
  BY <1>1, DecodeInvariance, PTL

(* However the decode ends, its child has been waited for                  *)
(* (terminate_decoder).                                                    *)
THEOREM ChildrenAreReaped == DecodeSpec => []NoChildIsLeft
<1>1. DecodeInv => NoChildIsLeft
  BY DEF DecodeInv, ChildInv, NoChildIsLeft
<1>q. QED
  BY <1>1, DecodeInvariance, PTL
=============================================================================
