----------------------------- MODULE VideoProofs -----------------------------
(***************************************************************************)
(* Proofs about EngineDraw, for any surfaces, frames, capacity of the      *)
(* texture cache and number of frame ids; and about DisplayLists, for any  *)
(* destinations, tile sizes and caps of the lists, the arena and the pool. *)
(***************************************************************************)
EXTENDS EngineDraw, DisplayLists, SequenceTheorems, FiniteSetTheorems,
        WellFoundedInduction, TLAPS

(* Every set of numbers has a least one: the well-founded order of the     *)
(* naturals, stated for sets so that it can be cited.                      *)
LEMMA LeastElement ==
    ASSUME NEW T, T \subseteq Nat, T # {}
    PROVE  \E x \in T : \A y \in T : x <= y
<1> DEFINE R == OpToRel(<, Nat)
<1>1. IsWellFoundedOn(R, Nat)
  BY NatLessThanWellFounded
<1> HIDE DEF R
<1>2. PICK x \in T : \A y \in T : <<y, x>> \notin R
  BY <1>1, WFMin
<1>3. \A x1, y1 \in Nat : y1 < x1 => <<y1, x1>> \in R
  BY DEF R, OpToRel
<1>4. ASSUME NEW y \in T PROVE x <= y
  <2>1. x \in Nat /\ y \in Nat /\ <<y, x>> \notin R
    BY <1>2
  <2>2. ~(y < x)
    BY <1>3, <2>1
  <2>q. QED
    BY <2>1, <2>2
<1>q. QED
  BY <1>4

(* And a set of numbers that has 0 and the successors of its own has all.  *)
LEMMA SetInduction ==
    ASSUME NEW T, 0 \in T, \A n \in Nat : n \in T => n + 1 \in T
    PROVE  Nat \subseteq T
<1> DEFINE R == OpToRel(<, Nat)
           F == Nat \ T
<1>1. SUFFICES ASSUME F # {} PROVE FALSE
  OBVIOUS
<1>2. IsWellFoundedOn(R, Nat)
  BY NatLessThanWellFounded
<1>3. \A x, y \in Nat : y < x => <<y, x>> \in R
  BY DEF OpToRel
<1> HIDE DEF R
<1>4. PICK x \in F : \A y \in F : <<y, x>> \notin R
  <2>1. F \subseteq Nat
    OBVIOUS
  <2> HIDE DEF F
  <2>q. QED
    BY <1>1, <1>2, <2>1, WFMin
<1>5. x # 0 /\ x - 1 \in Nat /\ x - 1 < x /\ x \in Nat
  BY <1>4
<1>6. x - 1 \in T
  BY <1>3, <1>4, <1>5
<1>7. x - 1 + 1 = x
  BY <1>5
<1>q. QED
  BY <1>4, <1>5, <1>6, <1>7

-----------------------------------------------------------------------------
(* The invariant.                                                          *)

GameInv ==
    /\ now \in [Surfaces \cup Tiles -> Pictures] /\ quiet \subseteq Surfaces
    /\ writes \in 0 .. MaxWrites /\ frames \in 0 .. MaxFrames
    /\ refused \in BOOLEAN

\* One texture per key, none used later than now, each a copy whose hash is
\* known; and where a write was announced or is not owed, marked or current.
CacheInv ==
    /\ cache \in Seq(Entry) /\ Len(cache) <= Capacity
    /\ frame \in 0 .. FrameIds - 1
    /\ \A r, s \in DOMAIN cache : cache[r].key = cache[s].key => r = s
    /\ \A s \in DOMAIN cache :
          /\ cache[s].last <= frame /\ cache[s].seen = Seen(cache[s].pic)
          /\ cache[s].key[1] \in Surfaces \ quiet /\ ~cache[s].dirty
                => cache[s].pic = now[cache[s].key[1]]

\* Slot s holds the texture of quad x, as it is in this frame.
Held(s, x) ==
    /\ s \in DOMAIN cache /\ x.art # NoArt
    /\ cache[s].key = Key(x) /\ cache[s].last = frame
    /\ ~cache[s].dirty /\ cache[s].seen = Seen(now[x.art])

\* Where the walk stands; the run being gathered has one texture.
WalkInv ==
    /\ at \in 0 .. Len(q) + 1 /\ sliver \in 0 .. Len(q) + 1
    /\ tex \in 0 .. Capacity
    /\ Idle => i = 0 /\ j = 0 /\ out = <<>> /\ dropped = {}
    /\ ~Idle => /\ q \in Frames /\ i \in 1 .. Len(q) + 1
                /\ j = 0 \/ j \in i + 1 .. Len(q) + 1
                /\ j # 0 /\ tex # 0 => \A k \in i .. j - 1 : Held(tex, q[k])

\* Each recorded draw has one texture that stays in its slot; the draws and
\* the quads dropped share out the quads that have been passed.
Draws == [from : 1 .. Len(q), to : 1 .. Len(q), slot : 0 .. Capacity]

OutInv ==
    /\ out \in Seq(Draws)
    /\ \A d \in DOMAIN out :
          /\ out[d].from <= out[d].to /\ out[d].to < i
          /\ out[d].slot # 0 =>
                \A k \in out[d].from .. out[d].to : Held(out[d].slot, q[k])
    /\ \A c, d \in DOMAIN out : c < d => out[c].to < out[d].from
    /\ dropped \subseteq 1 .. i - 1
    /\ \A k \in 1 .. i - 1 :
          (\E d \in DOMAIN out : out[d].from <= k /\ k <= out[d].to) <=> k \notin dropped

\* A frame that loses art has found every slot taken by another texture of
\* its own, or was refused one.
FrameKeys == {Key(q[k]) : k \in {n \in DOMAIN q : q[n].art # NoArt}}
Lost == refused \/ Cardinality(FrameKeys) > Capacity

SpaceInv ==
    ~Idle =>
        /\ \A s \in DOMAIN cache : cache[s].last = frame => cache[s].key \in FrameKeys
        /\ j # 0 /\ tex = 0 /\ q[i].art # NoArt => Lost
        /\ dropped # {} => Lost

IInv == GameInv /\ CacheInv /\ WalkInv /\ OutInv /\ SpaceInv

-----------------------------------------------------------------------------
(* The cache.                                                              *)

LEMMA SeenIsABit == \A p \in Pictures : Seen(p) \in 0 .. 1
BY DEF Pictures, Seen

LEMMA EntryMade ==
    ASSUME GameInv, CacheInv, NEW x \in Quad, x.art # NoArt
    PROVE  Made(x) \in Entry
<1>1. Key(x) \in (Surfaces \cup Tiles) \X (0 .. 2)
  BY DEF Key, Quad
<1>2. now[x.art] \in Pictures /\ Seen(now[x.art]) \in 0 .. 1
  BY SeenIsABit DEF GameInv, Quad
<1>q. QED
  BY <1>1, <1>2 DEF Made, Entry, CacheInv

\* When there is a slot whose texture is not of this frame, the victim is one.
LEMMA VictimIsAVictim ==
    ASSUME CacheInv, Victims # {}
    PROVE  Victim \in Victims
<1> DEFINE stamps == {cache[s].last : s \in Victims}
<1>1. Victims \subseteq Nat /\ \A s \in Victims : s \in DOMAIN cache /\ cache[s].last \in Nat
  <2>1. \A s \in DOMAIN cache : s \in Nat /\ cache[s] \in Entry
    BY DEF CacheInv
  <2>2. \A e \in Entry : e.last \in Nat
    BY FrameAssumption DEF Entry
  <2>q. QED
    BY <2>1, <2>2 DEF Victims
<1>2. PICK t \in stamps : \A u \in stamps : t <= u
  <2>1. stamps \subseteq Nat /\ stamps # {}
    BY <1>1
  <2> HIDE DEF stamps
  <2>q. QED
    BY <2>1, LeastElement
<1> DEFINE oldest == {s \in Victims : cache[s].last = t}
<1>3. PICK s \in oldest : \A r \in oldest : s <= r
  <2>1. oldest \subseteq Nat /\ oldest # {}
    BY <1>1, <1>2
  <2> HIDE DEF oldest
  <2>q. QED
    BY <2>1, LeastElement
<1>4. \A r \in Victims :
         cache[s].last < cache[r].last \/ (cache[s].last = cache[r].last /\ s <= r)
  BY <1>1, <1>2, <1>3
<1>q. QED
  BY <1>3, <1>4 DEF Victim

(* The four outcomes of a request: no texture and an unchanged cache; the  *)
(* texture of this quad found, or made again, in its slot; a new one at    *)
(* the end; a new one in place of a texture this frame does not use.       *)
Nothing(x, s) ==
    /\ s = 0 /\ cache' = cache
    /\ x.art # NoArt => \/ refused'
                        \/ /\ Len(cache) = Capacity /\ refused' = refused
                           /\ \A r \in DOMAIN cache :
                                 cache[r].last = frame /\ cache[r].key # Key(x)
Found(x, s) ==
    /\ s \in DOMAIN cache /\ cache[s].key = Key(x) /\ x.art # NoArt
    /\ \/ cache' = [cache EXCEPT ![s] = Made(x)]
       \/ cache' = [cache EXCEPT ![s] = Touched(cache[s])] /\ ~Stale(cache[s], x)
Grown(x, s) ==
    /\ s = Len(cache) + 1 /\ s <= Capacity /\ x.art # NoArt
    /\ \A r \in DOMAIN cache : cache[r].key # Key(x)
    /\ cache' = Append(cache, Made(x))
Evicted(x, s) ==
    /\ s \in DOMAIN cache /\ cache[s].last # frame /\ x.art # NoArt
    /\ \A r \in DOMAIN cache : cache[r].key # Key(x)
    /\ cache' = [cache EXCEPT ![s] = Made(x)]

LEMMA TextureCases ==
    ASSUME GameInv, CacheInv, NEW x \in Quad, NEW s, TextureFor(x, s)
    PROVE  /\ Nothing(x, s) \/ Found(x, s) \/ Grown(x, s) \/ Evicted(x, s)
           /\ refused' \in BOOLEAN /\ (refused => refused')
<1> DEFINE held == {r \in DOMAIN cache : cache[r].key = Key(x)}
<1>0. /\ Len(cache) \in Nat /\ DOMAIN cache = 1 .. Len(cache) /\ Len(cache) <= Capacity
      /\ refused \in BOOLEAN /\ Capacity \in Nat
  BY FrameAssumption DEF CacheInv, GameInv
<1>1. CASE x.art = NoArt
  BY <1>0, <1>1 DEF TextureFor, Fails, Nothing
<1>2. CASE x.art # NoArt /\ held # {}
  <2>1. PICK r \in held : held = {r}
    BY <1>2 DEF CacheInv
  <2>2. r = CHOOSE t \in held : \A u \in held : t <= u
    BY <1>0, <2>1
  <2>3. \/ s = r /\ cache' = With(r, Made(x)) /\ UNCHANGED refused
        \/ Fails(s, TRUE)
        \/ s = r /\ cache' = With(r, Touched(cache[r])) /\ ~Stale(cache[r], x) /\ UNCHANGED refused
    BY <1>2, <2>2 DEF TextureFor
  <2>4. r \in DOMAIN cache /\ ~(r > Len(cache)) /\ cache[r].key = Key(x)
    BY <1>0, <2>1
  <2>5. CASE Fails(s, TRUE)
    BY <1>0, <2>5 DEF Fails, Nothing
  <2>6. CASE s = r /\ cache' = With(r, Made(x)) /\ UNCHANGED refused
    BY <1>0, <1>2, <2>4, <2>6 DEF With, Found
  <2>7. CASE s = r /\ cache' = With(r, Touched(cache[r])) /\ ~Stale(cache[r], x) /\ UNCHANGED refused
    BY <1>0, <1>2, <2>4, <2>7 DEF With, Found
  <2>q. QED
    BY <2>3, <2>5, <2>6, <2>7
<1>3. CASE x.art # NoArt /\ held = {}
  <2>1. \A r \in DOMAIN cache : cache[r].key # Key(x)
    BY <1>3
  <2>2. \/ Place = 0 /\ Fails(s, FALSE)
        \/ Place # 0 /\ s = Place /\ cache' = With(Place, Made(x)) /\ UNCHANGED refused
        \/ Fails(s, TRUE)
    BY <1>3 DEF TextureFor
  <2>3. CASE Fails(s, TRUE)
    BY <1>0, <2>3 DEF Fails, Nothing
  <2>4. CASE Len(cache) < Capacity
    <3>1. Place = Len(cache) + 1
      BY <2>4 DEF Place
    <3>2. Place # 0 /\ Place > Len(cache) /\ Place <= Capacity
      BY <1>0, <2>4, <3>1
    <3>3. CASE s = Place /\ cache' = With(Place, Made(x)) /\ UNCHANGED refused
      <4>1. cache' = Append(cache, Made(x))
        BY <3>2, <3>3 DEF With
      <4>2. Grown(x, s)
        BY <1>3, <2>1, <3>1, <3>2, <3>3, <4>1 DEF Grown
      <4>q. QED
        BY <1>0, <3>3, <4>2
    <3>q. QED
      BY <2>2, <2>3, <3>2, <3>3
  <2>5. CASE ~(Len(cache) < Capacity) /\ Victims = {}
    <3>1. /\ Place = 0 /\ Len(cache) = Capacity
          /\ \A r \in DOMAIN cache : cache[r].last = frame
      <4>1. Place = 0
        BY <2>5 DEF Place
      <4>2. \A r \in DOMAIN cache : cache[r].last = frame
        BY <2>5 DEF Victims
      <4>3. Len(cache) = Capacity
        <5>1. Len(cache) \in Nat /\ Capacity \in Nat /\ Len(cache) <= Capacity
          BY <1>0
        <5>2. ~(Len(cache) < Capacity)
          BY <2>5
        <5>3. \A m, n \in Nat : m <= n /\ ~(m < n) => m = n
          OBVIOUS
        <5>q. QED
          BY <5>1, <5>2, <5>3
      <4>q. QED
        BY <4>1, <4>2, <4>3
    <3>2. CASE Fails(s, FALSE)
      BY <1>0, <2>1, <3>1, <3>2 DEF Fails, Nothing
    <3>q. QED
      BY <2>2, <2>3, <3>1, <3>2
  <2>6. CASE ~(Len(cache) < Capacity) /\ Victims # {}
    <3>1. Place = Victim /\ Victim \in Victims
      BY <2>6, VictimIsAVictim DEF Place
    <3>2. Place \in DOMAIN cache /\ cache[Place].last # frame /\ ~(Place > Len(cache)) /\ Place # 0
      BY <1>0, <3>1 DEF Victims
    <3>3. CASE s = Place /\ cache' = With(Place, Made(x)) /\ UNCHANGED refused
      BY <1>0, <1>3, <2>1, <3>2, <3>3 DEF With, Evicted
    <3>q. QED
      BY <2>2, <2>3, <3>2, <3>3
  <2>q. QED
    BY <2>4, <2>5, <2>6
<1>q. QED
  BY <1>1, <1>2, <1>3

\* What a request leaves true of the slots of this frame.
Kept(x) ==
    /\ \A t, y : Held(t, y) => Held(t, y)'
    /\ \A t \in DOMAIN cache' : cache'[t].last = frame =>
          \/ x.art # NoArt /\ cache'[t].key = Key(x)
          \/ t \in DOMAIN cache /\ cache[t].last = frame /\ cache'[t].key = cache[t].key

LEMMA MadeIsCurrent ==
    ASSUME GameInv, CacheInv, NEW x \in Quad, x.art # NoArt
    PROVE  /\ Made(x) \in Entry /\ Made(x).key = Key(x) /\ Made(x).last = frame
           /\ Made(x).seen = Seen(Made(x).pic) /\ Made(x).seen = Seen(now[x.art])
           /\ ~Made(x).dirty /\ Made(x).pic = now[Made(x).key[1]]
BY EntryMade DEF Made, Key

LEMMA TouchedIsCurrent ==
    ASSUME GameInv, CacheInv, NEW x \in Quad, NEW s \in DOMAIN cache,
           cache[s].key = Key(x), ~Stale(cache[s], x)
    PROVE  LET e == Touched(cache[s]) IN
           /\ e \in Entry /\ e.key = Key(x) /\ e.last = frame
           /\ e.pic = cache[s].pic /\ e.dirty = cache[s].dirty
           /\ e.seen = Seen(e.pic) /\ e.seen = Seen(now[x.art])
           /\ ~e.dirty
<1>1. cache[s] \in Entry
  BY DEF CacheInv
<1> DEFINE e == Touched(cache[s])
<1>2. /\ e \in Entry /\ e.key = cache[s].key /\ e.last = frame
      /\ e.pic = cache[s].pic /\ e.dirty = cache[s].dirty /\ e.seen = cache[s].seen
  BY <1>1 DEF Touched, Entry, CacheInv
<1> HIDE DEF e
<1>3. cache[s].seen = Seen(cache[s].pic) /\ cache[s].seen = Seen(now[x.art]) /\ ~cache[s].dirty
  BY DEF CacheInv, Stale
<1>q. QED
  BY <1>2, <1>3 DEF e

\* An entry of x put in slot s, which no texture of this frame but x's has.
LEMMA EntryPut ==
    ASSUME GameInv, CacheInv, NEW x \in Quad, x.art # NoArt, NEW e \in Entry,
           NEW s \in 1 .. Capacity,
           s \in DOMAIN cache \/ s = Len(cache) + 1,
           cache' = IF s \in DOMAIN cache THEN [cache EXCEPT ![s] = e]
                    ELSE Append(cache, e),
           \A r \in DOMAIN cache : cache[r].key = Key(x) => r = s,
           s \in DOMAIN cache => cache[s].last # frame \/ cache[s].key = Key(x),
           e.key = Key(x), e.last = frame, e.seen = Seen(e.pic),
           e.seen = Seen(now[x.art]), ~e.dirty,
           x.art \in Surfaces \ quiet => e.pic = now[x.art],
           UNCHANGED <<game, frame>>
    PROVE  CacheInv' /\ Held(s, x)' /\ Kept(x)
<1>0. now' = now /\ quiet' = quiet /\ frame' = frame
  BY DEF game
<1>1. /\ cache \in Seq(Entry) /\ Len(cache) \in Nat /\ DOMAIN cache = 1 .. Len(cache)
      /\ Capacity \in Nat
  BY FrameAssumption DEF CacheInv
<1>2. /\ cache' \in Seq(Entry) /\ Len(cache') <= Capacity
      /\ DOMAIN cache' = DOMAIN cache \cup {s} /\ cache'[s] = e
      /\ \A r \in DOMAIN cache : r # s => cache'[r] = cache[r]
  <2>1. CASE s \in DOMAIN cache
    BY <1>1, <2>1 DEF CacheInv
  <2>2. CASE s = Len(cache) + 1
    <3>1. s \notin DOMAIN cache
      BY <1>1, <2>2
    <3>2. cache' = Append(cache, e)
      BY <3>1
    <3>3. /\ Append(cache, e) \in Seq(Entry) /\ Len(Append(cache, e)) = Len(cache) + 1
          /\ Append(cache, e)[Len(cache) + 1] = e
          /\ \A r \in 1 .. Len(cache) : Append(cache, e)[r] = cache[r]
      BY <1>1
    <3>4. /\ cache' \in Seq(Entry) /\ Len(cache') = s /\ cache'[s] = e
          /\ \A r \in 1 .. Len(cache) : cache'[r] = cache[r]
      BY <2>2, <3>2, <3>3
    <3>5. DOMAIN cache' = 1 .. s /\ 1 .. s = 1 .. Len(cache) \cup {s} /\ s <= Capacity
      BY <1>1, <2>2, <3>4
    <3>q. QED
      BY <1>1, <2>2, <3>4, <3>5
  <2>q. QED
    BY <2>1, <2>2
<1>3. Key(x)[1] = x.art
  BY DEF Key
<1>4. CacheInv'
  <2>1. \A r, t \in DOMAIN cache' : cache'[r].key = cache'[t].key => r = t
    BY <1>2 DEF CacheInv
  <2>2. \A r \in DOMAIN cache' :
          /\ cache'[r].last <= frame /\ cache'[r].seen = Seen(cache'[r].pic)
          /\ cache'[r].key[1] \in Surfaces \ quiet /\ ~cache'[r].dirty
                => cache'[r].pic = now[cache'[r].key[1]]
    <3>1. ASSUME NEW r \in DOMAIN cache, r # s
          PROVE  /\ cache'[r] = cache[r]
                 /\ cache[r].last <= frame /\ cache[r].seen = Seen(cache[r].pic)
                 /\ cache[r].key[1] \in Surfaces \ quiet /\ ~cache[r].dirty
                       => cache[r].pic = now[cache[r].key[1]]
      BY <1>2, <3>1 DEF CacheInv
    <3>2. e.last <= frame /\ e.key[1] = x.art
      <4>1. frame \in Int
        BY FrameAssumption DEF CacheInv
      <4>q. QED
        BY <1>3, <4>1
    <3>3. e.key[1] \in Surfaces \ quiet => e.pic = now[e.key[1]]
      BY <3>2
    <3>4. \A r \in DOMAIN cache' : r # s => r \in DOMAIN cache
      BY <1>2
    <3>5. TAKE r \in DOMAIN cache'
    <3>6. CASE r = s
      BY <1>2, <3>2, <3>3, <3>6
    <3>7. CASE r # s
      BY <3>1, <3>4, <3>7
    <3>q. QED
      BY <3>6, <3>7
  <2>q. QED
    BY <1>0, <1>2, <2>1, <2>2 DEF CacheInv
<1>5. Held(s, x)'
  BY <1>0, <1>2 DEF Held, Key
<1>6. Kept(x)
  <2>1. ASSUME NEW t, NEW y, Held(t, y) PROVE Held(t, y)'
    <3>1. CASE t # s
      BY <1>0, <1>2, <2>1, <3>1 DEF Held, Key
    <3>2. CASE t = s
      <4>1. Key(y) = Key(x)
        BY <2>1, <3>2 DEF Held
      <4>2. y.art = x.art
        BY <4>1 DEF Key
      <4>q. QED
        BY <1>0, <1>2, <3>2, <4>1, <4>2 DEF Held, Key
    <3>q. QED
      BY <3>1, <3>2
  <2>q. QED
    BY <1>2, <2>1 DEF Kept
<1>q. QED
  BY <1>4, <1>5, <1>6

LEMMA RequestHolds ==
    ASSUME GameInv, CacheInv, NEW x \in Quad, NEW s, TextureFor(x, s),
           UNCHANGED <<game, frame>>
    PROVE  /\ CacheInv' /\ Kept(x) /\ s \in 0 .. Capacity /\ (s # 0 => Held(s, x)')
           /\ s = 0 => Nothing(x, s)
           /\ refused' \in BOOLEAN /\ (refused => refused')
<1>0. /\ Len(cache) \in Nat /\ DOMAIN cache = 1 .. Len(cache) /\ Len(cache) <= Capacity
      /\ Capacity \in Nat
      /\ now' = now /\ quiet' = quiet /\ frame' = frame
  BY FrameAssumption DEF CacheInv, game
<1>1. CASE Nothing(x, s)
  <2>1. cache' = cache /\ s = 0
    BY <1>1 DEF Nothing
  <2>2. CacheInv'
    BY <1>0, <2>1 DEF CacheInv
  <2>3. Kept(x)
    BY <1>0, <2>1 DEF Kept, Held, Key
  <2>q. QED
    BY <1>0, <1>1, <2>1, <2>2, <2>3, TextureCases
<1>2. CASE Found(x, s)
  <2>1. s \in DOMAIN cache /\ cache[s].key = Key(x) /\ x.art # NoArt /\ s \in 1 .. Capacity
    BY <1>0, <1>2 DEF Found
  <2>2. \A r \in DOMAIN cache : cache[r].key = Key(x) => r = s
    BY <2>1 DEF CacheInv
  <2>3. CacheInv' /\ Held(s, x)' /\ Kept(x)
    <3>1. CASE cache' = [cache EXCEPT ![s] = Made(x)]
      <4>1. Made(x).key[1] = x.art
        BY DEF Made, Key
      <4> DEFINE e == Made(x)
      <4>2. /\ e \in Entry /\ e.key = Key(x) /\ e.last = frame /\ e.seen = Seen(e.pic)
            /\ e.seen = Seen(now[x.art]) /\ ~e.dirty /\ e.pic = now[x.art]
        BY <2>1, <4>1, MadeIsCurrent
      <4>3. cache' = [cache EXCEPT ![s] = e]
        BY <3>1
      <4> HIDE DEF e
      <4>q. QED
        BY <2>1, <2>2, <4>2, <4>3, EntryPut
    <3>2. CASE cache' = [cache EXCEPT ![s] = Touched(cache[s])] /\ ~Stale(cache[s], x)
      <4> DEFINE e == Touched(cache[s])
      <4>1. /\ e \in Entry /\ e.key = Key(x) /\ e.last = frame /\ e.pic = cache[s].pic
            /\ e.dirty = cache[s].dirty /\ e.seen = Seen(e.pic)
            /\ e.seen = Seen(now[x.art]) /\ ~e.dirty
        BY <2>1, <3>2, TouchedIsCurrent
      <4>2. cache' = [cache EXCEPT ![s] = e]
        BY <3>2
      <4> HIDE DEF e
      <4>3. x.art \in Surfaces \ quiet => e.pic = now[x.art]
        BY <2>1, <4>1 DEF CacheInv, Key
      <4>q. QED
        BY <2>1, <2>2, <4>1, <4>2, <4>3, EntryPut
    <3>q. QED
      BY <1>2, <3>1, <3>2 DEF Found
  <2>q. QED
    BY <1>0, <2>1, <2>3, TextureCases
<1>3. ASSUME Grown(x, s) \/ Evicted(x, s)
      PROVE  CacheInv' /\ Held(s, x)' /\ Kept(x) /\ s \in 1 .. Capacity
  <2>1. /\ s \in 1 .. Capacity /\ x.art # NoArt
        /\ \A r \in DOMAIN cache : cache[r].key # Key(x)
        /\ s \in DOMAIN cache \/ s = Len(cache) + 1
        /\ s \in DOMAIN cache => cache[s].last # frame
        /\ cache' = IF s \in DOMAIN cache THEN [cache EXCEPT ![s] = Made(x)]
                    ELSE Append(cache, Made(x))
    BY <1>0, <1>3 DEF Grown, Evicted
  <2>2. Made(x).key[1] = x.art
    BY DEF Made, Key
  <2> DEFINE e == Made(x)
  <2>3. /\ e \in Entry /\ e.key = Key(x) /\ e.last = frame /\ e.seen = Seen(e.pic)
        /\ e.seen = Seen(now[x.art]) /\ ~e.dirty /\ e.pic = now[x.art]
    BY <2>1, <2>2, MadeIsCurrent
  <2>4. cache' = IF s \in DOMAIN cache THEN [cache EXCEPT ![s] = e] ELSE Append(cache, e)
    BY <2>1
  <2> HIDE DEF e
  <2>q. QED
    BY <2>1, <2>3, <2>4, EntryPut
<1>q. QED
  BY <1>0, <1>1, <1>2, <1>3, TextureCases

-----------------------------------------------------------------------------
(* The steps between frames.                                               *)

LEMMA InitHolds == Init => IInv
<1> SUFFICES ASSUME Init PROVE IInv
  OBVIOUS
<1>1. GameInv
  <2>1. 0 \in Pictures /\ 0 \in 0 .. MaxWrites /\ 0 \in 0 .. MaxFrames
    BY FrameAssumption DEF Pictures
  <2>q. QED
    BY <2>1 DEF Init, GameInv
<1>2. CacheInv
  BY FrameAssumption DEF Init, CacheInv
<1>3. WalkInv /\ OutInv /\ SpaceInv
  BY FrameAssumption DEF Init, WalkInv, OutInv, SpaceInv, Idle
<1>q. QED
  BY <1>1, <1>2, <1>3 DEF IInv

\* While no frame is drawn, the walk and the draws are at rest.
LEMMA IdleWalk ==
    ASSUME IInv, Idle, UNCHANGED <<q, at, walk>>
    PROVE  WalkInv' /\ OutInv' /\ SpaceInv'
<1>1. /\ i = 0 /\ j = 0 /\ out = <<>> /\ dropped = {} /\ q = <<>>
      /\ i' = i /\ j' = j /\ out' = out /\ dropped' = dropped /\ q' = q
      /\ at' = at /\ tex' = tex /\ sliver' = sliver
  BY DEF IInv, WalkInv, Idle, walk
<1>2. WalkInv'
  BY <1>1 DEF IInv, WalkInv, Idle
<1>3. OutInv'
  BY <1>1 DEF OutInv
<1>4. SpaceInv'
  BY <1>1 DEF SpaceInv, Idle
<1>q. QED
  BY <1>2, <1>3, <1>4

LEMMA WriteToHolds ==
    ASSUME IInv, NEW a \in Surfaces \cup Tiles, WriteTo(a), quiet' \subseteq Surfaces,
           refused' = refused
    PROVE  GameInv' /\ \A b \in (Surfaces \cup Tiles) \ {a} : now'[b] = now[b]
<1>1. /\ now \in [Surfaces \cup Tiles -> Pictures] /\ writes \in 0 .. MaxWrites
      /\ frames \in 0 .. MaxFrames /\ refused \in BOOLEAN
  BY DEF IInv, GameInv
<1>2. PICK p \in Pictures : now' = [now EXCEPT ![a] = p]
  BY DEF WriteTo
<1>3. writes' \in 0 .. MaxWrites /\ frames' = frames
  BY <1>1, FrameAssumption DEF WriteTo
<1>4. now' \in [Surfaces \cup Tiles -> Pictures]
  BY <1>1, <1>2
<1>5. \A b \in (Surfaces \cup Tiles) \ {a} : now'[b] = now[b]
  BY <1>1, <1>2
<1>q. QED
  BY <1>1, <1>3, <1>4, <1>5 DEF GameInv

LEMMA EntryKeys ==
    ASSUME CacheInv, NEW r \in DOMAIN cache
    PROVE  cache[r] \in Entry /\ cache[r].key[1] \in Surfaces \cup Tiles
<1>1. cache[r] \in Entry
  BY DEF CacheInv
<1>2. \A e \in Entry : e.key[1] \in Surfaces \cup Tiles
  BY DEF Entry
<1>q. QED
  BY <1>1, <1>2

LEMMA WriteHolds ==
    ASSUME IInv, NEW a \in Surfaces, Write(a)
    PROVE  IInv'
<1>1. /\ WriteTo(a) /\ cache' = Dirty(a) /\ quiet' = quiet \ {a} /\ frame' = frame
      /\ UNCHANGED <<q, at, walk>> /\ Idle /\ refused' = refused /\ quiet \subseteq Surfaces
  BY DEF Write, WriteTo, walk, IInv, GameInv
<1>2. GameInv' /\ \A b \in (Surfaces \cup Tiles) \ {a} : now'[b] = now[b]
  BY <1>1, WriteToHolds
<1>3. WalkInv' /\ OutInv' /\ SpaceInv'
  BY <1>1, IdleWalk
<1>4. CacheInv'
  <2>0. CacheInv /\ cache \in Seq(Entry) /\ DOMAIN cache = 1 .. Len(cache) /\ Len(cache) \in Nat
    BY DEF IInv, CacheInv
  <2>1. /\ DOMAIN cache' = DOMAIN cache
        /\ \A r \in DOMAIN cache :
              cache'[r] = IF cache[r].key[1] = a THEN [cache[r] EXCEPT !.dirty = TRUE]
                          ELSE cache[r]
    BY <1>1 DEF Dirty
  <2>2. ASSUME NEW r \in DOMAIN cache
        PROVE  /\ cache'[r] \in Entry /\ cache'[r].key = cache[r].key
               /\ cache'[r].last = cache[r].last /\ cache'[r].seen = cache[r].seen
               /\ cache'[r].pic = cache[r].pic
               /\ cache[r].key[1] = a => cache'[r].dirty
               /\ cache[r].key[1] # a => cache'[r] = cache[r]
    <3>1. cache[r] \in Entry
      BY <2>0, EntryKeys
    <3>q. QED
      BY <2>1, <3>1 DEF Entry
  <2>3. cache' \in Seq(Entry) /\ Len(cache') = Len(cache)
    <3>1. cache' = [r \in 1 .. Len(cache) |-> cache'[r]]
      BY <1>1, <2>0 DEF Dirty
    <3>2. \A r \in 1 .. Len(cache) : cache'[r] \in Entry
      BY <2>0, <2>2
    <3>q. QED
      BY <2>0, <3>1, <3>2
  <2>4. \A r \in DOMAIN cache' :
          /\ cache'[r].last <= frame /\ cache'[r].seen = Seen(cache'[r].pic)
          /\ cache'[r].key[1] \in Surfaces \ quiet' /\ ~cache'[r].dirty
                => cache'[r].pic = now'[cache'[r].key[1]]
    <3>1. TAKE r \in DOMAIN cache'
    <3>2. r \in DOMAIN cache
      BY <2>1
    <3>3. CASE cache[r].key[1] = a
      BY <2>0, <2>2, <3>2, <3>3 DEF CacheInv
    <3>4. CASE cache[r].key[1] # a
      BY <1>1, <1>2, <2>0, <2>2, <3>2, <3>4 DEF CacheInv
    <3>q. QED
      BY <3>3, <3>4
  <2>5. \A r, s \in DOMAIN cache' : cache'[r].key = cache'[s].key => r = s
    BY <2>0, <2>1, <2>2 DEF CacheInv
  <2>q. QED
    BY <1>1, <2>0, <2>3, <2>4, <2>5 DEF CacheInv
<1>q. QED
  BY <1>2, <1>3, <1>4 DEF IInv

LEMMA SilentWriteHolds ==
    ASSUME IInv, NEW a \in Surfaces \cup Tiles, WriteTo(a), cache' = cache,
           quiet \subseteq quiet', quiet' \subseteq Surfaces,
           a \in Surfaces => a \in quiet'
    PROVE  IInv'
<1>1. /\ frame' = frame /\ UNCHANGED <<q, at, walk>> /\ Idle /\ refused' = refused
  BY DEF WriteTo, walk
<1>2. GameInv' /\ \A b \in (Surfaces \cup Tiles) \ {a} : now'[b] = now[b]
  BY <1>1, WriteToHolds
<1>3. WalkInv' /\ OutInv' /\ SpaceInv'
  BY <1>1, IdleWalk
<1>4. CacheInv'
  <2>1. CacheInv
    BY DEF IInv
  <2>2. \A r \in DOMAIN cache : cache[r].key[1] \in Surfaces \ quiet' =>
            cache[r].key[1] \in Surfaces \ quiet /\ now'[cache[r].key[1]] = now[cache[r].key[1]]
    BY <1>1, <1>2
  <2>q. QED
    BY <1>1, <2>1, <2>2 DEF CacheInv
<1>q. QED
  BY <1>2, <1>3, <1>4 DEF IInv

LEMMA BeginFrameHolds ==
    ASSUME IInv, BeginFrame
    PROVE  IInv'
<1>1. /\ Idle /\ BeginTextures /\ now' = now /\ quiet' = quiet /\ writes' = writes
      /\ CacheInv /\ cache \in Seq(Entry) /\ DOMAIN cache = 1 .. Len(cache)
      /\ Len(cache) \in Nat /\ frame \in 0 .. FrameIds - 1 /\ FrameIds \in Nat \ {0, 1}
  BY FrameAssumption DEF BeginFrame, IInv, CacheInv, game
<1> DEFINE f == (frame + 1) % FrameIds
<1>2. f = IF frame + 1 = FrameIds THEN 0 ELSE frame + 1
  BY <1>1
<1>3. frame' = (IF f = 0 THEN 1 ELSE f) /\ frame' \in 1 .. FrameIds - 1
  BY <1>1, <1>2 DEF BeginTextures
<1>4. /\ DOMAIN cache' = DOMAIN cache /\ cache' \in Seq(Entry) /\ Len(cache') = Len(cache)
      /\ \A r \in DOMAIN cache :
            /\ cache'[r].key = cache[r].key /\ cache'[r].pic = cache[r].pic
            /\ cache'[r].seen = cache[r].seen /\ cache'[r].dirty = cache[r].dirty
            /\ cache'[r].last < frame'
  <2>0. ASSUME NEW r \in DOMAIN cache
        PROVE  cache[r] \in Entry /\ cache[r].last \in Nat /\ cache[r].last <= frame
    <3>1. cache[r] \in Entry
      BY <1>1
    <3>q. QED
      BY <1>1, <3>1 DEF CacheInv, Entry
  <2>1. CASE f # 0
    <3>1. cache' = cache
      BY <1>1, <2>1 DEF BeginTextures
    <3>2. frame' = frame + 1
      <4> HIDE DEF f
      <4>q. QED
        BY <1>2, <1>3, <2>1
    <3>q. QED
      BY <1>1, <2>0, <3>1, <3>2
  <2>2. CASE f = 0
    <3>1. cache' = [r \in 1 .. Len(cache) |-> [cache[r] EXCEPT !.last = 0]] /\ frame' = 1
      BY <1>1, <1>3, <2>2 DEF BeginTextures
    <3>2. ASSUME NEW r \in DOMAIN cache
          PROVE  LET e == [cache[r] EXCEPT !.last = 0] IN
                 /\ e \in Entry /\ e.key = cache[r].key /\ e.pic = cache[r].pic
                 /\ e.seen = cache[r].seen /\ e.dirty = cache[r].dirty /\ e.last = 0
      <4>1. cache[r] \in Entry /\ 0 \in 0 .. FrameIds - 1
        BY <1>1, <2>0
      <4>q. QED
        BY <4>1 DEF Entry
    <3>3. \A r \in 1 .. Len(cache) : [cache[r] EXCEPT !.last = 0] \in Entry
      BY <1>1, <3>2
    <3>4. cache' \in Seq(Entry) /\ Len(cache') = Len(cache) /\ DOMAIN cache' = DOMAIN cache
      BY <1>1, <3>1, <3>3
    <3>5. \A r \in DOMAIN cache : cache'[r] = [cache[r] EXCEPT !.last = 0]
      BY <1>1, <3>1
    <3>q. QED
      BY <3>1, <3>2, <3>4, <3>5
  <2>q. QED
    BY <2>1, <2>2
<1>5. CacheInv'
  <2>1. \A r, s \in DOMAIN cache' : cache'[r].key = cache'[s].key => r = s
    BY <1>1, <1>4 DEF CacheInv
  <2>2. \A r \in DOMAIN cache' : cache'[r].last <= frame'
    <3>1. TAKE r \in DOMAIN cache'
    <3>2. cache'[r].last < frame' /\ cache'[r] \in Entry /\ frame' \in Nat
      BY <1>3, <1>4
    <3>3. \A e \in Entry : e.last \in Nat
      BY <1>1 DEF Entry
    <3>q. QED
      BY <3>2, <3>3
  <2>3. \A r \in DOMAIN cache' :
          /\ cache'[r].seen = Seen(cache'[r].pic)
          /\ cache'[r].key[1] \in Surfaces \ quiet /\ ~cache'[r].dirty
                => cache'[r].pic = now[cache'[r].key[1]]
    BY <1>1, <1>4 DEF CacheInv
  <2>4. Len(cache') <= Capacity
    BY <1>1, <1>4 DEF CacheInv
  <2>5. frame' \in 0 .. FrameIds - 1
    BY <1>1, <1>3
  <2>q. QED
    BY <1>1, <1>4, <2>1, <2>2, <2>3, <2>4, <2>5 DEF CacheInv
<1>6. frames' \in 0 .. MaxFrames
  BY FrameAssumption DEF BeginFrame, IInv, GameInv
<1>7. CASE UNCHANGED <<q, at, walk>>
  <2>1. GameInv'
    BY <1>1, <1>6, <1>7 DEF IInv, GameInv, walk
  <2>q. QED
    BY <1>1, <1>5, <1>7, <2>1, IdleWalk DEF IInv
<1>8. ASSUME NEW x \in Frames, NEW g \in 0 .. 4, g <= Len(x) + 1, q' = x, at' = g,
             i' = 1, j' = 0, tex' = 0, out' = <<>>, dropped' = {}, sliver' = 0, refused' = FALSE
      PROVE  IInv'
  <2>0. x \in Seq(Quad) /\ x # <<>> /\ Len(x) \in Nat
    BY FrameAssumption
  <2>1. GameInv'
    BY <1>1, <1>6, <1>8 DEF IInv, GameInv
  <2>2. WalkInv'
    BY <1>8, <2>0, FrameAssumption DEF WalkInv, Idle
  <2>3. OutInv'
    BY <1>8 DEF OutInv
  <2>4. SpaceInv'
    <3>1. ASSUME NEW r \in DOMAIN cache' PROVE cache'[r].last # frame'
      <4>1. cache'[r].last < frame' /\ cache'[r] \in Entry /\ frame' \in Nat
        BY <1>3, <1>4
      <4>2. \A e \in Entry : e.last \in Nat
        BY <1>1 DEF Entry
      <4>q. QED
        BY <4>1, <4>2
    <3>q. QED
      BY <1>8, <3>1 DEF SpaceInv
  <2>q. QED
    BY <1>5, <2>1, <2>2, <2>3, <2>4 DEF IInv
<1>q. QED
  BY <1>7, <1>8 DEF BeginFrame

-----------------------------------------------------------------------------
(* The steps of a frame.                                                   *)

LEMMA FrameKeysFinite ==
    ASSUME WalkInv, ~Idle
    PROVE  IsFiniteSet(FrameKeys)
<1> DEFINE D == {n \in DOMAIN q : q[n].art # NoArt}
           g == [n \in D |-> Key(q[n])]
<1>1. D \subseteq 1 .. Len(q) /\ Len(q) \in Nat
  BY FrameAssumption DEF WalkInv
<1>2. IsFiniteSet(D)
  BY <1>1, FS_Interval, FS_Subset
<1>3. g \in [D -> FrameKeys] /\ \A y \in FrameKeys : \E n \in D : g[n] = y
  BY DEF FrameKeys
<1>4. g \in Surjection(D, FrameKeys)
  <2> HIDE DEF g, D
  <2>q. QED
    BY <1>3 DEF Surjection
<1> HIDE DEF g, D
<1>q. QED
  BY <1>2, <1>4, FS_Surjection

\* A table full of other textures of this frame leaves no room for one more.
LEMMA FullTable ==
    ASSUME CacheInv, WalkInv, ~Idle, NEW k \in FrameKeys,
           Len(cache) = Capacity,
           \A r \in DOMAIN cache : cache[r].key \in FrameKeys /\ cache[r].key # k
    PROVE  Cardinality(FrameKeys) > Capacity
<1>1. /\ Capacity \in Nat /\ DOMAIN cache = 1 .. Capacity
      /\ \A r, s \in DOMAIN cache : cache[r].key = cache[s].key => r = s
  BY FrameAssumption DEF CacheInv
<1> DEFINE g == [n \in 0 .. Capacity |-> IF n = 0 THEN k ELSE cache[n].key]
<1>2. \A n \in 0 .. Capacity : n # 0 => n \in DOMAIN cache
  BY <1>1
<1>3. /\ g \in [0 .. Capacity -> FrameKeys]
      /\ \A m, n \in 0 .. Capacity : g[m] = g[n] => m = n
  BY <1>1, <1>2
<1>4. g \in Injection(0 .. Capacity, FrameKeys)
  <2> HIDE DEF g
  <2>q. QED
    BY <1>3 DEF Injection, IsInjective
<1> HIDE DEF g
<1>5. /\ IsFiniteSet(FrameKeys) /\ Cardinality(FrameKeys) \in Nat
      /\ Cardinality(0 .. Capacity) = Capacity + 1
  <2>1. IsFiniteSet(FrameKeys)
    BY FrameKeysFinite
  <2>2. Cardinality(FrameKeys) \in Nat
    BY <2>1, FS_CardinalityType
  <2>3. Cardinality(0 .. Capacity) = IF 0 > Capacity THEN 0 ELSE Capacity - 0 + 1
    BY <1>1, FS_Interval
  <2>q. QED
    BY <1>1, <2>1, <2>2, <2>3
<1>6. Cardinality(0 .. Capacity) <= Cardinality(FrameKeys)
  BY <1>4, <1>5, FS_Injection
<1>q. QED
  BY <1>1, <1>5, <1>6

LEMMA QuadsTyped ==
    ASSUME WalkInv, ~Idle
    PROVE  /\ q \in Seq(Quad) /\ Len(q) \in Nat /\ DOMAIN q = 1 .. Len(q)
           /\ \A k \in 1 .. Len(q) : q[k] \in Quad
           /\ Capacity \in Nat
BY FrameAssumption DEF WalkInv

\* A request for the quad k of the frame, with nothing else of the walk
\* touched, keeps what is said of the quads passed, and of the run.
LEMMA WalkRequest ==
    ASSUME IInv, ~Idle, NEW k \in 1 .. Len(q), NEW s, TextureFor(q[k], s),
           UNCHANGED <<game, frame, q, frames>>
    PROVE  /\ GameInv' /\ CacheInv' /\ s \in 0 .. Capacity
           /\ s # 0 => Held(s, q[k])'
           /\ \A t, y : Held(t, y) => Held(t, y)'
           /\ \A r \in DOMAIN cache' : cache'[r].last = frame => cache'[r].key \in FrameKeys
           /\ s = 0 /\ q[k].art # NoArt => Lost'
           /\ Lost => Lost'
<1>0. GameInv /\ CacheInv /\ WalkInv /\ SpaceInv /\ frame' = frame /\ q' = q
  BY DEF IInv
<1>1. q[k] \in Quad /\ k \in DOMAIN q
  BY <1>0, QuadsTyped
<1> DEFINE x == q[k]
<1>2. /\ CacheInv' /\ Kept(x) /\ s \in 0 .. Capacity
      /\ s = 0 => Nothing(x, s)
      /\ refused' \in BOOLEAN /\ (refused => refused')
      /\ s # 0 => Held(s, x)'
  BY <1>0, <1>1, RequestHolds
<1>3. GameInv'
  BY <1>0, <1>2 DEF GameInv, game
<1>4. s # 0 => Held(s, q[k])'
  <2>1. k' = k
    OBVIOUS
  <2>q. QED
    BY <1>0, <1>2 DEF Held, Key
<1>5. FrameKeys' = FrameKeys
  BY <1>0 DEF FrameKeys, Key
<1>6. Lost => Lost'
  BY <1>2, <1>5 DEF Lost
<1>7. x.art # NoArt => Key(x) \in FrameKeys
  BY <1>1 DEF FrameKeys
<1>8. \A r \in DOMAIN cache' : cache'[r].last = frame => cache'[r].key \in FrameKeys
  BY <1>0, <1>2, <1>7 DEF Kept, SpaceInv
<1>9. s = 0 /\ x.art # NoArt => Lost'
  <2>1. CASE s = 0 /\ x.art # NoArt /\ ~refused'
    <3>1. /\ Len(cache) = Capacity
          /\ \A r \in DOMAIN cache : cache[r].last = frame /\ cache[r].key # Key(x)
      BY <1>2, <2>1 DEF Nothing
    <3>2. \A r \in DOMAIN cache : cache[r].key \in FrameKeys
      BY <1>0, <3>1 DEF SpaceInv
    <3>3. Cardinality(FrameKeys) > Capacity
      <4> HIDE DEF x
      <4>q. QED
        BY <1>0, <1>7, <2>1, <3>1, <3>2, FullTable
    <3>q. QED
      BY <1>5, <3>3 DEF Lost
  <2>2. CASE refused'
    BY <2>2 DEF Lost
  <2>q. QED
    BY <2>1, <2>2
<1>10. \A t, y : Held(t, y) => Held(t, y)'
  BY <1>2 DEF Kept
<1>q. QED
  BY <1>2, <1>3, <1>4, <1>6, <1>8, <1>9, <1>10

LEMMA GeometryHolds ==
    ASSUME IInv, Geometry
    PROVE  IInv'
<1>1. /\ ~Idle /\ i <= Len(q) /\ sliver' = i
      /\ UNCHANGED <<game, cache, frame, q, at, i, j, tex, out, dropped, refused, frames>>
  BY DEF Geometry
<1>2. GameInv' /\ CacheInv'
  BY <1>1 DEF IInv, GameInv, CacheInv, game
<1>3. WalkInv'
  <2>1. Len(q) \in Nat /\ i \in 1 .. Len(q) + 1
    BY <1>1, QuadsTyped DEF IInv, WalkInv
  <2>2. \A t, y : Held(t, y) => Held(t, y)'
    BY <1>1 DEF Held, Key, game
  <2>q. QED
    BY <1>1, <2>1, <2>2 DEF IInv, WalkInv, Idle
<1>4. OutInv'
  <2>1. \A t, y : Held(t, y) => Held(t, y)'
    BY <1>1 DEF Held, Key, game
  <2>q. QED
    BY <1>1, <2>1 DEF IInv, OutInv, Draws
<1>5. SpaceInv'
  BY <1>1 DEF IInv, SpaceInv, FrameKeys, Key, Lost, Idle
<1>q. QED
  BY <1>2, <1>3, <1>4, <1>5 DEF IInv

\* Nothing is recorded and the slots of this frame keep their textures.
LEMMA OutKept ==
    ASSUME IInv, ~Idle, UNCHANGED <<q, i, out, dropped>>,
           \A t, y : Held(t, y) => Held(t, y)'
    PROVE  OutInv'
<1>1. /\ OutInv /\ q' = q /\ i' = i /\ out' = out /\ dropped' = dropped
  BY DEF IInv
<1>2. ASSUME NEW d \in DOMAIN out, out[d].slot # 0, NEW k \in out[d].from .. out[d].to
      PROVE  Held(out[d].slot, q[k])'
  <2>1. Held(out[d].slot, q[k])
    BY <1>1, <1>2 DEF OutInv
  <2>2. \A t, y : Held(t, y) => Held(t, y)'
    OBVIOUS
  <2>q. QED
    BY <1>1, <2>1, <2>2 DEF Held, Key
<1>q. QED
  BY <1>1, <1>2 DEF OutInv, Draws

LEMMA StartRunHolds ==
    ASSUME IInv, StartRun
    PROVE  IInv'
<1>0. /\ ~Idle /\ i <= Len(q) /\ j = 0
      /\ j' = i + 1 /\ UNCHANGED <<game, frame, q, at, i, out, dropped, sliver, frames>>
  BY DEF StartRun
<1>1. /\ i \in 1 .. Len(q) /\ q' = q /\ i' = i /\ Len(q) \in Nat /\ frame' = frame
      /\ at' = at /\ sliver' = sliver /\ dropped' = dropped /\ out' = out
      /\ q \in Frames /\ at \in 0 .. Len(q) + 1 /\ sliver \in 0 .. Len(q) + 1
  BY <1>0, QuadsTyped DEF IInv, WalkInv
<1>2. PICK s : TextureFor(q[i], s) /\ tex' = s
  BY DEF StartRun
<1>3. /\ GameInv' /\ CacheInv' /\ s \in 0 .. Capacity
      /\ s # 0 => Held(s, q[i])'
      /\ \A t, y : Held(t, y) => Held(t, y)'
      /\ \A r \in DOMAIN cache' : cache'[r].last = frame => cache'[r].key \in FrameKeys
      /\ s = 0 /\ q[i].art # NoArt => Lost'
      /\ Lost => Lost'
  <2>1. ASSUME NEW k \in 1 .. Len(q), TextureFor(q[k], s)
        PROVE  /\ GameInv' /\ CacheInv' /\ s \in 0 .. Capacity
               /\ s # 0 => Held(s, q[k])'
               /\ \A t, y : Held(t, y) => Held(t, y)'
               /\ \A r \in DOMAIN cache' : cache'[r].last = frame => cache'[r].key \in FrameKeys
               /\ s = 0 /\ q[k].art # NoArt => Lost'
               /\ Lost => Lost'
    BY <1>0, <1>1, <2>1, WalkRequest
  <2>2. TextureFor(q[i], s) /\ i \in 1 .. Len(q)
    BY <1>1, <1>2
  <2> HIDE DEF TextureFor
  <2>3. s # 0 => Held(s, q[i])'
    BY <1>1, <2>1, <2>2 DEF Held, Key
  <2>q. QED
    BY <2>1, <2>2, <2>3
<1>4. WalkInv'
  <2>1. ~Idle' /\ j' \in i' + 1 .. Len(q') + 1
    BY <1>0, <1>1 DEF Idle
  <2>2. \A k \in i' .. j' - 1 : k = i
    BY <1>0, <1>1
  <2>3. tex' # 0 => \A k \in i' .. j' - 1 : Held(s, q[k])'
    BY <1>1, <1>2, <1>3, <2>2 DEF Held, Key
  <2>4. i' \in 1 .. Len(q') + 1
    BY <1>1
  <2>q. QED
    BY <1>1, <1>2, <1>3, <2>1, <2>3, <2>4 DEF WalkInv, Held, Key
<1>5. OutInv'
  BY <1>0, <1>1, <1>3, OutKept
<1>6. SpaceInv'
  <2>1. FrameKeys' = FrameKeys
    BY <1>1 DEF FrameKeys, Key
  <2>2. dropped # {} => Lost
    BY <1>0 DEF IInv, SpaceInv
  <2>q. QED
    BY <1>1, <1>2, <1>3, <2>1, <2>2 DEF SpaceInv
<1>q. QED
  BY <1>3, <1>4, <1>5, <1>6 DEF IInv

\* The run gathered is passed: it becomes a draw, or is counted dropped.
LEMMA EndRunHolds ==
    ASSUME IInv, ~Idle, j # 0, EndRun, q' = q, \A t, y : Held(t, y) => Held(t, y)'
    PROVE  /\ OutInv' /\ i' = j /\ j' = 0 /\ j \in 1 .. Len(q) + 1
           /\ dropped' # {} => dropped # {} \/ (tex = 0 /\ q[i].art # NoArt)
<1>0. /\ OutInv /\ i' = j /\ j' = 0 /\ Len(q) \in Nat /\ tex \in 0 .. Capacity
      /\ i \in 1 .. Len(q) + 1 /\ j \in i + 1 .. Len(q) + 1 /\ Capacity \in Nat
      /\ tex # 0 => \A k \in i .. j - 1 : Held(tex, q[k])
  BY QuadsTyped DEF IInv, WalkInv, EndRun
<1>1. /\ out \in Seq(Draws) /\ DOMAIN out = 1 .. Len(out) /\ Len(out) \in Nat
      /\ Draws' = Draws /\ dropped \subseteq 1 .. i - 1
      /\ \A d \in DOMAIN out : out[d] \in Draws /\ out[d].from \in Nat /\ out[d].to \in Nat
      /\ \A d \in DOMAIN out : out[d].from <= out[d].to /\ out[d].to < i
      /\ \A c, d \in DOMAIN out : c < d => out[c].to < out[d].from
      /\ \A k \in 1 .. i - 1 :
            (\E d \in DOMAIN out : out[d].from <= k /\ k <= out[d].to) <=> k \notin dropped
  <2>1. out \in Seq(Draws) /\ DOMAIN out = 1 .. Len(out) /\ Len(out) \in Nat
    BY <1>0 DEF OutInv
  <2>2. Draws' = Draws
    BY DEF Draws
  <2>3. \A e \in Draws : e.from \in Nat /\ e.to \in Nat
    BY <1>0 DEF Draws
  <2>4. \A d \in DOMAIN out : out[d] \in Draws
    BY <2>1
  <2>q. QED
    BY <1>0, <2>1, <2>2, <2>3, <2>4 DEF OutInv
<1>2. \A d \in DOMAIN out : out[d].slot # 0 =>
          \A k \in out[d].from .. out[d].to : Held(out[d].slot, q[k])
  BY <1>0 DEF OutInv
<1>3. CASE tex = 0 /\ q[i].art # NoArt
  <2>1. dropped' = dropped \cup (i .. j - 1) /\ out' = out
    BY <1>3 DEF EndRun
  <2>2. \A d \in DOMAIN out' :
          /\ out'[d].from <= out'[d].to /\ out'[d].to < j
          /\ out'[d].slot # 0 =>
                \A k \in out'[d].from .. out'[d].to : Held(out[d].slot, q[k])'
    <3>1. TAKE d \in DOMAIN out'
    <3>2. d \in DOMAIN out /\ out'[d] = out[d]
      BY <2>1
    <3>3. out[d].from <= out[d].to /\ out[d].to < j
      BY <1>0, <1>1, <3>2
    <3>4. ASSUME out[d].slot # 0, NEW k \in out[d].from .. out[d].to
          PROVE  Held(out[d].slot, q[k])'
      BY <1>2, <2>1, <3>2, <3>4 DEF Held, Key
    <3>q. QED
      BY <3>2, <3>3, <3>4
  <2>3. dropped' \subseteq 1 .. j - 1
    <3>1. 1 .. i - 1 \subseteq 1 .. j - 1 /\ i .. j - 1 \subseteq 1 .. j - 1
      BY <1>0
    <3>q. QED
      BY <1>1, <2>1, <3>1
  <2>4. ASSUME NEW k \in 1 .. j - 1
        PROVE  (\E d \in DOMAIN out : out[d].from <= k /\ k <= out[d].to) <=> k \notin dropped'
    <3>1. CASE k < i
      <4>1. k \in 1 .. i - 1 /\ (k \in dropped' <=> k \in dropped)
        BY <1>0, <2>1, <3>1
      <4>q. QED
        BY <1>1, <4>1
    <3>2. CASE ~(k < i)
      <4>1. k \in dropped'
        BY <1>0, <2>1, <3>2
      <4>2. ASSUME NEW d \in DOMAIN out PROVE ~(k <= out[d].to)
        BY <1>0, <1>1, <3>2
      <4>q. QED
        BY <4>1, <4>2
    <3>q. QED
      BY <3>1, <3>2
  <2>5. \A c, d \in DOMAIN out' : c < d => out'[c].to < out'[d].from
    BY <1>1, <2>1
  <2>6. out' \in Seq(Draws)
    BY <1>1, <2>1
  <2>7. OutInv'
    BY <1>0, <1>1, <2>1, <2>2, <2>3, <2>4, <2>5, <2>6 DEF OutInv, Held, Key
  <2>q. QED
    BY <1>0, <1>3, <2>7
<1>4. CASE ~(tex = 0 /\ q[i].art # NoArt)
  <2> DEFINE r == [from |-> i, to |-> j - 1, slot |-> tex]
             n == Len(out) + 1
  <2>1. out' = Append(out, r) /\ dropped' = dropped
    BY <1>4 DEF EndRun
  <2>2. r \in Draws /\ r.from = i /\ r.to = j - 1 /\ r.slot = tex
    BY <1>0 DEF Draws
  <2> HIDE DEF r
  <2>3. /\ out' \in Seq(Draws) /\ Len(out') = n /\ DOMAIN out' = 1 .. n
        /\ out'[n] = r /\ \A d \in DOMAIN out : out'[d] = out[d]
    BY <1>1, <2>1, <2>2
  <2>4. \A d \in 1 .. n : d # n => d \in DOMAIN out
    BY <1>1
  <2>5. \A d \in DOMAIN out' :
          /\ out'[d].from <= out'[d].to /\ out'[d].to < j
          /\ out'[d].slot # 0 =>
                \A k \in out'[d].from .. out'[d].to : Held(out'[d].slot, q[k])
    <3>1. TAKE d \in DOMAIN out'
    <3>2. CASE d = n
      BY <1>0, <2>2, <2>3, <3>2
    <3>3. CASE d # n
      <4>1. d \in DOMAIN out /\ out'[d] = out[d]
        BY <2>3, <2>4, <3>3
      <4>2. out[d].from <= out[d].to /\ out[d].to < j
        BY <1>0, <1>1, <4>1
      <4>q. QED
        BY <1>2, <4>1, <4>2
    <3>q. QED
      BY <3>2, <3>3
  <2>6. \A c, d \in DOMAIN out' : c < d => out'[c].to < out'[d].from
    <3>1. TAKE c, d \in DOMAIN out'
    <3>2. HAVE c < d
    <3>3. c \in DOMAIN out /\ out'[c] = out[c]
      BY <1>1, <2>3, <2>4, <3>2
    <3>4. CASE d = n
      BY <1>0, <1>1, <2>2, <2>3, <3>3, <3>4
    <3>5. CASE d # n
      BY <1>1, <2>3, <2>4, <3>2, <3>3, <3>5
    <3>q. QED
      BY <3>4, <3>5
  <2>7. ASSUME NEW k \in 1 .. j - 1
        PROVE  (\E d \in DOMAIN out' : out'[d].from <= k /\ k <= out'[d].to) <=> k \notin dropped
    <3>0. n \in DOMAIN out' /\ \A d \in DOMAIN out : d \in DOMAIN out'
      BY <1>1, <2>3
    <3>1. CASE k < i
      <4>1. k \in 1 .. i - 1 /\ ~(out'[n].from <= k)
        BY <1>0, <2>2, <2>3, <3>1
      <4>2. (\E d \in DOMAIN out' : out'[d].from <= k /\ k <= out'[d].to)
             <=> (\E d \in DOMAIN out : out[d].from <= k /\ k <= out[d].to)
        BY <2>3, <2>4, <3>0, <4>1
      <4>q. QED
        BY <1>1, <4>1, <4>2
    <3>2. CASE ~(k < i)
      <4>1. k \notin dropped
        BY <1>0, <1>1, <3>2
      <4>2. out'[n].from <= k /\ k <= out'[n].to
        BY <1>0, <2>2, <2>3, <3>2
      <4>q. QED
        BY <3>0, <4>1, <4>2
    <3>q. QED
      BY <3>1, <3>2
  <2>8. dropped' \subseteq 1 .. j - 1
    BY <1>0, <1>1, <2>1
  <2>9. ASSUME NEW d \in DOMAIN out', out'[d].slot # 0,
                NEW k \in out'[d].from .. out'[d].to
         PROVE  /\ out'[d].slot \in DOMAIN cache' /\ q'[k].art # NoArt
                /\ cache'[out'[d].slot].key = Key(q'[k]) /\ cache'[out'[d].slot].last = frame'
                /\ ~cache'[out'[d].slot].dirty
                /\ cache'[out'[d].slot].seen = Seen(now'[q'[k].art])
    <3>1. Held(out'[d].slot, q[k])
      BY <2>5, <2>9
    <3>2. ASSUME NEW t, NEW y, Held(t, y) PROVE Held(t, y)'
      BY <3>2
    <3>3. \A t, y : Held(t, y) =>
            /\ t \in DOMAIN cache' /\ y.art # NoArt
            /\ cache'[t].key = Key(y) /\ cache'[t].last = frame'
            /\ ~cache'[t].dirty /\ cache'[t].seen = Seen(now'[y.art])
      BY <3>2 DEF Held, Key
    <3>q. QED
      BY <3>1, <3>3
  <2>10. OutInv'
    BY <1>0, <1>1, <2>1, <2>3, <2>5, <2>6, <2>7, <2>8, <2>9 DEF OutInv, Held, Key
  <2>q. QED
    BY <1>0, <2>1, <2>10
<1>q. QED
  BY <1>3, <1>4

LEMMA GatherHolds ==
    ASSUME IInv, Gather
    PROVE  IInv'
<1>0. /\ ~Idle /\ j # 0 /\ UNCHANGED <<game, frame, q, at, tex, sliver, frames>>
  BY DEF Gather
<1>1. /\ j \in i + 1 .. Len(q) + 1 /\ i \in 1 .. Len(q) + 1 /\ q' = q /\ Len(q) \in Nat
      /\ frame' = frame /\ at' = at /\ sliver' = sliver /\ tex' = tex
      /\ q \in Frames /\ at \in 0 .. Len(q) + 1 /\ sliver \in 0 .. Len(q) + 1
      /\ tex \in 0 .. Capacity /\ i \in DOMAIN q
      /\ tex # 0 => \A k \in i .. j - 1 : Held(tex, q[k])
  BY <1>0, QuadsTyped DEF IInv, WalkInv
<1>2. /\ FrameKeys' = FrameKeys
      /\ dropped # {} => Lost
      /\ tex = 0 /\ q[i].art # NoArt => Lost
      /\ \A r \in DOMAIN cache : cache[r].last = frame => cache[r].key \in FrameKeys
  BY <1>0, <1>1 DEF FrameKeys, Key, IInv, SpaceInv
\* Ended, with a cache that still holds what it held.
<1>3. ASSUME EndRun, GameInv', CacheInv', Lost => Lost',
             \A t, y : Held(t, y) => Held(t, y)',
             \A r \in DOMAIN cache' : cache'[r].last = frame => cache'[r].key \in FrameKeys
      PROVE  IInv'
  <2>1. /\ OutInv' /\ i' = j /\ j' = 0 /\ j \in 1 .. Len(q) + 1
        /\ dropped' # {} => dropped # {} \/ (tex = 0 /\ q[i].art # NoArt)
    BY <1>0, <1>1, <1>3, EndRunHolds
  <2>2. WalkInv'
    BY <1>0, <1>1, <2>1 DEF WalkInv, Idle
  <2>3. SpaceInv'
    <3>1. j' = 0 /\ frame' = frame /\ FrameKeys' = FrameKeys
      BY <1>1, <1>2, <2>1
    <3>2. \A r \in DOMAIN cache' : cache'[r].last = frame' => cache'[r].key \in FrameKeys'
      BY <1>3, <3>1
    <3>3. dropped' # {} => Lost'
      BY <1>2, <1>3, <2>1
    <3>q. QED
      BY <3>1, <3>2, <3>3 DEF SpaceInv
  <2>q. QED
    BY <1>3, <2>1, <2>2, <2>3 DEF IInv
<1>4. ASSUME MayJoin, NEW s, TextureFor(q[j], s),
             IF s = tex THEN j' = j + 1 /\ UNCHANGED <<i, out, dropped>> ELSE EndRun
      PROVE  IInv'
  <2>1. PICK n \in 1 .. Len(q) : n = j
    <3>1. j \in 1 .. Len(q)
      BY <1>1, <1>4 DEF MayJoin
    <3>q. QED
      BY <3>1
  <2>2. /\ GameInv' /\ CacheInv' /\ s \in 0 .. Capacity
        /\ s # 0 => Held(s, q[n])'
        /\ \A t, y : Held(t, y) => Held(t, y)'
        /\ \A r \in DOMAIN cache' : cache'[r].last = frame => cache'[r].key \in FrameKeys
        /\ Lost => Lost'
    <3>1. TextureFor(q[n], s)
      BY <1>4, <2>1
    <3>2. UNCHANGED <<game, frame, q, frames>>
      BY <1>0
    <3>q. QED
      BY <1>0, <3>1, <3>2, WalkRequest
  <2>3. CASE s = tex
    <3>1. j' = j + 1 /\ i' = i /\ out' = out /\ dropped' = dropped
      BY <1>4, <2>3
    <3>2. tex # 0 => \A k \in i .. j' - 1 : Held(tex, q[k])'
      <4>1. SUFFICES ASSUME tex # 0, NEW k \in i .. j' - 1 PROVE Held(tex, q[k])'
        OBVIOUS
      <4>2. CASE k = n
        BY <1>1, <2>2, <2>3, <4>1, <4>2 DEF Held, Key
      <4>3. CASE k # n
        <5>1. k \in i .. j - 1
          BY <1>1, <2>1, <3>1, <4>3
        <5>2. Held(tex, q[k])
          BY <1>1, <4>1, <5>1
        <5>q. QED
          BY <1>1, <2>2, <5>2 DEF Held, Key
      <4>q. QED
        BY <4>2, <4>3
    <3>3. WalkInv'
      BY <1>0, <1>1, <2>1, <3>1, <3>2 DEF WalkInv, Idle, Held, Key
    <3>4. OutInv'
      BY <1>0, <1>1, <2>2, <3>1, OutKept
    <3>5. SpaceInv'
      <4>1. FrameKeys' = FrameKeys /\ frame' = frame /\ tex' = tex /\ q' = q /\ i' = i
        BY <1>1, <1>2, <3>1
      <4>2. \A r \in DOMAIN cache' : cache'[r].last = frame' => cache'[r].key \in FrameKeys'
        BY <2>2, <4>1
      <4>3. (tex' = 0 /\ q'[i'].art # NoArt => Lost') /\ (dropped' # {} => Lost')
        BY <1>2, <2>2, <3>1, <4>1
      <4>q. QED
        BY <4>1, <4>2, <4>3 DEF SpaceInv
    <3>q. QED
      BY <2>2, <3>3, <3>4, <3>5 DEF IInv
  <2>4. CASE s # tex
    BY <1>3, <1>4, <2>2, <2>4
  <2>q. QED
    BY <2>3, <2>4
<1>5. ASSUME EndRun, UNCHANGED <<cache, refused>>
      PROVE  IInv'
  <2>1. GameInv' /\ CacheInv'
    BY <1>0, <1>5 DEF IInv, GameInv, CacheInv, game
  <2>2. \A t, y : Held(t, y) => Held(t, y)'
    BY <1>0, <1>5 DEF Held, Key, game
  <2>3. Lost => Lost'
    <3>1. refused' = refused /\ FrameKeys' = FrameKeys
      BY <1>2, <1>5
    <3>q. QED
      BY <3>1 DEF Lost
  <2>q. QED
    BY <1>2, <1>3, <1>5, <2>1, <2>2, <2>3
<1>q. QED
  BY <1>4, <1>5 DEF Gather

LEMMA EndFrameHolds ==
    ASSUME IInv, EndFrame
    PROVE  IInv'
<1>0. /\ ~Idle /\ i > Len(q) /\ UNCHANGED <<game, cache, frame, frames>>
      /\ Len(q) \in Nat
  BY QuadsTyped DEF EndFrame, IInv
<1>1. GameInv' /\ CacheInv'
  <2>1. refused' \in BOOLEAN
    BY DEF EndFrame, IInv, GameInv
  <2>q. QED
    BY <1>0, <2>1 DEF IInv, GameInv, CacheInv, game
<1>2. CASE UNCHANGED <<q, at, i, j, tex, out, dropped, refused>> /\ sliver' = Len(q)
  <2>1. \A t, y : Held(t, y) => Held(t, y)'
    BY <1>0 DEF Held, Key, game
  <2>2. WalkInv'
    BY <1>0, <1>2, <2>1 DEF IInv, WalkInv, Idle
  <2>3. OutInv'
    BY <1>0, <1>2, <2>1, OutKept
  <2>4. SpaceInv'
    BY <1>0, <1>2 DEF IInv, SpaceInv, FrameKeys, Key, Lost, Idle
  <2>q. QED
    BY <1>1, <2>2, <2>3, <2>4 DEF IInv
<1>3. CASE /\ q' = <<>> /\ at' = 0 /\ i' = 0 /\ j' = 0 /\ tex' = 0
           /\ out' = <<>> /\ dropped' = {} /\ sliver' = 0 /\ refused' = FALSE
  <2>1. WalkInv'
    BY <1>3, FrameAssumption DEF WalkInv, Idle
  <2>2. OutInv'
    BY <1>3 DEF OutInv
  <2>3. SpaceInv'
    BY <1>3 DEF SpaceInv, Idle
  <2>q. QED
    BY <1>1, <2>1, <2>2, <2>3 DEF IInv
<1>q. QED
  BY <1>2, <1>3 DEF EndFrame

LEMMA StepPreserves == IInv /\ [Next]_vars => IInv'
<1> SUFFICES ASSUME IInv, [Next]_vars PROVE IInv'
  OBVIOUS
<1>1. ASSUME NEW s \in Surfaces, Write(s) \/ QuietWrite(s) PROVE IInv'
  <2>1. CASE Write(s)
    BY <2>1, WriteHolds
  <2>2. CASE QuietWrite(s)
    <3>1. /\ s \in Surfaces \cup Tiles /\ WriteTo(s) /\ cache' = cache
          /\ quiet \subseteq quiet' /\ quiet' \subseteq Surfaces /\ s \in quiet'
      BY <2>2 DEF QuietWrite, IInv, GameInv
    <3>q. QED
      BY <3>1, SilentWriteHolds
  <2>q. QED
    BY <1>1, <2>1, <2>2
<1>2. ASSUME NEW a \in Tiles, TileWrite(a) PROVE IInv'
  <2>1. /\ a \in Surfaces \cup Tiles /\ WriteTo(a) /\ cache' = cache
        /\ quiet' = quiet /\ quiet \subseteq Surfaces /\ a \notin Surfaces
    BY <1>2, FrameAssumption DEF TileWrite, IInv, GameInv
  <2>q. QED
    BY <2>1, SilentWriteHolds
<1>3. CASE BeginFrame
  BY <1>3, BeginFrameHolds
<1>4. CASE Geometry
  BY <1>4, GeometryHolds
<1>5. CASE StartRun
  BY <1>5, StartRunHolds
<1>6. CASE Gather
  BY <1>6, GatherHolds
<1>7. CASE EndFrame
  BY <1>7, EndFrameHolds
<1>8. CASE UNCHANGED vars
  <2>1. \A t, y : Held(t, y) => Held(t, y)'
    BY <1>8 DEF Held, Key, vars, game, walk
  <2>2. GameInv' /\ CacheInv'
    BY <1>8 DEF IInv, GameInv, CacheInv, vars, game, walk
  <2>3. WalkInv'
    BY <1>8, <2>1 DEF IInv, WalkInv, Idle, vars, walk
  <2>4. OutInv'
    BY <1>8, <2>1 DEF IInv, OutInv, Draws, vars, walk
  <2>5. SpaceInv'
    BY <1>8 DEF IInv, SpaceInv, FrameKeys, Key, Lost, Idle, vars, walk
  <2>q. QED
    BY <2>2, <2>3, <2>4, <2>5 DEF IInv
<1>q. QED
  BY <1>1, <1>2, <1>3, <1>4, <1>5, <1>6, <1>7, <1>8 DEF Next

LEMMA Invariance == Spec => []IInv
BY InitHolds, StepPreserves, PTL DEF Spec

-----------------------------------------------------------------------------
(* The theorems.                                                           *)

(* The cache stays inside its table with one texture per key, and every    *)
(* draw inside its frame.                                                  *)
THEOREM TypeCorrect == Spec => []TypeOK
<1>1. ASSUME IInv PROVE TypeOK
  <2>1. GameInv /\ CacheInv /\ WalkInv /\ OutInv
    BY <1>1 DEF IInv
  <2>2. CASE Idle
    <3>1. /\ q = <<>> /\ i = 0 /\ j = 0 /\ out = <<>> /\ dropped = {} /\ Len(q) = 0
      BY <2>1, <2>2 DEF Idle, WalkInv
    <3>2. /\ i \in 0 .. Len(q) + 1 /\ j \in 0 .. Len(q) + 1 /\ dropped \subseteq 1 .. Len(q)
          /\ q \in Frames \cup {<<>>}
      BY <3>1
    <3>q. QED
      BY <2>1, <3>2 DEF TypeOK, GameInv, CacheInv, WalkInv, OutInv, Draws
  <2>3. CASE ~Idle
    <3>1. Len(q) \in Nat
      BY <2>1, <2>3, QuadsTyped
    <3>2. /\ q \in Frames /\ i \in 1 .. Len(q) + 1 /\ (j = 0 \/ j \in i + 1 .. Len(q) + 1)
      BY <2>1, <2>3 DEF WalkInv
    <3>3. /\ i \in 0 .. Len(q) + 1 /\ j \in 0 .. Len(q) + 1
      BY <3>1, <3>2
    <3>4. dropped \subseteq 1 .. Len(q)
      <4>1. dropped \subseteq 1 .. i - 1
        BY <2>1 DEF OutInv
      <4>2. 1 .. i - 1 \subseteq 1 .. Len(q)
        BY <3>1, <3>2
      <4>q. QED
        BY <4>1, <4>2
    <3>q. QED
      BY <2>1, <3>2, <3>3, <3>4 DEF TypeOK, GameInv, CacheInv, WalkInv, OutInv, Draws
  <2>q. QED
    BY <2>2, <2>3
<1>q. QED
  BY <1>1, Invariance, PTL

LEMMA BoundHeld ==
    ASSUME IInv, NEW b \in Bound
    PROVE  Held(out[b[2]].slot, q[b[1]])
<1>1. /\ b[1] \in DOMAIN q /\ b[2] \in DOMAIN out /\ out[b[2]].slot # 0
      /\ out[b[2]].from <= b[1] /\ b[1] <= out[b[2]].to
  BY DEF Bound
<1>2. ~Idle /\ OutInv /\ WalkInv
  BY <1>1 DEF IInv, WalkInv, Idle
<1>3. b[1] \in Nat /\ Len(q) \in Nat
  BY <1>1, <1>2, QuadsTyped
<1>4. out[b[2]] \in Draws
  BY <1>1, <1>2 DEF OutInv
<1>5. b[1] \in out[b[2]].from .. out[b[2]].to
  BY <1>1, <1>3, <1>4 DEF Draws
<1>q. QED
  BY <1>1, <1>2, <1>5 DEF OutInv

(* Until the frame is submitted the texture a draw was recorded with is    *)
(* the one of every quad in it: texture_lru_choose never gives up a slot   *)
(* this frame uses, and engine_draw joins no quad of another texture.      *)
THEOREM TexturesStay == Spec => []RunsKeepTheirTexture
<1>1. ASSUME IInv PROVE RunsKeepTheirTexture
  BY <1>1, BoundHeld DEF RunsKeepTheirTexture, Held
<1>q. QED
  BY <1>1, Invariance, PTL

(* What a draw samples is what its surface holds, but for the pixels the   *)
(* hash skips of a surface nobody announced a write to.                    *)
THEOREM DrawsAreCurrent == Spec => []PicturesAreCurrent
<1>1. ASSUME IInv PROVE PicturesAreCurrent
  <2>1. ASSUME NEW b \in Bound
        PROVE  LET art == q[b[1]].art
                   pic == cache[out[b[2]].slot].pic
               IN  /\ Seen(pic) = Seen(now[art])
                   /\ art \in Surfaces \ quiet => pic = now[art]
    <3> DEFINE s == out[b[2]].slot
               x == q[b[1]]
    <3>1. Held(s, x)
      BY <1>1, BoundHeld
    <3> HIDE DEF s, x
    <3>2. /\ s \in DOMAIN cache /\ cache[s].key[1] = x.art /\ ~cache[s].dirty
          /\ cache[s].seen = Seen(now[x.art])
      BY <3>1 DEF Held, Key
    <3>3. cache[s].seen = Seen(cache[s].pic) /\
          (x.art \in Surfaces \ quiet => cache[s].pic = now[x.art])
      BY <1>1, <3>2 DEF IInv, CacheInv
    <3>4. Seen(cache[s].pic) = Seen(now[x.art])
      BY <3>2, <3>3
    <3>q. QED
      BY <3>3, <3>4 DEF s, x
  <2>q. QED
    BY <2>1 DEF PicturesAreCurrent
<1>q. QED
  BY <1>1, Invariance, PTL

(* The quads passed are each in one draw, in painter order, or dropped;    *)
(* and art is dropped only when the GPU refused a texture or the frame     *)
(* itself uses more textures than the cache holds.                         *)
THEOREM QuadsAreSharedOut == Spec => []EveryQuadOnce
<1>1. ASSUME IInv PROVE EveryQuadOnce
  <2>0. SUFFICES ASSUME ~Idle PROVE EveryQuadOnce
    BY DEF EveryQuadOnce
  <2>1. /\ OutInv /\ WalkInv /\ SpaceInv /\ Len(q) \in Nat /\ i \in 1 .. Len(q) + 1
        /\ DOMAIN out \subseteq Nat
    BY <1>1, <2>0, QuadsTyped DEF IInv, WalkInv, OutInv
  <2>2. \A d \in DOMAIN out : out[d].from \in Nat /\ out[d].to \in Nat
    <3>1. \A d \in DOMAIN out : out[d] \in Draws
      BY <2>1 DEF OutInv
    <3>q. QED
      BY <2>1, <3>1 DEF Draws
  <2>3. ASSUME NEW k \in 1 .. i - 1
        PROVE  Cardinality({d \in DOMAIN out : out[d].from <= k /\ k <= out[d].to})
                  = IF k \in dropped THEN 0 ELSE 1
    <3> DEFINE D == {d \in DOMAIN out : out[d].from <= k /\ k <= out[d].to}
    <3>1. CASE k \in dropped
      <4>1. D = {}
        BY <2>1, <3>1 DEF OutInv
      <4>q. QED
        BY <3>1, <4>1, FS_EmptySet
    <3>2. CASE k \notin dropped
      <4>1. PICK d \in D : TRUE
        BY <2>1, <3>2 DEF OutInv
      <4>2. ASSUME NEW c \in D PROVE c = d
        <5>1. c < d => out[c].to < out[d].from
          BY <2>1, <4>1, <4>2 DEF OutInv
        <5>2. d < c => out[d].to < out[c].from
          BY <2>1, <4>1, <4>2 DEF OutInv
        <5>q. QED
          BY <2>1, <2>2, <4>1, <4>2, <5>1, <5>2
      <4>3. D = {d}
        BY <4>1, <4>2
      <4>q. QED
        BY <3>2, <4>3, FS_Singleton
    <3>q. QED
      BY <3>1, <3>2
  <2>4. WorkingSetFits
    BY <2>0, <2>1 DEF SpaceInv, Lost, FrameKeys, WorkingSetFits
  <2>q. QED
    BY <2>1, <2>3, <2>4 DEF EveryQuadOnce, OutInv
<1>q. QED
  BY <1>1, Invariance, PTL


-----------------------------------------------------------------------------
(* The display lists (DisplayLists): the invariant.                        *)

Texture == [w : Nat, h : Nat, busy : BOOLEAN, text : SUBSET (1 .. MaxRequests)]
Recorded(s) == IF s \in DOMAIN list THEN list[s].e ELSE <<>>
AskedFor(s) == {r.id : r \in {x \in asked : x.dst = s}}
Losses == statDropped + exhausted - base

\* There are never more lists or entries than the caps, and the marks are
\* within their lists.
ListInv ==
    /\ DOMAIN list \subseteq Destinations
    /\ IsFiniteSet(DOMAIN list) /\ Cardinality(DOMAIN list) <= ListsMax
    /\ \A s \in DOMAIN list :
          /\ list[s] \in [e : Seq(ListEntry), ov : Int]
          /\ Len(list[s].e) <= ListMax /\ list[s].ov \in NoMark .. Len(list[s].e)

\* A tile's part of the arena is inside what is used, and holds its pixels.
HasPixels(e) ==
    e.tile => /\ e.off + Area(e.size) <= used
              /\ \A k \in e.off .. e.off + Area(e.size) - 1 : arena[k] = e.id
ArenaInv ==
    /\ used \in 0 .. ArenaMax
    /\ arena \in [0 .. ArenaMax - 1 -> 0 .. MaxRequests]
    /\ \A s \in DOMAIN list : \A n \in DOMAIN list[s].e : HasPixels(list[s].e[n])

\* Between two frames no texture of the pool is claimed.
PoolInv ==
    /\ pool \in Seq(Texture) /\ Len(pool) <= PoolMax
    /\ \A k \in DOMAIN pool : ~pool[k].busy

\* An entry is a request of this frame for its list's destination, above the
\* overlay mark when it was made after the mark was set.
AskedInv ==
    /\ requests \in 0 .. MaxRequests
    /\ asked \subseteq [id : 1 .. requests, dst : Destinations, ui : BOOLEAN]
    /\ IsFiniteSet(asked)
    /\ \A x, y \in asked : x.id = y.id => x = y
    /\ \A s \in DOMAIN list : \A n \in DOMAIN list[s].e :
          \E x \in asked : /\ x.id = list[s].e[n].id /\ x.dst = s
                           /\ x.ui <=> list[s].ov # NoMark /\ n > list[s].ov

\* What is missing from a list that exists, or could, has been counted; and
\* what was counted or recorded was requested.
LossInv ==
    /\ {statDropped, exhausted, base} \subseteq Nat
    /\ base <= requests /\ statDropped + exhausted <= requests
    /\ \A s \in Destinations :
          /\ statDropped + exhausted + Len(Recorded(s)) <= requests
          /\ s \in DOMAIN list \/ Cardinality(DOMAIN list) < ListsMax =>
                Cardinality(AskedFor(s) \ Ids(Recorded(s))) <= Losses

\* What is shown was drawn with textures the pool has.
ShownInv ==
    /\ TextIsOwn /\ FrameIsThisFrame /\ UiIsUnlit /\ TilesFitTheirTextures
    /\ \A n \in DOMAIN Drew : Drew[n].slot \in 1 .. Len(pool)

ListsInv == ListInv /\ ArenaInv /\ PoolInv /\ AskedInv /\ LossInv /\ ShownInv

-----------------------------------------------------------------------------
(* Recording.                                                              *)

LEMMA AppendHas ==
    ASSUME NEW S, NEW p \in Seq(S), NEW y \in S
    PROVE  /\ Append(p, y) \in Seq(S) /\ Len(Append(p, y)) = Len(p) + 1
           /\ DOMAIN Append(p, y) = 1 .. Len(p) + 1
           /\ \A k \in 1 .. Len(p) : Append(p, y)[k] = p[k]
           /\ Append(p, y)[Len(p) + 1] = y
<1>1. /\ Append(p, y) \in Seq(S) /\ Len(Append(p, y)) = Len(p) + 1
      /\ \A k \in 1 .. Len(p) : Append(p, y)[k] = p[k]
      /\ Append(p, y)[Len(p) + 1] = y
  BY AppendProperties
<1>2. DOMAIN Append(p, y) = 1 .. Len(Append(p, y))
  BY <1>1, LenProperties
<1>q. QED
  BY <1>1, <1>2

LEMMA SizesArePositive ==
    ASSUME NEW z \in TileSizes
    PROVE  z.w \in Nat \ {0} /\ z.h \in Nat \ {0} /\ Area(z) \in Nat \ {0}
<1>1. z.w \in Nat \ {0} /\ z.h \in Nat \ {0}
  BY SizeAssumption
<1>2. \A a, b \in Nat \ {0} : a * b \in Nat \ {0}
  BY SMT
<1>q. QED
  BY <1>1, <1>2 DEF Area

\* The lists after list_index.
LEMMA IndexedHas ==
    ASSUME ListInv, NEW s \in Destinations
    PROVE  LET l == Indexed(s)
           IN  /\ DOMAIN list \subseteq DOMAIN l /\ DOMAIN l \subseteq Destinations
               /\ DOMAIN l \subseteq DOMAIN list \cup {s}
               /\ IsFiniteSet(DOMAIN l) /\ Cardinality(DOMAIN l) <= ListsMax
               /\ \A d \in DOMAIN list : l[d] = list[d]
               /\ \A d \in DOMAIN l \ DOMAIN list : d = s /\ l[d] = Empty
               /\ s \notin DOMAIN l => l = list /\ Cardinality(DOMAIN l) = ListsMax
<1>1. CASE s \in DOMAIN list \/ Cardinality(DOMAIN list) = ListsMax
  BY <1>1 DEF ListInv, Indexed
<1>2. CASE ~(s \in DOMAIN list \/ Cardinality(DOMAIN list) = ListsMax)
  <2> DEFINE l == Indexed(s)
  <2>1. l = [d \in DOMAIN list \cup {s} |-> IF d = s THEN Empty ELSE list[d]]
    BY <1>2 DEF Indexed
  <2>2. IsFiniteSet(DOMAIN list \cup {s})
        /\ Cardinality(DOMAIN list \cup {s}) = Cardinality(DOMAIN list) + 1
    BY <1>2, FS_AddElement DEF ListInv
  <2>3. Cardinality(DOMAIN list) \in Nat /\ ListsMax \in Nat
    BY FS_CardinalityType, SizeAssumption DEF ListInv
  <2>4. Cardinality(DOMAIN list) + 1 <= ListsMax
    BY <1>2, <2>3 DEF ListInv
  <2>q. QED
    BY <1>2, <2>1, <2>2, <2>4 DEF ListInv
<1>q. QED
  BY <1>1, <1>2

LEMMA EmptyIsAList ==
    /\ Empty \in [e : Seq(ListEntry), ov : Int]
    /\ Len(Empty.e) = 0 /\ Empty.ov = NoMark /\ DOMAIN Empty.e = {}
BY DEF Empty, NoMark

LEMMA RecordedIsASequence ==
    ASSUME ListInv, NEW s
    PROVE  /\ Recorded(s) \in Seq(ListEntry) /\ Len(Recorded(s)) \in Nat
           /\ DOMAIN Recorded(s) = 1 .. Len(Recorded(s))
<1>1. Recorded(s) \in Seq(ListEntry)
  BY DEF ListInv, Recorded
<1>q. QED
  BY <1>1, LenProperties

LEMMA AskedForIsFinite ==
    ASSUME IsFiniteSet(asked), NEW s, NEW S
    PROVE  IsFiniteSet(AskedFor(s)) /\ IsFiniteSet(AskedFor(s) \ S)
<1> DEFINE f == [x \in asked |-> x.id]
           T == {f[x] : x \in asked}
<1>1. f \in Surjection(asked, T)
  BY DEF Surjection
<1>2. IsFiniteSet(T)
  BY <1>1, FS_Surjection
<1>3. AskedFor(s) \subseteq T
  BY DEF AskedFor
<1> HIDE DEF T
<1>q. QED
  BY <1>2, <1>3, FS_Subset

LEMMA AskedForGrows ==
    ASSUME AskedInv, NEW s, Request(s), NEW t
    PROVE  AskedFor(t)' = IF t = s THEN AskedFor(t) \cup {requests + 1} ELSE AskedFor(t)
<1> DEFINE x == [id |-> requests + 1, dst |-> s,
                 ui |-> s \in DOMAIN list /\ list[s].ov # NoMark]
<1>1. asked' = asked \cup {x}
  BY DEF Request
<1>2. x.id = requests + 1 /\ x.dst = s
  OBVIOUS
<1> HIDE DEF x
<1>q. QED
  BY <1>1, <1>2 DEF AskedFor

LEMMA SoftwareHolds ==
    ASSUME shown = Software
    PROVE  ShownInv
BY DEF ShownInv, TextIsOwn, FrameIsThisFrame, LossesAreCounted, UiIsUnlit,
       TilesFitTheirTextures, Drew, Software

\* A request: a new number, of this frame.
LEMMA RequestIsNew ==
    ASSUME AskedInv, NEW s \in Destinations, Request(s)
    PROVE  /\ requests' = requests + 1 /\ requests' \in 0 .. MaxRequests
           /\ asked' \subseteq [id : 1 .. requests', dst : Destinations, ui : BOOLEAN]
           /\ IsFiniteSet(asked')
           /\ \A x, y \in asked' : x.id = y.id => x = y
           /\ asked \subseteq asked'
           /\ \E x \in asked' : /\ x.id = requests + 1 /\ x.dst = s
                                /\ x.ui <=> s \in DOMAIN list /\ list[s].ov # NoMark
           /\ \A x \in asked : x.id < requests + 1
<1> DEFINE x == [id |-> requests + 1, dst |-> s,
                 ui |-> s \in DOMAIN list /\ list[s].ov # NoMark]
<1>1. asked' = asked \cup {x} /\ requests' = requests + 1 /\ requests < MaxRequests
  BY DEF Request
<1>2. \A y \in asked : y.id \in 1 .. requests /\ y \in [id : 1 .. requests, dst : Destinations, ui : BOOLEAN]
  BY DEF AskedInv
<1>3. x.id = requests + 1 /\ x.dst = s /\ requests \in Nat /\ MaxRequests \in Nat
  BY SizeAssumption DEF AskedInv
<1>4. x.ui <=> s \in DOMAIN list /\ list[s].ov # NoMark
  OBVIOUS
<1>5. x \in [id : 1 .. requests + 1, dst : Destinations, ui : BOOLEAN]
  BY <1>3
<1> HIDE DEF x
<1>6. \A y \in asked : y.id # x.id /\ y.id < requests + 1
  BY <1>2, <1>3
<1>7. IsFiniteSet(asked')
  BY <1>1, FS_AddElement DEF AskedInv
<1>8. asked' \subseteq [id : 1 .. requests', dst : Destinations, ui : BOOLEAN]
  <2>1. \A y \in asked : y \in [id : 1 .. requests + 1, dst : Destinations, ui : BOOLEAN]
    BY <1>2, <1>3
  <2>q. QED
    BY <1>1, <1>5, <2>1
<1>9. \A y, z \in asked' : y.id = z.id => y = z
  BY <1>1, <1>6 DEF AskedInv
<1>10. requests' \in 0 .. MaxRequests
  BY <1>1, <1>3
<1>q. QED
  BY <1>1, <1>3, <1>4, <1>6, <1>7, <1>8, <1>9, <1>10

\* A request of which nothing is recorded: it is counted, unless there is no
\* room for a list.
LEMMA LostHolds ==
    ASSUME ListsInv, NEW s \in Destinations, Request(s), UNCHANGED <<used, arena>>,
           list' = list \/ list' = Indexed(s),
           \/ statDropped' = statDropped + 1
           \/ statDropped' = statDropped /\ list' = Indexed(s) /\ s \notin DOMAIN list'
    PROVE  ListsInv'
<1> DEFINE l == Indexed(s)
<1>i. /\ ListInv /\ ArenaInv /\ PoolInv /\ AskedInv /\ LossInv
  BY DEF ListsInv
<1>0. /\ DOMAIN list \subseteq DOMAIN l /\ DOMAIN l \subseteq Destinations
      /\ DOMAIN l \subseteq DOMAIN list \cup {s}
      /\ IsFiniteSet(DOMAIN l) /\ Cardinality(DOMAIN l) <= ListsMax
      /\ \A d \in DOMAIN list : l[d] = list[d]
      /\ \A d \in DOMAIN l \ DOMAIN list : d = s /\ l[d] = Empty
      /\ s \notin DOMAIN l => l = list /\ Cardinality(DOMAIN l) = ListsMax
  BY <1>i, IndexedHas
<1> HIDE DEF l
<1>1. /\ DOMAIN list \subseteq DOMAIN list' /\ DOMAIN list' \subseteq Destinations
      /\ IsFiniteSet(DOMAIN list') /\ Cardinality(DOMAIN list') <= ListsMax
      /\ \A d \in DOMAIN list : list'[d] = list[d]
      /\ \A d \in DOMAIN list' \ DOMAIN list : d = s /\ list'[d] = Empty
  <2>1. CASE list' = list
    BY <1>i, <2>1 DEF ListInv
  <2>2. CASE list' = l
    BY <1>0, <2>2
  <2>q. QED
    BY <2>1, <2>2 DEF l
<1>2. /\ requests' = requests + 1 /\ requests' \in 0 .. MaxRequests
      /\ asked' \subseteq [id : 1 .. requests', dst : Destinations, ui : BOOLEAN]
      /\ IsFiniteSet(asked') /\ asked \subseteq asked'
      /\ \A x, y \in asked' : x.id = y.id => x = y
  BY <1>i, RequestIsNew
<1>3. /\ shown' = Software /\ pool' = pool /\ base' = base /\ exhausted' = exhausted
      /\ used' = used /\ arena' = arena
  BY DEF Request
<1>4. ListInv'
  <2>1. \A d \in DOMAIN list' : /\ list'[d] \in [e : Seq(ListEntry), ov : Int]
          /\ Len(list'[d].e) <= ListMax /\ list'[d].ov \in NoMark .. Len(list'[d].e)
    BY <1>1, <1>i, EmptyIsAList, SizeAssumption DEF ListInv, NoMark
  <2>q. QED
    BY <1>1, <2>1 DEF ListInv
<1>5. ArenaInv'
  BY <1>1, <1>3, <1>i, EmptyIsAList DEF ArenaInv, HasPixels
<1>6. PoolInv'
  BY <1>3, <1>i DEF PoolInv
<1>7. AskedInv'
  <2>1. \A d \in DOMAIN list' : \A n \in DOMAIN list'[d].e :
          \E x \in asked' : /\ x.id = list'[d].e[n].id /\ x.dst = d
                            /\ x.ui <=> list'[d].ov # NoMark /\ n > list'[d].ov
    BY <1>1, <1>2, <1>i, EmptyIsAList DEF AskedInv
  <2>q. QED
    BY <1>2, <2>1 DEF AskedInv
<1>8. \A t : Recorded(t)' = Recorded(t)
  <2>1. Empty.e = <<>>
    BY DEF Empty
  <2>q. QED
    BY <1>1, <2>1 DEF Recorded
<1>9. /\ {statDropped, exhausted, base} \subseteq Nat /\ requests \in Nat
      /\ statDropped' \in {statDropped, statDropped + 1}
  BY <1>i DEF LossInv, AskedInv
<1>10. LossInv'
  <2>1. /\ {statDropped', exhausted', base'} \subseteq Nat
        /\ base' <= requests' /\ statDropped' + exhausted' <= requests'
    BY <1>2, <1>3, <1>9, <1>i DEF LossInv
  <2>2. ASSUME NEW t \in Destinations PROVE statDropped' + exhausted' + Len(Recorded(t)') <= requests'
    <3>1. statDropped + exhausted + Len(Recorded(t)) <= requests /\ Len(Recorded(t)) \in Nat
      BY <1>i, RecordedIsASequence DEF LossInv
    <3>q. QED
      BY <1>2, <1>3, <1>8, <1>9, <3>1
  <2>3. ASSUME NEW t \in Destinations, t \in DOMAIN list' \/ Cardinality(DOMAIN list') < ListsMax
        PROVE  Cardinality(AskedFor(t)' \ Ids(Recorded(t)')) <= Losses'
    <3> DEFINE m == AskedFor(t) \ Ids(Recorded(t))
    <3>1. IsFiniteSet(m) /\ Cardinality(m) \in Nat
      BY <1>i, AskedForIsFinite, FS_CardinalityType DEF AskedInv
    <3>2. t \in DOMAIN list \/ Cardinality(DOMAIN list) < ListsMax
      <4>1. CASE list' = list
        BY <2>3, <4>1
      <4>2. CASE list' # list
        <5>1. list' = l /\ s \in DOMAIN l \ DOMAIN list
          <6>1. list' = l
            BY <4>2 DEF l
          <6>2. s \in DOMAIN l
            BY <4>2, <6>1, <1>0
          <6>3. s \notin DOMAIN list
            BY <4>2, <6>1 DEF l, Indexed
          <6>q. QED
            BY <6>1, <6>2, <6>3
        <5>2. Cardinality(DOMAIN list) # ListsMax
          BY <4>2, <5>1 DEF l, Indexed
        <5>3. Cardinality(DOMAIN list) \in Nat /\ ListsMax \in Nat
          BY <1>i, FS_CardinalityType, SizeAssumption DEF ListInv
        <5>q. QED
          BY <5>2, <5>3, <1>i DEF ListInv
      <4>q. QED
        BY <4>1, <4>2
    <3>3. Cardinality(m) <= Losses
      BY <1>i, <3>2 DEF LossInv
    <3>4. AskedFor(t)' \ Ids(Recorded(t)') = m \/ AskedFor(t)' \ Ids(Recorded(t)') \subseteq m \cup {requests + 1}
      BY <1>8, <1>i, AskedForGrows
    <3>5. CASE statDropped' = statDropped + 1
      <4>1. IsFiniteSet(m \cup {requests + 1}) /\ Cardinality(m \cup {requests + 1}) <= Cardinality(m) + 1
        <5> HIDE DEF m
        <5>1. /\ IsFiniteSet(m \cup {requests + 1})
              /\ Cardinality(m \cup {requests + 1}) =
                    IF requests + 1 \in m THEN Cardinality(m) ELSE Cardinality(m) + 1
          BY <3>1, FS_AddElement
        <5>q. QED
          BY <3>1, <5>1
      <4>2. Cardinality(AskedFor(t)' \ Ids(Recorded(t)')) <= Cardinality(m) + 1
        <5>1. AskedFor(t)' \ Ids(Recorded(t)') \subseteq m \cup {requests + 1}
          BY <3>4
        <5>2. Cardinality(m \cup {requests + 1}) \in Nat /\ Cardinality(AskedFor(t)' \ Ids(Recorded(t)')) \in Nat
          BY <4>1, <5>1, FS_Subset, FS_CardinalityType
        <5>3. Cardinality(AskedFor(t)' \ Ids(Recorded(t)')) <= Cardinality(m \cup {requests + 1})
          BY <4>1, <5>1, FS_Subset
        <5>q. QED
          BY <3>1, <4>1, <5>2, <5>3
      <4>3. Losses' = Losses + 1 /\ Losses \in Int
        BY <1>3, <1>9, <3>5 DEF Losses
      <4>4. Cardinality(AskedFor(t)' \ Ids(Recorded(t)')) \in Nat
        <5>1. IsFiniteSet(AskedFor(t)' \ Ids(Recorded(t)'))
          BY <3>4, <4>1, FS_Subset
        <5>q. QED
          BY <5>1, FS_CardinalityType
      <4>q. QED
        BY <3>1, <3>3, <4>2, <4>3, <4>4
    <3>6. CASE statDropped' = statDropped /\ list' = Indexed(s) /\ s \notin DOMAIN list'
      <4>1. list' = list /\ Cardinality(DOMAIN list') = ListsMax
        BY <1>0, <3>6 DEF l
      <4>2. t # s /\ ListsMax \in Nat
        BY <2>3, <3>6, <4>1, SizeAssumption
      <4>3. AskedFor(t)' = AskedFor(t)
        BY <1>i, <4>2, AskedForGrows
      <4>4. Losses' = Losses
        BY <1>3, <3>6 DEF Losses
      <4>q. QED
        BY <1>8, <3>3, <4>3, <4>4
    <3>q. QED
      BY <3>5, <3>6
  <2>q. QED
    BY <2>1, <2>2, <2>3 DEF LossInv
<1>11. ShownInv'
  BY <1>3 DEF ShownInv, TextIsOwn, FrameIsThisFrame, LossesAreCounted, UiIsUnlit,
              TilesFitTheirTextures, Drew, Software
<1>q. QED
  BY <1>4, <1>5, <1>6, <1>7, <1>10, <1>11 DEF ListsInv

\* A request of which an entry is recorded.
LEMMA KeptHolds ==
    ASSUME ListsInv, NEW s \in Destinations, Request(s), NEW entry \in ListEntry,
           s \in DOMAIN Indexed(s), Len(Indexed(s)[s].e) # ListMax,
           list' = Push(Indexed(s), s, entry), entry.id = requests + 1,
           statDropped' = statDropped, used' \in used .. ArenaMax,
           arena' \in [0 .. ArenaMax - 1 -> 0 .. MaxRequests],
           \A k \in 0 .. used - 1 : arena'[k] = arena[k],
           entry.tile => /\ entry.off + Area(entry.size) <= used'
                         /\ \A k \in entry.off .. entry.off + Area(entry.size) - 1 :
                               arena'[k] = entry.id
    PROVE  ListsInv'
<1> DEFINE l == Indexed(s)
<1>i. /\ ListInv /\ ArenaInv /\ PoolInv /\ AskedInv /\ LossInv
  BY DEF ListsInv
<1>0. /\ DOMAIN list \subseteq DOMAIN l /\ DOMAIN l \subseteq Destinations
      /\ DOMAIN l \subseteq DOMAIN list \cup {s}
      /\ IsFiniteSet(DOMAIN l) /\ Cardinality(DOMAIN l) <= ListsMax
      /\ \A d \in DOMAIN list : l[d] = list[d]
      /\ \A d \in DOMAIN l \ DOMAIN list : d = s /\ l[d] = Empty
  BY <1>i, IndexedHas
<1>a. s \in DOMAIN l /\ Len(l[s].e) # ListMax /\ list' = [l EXCEPT ![s].e = Append(@, entry)]
  BY DEF Push
<1> HIDE DEF l
<1>1. \A d \in DOMAIN l : /\ l[d] \in [e : Seq(ListEntry), ov : Int]
          /\ Len(l[d].e) <= ListMax /\ l[d].ov \in NoMark .. Len(l[d].e)
  BY <1>0, <1>i, EmptyIsAList, SizeAssumption DEF ListInv, NoMark
<1>2. l[s].e \in Seq(ListEntry) /\ Len(l[s].e) \in Nat /\ DOMAIN l[s].e = 1 .. Len(l[s].e)
  BY <1>1, <1>a, LenProperties
<1>3. /\ Append(l[s].e, entry) \in Seq(ListEntry)
      /\ Len(Append(l[s].e, entry)) = Len(l[s].e) + 1
      /\ DOMAIN Append(l[s].e, entry) = 1 .. Len(l[s].e) + 1
      /\ \A n \in 1 .. Len(l[s].e) : Append(l[s].e, entry)[n] = l[s].e[n]
      /\ Append(l[s].e, entry)[Len(l[s].e) + 1] = entry
  BY <1>2, AppendProperties
<1>4. /\ DOMAIN list' = DOMAIN l
      /\ \A d \in DOMAIN l \ {s} : list'[d] = l[d]
      /\ list'[s].e = Append(l[s].e, entry) /\ list'[s].ov = l[s].ov
      /\ list'[s] \in [e : Seq(ListEntry), ov : Int]
  BY <1>a, <1>1, <1>3
<1>5. /\ requests' = requests + 1 /\ requests' \in 0 .. MaxRequests
      /\ asked' \subseteq [id : 1 .. requests', dst : Destinations, ui : BOOLEAN]
      /\ IsFiniteSet(asked') /\ asked \subseteq asked'
      /\ \A x, y \in asked' : x.id = y.id => x = y
      /\ \E x \in asked' : /\ x.id = requests + 1 /\ x.dst = s
                           /\ x.ui <=> s \in DOMAIN list /\ list[s].ov # NoMark
  BY <1>i, RequestIsNew
<1>6. /\ shown' = Software /\ pool' = pool /\ base' = base /\ exhausted' = exhausted
  BY DEF Request
<1>7. ListInv'
  <2>1. Len(l[s].e) + 1 <= ListMax
    BY <1>1, <1>2, <1>a, SizeAssumption
  <2>2. \A d \in DOMAIN list' : /\ list'[d] \in [e : Seq(ListEntry), ov : Int]
          /\ Len(list'[d].e) <= ListMax /\ list'[d].ov \in NoMark .. Len(list'[d].e)
    <3>1. ASSUME NEW d \in DOMAIN list', d # s
          PROVE  /\ list'[d] \in [e : Seq(ListEntry), ov : Int]
                 /\ Len(list'[d].e) <= ListMax /\ list'[d].ov \in NoMark .. Len(list'[d].e)
      BY <1>1, <1>4, <3>1
    <3>2. /\ Len(list'[s].e) <= ListMax /\ list'[s].ov \in NoMark .. Len(list'[s].e)
      BY <1>1, <1>2, <1>3, <1>4, <1>a, <2>1 DEF NoMark
    <3>q. QED
      BY <1>4, <3>1, <3>2
  <2>q. QED
    BY <1>0, <1>4, <2>2 DEF ListInv
<1>8. ArenaInv'
  <2>1. ASSUME NEW d \in DOMAIN list, NEW n \in DOMAIN list[d].e
        PROVE  HasPixels(list[d].e[n])'
    <3> DEFINE x == list[d].e[n]
    <3>1. x \in ListEntry /\ HasPixels(x)
      BY <1>i, ElementOfSeq, LenProperties DEF ListInv, ArenaInv
    <3> HIDE DEF x
    <3>2. ASSUME x.tile PROVE x.off \in Nat /\ Area(x.size) \in Nat /\ ArenaMax \in Nat
      <4>1. x \in [id : 1 .. MaxRequests, tile : {TRUE}, size : TileSizes, off : 0 .. ArenaMax]
        BY <3>1, <3>2 DEF ListEntry
      <4>2. x.size \in TileSizes /\ x.off \in 0 .. ArenaMax /\ ArenaMax \in Nat
        BY <4>1, SizeAssumption
      <4>q. QED
        BY <4>2, SizesArePositive
    <3>3. used \in Nat /\ used' \in Nat /\ used <= used'
      BY <1>i, SizeAssumption DEF ArenaInv
    <3>4. \A k \in x.off .. x.off + Area(x.size) - 1 : x.tile => k \in 0 .. used - 1
      BY <3>1, <3>2, <3>3 DEF HasPixels
    <3>5. x.tile => /\ x.off + Area(x.size) <= used'
                    /\ \A k \in x.off .. x.off + Area(x.size) - 1 : arena'[k] = x.id
      BY <3>1, <3>2, <3>3, <3>4 DEF HasPixels
    <3>q. QED
      <4>1. list'[d].e[n] = x
        <5>1. CASE d = s
          BY <5>1, <1>0, <1>2, <1>3, <1>4 DEF x
        <5>2. CASE d # s
          BY <5>2, <1>0, <1>4 DEF x
        <5>q. QED
          BY <5>1, <5>2
      <4>q. QED
        BY <3>5, <4>1 DEF HasPixels
  <2>2. ASSUME NEW d \in DOMAIN list', NEW n \in DOMAIN list'[d].e
        PROVE  HasPixels(list[d].e[n])'
    <3>1. CASE d \in DOMAIN list /\ n \in DOMAIN list[d].e
      <4>1. list'[d].e[n] = list[d].e[n]
        <5>1. CASE d = s
          BY <5>1, <3>1, <1>0, <1>2, <1>3, <1>4
        <5>2. CASE d # s
          BY <5>2, <3>1, <1>0, <1>4
        <5>q. QED
          BY <5>1, <5>2
      <4>q. QED
        BY <2>1, <3>1, <4>1 DEF HasPixels
    <3>2. CASE ~(d \in DOMAIN list /\ n \in DOMAIN list[d].e)
      <4>1. d = s
        <5>1. ASSUME d # s PROVE FALSE
          <6>1. d \in DOMAIN l /\ list'[d] = l[d]
            BY <5>1, <1>4
          <6>2. d \in DOMAIN list /\ l[d] = list[d]
            BY <5>1, <6>1, <1>0
          <6>q. QED
            BY <2>2, <3>2, <6>1, <6>2
        <5>q. QED
          BY <5>1
      <4>2. n \in 1 .. Len(l[s].e) + 1
        BY <2>2, <4>1, <1>3, <1>4
      <4>3. n \notin 1 .. Len(l[s].e)
        <5>1. CASE s \in DOMAIN list
          BY <5>1, <3>2, <4>1, <1>0, <1>2
        <5>2. CASE s \notin DOMAIN list
          <6>1. l[s] = Empty
            BY <5>2, <1>0, <1>a
          <6>2. Len(l[s].e) = 0
            BY <6>1, EmptyIsAList
          <6>q. QED
            BY <6>2
        <5>q. QED
          BY <5>1, <5>2
      <4>4. list'[d].e[n] = entry
        BY <4>1, <4>2, <4>3, <1>2, <1>3, <1>4
      <4>q. QED
        BY <4>4 DEF HasPixels
    <3>q. QED
      BY <3>1, <3>2
  <2>3. used' \in 0 .. ArenaMax
    BY <1>i, SizeAssumption DEF ArenaInv
  <2>q. QED
    BY <2>2, <2>3 DEF ArenaInv
<1>9. PoolInv'
  BY <1>6, <1>i DEF PoolInv
<1>10. AskedInv'
  <2>1. ASSUME NEW d \in DOMAIN list', NEW n \in DOMAIN list'[d].e
        PROVE  \E x \in asked' : /\ x.id = list'[d].e[n].id /\ x.dst = d
                                 /\ x.ui <=> list'[d].ov # NoMark /\ n > list'[d].ov
    <3>1. CASE d # s
      <4>1. d \in DOMAIN list /\ list'[d] = list[d]
        BY <3>1, <1>0, <1>4
      <4>q. QED
        BY <4>1, <1>5, <1>i DEF AskedInv
    <3>2. CASE d = s /\ n \in 1 .. Len(l[s].e)
      <4>1. s \in DOMAIN list /\ l[s] = list[s]
        <5>1. ASSUME s \notin DOMAIN list PROVE FALSE
          <6>1. l[s] = Empty
            BY <5>1, <1>0, <1>a
          <6>q. QED
            BY <6>1, <3>2, EmptyIsAList
        <5>q. QED
          BY <5>1, <1>0
      <4>2. list'[d].e[n] = list[s].e[n] /\ list'[d].ov = list[s].ov /\ n \in DOMAIN list[s].e
        BY <3>2, <4>1, <1>2, <1>3, <1>4
      <4>3. PICK x \in asked : /\ x.id = list[s].e[n].id /\ x.dst = s
                               /\ x.ui <=> list[s].ov # NoMark /\ n > list[s].ov
        BY <4>1, <4>2, <1>i DEF AskedInv
      <4>q. QED
        BY <3>2, <4>2, <4>3, <1>5
    <3>3. CASE d = s /\ n = Len(l[s].e) + 1
      <4>1. list'[d].e[n] = entry /\ list'[d].ov = l[s].ov
        BY <3>3, <1>3, <1>4
      <4>2. PICK x \in asked' : /\ x.id = requests + 1 /\ x.dst = s
                                /\ x.ui <=> s \in DOMAIN list /\ list[s].ov # NoMark
        BY <1>5
      <4>3. (s \in DOMAIN list /\ list[s].ov # NoMark) <=> (l[s].ov # NoMark /\ n > l[s].ov)
        <5>1. CASE s \in DOMAIN list
          <6>1. l[s] = list[s] /\ l[s].ov \in NoMark .. Len(l[s].e)
            BY <5>1, <1>0, <1>1
          <6>2. n > l[s].ov
            BY <6>1, <3>3, <1>2 DEF NoMark
          <6>q. QED
            BY <5>1, <6>1, <6>2
        <5>2. CASE s \notin DOMAIN list
          <6>1. l[s] = Empty
            BY <5>2, <1>0, <1>a
          <6>q. QED
            BY <5>2, <6>1, EmptyIsAList
        <5>q. QED
          BY <5>1, <5>2
      <4>q. QED
        BY <3>3, <4>1, <4>2, <4>3
    <3>4. d = s => n \in 1 .. Len(l[s].e) \/ n = Len(l[s].e) + 1
      BY <2>1, <1>2, <1>3, <1>4
    <3>q. QED
      BY <3>1, <3>2, <3>3, <3>4
  <2>q. QED
    BY <1>5, <2>1 DEF AskedInv
<1>11. /\ {statDropped, exhausted, base} \subseteq Nat /\ requests \in Nat
  BY <1>i DEF LossInv, AskedInv
<1>12. /\ Recorded(s)' = Append(l[s].e, entry) /\ Recorded(s) = l[s].e
       /\ \A t : t # s => Recorded(t)' = Recorded(t)
  <2>1. Recorded(s)' = Append(l[s].e, entry)
    BY <1>4, <1>a DEF Recorded
  <2>2. Recorded(s) = l[s].e
    <3>1. s \notin DOMAIN list => l[s].e = <<>>
      BY <1>0, <1>a DEF Empty
    <3>q. QED
      BY <3>1, <1>0 DEF Recorded
  <2>3. ASSUME NEW t, t # s PROVE Recorded(t)' = Recorded(t)
    <3>1. t \in DOMAIN list' <=> t \in DOMAIN list
      BY <2>3, <1>0, <1>4
    <3>2. t \in DOMAIN list => list'[t] = list[t]
      BY <2>3, <1>0, <1>4
    <3>q. QED
      BY <3>1, <3>2 DEF Recorded
  <2>q. QED
    BY <2>1, <2>2, <2>3
<1>13. LossInv'
  <2>1. /\ {statDropped', exhausted', base'} \subseteq Nat
        /\ base' <= requests' /\ statDropped' + exhausted' <= requests'
    BY <1>5, <1>6, <1>11, <1>i DEF LossInv
  <2>2. ASSUME NEW t \in Destinations PROVE statDropped' + exhausted' + Len(Recorded(t)') <= requests'
    <3>1. statDropped + exhausted + Len(Recorded(t)) <= requests /\ Len(Recorded(t)) \in Nat
      BY <1>i, RecordedIsASequence DEF LossInv
    <3>2. Len(Recorded(t)') <= Len(Recorded(t)) + 1 /\ Len(Recorded(t)') \in Nat
      BY <1>3, <1>12, <3>1
    <3>q. QED
      BY <1>5, <1>6, <1>11, <3>1, <3>2
  <2>3. ASSUME NEW t \in Destinations, t \in DOMAIN list' \/ Cardinality(DOMAIN list') < ListsMax
        PROVE  Cardinality(AskedFor(t)' \ Ids(Recorded(t)')) <= Losses'
    <3>1. Losses' = Losses
      BY <1>6 DEF Losses
    <3>2. IsFiniteSet(AskedFor(t) \ Ids(Recorded(t)))
      BY <1>i, AskedForIsFinite DEF AskedInv
    <3>3. AskedFor(t)' \ Ids(Recorded(t)') \subseteq AskedFor(t) \ Ids(Recorded(t))
      <4>1. CASE t = s
        <5>1. AskedFor(t)' = AskedFor(t) \cup {requests + 1}
          BY <4>1, <1>i, AskedForGrows
        <5>2. DOMAIN Recorded(t)' = 1 .. Len(l[s].e) + 1 /\ DOMAIN Recorded(t) = 1 .. Len(l[s].e)
          BY <4>1, <1>2, <1>3, <1>12
        <5>3. requests + 1 \in Ids(Recorded(t)')
          <6>1. Len(l[s].e) + 1 \in DOMAIN Recorded(t)' /\ Recorded(t)'[Len(l[s].e) + 1].id = requests + 1
            BY <4>1, <5>2, <1>2, <1>3, <1>12
          <6>q. QED
            BY <6>1 DEF Ids
        <5>4. Ids(Recorded(t)) \subseteq Ids(Recorded(t)')
          <6>1. \A n \in DOMAIN Recorded(t) : n \in DOMAIN Recorded(t)' /\ Recorded(t)'[n].id = Recorded(t)[n].id
            BY <4>1, <5>2, <1>2, <1>3, <1>12
          <6>q. QED
            BY <6>1 DEF Ids
        <5>q. QED
          BY <5>1, <5>3, <5>4
      <4>2. CASE t # s
        BY <4>2, <1>i, <1>12, AskedForGrows
      <4>q. QED
        BY <4>1, <4>2
    <3>4. t \in DOMAIN list \/ Cardinality(DOMAIN list) < ListsMax
      <4>1. CASE s \in DOMAIN list
        <5>1. DOMAIN list' = DOMAIN list
          BY <4>1, <1>0, <1>4
        <5>q. QED
          BY <5>1, <2>3
      <4>2. CASE s \notin DOMAIN list
        <5>1. Cardinality(DOMAIN list) # ListsMax
          BY <4>2, <1>a DEF l, Indexed
        <5>2. Cardinality(DOMAIN list) \in Nat /\ ListsMax \in Nat
          BY <1>i, FS_CardinalityType, SizeAssumption DEF ListInv
        <5>q. QED
          BY <5>1, <5>2, <1>i DEF ListInv
      <4>q. QED
        BY <4>1, <4>2
    <3>5. Cardinality(AskedFor(t) \ Ids(Recorded(t))) <= Losses
      BY <1>i, <3>4 DEF LossInv
    <3>6. /\ Cardinality(AskedFor(t)' \ Ids(Recorded(t)')) <= Cardinality(AskedFor(t) \ Ids(Recorded(t)))
          /\ Cardinality(AskedFor(t)' \ Ids(Recorded(t)')) \in Nat
          /\ Cardinality(AskedFor(t) \ Ids(Recorded(t))) \in Nat
      BY <3>2, <3>3, FS_Subset, FS_CardinalityType
    <3>7. Losses \in Int
      BY <1>11 DEF Losses
    <3>q. QED
      BY <3>1, <3>5, <3>6, <3>7
  <2>q. QED
    BY <2>1, <2>2, <2>3 DEF LossInv
<1>14. ShownInv'
  BY <1>6 DEF ShownInv, TextIsOwn, FrameIsThisFrame, LossesAreCounted, UiIsUnlit,
              TilesFitTheirTextures, Drew, Software
<1>q. QED
  BY <1>7, <1>8, <1>9, <1>10, <1>13, <1>14 DEF ListsInv

LEMMA RecordHolds ==
    ASSUME ListsInv, NEW s \in Destinations, Record(s)
    PROVE  ListsInv'
<1> DEFINE l == Indexed(s)
           full == s \in DOMAIN l /\ Len(l[s].e) = ListMax
           entry == [id |-> requests + 1, tile |-> FALSE]
<1>1. /\ Request(s) /\ UNCHANGED <<used, arena>>
      /\ list' = IF s \in DOMAIN l /\ ~full THEN Push(l, s, entry) ELSE l
      /\ statDropped' = IF full THEN statDropped + 1 ELSE statDropped
  BY DEF Record
<1>2. CASE s \in DOMAIN l /\ ~full
  <2>1. requests + 1 \in 1 .. MaxRequests
    BY <1>1, SizeAssumption DEF Request, ListsInv, AskedInv
  <2>2. entry \in ListEntry
    BY <2>1 DEF ListEntry
  <2>3. used' \in used .. ArenaMax /\ arena' \in [0 .. ArenaMax - 1 -> 0 .. MaxRequests] /\ arena' = arena
    BY <1>1, SizeAssumption DEF ListsInv, ArenaInv
  <2>4. ~entry.tile /\ entry.id = requests + 1
    OBVIOUS
  <2>5. list' = Push(Indexed(s), s, entry) /\ statDropped' = statDropped
        /\ s \in DOMAIN Indexed(s) /\ Len(Indexed(s)[s].e) # ListMax
    BY <1>1, <1>2
  <2> HIDE DEF entry, full, l
  <2>q. QED
    BY <1>1, <2>2, <2>3, <2>4, <2>5, KeptHolds
<1>3. CASE ~(s \in DOMAIN l /\ ~full)
  BY <1>1, <1>3, LostHolds
<1>q. QED
  BY <1>2, <1>3

LEMMA TileHolds ==
    ASSUME ListsInv, NEW s \in Destinations, NEW z \in TileSizes, Tile(s, z)
    PROVE  ListsInv'
<1> DEFINE l == Indexed(s)
           entry == [id |-> requests + 1, tile |-> TRUE, size |-> z, off |-> used]
<1>1. Request(s)
  BY DEF Tile
<1>2. CASE Refuse(list)
  BY <1>1, <1>2, LostHolds DEF Refuse
<1>3. CASE Refuse(l)
  BY <1>1, <1>3, LostHolds DEF Refuse
<1>4. CASE /\ TileFits(z) /\ s \in DOMAIN l /\ Len(l[s].e) # ListMax
           /\ Rastered(s, l, z)
  <2>0. Area(z) \in Nat \ {0} /\ used \in Nat /\ ArenaMax \in Nat /\ MaxRequests \in Nat /\ used <= ArenaMax
    BY SizesArePositive, SizeAssumption DEF ListsInv, ArenaInv
  <2>1. requests + 1 \in 1 .. MaxRequests
    BY <1>1, SizeAssumption DEF Request, ListsInv, AskedInv
  <2>2. entry \in ListEntry
    <3>1. entry \in [id : 1 .. MaxRequests, tile : {TRUE}, size : TileSizes, off : 0 .. ArenaMax]
      BY <2>0, <2>1
    <3>q. QED
      BY <3>1 DEF ListEntry
  <2>3. used' = used + Area(z) /\ used' \in used .. ArenaMax
    BY <1>4, <2>0 DEF Rastered, TileFits
  <2>4. /\ arena' = [k \in DOMAIN arena |-> IF k \in used .. used + Area(z) - 1 THEN requests + 1
                                            ELSE arena[k]]
        /\ arena \in [0 .. ArenaMax - 1 -> 0 .. MaxRequests]
    BY <1>4 DEF Rastered, ListsInv, ArenaInv
  <2>5. arena' \in [0 .. ArenaMax - 1 -> 0 .. MaxRequests]
    BY <2>1, <2>4, <2>0
  <2>6. \A k \in 0 .. used - 1 : arena'[k] = arena[k]
    BY <2>0, <2>4
  <2>7. \A k \in used .. used + Area(z) - 1 : arena'[k] = requests + 1
    BY <2>0, <2>3, <2>4
  <2>8. entry.tile /\ entry.id = requests + 1 /\ entry.off = used /\ entry.size = z
    OBVIOUS
  <2>9. list' = Push(Indexed(s), s, entry) /\ statDropped' = statDropped
        /\ s \in DOMAIN Indexed(s) /\ Len(Indexed(s)[s].e) # ListMax
    BY <1>4 DEF Rastered
  <2> HIDE DEF entry, l
  <2>10. /\ entry.off + Area(entry.size) <= used'
         /\ \A k \in entry.off .. entry.off + Area(entry.size) - 1 : arena'[k] = entry.id
    BY <2>0, <2>3, <2>7, <2>8
  <2>q. QED
    BY <1>1, <2>2, <2>3, <2>5, <2>6, <2>8, <2>9, <2>10, KeptHolds
<1>q. QED
  BY <1>2, <1>3, <1>4 DEF Tile

LEMMA OverlayMarkHolds ==
    ASSUME ListsInv, NEW s \in Destinations, OverlayMark(s)
    PROVE  ListsInv'
<1>i. /\ ListInv /\ ArenaInv /\ PoolInv /\ AskedInv /\ LossInv /\ ShownInv
  BY DEF ListsInv
<1>0. /\ s \in DOMAIN list /\ list[s].ov = NoMark
      /\ list' = [list EXCEPT ![s].ov = Len(list[s].e)]
      /\ UNCHANGED <<used, arena, pool, statDropped, exhausted, requests, asked, shown, base>>
  BY DEF OverlayMark
<1>1. \A d \in DOMAIN list : /\ list[d] \in [e : Seq(ListEntry), ov : Int]
          /\ Len(list[d].e) <= ListMax /\ list[d].ov \in NoMark .. Len(list[d].e)
  BY <1>i DEF ListInv
<1>2. Len(list[s].e) \in Nat /\ DOMAIN list[s].e = 1 .. Len(list[s].e)
  BY <1>0, <1>1, LenProperties
<1>3. /\ DOMAIN list' = DOMAIN list /\ \A d \in DOMAIN list \ {s} : list'[d] = list[d]
      /\ list'[s].e = list[s].e /\ list'[s].ov = Len(list[s].e)
      /\ list'[s] \in [e : Seq(ListEntry), ov : Int]
  BY <1>0, <1>1, <1>2
<1>4. ListInv'
  <2>1. \A d \in DOMAIN list' : /\ list'[d] \in [e : Seq(ListEntry), ov : Int]
          /\ Len(list'[d].e) <= ListMax /\ list'[d].ov \in NoMark .. Len(list'[d].e)
    BY <1>1, <1>2, <1>3 DEF NoMark
  <2>q. QED
    BY <2>1, <1>3, <1>i DEF ListInv
<1>5. ArenaInv'
  BY <1>0, <1>3, <1>i DEF ArenaInv, HasPixels
<1>6. AskedInv'
  <2>1. ASSUME NEW d \in DOMAIN list', NEW n \in DOMAIN list'[d].e
        PROVE  \E x \in asked' : /\ x.id = list'[d].e[n].id /\ x.dst = d
                                 /\ x.ui <=> list'[d].ov # NoMark /\ n > list'[d].ov
    <3>1. CASE d # s
      BY <3>1, <1>0, <1>3, <1>i DEF AskedInv
    <3>2. CASE d = s
      <4>1. n \in 1 .. Len(list[s].e) /\ list'[d].e[n] = list[s].e[n] /\ n \in DOMAIN list[s].e
        BY <3>2, <1>2, <1>3
      <4>2. PICK x \in asked : /\ x.id = list[s].e[n].id /\ x.dst = s
                               /\ x.ui <=> list[s].ov # NoMark /\ n > list[s].ov
        BY <4>1, <1>0, <1>i DEF AskedInv
      <4>3. ~(n > list'[d].ov)
        BY <3>2, <4>1, <1>2, <1>3
      <4>q. QED
        BY <3>2, <4>1, <4>2, <4>3, <1>0
    <3>q. QED
      BY <3>1, <3>2
  <2>q. QED
    BY <2>1, <1>0, <1>i DEF AskedInv
<1>7. \A t : Recorded(t)' = Recorded(t)
  BY <1>0, <1>3 DEF Recorded
<1>8. LossInv'
  BY <1>0, <1>3, <1>7, <1>i DEF LossInv, Losses, AskedFor
<1>9. PoolInv' /\ ShownInv'
  BY <1>0, <1>i DEF PoolInv, ShownInv, TextIsOwn, FrameIsThisFrame, LossesAreCounted, UiIsUnlit,
                    TilesFitTheirTextures, Drew
<1>q. QED
  BY <1>4, <1>5, <1>6, <1>8, <1>9 DEF ListsInv

\* What a reset leaves, of a pool p that may have grown and a count of tiles
\* left out that may have risen.
LEMMA FrameResetHolds ==
    ASSUME ListInv, ArenaInv, AskedInv, LossInv,
           NEW p \in Seq(Texture), Len(p) <= PoolMax, FrameReset(p),
           NEW m \in Nat, exhausted' = m, statDropped + m <= requests,
           base' = statDropped + m, UNCHANGED <<arena, statDropped, requests>>
    PROVE  /\ ListInv' /\ ArenaInv' /\ PoolInv' /\ AskedInv' /\ LossInv'
           /\ Len(pool') = Len(p)
<1>1. /\ list' = [s \in DOMAIN list |-> Empty] /\ used' = 0 /\ asked' = {}
      /\ pool' = [k \in DOMAIN p |-> [p[k] EXCEPT !.busy = FALSE]]
  BY DEF FrameReset
<1>2. \A s \in DOMAIN list' : list'[s] = Empty /\ s \in DOMAIN list
  BY <1>1
<1>3. DOMAIN list' = DOMAIN list
  BY <1>1
<1>4. ListInv'
  BY <1>2, <1>3, EmptyIsAList, SizeAssumption DEF ListInv, NoMark
<1>5. ArenaInv'
  BY <1>1, <1>2, EmptyIsAList, SizeAssumption DEF ArenaInv
<1>6. PoolInv' /\ Len(pool') = Len(p)
  <2>1. DOMAIN p = 1 .. Len(p) /\ Len(p) \in Nat /\ \A k \in DOMAIN p : p[k] \in Texture
    BY LenProperties, ElementOfSeq
  <2>2. \A k \in DOMAIN p : [p[k] EXCEPT !.busy = FALSE] \in Texture /\ ~[p[k] EXCEPT !.busy = FALSE].busy
    BY <2>1 DEF Texture
  <2> DEFINE f == [k \in 1 .. Len(p) |-> [p[k] EXCEPT !.busy = FALSE]]
  <2>3. f \in Seq(Texture) /\ Len(f) = Len(p) /\ DOMAIN f = 1 .. Len(p)
    BY <2>1, <2>2
  <2>4. pool' = f
    BY <1>1, <2>1
  <2>5. \A k \in DOMAIN f : ~f[k].busy
    BY <2>1, <2>2
  <2> HIDE DEF f
  <2>q. QED
    BY <2>3, <2>4, <2>5 DEF PoolInv
<1>7. AskedInv'
  BY <1>1, <1>2, EmptyIsAList, FS_EmptySet DEF AskedInv
<1>8. LossInv'
  <2>1. \A t : AskedFor(t)' = {}
    BY <1>1 DEF AskedFor
  <2>2. \A t : Len(Recorded(t)') = 0
    BY <1>2, EmptyIsAList, EmptySeq DEF Recorded
  <2>3. statDropped \in Nat /\ requests \in Nat
    BY DEF LossInv, AskedInv
  <2>4. \A t : Cardinality(AskedFor(t)' \ Ids(Recorded(t)')) = 0
    BY <2>1, FS_EmptySet
  <2>5. Losses' = 0 /\ {statDropped', exhausted', base'} \subseteq Nat /\ base' <= requests'
        /\ statDropped' + exhausted' <= requests'
    BY <2>3 DEF Losses
  <2>6. \A t \in Destinations : statDropped' + exhausted' + Len(Recorded(t)') <= requests'
    <3>1. statDropped + m + 0 <= requests
      BY <2>3
    <3>q. QED
      BY <2>2, <3>1
  <2>7. \A t \in Destinations : Cardinality(AskedFor(t)' \ Ids(Recorded(t)')) <= Losses'
    BY <2>4, <2>5
  <2>q. QED
    BY <2>5, <2>6, <2>7 DEF LossInv
<1>q. QED
  BY <1>4, <1>5, <1>6, <1>7, <1>8

LEMMA PresentSoftwareHolds ==
    ASSUME ListsInv, NEW s \in Destinations, PresentSoftware(s)
    PROVE  ListsInv'
<1>1. /\ FrameReset(pool) /\ base' = statDropped + exhausted /\ shown' = Software
      /\ UNCHANGED <<arena, statDropped, exhausted, requests>>
  BY DEF PresentSoftware
<1>2. /\ pool \in Seq(Texture) /\ Len(pool) <= PoolMax /\ exhausted \in Nat
      /\ statDropped + exhausted <= requests
  BY DEF ListsInv, PoolInv, LossInv
<1>3. ListInv' /\ ArenaInv' /\ PoolInv' /\ AskedInv' /\ LossInv'
  BY <1>1, <1>2, FrameResetHolds DEF ListsInv
<1>4. ShownInv'
  BY <1>1 DEF ShownInv, TextIsOwn, FrameIsThisFrame, LossesAreCounted, UiIsUnlit,
              TilesFitTheirTextures, Drew, Software
<1>q. QED
  BY <1>3, <1>4 DEF ListsInv

\* As after the start, and after a shutdown.
NothingRecorded ==
    /\ list = <<>> /\ used = 0 /\ pool = <<>> /\ asked = {} /\ shown = Software
    /\ arena \in [0 .. ArenaMax - 1 -> 0 .. MaxRequests] /\ requests \in 0 .. MaxRequests
    /\ {statDropped, exhausted, base} \subseteq Nat /\ statDropped + exhausted <= requests
    /\ base <= requests /\ base <= statDropped + exhausted

LEMMA NothingRecordedHolds == NothingRecorded => ListsInv
<1> SUFFICES ASSUME NothingRecorded PROVE ListsInv
  OBVIOUS
<1> USE DEF NothingRecorded
<1>1. DOMAIN list = {} /\ IsFiniteSet({}) /\ Cardinality({}) = 0
  BY FS_EmptySet
<1>2. \A t : Recorded(t) = <<>> /\ AskedFor(t) = {}
  BY <1>1 DEF Recorded, AskedFor
<1>3. ListInv /\ ArenaInv /\ PoolInv /\ AskedInv
  <2>1. ListInv
    BY <1>1, SizeAssumption DEF ListInv
  <2>2. ArenaInv
    BY <1>1, SizeAssumption DEF ArenaInv
  <2>3. PoolInv
    BY SizeAssumption DEF PoolInv
  <2>4. AskedInv
    BY <1>1 DEF AskedInv
  <2>q. QED
    BY <2>1, <2>2, <2>3, <2>4
<1>4. LossInv
  <2>1. \A t : Cardinality(AskedFor(t) \ Ids(Recorded(t))) = 0 /\ Len(Recorded(t)) = 0
    BY <1>1, <1>2
  <2>2. Losses \in Int /\ 0 <= Losses /\ requests \in Nat
    BY DEF Losses
  <2>q. QED
    BY <2>1, <2>2 DEF LossInv
<1>q. QED
  BY <1>3, <1>4, SoftwareHolds DEF ListsInv

LEMMA ListsInitHolds == ListsInit => ListsInv
<1> SUFFICES ASSUME ListsInit PROVE ListsInv
  OBVIOUS
<1>1. arena \in [0 .. ArenaMax - 1 -> 0 .. MaxRequests] /\ requests \in 0 .. MaxRequests
  BY SizeAssumption DEF ListsInit
<1>q. QED
  BY <1>1, NothingRecordedHolds DEF ListsInit, NothingRecorded

LEMMA ShutdownHolds ==
    ASSUME ListsInv, Shutdown
    PROVE  ListsInv'
<1>1. /\ list' = <<>> /\ used' = 0 /\ pool' = <<>> /\ asked' = {} /\ shown' = Software
      /\ requests' = MaxRequests /\ exhausted' = 0 /\ base' = statDropped
      /\ arena' = arena /\ statDropped' = statDropped
  BY DEF Shutdown
<1>2. /\ arena \in [0 .. ArenaMax - 1 -> 0 .. MaxRequests] /\ requests \in 0 .. MaxRequests
      /\ {statDropped, exhausted} \subseteq Nat /\ statDropped + exhausted <= requests
  BY DEF ListsInv, ArenaInv, LossInv, AskedInv
<1>3. /\ requests' \in 0 .. MaxRequests /\ {statDropped', exhausted', base'} \subseteq Nat
      /\ statDropped' + exhausted' <= requests' /\ base' <= requests' /\ base' <= statDropped' + exhausted'
  BY <1>1, <1>2, SizeAssumption
<1>4. NothingRecorded'
  BY <1>1, <1>2, <1>3 DEF NothingRecorded
<1>5. NothingRecorded' => ListsInv'
  BY NothingRecordedHolds, PTL
<1>q. QED
  BY <1>4, <1>5

-----------------------------------------------------------------------------
(* The pool, and the tiles of one present.                                 *)

LEMMA BucketIsLarger ==
    ASSUME NEW v \in Nat
    PROVE  Bucket(v) \in Nat /\ v <= Bucket(v)
<1> DEFINE n == (v + Grid - 1) \div Grid
<1>1. Grid \in Nat \ {0}
  BY SizeAssumption
<1>2. n \in Nat /\ v + Grid - 1 < (n + 1) * Grid
  <2>1. v + Grid - 1 \in Nat
    BY <1>1
  <2>q. QED
    BY <1>1, <2>1
<1>3. (n + 1) * Grid = n * Grid + Grid /\ n * Grid \in Nat
  BY <1>1, <1>2
<1> HIDE DEF n
<1>4. v <= n * Grid
  BY <1>1, <1>2, <1>3
<1>q. QED
  BY <1>3, <1>4 DEF Bucket, n

\* fl_pool_claim finds a texture when there is one.
LEMMA ClaimFits ==
    ASSUME NEW p \in Seq(Texture), NEW z, FreeFitting(p, z) # {}
    PROVE  Claim(p, z) \in FreeFitting(p, z)
<1> DEFINE F == FreeFitting(p, z)
           A == {Area(p[k]) : k \in F}
<1>1. F \subseteq DOMAIN p /\ DOMAIN p \subseteq Nat /\ \A k \in DOMAIN p : p[k] \in Texture
  BY LenProperties, ElementOfSeq DEF FreeFitting
<1>2. \A k \in F : Area(p[k]) \in Nat
  <2>1. ASSUME NEW k \in F PROVE Area(p[k]) \in Nat
    <3>1. p[k].w \in Nat /\ p[k].h \in Nat
      BY <1>1 DEF Texture
    <3>2. \A a, b \in Nat : a * b \in Nat
      OBVIOUS
    <3>q. QED
      BY <3>1, <3>2 DEF Area
  <2>q. QED
    BY <2>1
<1> HIDE DEF F
<1>3. A \subseteq Nat /\ A # {}
  BY <1>2 DEF F
<1>4. PICK a \in A : \A b \in A : a <= b
  BY <1>3, LeastElement
<1> DEFINE G == {k \in F : Area(p[k]) = a}
<1>5. G \subseteq Nat /\ G # {}
  BY <1>1, <1>4
<1>6. PICK k \in G : \A m \in G : k <= m
  BY <1>5, LeastElement
<1>7. \A m \in F : Area(p[k]) < Area(p[m]) \/ (Area(p[k]) = Area(p[m]) /\ k <= m)
  <2>1. ASSUME NEW m \in F PROVE Area(p[k]) < Area(p[m]) \/ (Area(p[k]) = Area(p[m]) /\ k <= m)
    <3>1. Area(p[k]) = a /\ a <= Area(p[m]) /\ a \in Nat /\ Area(p[m]) \in Nat
      BY <1>2, <1>3, <1>4, <1>6
    <3>2. CASE Area(p[m]) = a
      BY <1>6, <3>1, <3>2
    <3>3. CASE Area(p[m]) # a
      BY <3>1, <3>3
    <3>q. QED
      BY <3>2, <3>3
  <2>q. QED
    BY <2>1
<1>8. k \in F
  BY <1>6
<1>q. QED
  BY <1>7, <1>8, Zenon DEF Claim, F

TileEntry == [id : 1 .. MaxRequests, tile : {TRUE}, size : TileSizes, off : 0 .. ArenaMax]
Drawn == [pool : Seq(Texture), missing : Nat,
          tex : Seq([id : 1 .. MaxRequests, slot : Nat, size : TileSizes]),
          stale : SUBSET (1 .. MaxRequests)]

LEMMA PixelsAreOwn ==
    ASSUME NEW e \in TileEntry, HasPixels(e)
    PROVE  Pixels(e) = {e.id}
<1>1. Area(e.size) \in Nat \ {0} /\ e.off \in Int /\ e.tile
  <2>1. e.size \in TileSizes /\ e.off \in 0 .. ArenaMax /\ e.tile
    BY DEF TileEntry
  <2>q. QED
    BY <2>1, SizesArePositive, SizeAssumption
<1>2. e.off \in e.off .. e.off + Area(e.size) - 1
  BY <1>1
<1>3. \A k \in e.off .. e.off + Area(e.size) - 1 : arena[k] = e.id
  BY <1>1 DEF HasPixels
<1>q. QED
  BY <1>2, <1>3 DEF Pixels

\* Tile e has got slot s of the textures of d, which are now those of r.
Got(d, e, s, r) ==
    /\ r.tex = Append(d.tex, [id |-> e.id, slot |-> s, size |-> e.size])
    /\ r.missing = d.missing
    /\ d.stale \subseteq r.stale
    /\ s \in DOMAIN r.pool /\ Len(d.pool) <= Len(r.pool) /\ Len(r.pool) <= PoolMax
    /\ \A k \in DOMAIN d.pool \ {s} : r.pool[k] = d.pool[k]
    /\ s \in DOMAIN d.pool => /\ ~d.pool[s].busy /\ r.pool[s].w = d.pool[s].w
                              /\ r.pool[s].h = d.pool[s].h
    /\ \A k \in DOMAIN r.pool : k \in DOMAIN d.pool \/ k = s
    /\ r.pool[s].busy /\ r.pool[s].w >= e.size.w /\ r.pool[s].h >= e.size.h
    /\ e.id \notin r.stale => r.pool[s].text = {e.id}
    /\ s > Len(d.pool) => \A k \in DOMAIN d.pool :
          d.pool[k].busy \/ d.pool[k].w < e.size.w \/ d.pool[k].h < e.size.h

LEMMA UploadGives ==
    ASSUME NEW d \in Drawn, NEW e \in TileEntry, HasPixels(e), NEW s \in DOMAIN d.pool, NEW locks,
           d.pool[s].w >= e.size.w, d.pool[s].h >= e.size.h
    PROVE  LET r == Upload(d, e, s, locks)
           IN  /\ r \in Drawn
               /\ r.tex = Append(d.tex, [id |-> e.id, slot |-> s, size |-> e.size])
               /\ r.missing = d.missing /\ d.stale \subseteq r.stale
               /\ DOMAIN r.pool = DOMAIN d.pool /\ Len(r.pool) = Len(d.pool)
               /\ \A k \in DOMAIN d.pool \ {s} : r.pool[k] = d.pool[k]
               /\ r.pool[s].w = d.pool[s].w /\ r.pool[s].h = d.pool[s].h /\ r.pool[s].busy
               /\ e.id \notin r.stale => r.pool[s].text = {e.id}
<1> DEFINE r == Upload(d, e, s, locks)
           y == [id |-> e.id, slot |-> s, size |-> e.size]
           txt == IF e.id \in locks THEN {e.id} ELSE d.pool[s].text
           c == [d.pool[s] EXCEPT !.busy = TRUE, !.text = txt]
           np == [d.pool EXCEPT ![s] = c]
           ns == IF e.id \in locks THEN d.stale ELSE d.stale \cup {e.id}
<1>1. /\ d.pool \in Seq(Texture) /\ d.missing \in Nat /\ d.stale \subseteq 1 .. MaxRequests
      /\ d.tex \in Seq([id : 1 .. MaxRequests, slot : Nat, size : TileSizes])
  BY DEF Drawn
<1>2. s \in 1 .. Len(d.pool) /\ DOMAIN d.pool = 1 .. Len(d.pool) /\ Len(d.pool) \in Nat
      /\ d.pool[s] \in Texture
  BY <1>1, LenProperties, ElementOfSeq
<1>3. e.id \in 1 .. MaxRequests /\ e.size \in TileSizes
  BY DEF TileEntry
<1>4. c \in Texture /\ c.w = d.pool[s].w /\ c.h = d.pool[s].h /\ c.busy /\ c.text = txt
  BY <1>2, <1>3 DEF Texture
<1>5. r = [d EXCEPT !.pool = np, !.tex = Append(d.tex, y), !.stale = ns]
  BY PixelsAreOwn, <1>1 DEF Upload, Drawn
<1>6. np \in Seq(Texture) /\ Len(np) = Len(d.pool) /\ DOMAIN np = DOMAIN d.pool
      /\ np[s] = c /\ \A k \in DOMAIN d.pool \ {s} : np[k] = d.pool[k]
  <2> HIDE DEF c
  <2>1. np \in Seq(Texture) /\ Len(np) = Len(d.pool)
    BY <1>1, <1>2, <1>4, ExceptSeq
  <2>2. DOMAIN np = 1 .. Len(np)
    BY <2>1, LenProperties
  <2>q. QED
    BY <1>2, <2>1, <2>2
<1>7. Append(d.tex, y) \in Seq([id : 1 .. MaxRequests, slot : Nat, size : TileSizes])
  <2>1. y \in [id : 1 .. MaxRequests, slot : Nat, size : TileSizes]
    BY <1>2, <1>3
  <2> HIDE DEF y
  <2>q. QED
    BY <1>1, <2>1, AppendProperties
<1>8. ns \subseteq 1 .. MaxRequests /\ d.stale \subseteq ns
  BY <1>1, <1>3
<1>9. e.id \notin ns => txt = {e.id}
  OBVIOUS
<1> HIDE DEF np, ns, y, c, txt
<1>10. r.pool = np /\ r.missing = d.missing /\ r.tex = Append(d.tex, y) /\ r.stale = ns /\ r \in Drawn
  BY <1>5, <1>6, <1>7, <1>8 DEF Drawn
<1> HIDE DEF r
<1>11. r.tex = Append(d.tex, [id |-> e.id, slot |-> s, size |-> e.size])
  BY <1>10 DEF y
<1>q. QED
  BY <1>4, <1>6, <1>8, <1>9, <1>10, <1>11 DEF r

\* tile_texture: the tile is left out, and counted, or has got a texture.
LEMMA TileTextureGives ==
    ASSUME NEW d \in Drawn, Len(d.pool) <= PoolMax, NEW e \in TileEntry, HasPixels(e),
           NEW made, NEW locks
    PROVE  LET r == TileTexture(d, e, made, locks)
           IN  /\ r \in Drawn
               /\ r = [d EXCEPT !.missing = @ + 1] \/ \E s \in Nat : Got(d, e, s, r)
<1> DEFINE r == TileTexture(d, e, made, locks)
           F == FreeFitting(d.pool, e.size)
<1>1. /\ d.pool \in Seq(Texture) /\ d.missing \in Nat /\ d.stale \subseteq 1 .. MaxRequests
      /\ d.tex \in Seq([id : 1 .. MaxRequests, slot : Nat, size : TileSizes])
  BY DEF Drawn
<1>2. DOMAIN d.pool = 1 .. Len(d.pool) /\ Len(d.pool) \in Nat /\ PoolMax \in Nat
      /\ \A k \in DOMAIN d.pool : d.pool[k] \in Texture
  BY <1>1, LenProperties, ElementOfSeq, SizeAssumption
<1>3. CASE F # {}
  <2> DEFINE s == Claim(d.pool, e.size)
  <2>1. s \in F
    BY <1>1, <1>3, ClaimFits
  <2>2. s \in DOMAIN d.pool /\ ~d.pool[s].busy /\ d.pool[s].w >= e.size.w /\ d.pool[s].h >= e.size.h
    BY <2>1 DEF FreeFitting
  <2>3. r = Upload(d, e, s, locks)
    BY <1>3 DEF TileTexture
  <2> HIDE DEF s, r
  <2>4. /\ r \in Drawn
        /\ r.tex = Append(d.tex, [id |-> e.id, slot |-> s, size |-> e.size])
        /\ r.missing = d.missing /\ d.stale \subseteq r.stale
        /\ DOMAIN r.pool = DOMAIN d.pool /\ Len(r.pool) = Len(d.pool)
        /\ \A k \in DOMAIN d.pool \ {s} : r.pool[k] = d.pool[k]
        /\ r.pool[s].w = d.pool[s].w /\ r.pool[s].h = d.pool[s].h /\ r.pool[s].busy
        /\ e.id \notin r.stale => r.pool[s].text = {e.id}
    BY <2>2, <2>3, UploadGives
  <2>5. s \in Nat /\ ~(s > Len(d.pool))
    BY <1>2, <2>2
  <2>6. Got(d, e, s, r)
    BY <1>2, <2>2, <2>4, <2>5 DEF Got
  <2>q. QED
    BY <2>4, <2>5, <2>6 DEF r
<1>4. CASE F = {} /\ (Len(d.pool) = PoolMax \/ e.id \notin made)
  <2>1. r = [d EXCEPT !.missing = @ + 1]
    BY <1>4 DEF TileTexture
  <2>2. r \in Drawn
    BY <1>1, <2>1 DEF Drawn
  <2>q. QED
    BY <2>1, <2>2
<1>5. CASE F = {} /\ ~(Len(d.pool) = PoolMax \/ e.id \notin made)
  <2> DEFINE x == [w |-> Bucket(e.size.w), h |-> Bucket(e.size.h), busy |-> TRUE, text |-> {}]
             p == Append(d.pool, x)
             dd == [d EXCEPT !.pool = p]
             s == Len(d.pool) + 1
  <2>1. r = Upload(dd, e, s, locks)
    BY <1>5 DEF TileTexture
  <2>2. e.size \in TileSizes /\ e.size.w \in Nat /\ e.size.h \in Nat
    <3>1. e.size \in TileSizes
      BY DEF TileEntry
    <3>q. QED
      BY <3>1, SizesArePositive
  <2>3. /\ x \in Texture /\ x.w \in Nat /\ x.h \in Nat
        /\ x.w >= e.size.w /\ x.h >= e.size.h
    BY <2>2, BucketIsLarger DEF Texture
  <2> HIDE DEF x
  <2>4. /\ p \in Seq(Texture) /\ Len(p) = Len(d.pool) + 1 /\ DOMAIN p = 1 .. Len(d.pool) + 1
        /\ p[s] = x /\ \A k \in DOMAIN d.pool : p[k] = d.pool[k]
    BY <1>1, <1>2, <2>3, AppendProperties
  <2> HIDE DEF p
  <2>5. dd \in Drawn /\ dd.pool = p /\ dd.tex = d.tex /\ dd.missing = d.missing /\ dd.stale = d.stale
    BY <1>1, <2>4 DEF Drawn
  <2> HIDE DEF dd, r
  <2>6. s \in DOMAIN dd.pool /\ dd.pool[s].w >= e.size.w /\ dd.pool[s].h >= e.size.h
    BY <1>2, <2>3, <2>4, <2>5
  <2>7. /\ r \in Drawn
        /\ r.tex = Append(dd.tex, [id |-> e.id, slot |-> s, size |-> e.size])
        /\ r.missing = dd.missing /\ dd.stale \subseteq r.stale
        /\ DOMAIN r.pool = DOMAIN dd.pool /\ Len(r.pool) = Len(dd.pool)
        /\ \A k \in DOMAIN dd.pool \ {s} : r.pool[k] = dd.pool[k]
        /\ r.pool[s].w = dd.pool[s].w /\ r.pool[s].h = dd.pool[s].h /\ r.pool[s].busy
        /\ e.id \notin r.stale => r.pool[s].text = {e.id}
    <3> HIDE DEF s
    <3>q. QED
      BY <2>1, <2>5, <2>6, UploadGives
  <2>8. Len(d.pool) + 1 <= PoolMax /\ s \notin DOMAIN d.pool /\ s \in Nat
    BY <1>2, <1>5
  <2>9. \A k \in DOMAIN d.pool : d.pool[k].busy \/ d.pool[k].w < e.size.w \/ d.pool[k].h < e.size.h
    <3>1. ASSUME NEW k \in DOMAIN d.pool
          PROVE  d.pool[k].busy \/ d.pool[k].w < e.size.w \/ d.pool[k].h < e.size.h
      <4>1. d.pool[k].w \in Nat /\ d.pool[k].h \in Nat
        BY <1>2 DEF Texture
      <4>2. k \notin F
        BY <1>5
      <4>q. QED
        BY <2>2, <4>1, <4>2 DEF FreeFitting
    <3>q. QED
      BY <3>1
  <2>10. \A k \in DOMAIN r.pool : k \in DOMAIN d.pool \/ k = s
    BY <1>2, <2>4, <2>5, <2>7
  <2>11. \A k \in DOMAIN d.pool \ {s} : r.pool[k] = d.pool[k]
    BY <1>2, <2>4, <2>5, <2>7
  <2>12. Len(d.pool) <= Len(r.pool) /\ Len(r.pool) <= PoolMax
    BY <1>2, <2>4, <2>5, <2>7, <2>8
  <2>13. Got(d, e, s, r)
    <3> HIDE DEF s
    <3>q. QED
      BY <2>5, <2>6, <2>7, <2>8, <2>9, <2>10, <2>11, <2>12 DEF Got
  <2>q. QED
    BY <2>7, <2>8, <2>13 DEF r
<1>q. QED
  BY <1>3, <1>4, <1>5

\* The numbers of the tiles among the first n entries.
TilesTo(entries, n) == {entries[m].id : m \in {k \in 1 .. n : entries[k].tile}}

\* What holds of the drawing after n entries.
Serves(d, t) ==
    LET s == d.tex[t].slot
    IN  /\ s \in DOMAIN d.pool /\ d.pool[s].busy
        /\ d.pool[s].w >= d.tex[t].size.w /\ d.pool[s].h >= d.tex[t].size.h
        /\ d.tex[t].id \notin d.stale => d.pool[s].text = {d.tex[t].id}
Claimed(d, k) == \E t \in DOMAIN d.tex : d.tex[t].slot = k
NeedsNew(d, t) ==
    \A k \in DOMAIN pool : \/ pool[k].w < d.tex[t].size.w \/ pool[k].h < d.tex[t].size.h
                           \/ Claimed(d, k)
DrawnInv(d, entries, n) ==
    /\ d \in Drawn /\ Len(pool) <= Len(d.pool) /\ Len(d.pool) <= PoolMax
    /\ \A k \in DOMAIN pool : /\ d.pool[k].w = pool[k].w /\ d.pool[k].h = pool[k].h
                              /\ d.pool[k].busy => Claimed(d, k)
    /\ \A k \in DOMAIN d.pool : k \in DOMAIN pool \/ d.pool[k].busy
    /\ \A t \in DOMAIN d.tex :
          /\ Serves(d, t) /\ d.tex[t].id \in TilesTo(entries, n)
          /\ d.tex[t].slot > Len(pool) => NeedsNew(d, t)
    /\ Cardinality(TilesTo(entries, n) \ Ids(d.tex)) <= d.missing /\ d.missing <= n

LEMMA TilesToIsFinite ==
    ASSUME NEW entries, NEW n \in Nat, NEW S
    PROVE  /\ IsFiniteSet(TilesTo(entries, n))
           /\ IsFiniteSet(TilesTo(entries, n) \ S) /\ Cardinality(TilesTo(entries, n) \ S) \in Nat
<1> DEFINE f == [m \in 1 .. n |-> entries[m].id]
           T == {f[m] : m \in 1 .. n}
<1>1. f \in Surjection(1 .. n, T)
  BY DEF Surjection
<1>2. IsFiniteSet(T)
  BY <1>1, FS_Surjection, FS_Interval
<1>3. TilesTo(entries, n) \subseteq T
  BY DEF TilesTo
<1> HIDE DEF T
<1>q. QED
  BY <1>2, <1>3, FS_Subset, FS_CardinalityType

LEMMA TilesToGrows ==
    ASSUME NEW entries, NEW n \in Nat
    PROVE  TilesTo(entries, n + 1) =
              IF entries[n + 1].tile THEN TilesTo(entries, n) \cup {entries[n + 1].id}
              ELSE TilesTo(entries, n)
<1>1. 1 .. n + 1 = (1 .. n) \cup {n + 1}
  OBVIOUS
<1>2. {k \in 1 .. n + 1 : entries[k].tile} =
         IF entries[n + 1].tile THEN {k \in 1 .. n : entries[k].tile} \cup {n + 1}
         ELSE {k \in 1 .. n : entries[k].tile}
  BY <1>1
<1>q. QED
  BY <1>2 DEF TilesTo

LEMMA DrawnStep ==
    ASSUME PoolInv, NEW entries \in Seq(ListEntry), NEW n \in Nat, n + 1 <= Len(entries),
           HasPixels(entries[n + 1]), NEW d, DrawnInv(d, entries, n), NEW made, NEW locks, NEW r,
           r = IF entries[n + 1].tile THEN TileTexture(d, entries[n + 1], made, locks) ELSE d
    PROVE  DrawnInv(r, entries, n + 1)
<1> DEFINE e == entries[n + 1]
<1>1. e \in ListEntry
  BY ElementOfSeq, LenProperties
<1>2. /\ pool \in Seq(Texture) /\ DOMAIN pool = 1 .. Len(pool) /\ Len(pool) \in Nat
  BY LenProperties DEF PoolInv
<1>3. /\ d \in Drawn /\ Len(d.pool) <= PoolMax /\ Len(pool) <= Len(d.pool)
      /\ d.missing \in Nat /\ d.missing <= n
      /\ Cardinality(TilesTo(entries, n) \ Ids(d.tex)) <= d.missing
  BY DEF DrawnInv, Drawn
<1>4. /\ d.pool \in Seq(Texture) /\ DOMAIN d.pool = 1 .. Len(d.pool) /\ Len(d.pool) \in Nat
      /\ DOMAIN d.tex = 1 .. Len(d.tex) /\ Len(d.tex) \in Nat
      /\ d.tex \in Seq([id : 1 .. MaxRequests, slot : Nat, size : TileSizes])
      /\ d.pool \in Seq(Texture)
  BY <1>3, LenProperties DEF Drawn
<1>5. CASE ~e.tile
  <2>1. r = d /\ TilesTo(entries, n + 1) = TilesTo(entries, n)
    BY <1>5, TilesToGrows
  <2>2. d.missing <= n + 1
    BY <1>3
  <2>q. QED
    BY <2>1, <2>2 DEF DrawnInv
<1>6. CASE e.tile
  <2> HIDE DEF e
  <2>1. e \in TileEntry
    BY <1>1, <1>6 DEF ListEntry, TileEntry
  <2>2. r \in Drawn /\ (r = [d EXCEPT !.missing = @ + 1] \/ \E s \in Nat : Got(d, e, s, r))
    <3>1. r = TileTexture(d, e, made, locks) /\ HasPixels(e)
      BY <1>6 DEF e
    <3>q. QED
      BY <1>3, <2>1, <3>1, TileTextureGives
  <2>3. TilesTo(entries, n + 1) = TilesTo(entries, n) \cup {e.id}
    BY <1>6, TilesToGrows DEF e
  <2>4. /\ IsFiniteSet(TilesTo(entries, n) \ Ids(d.tex))
        /\ Cardinality(TilesTo(entries, n) \ Ids(d.tex)) \in Nat
    BY TilesToIsFinite
  <2>5. CASE r = [d EXCEPT !.missing = @ + 1]
    <3>1. r.pool = d.pool /\ r.tex = d.tex /\ r.stale = d.stale /\ r.missing = d.missing + 1
      BY <1>3, <2>5 DEF Drawn
    <3>2. Cardinality(TilesTo(entries, n + 1) \ Ids(r.tex)) <= r.missing
      <4> DEFINE S == TilesTo(entries, n) \ Ids(d.tex)
      <4>1. IsFiniteSet(S \cup {e.id}) /\ Cardinality(S \cup {e.id}) <= Cardinality(S) + 1
            /\ Cardinality(S) \in Nat
        <5> HIDE DEF S
        <5>1. IsFiniteSet(S) /\ Cardinality(S) \in Nat
          BY <2>4 DEF S
        <5>2. /\ IsFiniteSet(S \cup {e.id})
              /\ Cardinality(S \cup {e.id}) = IF e.id \in S THEN Cardinality(S) ELSE Cardinality(S) + 1
          BY <5>1, FS_AddElement
        <5>q. QED
          BY <5>1, <5>2
      <4>2. TilesTo(entries, n + 1) \ Ids(r.tex) \subseteq S \cup {e.id}
        BY <2>3, <3>1
      <4>3. /\ Cardinality(TilesTo(entries, n + 1) \ Ids(r.tex)) <= Cardinality(S \cup {e.id})
            /\ Cardinality(TilesTo(entries, n + 1) \ Ids(r.tex)) \in Nat
            /\ Cardinality(S \cup {e.id}) \in Nat
        BY <4>1, <4>2, FS_Subset, FS_CardinalityType
      <4> HIDE DEF S
      <4>4. Cardinality(S) <= d.missing
        BY <1>3 DEF S
      <4>q. QED
        BY <1>3, <3>1, <4>1, <4>3, <4>4
    <3>3. r.missing <= n + 1
      BY <1>3, <3>1
    <3>4. \A t \in DOMAIN d.tex : d.tex[t].id \in TilesTo(entries, n + 1)
      BY <2>3 DEF DrawnInv
    <3>5. \A k : Claimed(r, k) <=> Claimed(d, k)
      BY <3>1 DEF Claimed
    <3>6. \A t : Serves(r, t) <=> Serves(d, t)
      BY <3>1 DEF Serves
    <3>7. \A t : NeedsNew(r, t) <=> NeedsNew(d, t)
      BY <3>1, <3>5 DEF NeedsNew
    <3>q. QED
      BY <2>2, <3>1, <3>2, <3>3, <3>4, <3>5, <3>6, <3>7 DEF DrawnInv
  <2>6. ASSUME NEW s \in Nat, Got(d, e, s, r) PROVE DrawnInv(r, entries, n + 1)
    <3> DEFINE y == [id |-> e.id, slot |-> s, size |-> e.size]
               v == Len(d.tex) + 1
    <3>0. y.id = e.id /\ y.slot = s /\ y.size = e.size /\ y \in [id : 1 .. MaxRequests, slot : Nat, size : TileSizes]
      BY <2>1 DEF TileEntry
    <3>1. r.tex = Append(d.tex, y) /\ r.missing = d.missing
      BY <2>6 DEF Got
    <3> HIDE DEF y
    <3>2. /\ DOMAIN r.tex = 1 .. v /\ r.tex[v] = y
          /\ \A t \in DOMAIN d.tex : t \in DOMAIN r.tex /\ r.tex[t] = d.tex[t]
          /\ \A t \in DOMAIN r.tex : t \in DOMAIN d.tex \/ t = v
          /\ v \in DOMAIN r.tex
      <4> DEFINE R == [id : 1 .. MaxRequests, slot : Nat, size : TileSizes]
      <4>1. d.tex \in Seq(R) /\ y \in R
        BY <1>4, <3>0
      <4> HIDE DEF R
      <4>2. /\ DOMAIN r.tex = 1 .. Len(d.tex) + 1
            /\ \A t \in 1 .. Len(d.tex) : r.tex[t] = d.tex[t]
            /\ r.tex[Len(d.tex) + 1] = y
        BY <3>1, <4>1, AppendHas
      <4>3. DOMAIN d.tex = 1 .. Len(d.tex) /\ Len(d.tex) \in Nat
        BY <1>4
      <4>q. QED
        BY ONLY <4>2, <4>3 DEF v
    <3> HIDE DEF v
    <3>3. \A k : Claimed(d, k) => Claimed(r, k)
      BY <3>2 DEF Claimed
    <3>4. Claimed(r, s)
      BY <3>0, <3>2 DEF Claimed
    <3>5. Len(pool) <= Len(r.pool) /\ Len(r.pool) <= PoolMax
      <4>1. Len(r.pool) \in Nat /\ Len(d.pool) <= Len(r.pool) /\ Len(r.pool) <= PoolMax
        BY <2>2, <2>6, LenProperties DEF Got, Drawn
      <4>q. QED
        BY <1>2, <1>3, <1>4, <4>1
    <3>6. ASSUME NEW k \in DOMAIN pool
          PROVE  /\ r.pool[k].w = pool[k].w /\ r.pool[k].h = pool[k].h
                 /\ r.pool[k].busy => Claimed(r, k)
      <4>1. k \in DOMAIN d.pool
        BY <1>2, <1>3, <1>4
      <4>2. d.pool[k].w = pool[k].w /\ d.pool[k].h = pool[k].h /\ (d.pool[k].busy => Claimed(d, k))
        BY DEF DrawnInv
      <4>3. CASE k = s
        BY <2>6, <3>4, <4>1, <4>2, <4>3 DEF Got
      <4>4. CASE k # s
        <5>1. r.pool[k] = d.pool[k]
          BY <2>6, <4>1, <4>4 DEF Got
        <5>q. QED
          BY <3>3, <4>2, <5>1
      <4>q. QED
        BY <4>3, <4>4
    <3>7. ASSUME NEW t \in DOMAIN d.tex
          PROVE  /\ Serves(r, t) /\ r.tex[t].id \in TilesTo(entries, n + 1)
                 /\ r.tex[t].slot > Len(pool) => NeedsNew(r, t)
      <4>1. r.tex[t] = d.tex[t] /\ Serves(d, t) /\ d.tex[t].id \in TilesTo(entries, n)
            /\ (d.tex[t].slot > Len(pool) => NeedsNew(d, t))
        BY <3>2 DEF DrawnInv
      <4>2. d.tex[t].slot # s
        <5>1. d.tex[t].slot \in DOMAIN d.pool /\ d.pool[d.tex[t].slot].busy
          BY <4>1 DEF Serves
        <5>q. QED
          BY <2>6, <5>1 DEF Got
      <4>3. r.pool[d.tex[t].slot] = d.pool[d.tex[t].slot] /\ d.stale \subseteq r.stale
            /\ d.tex[t].slot \in DOMAIN r.pool
        <5>1. d.tex[t].slot \in DOMAIN d.pool
          BY <4>1 DEF Serves
        <5>2. DOMAIN d.pool \subseteq DOMAIN r.pool
          <6>1. DOMAIN r.pool = 1 .. Len(r.pool) /\ Len(r.pool) \in Nat
            BY <2>2, LenProperties DEF Drawn
          <6>2. Len(d.pool) <= Len(r.pool)
            BY <2>6 DEF Got
          <6>q. QED
            BY <1>4, <6>1, <6>2
        <5>q. QED
          BY <2>6, <4>2, <5>1, <5>2 DEF Got
      <4>4. Serves(r, t)
        BY <4>1, <4>3 DEF Serves
      <4>5. d.tex[t].slot > Len(pool) => NeedsNew(r, t)
        BY <3>3, <4>1 DEF NeedsNew
      <4>q. QED
        BY <2>3, <4>1, <4>4, <4>5
    <3>8. /\ Serves(r, v) /\ r.tex[v].id \in TilesTo(entries, n + 1)
          /\ r.tex[v].slot > Len(pool) => NeedsNew(r, v)
      <4>1. Serves(r, v)
        BY <2>6, <3>0, <3>2 DEF Serves, Got
      <4>2. r.tex[v].id \in TilesTo(entries, n + 1)
        BY <2>3, <3>0, <3>2
      <4>3. ASSUME s > Len(pool), NEW k \in DOMAIN pool
            PROVE  \/ pool[k].w < e.size.w \/ pool[k].h < e.size.h \/ Claimed(r, k)
        <5>1. k \in DOMAIN d.pool
          BY <1>2, <1>3, <1>4
        <5>2. d.pool[k].w = pool[k].w /\ d.pool[k].h = pool[k].h /\ (d.pool[k].busy => Claimed(d, k))
          BY DEF DrawnInv
        <5>3. CASE s > Len(d.pool)
          BY <2>6, <3>3, <5>1, <5>2, <5>3 DEF Got
        <5>4. CASE s <= Len(d.pool)
          <6>1. s \in DOMAIN d.pool /\ s \notin DOMAIN pool
            <7>1. s \in 1 .. Len(r.pool) /\ Len(r.pool) \in Nat
              BY <2>2, <2>6, LenProperties DEF Got, Drawn
            <7>q. QED
              BY <1>2, <1>4, <4>3, <5>4, <7>1
          <6>2. d.pool[s].busy
            BY <6>1 DEF DrawnInv
          <6>q. QED
            BY <2>6, <6>1, <6>2 DEF Got
        <5>q. QED
          BY <1>4, <5>3, <5>4
      <4>q. QED
        BY <3>0, <3>2, <4>1, <4>2, <4>3 DEF NeedsNew
    <3>11. \A k \in DOMAIN r.pool : k \in DOMAIN pool \/ r.pool[k].busy
      <4>1. ASSUME NEW k \in DOMAIN r.pool, k # s PROVE k \in DOMAIN pool \/ r.pool[k].busy
        BY <2>6, <4>1 DEF DrawnInv, Got
      <4>q. QED
        BY <2>6, <4>1 DEF Got
    <3>9. Cardinality(TilesTo(entries, n + 1) \ Ids(r.tex)) <= r.missing
      <4> DEFINE S == TilesTo(entries, n) \ Ids(d.tex)
      <4>1. TilesTo(entries, n + 1) \ Ids(r.tex) \subseteq S
        <5>1. e.id \in Ids(r.tex)
          BY <3>0, <3>2 DEF Ids
        <5>2. Ids(d.tex) \subseteq Ids(r.tex)
          BY <3>2 DEF Ids
        <5>q. QED
          BY <2>3, <5>1, <5>2
      <4>2. /\ Cardinality(TilesTo(entries, n + 1) \ Ids(r.tex)) <= Cardinality(S)
            /\ Cardinality(TilesTo(entries, n + 1) \ Ids(r.tex)) \in Nat
            /\ Cardinality(S) \in Nat
        BY <2>4, <4>1, FS_Subset, FS_CardinalityType
      <4>q. QED
        BY <1>3, <3>1, <4>2
    <3>10. r.missing <= n + 1
      BY <1>3, <3>1
    <3>q. QED
      BY <2>2, <3>2, <3>5, <3>6, <3>7, <3>8, <3>9, <3>10, <3>11 DEF DrawnInv
  <2>q. QED
    BY <2>2, <2>5, <2>6
<1>q. QED
  BY <1>5, <1>6

\* The drawing after each of the first n entries.
Chained(entries, made, locks, n, g) ==
    g = [k \in 0 .. n |->
            IF k = 0 THEN Drawing
            ELSE IF entries[k].tile THEN TileTexture(g[k - 1], entries[k], made, locks)
                 ELSE g[k - 1]]

LEMMA ChainedExists ==
    ASSUME NEW entries, NEW made, NEW locks, NEW n \in Nat
    PROVE  \E g : Chained(entries, made, locks, n, g)
<1> DEFINE T == {k \in Nat : \E g : Chained(entries, made, locks, k, g)}
           Then(x, k) == IF entries[k].tile THEN TileTexture(x, entries[k], made, locks) ELSE x
<1>1. 0 \in T
  <2> DEFINE g == [k \in 0 .. 0 |-> Drawing]
  <2>1. Chained(entries, made, locks, 0, g)
    BY DEF Chained
  <2>q. QED
    BY <2>1
<1>2. ASSUME NEW k \in Nat, k \in T PROVE k + 1 \in T
  <2>1. PICK g : Chained(entries, made, locks, k, g)
    BY <1>2
  <2>2. \A m \in 0 .. k : g[m] = IF m = 0 THEN Drawing ELSE Then(g[m - 1], m)
    BY <2>1, Zenon DEF Chained
  <2> HIDE DEF Then
  <2> DEFINE h == [m \in 0 .. k + 1 |-> IF m = 0 THEN Drawing ELSE Then(g[m - 1], m)]
  <2>3. \A m \in 0 .. k : h[m] = g[m]
    BY <2>2
  <2>4. \A m \in 0 .. k + 1 : m # 0 => m - 1 \in 0 .. k
    OBVIOUS
  <2>5. h = [m \in 0 .. k + 1 |-> IF m = 0 THEN Drawing ELSE Then(h[m - 1], m)]
    BY <2>3, <2>4, Zenon
  <2> HIDE DEF h
  <2>6. Chained(entries, made, locks, k + 1, h)
    BY <2>5, Zenon DEF Chained, Then
  <2>7. \E g1 : Chained(entries, made, locks, k + 1, g1)
    BY <2>6, Zenon
  <2>8. k + 1 \in Nat
    OBVIOUS
  <2>q. QED
    BY <2>7, <2>8, Zenon
<1> HIDE DEF T
<1>3. Nat \subseteq T
  BY <1>1, <1>2, SetInduction
<1>q. QED
  BY <1>3 DEF T

\* What draw_list leaves.
LEMMA DrawListHas ==
    ASSUME PoolInv, NEW entries \in Seq(ListEntry), \A n \in 1 .. Len(entries) : HasPixels(entries[n]),
           NEW made, NEW locks
    PROVE  DrawnInv(DrawList(entries, made, locks), entries, Len(entries))
<1>0. Len(entries) \in Nat
  BY LenProperties
<1> DEFINE n == Len(entries)
           g == CHOOSE f : Chained(entries, made, locks, n, f)
<1>1. Chained(entries, made, locks, n, g)
  BY <1>0, ChainedExists, Zenon
<1>2. DrawList(entries, made, locks) = g[n]
  BY Zenon DEF DrawList, Chained
<1> HIDE DEF g
<1>3. \A k \in 0 .. n : g[k] = IF k = 0 THEN Drawing
                              ELSE IF entries[k].tile THEN TileTexture(g[k - 1], entries[k], made, locks)
                                   ELSE g[k - 1]
  BY <1>1, Zenon DEF Chained
<1> DEFINE T == {k \in Nat : k <= n => DrawnInv(g[k], entries, k)}
<1>4. 0 \in T
  <2>1. g[0] = Drawing
    BY <1>0, <1>3
  <2>2. /\ pool \in Seq(Texture) /\ Len(pool) <= PoolMax /\ Len(pool) \in Nat
        /\ \A k \in DOMAIN pool : ~pool[k].busy
    BY LenProperties DEF PoolInv
  <2>3. Drawing \in Drawn /\ Drawing.pool = pool /\ Drawing.tex = <<>> /\ Drawing.missing = 0
    BY <2>2 DEF Drawing, Drawn
  <2>4. TilesTo(entries, 0) = {}
    BY DEF TilesTo
  <2>5. Cardinality(TilesTo(entries, 0) \ Ids(Drawing.tex)) = 0
    BY <2>4, FS_EmptySet
  <2>6. DOMAIN Drawing.tex = {}
    BY <2>3
  <2> HIDE DEF Drawing
  <2>7. DrawnInv(Drawing, entries, 0)
    BY <2>2, <2>3, <2>5, <2>6 DEF DrawnInv
  <2>q. QED
    BY <2>1, <2>7
<1>5. ASSUME NEW k \in Nat, k \in T PROVE k + 1 \in T
  <2>1. SUFFICES ASSUME k + 1 <= n PROVE DrawnInv(g[k + 1], entries, k + 1)
    OBVIOUS
  <2>2. k + 1 \in 1 .. n /\ k + 1 \in 0 .. n /\ k + 1 # 0 /\ k + 1 - 1 = k /\ DrawnInv(g[k], entries, k)
    BY <1>0, <1>5, <2>1
  <2>3. g[k + 1] = IF entries[k + 1].tile THEN TileTexture(g[k], entries[k + 1], made, locks) ELSE g[k]
    <3>1. g[k + 1] = IF k + 1 = 0 THEN Drawing
                     ELSE IF entries[k + 1].tile THEN TileTexture(g[k + 1 - 1], entries[k + 1], made, locks)
                          ELSE g[k + 1 - 1]
      BY ONLY <1>3, <2>2
    <3>q. QED
      BY <2>2, <3>1
  <2>4. HasPixels(entries[k + 1])
    BY <2>2
  <2>q. QED
    BY <2>1, <2>2, <2>3, <2>4, DrawnStep
<1> HIDE DEF T
<1>6. Nat \subseteq T
  BY <1>4, <1>5, SetInduction
<1>q. QED
  BY <1>0, <1>2, <1>6 DEF T

-----------------------------------------------------------------------------
(* Presenting.                                                             *)

\* The part of a list from its m-th entry on.
LEMMA PartHas ==
    ASSUME NEW all \in Seq(ListEntry), NEW m \in 1 .. Len(all) + 1
    PROVE  LET p == SubSeq(all, m, Len(all))
           IN  /\ p \in Seq(ListEntry) /\ Len(p) <= Len(all)
               /\ \A n \in 1 .. Len(p) : \E k \in 1 .. Len(all) : p[n] = all[k]
<1>1. Len(all) \in Nat /\ \A k \in 1 .. Len(all) : all[k] \in ListEntry
  BY LenProperties, ElementOfSeq
<1>2. \A k \in m .. Len(all) : all[k] \in ListEntry
  BY <1>1
<1> DEFINE p == SubSeq(all, m, Len(all))
<1>3. /\ p \in Seq(ListEntry) /\ Len(p) = IF m <= Len(all) THEN Len(all) - m + 1 ELSE 0
      /\ \A n \in 1 .. Len(all) - m + 1 : p[n] = all[m + n - 1]
  BY <1>1, <1>2, SubSeqProperties
<1> HIDE DEF p
<1>4. Len(p) <= Len(all) /\ Len(p) \in Nat /\ Len(p) = Len(all) - m + 1
  BY <1>1, <1>3
<1>5. ASSUME NEW n \in 1 .. Len(p) PROVE \E k \in 1 .. Len(all) : p[n] = all[k]
  <2>1. m + n - 1 \in 1 .. Len(all) /\ n \in 1 .. Len(all) - m + 1
    BY <1>1, <1>4
  <2>q. QED
    BY <1>3, <2>1
<1>q. QED
  BY <1>3, <1>4, <1>5 DEF p

LEMMA TileIdsAre ==
    ASSUME NEW p \in Seq(ListEntry)
    PROVE  TileIds(p) = TilesTo(p, Len(p))
BY LenProperties DEF TileIds, TilesTo

LEMMA PresentFrameHolds ==
    ASSUME ListsInv, NEW s \in Destinations, PresentFrame(s)
    PROVE  ListsInv' /\ AllocationsNeeded
<1> DEFINE all == list[s].e
           ov == OverlayAt(list[s])
           Old(b) == IF b THEN SubSeq(all, ov + 1, Len(all)) ELSE all
<1>i. /\ ListInv /\ ArenaInv /\ PoolInv /\ AskedInv /\ LossInv /\ ShownInv
  BY DEF ListsInv
<1>0. s \in DOMAIN list /\ all # <<>> /\ UNCHANGED <<arena, statDropped, requests>>
  BY DEF PresentFrame
<1>1. /\ all \in Seq(ListEntry) /\ Len(all) \in Nat /\ DOMAIN all = 1 .. Len(all)
      /\ list[s].ov \in NoMark .. Len(all)
      /\ Recorded(s) = all
  BY <1>0, <1>i, LenProperties DEF ListInv, Recorded
<1>2. ov \in 0 .. Len(all)
  BY <1>1 DEF OverlayAt, NoMark
<1>3. PICK engine \in BOOLEAN : \E made, locks \in SUBSET TileIds(Old(engine)) :
             LET old == Old(engine)
                 d == DrawList(old, made, locks)
             IN /\ engine => ov > 0
                /\ exhausted' = exhausted + d.missing
                /\ shown' =
                     [gpu |-> TRUE,
                      asked |-> {a \in asked : a.dst = s},
                      drawn |-> (Ids(all) \ TileIds(old)) \cup Ids(d.tex),
                      lit |-> IF engine THEN Ids(SubSeq(all, 1, ov)) ELSE {},
                      engine |-> engine, tex |-> d.tex, stale |-> d.stale,
                      pool |-> d.pool,
                      lost |-> statDropped + exhausted + d.missing - base]
                /\ FrameReset(d.pool)
                /\ base' = statDropped + exhausted + d.missing
  BY DEF PresentFrame
<1> DEFINE old == Old(engine)
<1>4. PICK made, locks :
             LET d == DrawList(old, made, locks)
             IN /\ exhausted' = exhausted + d.missing
                /\ shown' =
                     [gpu |-> TRUE,
                      asked |-> {a \in asked : a.dst = s},
                      drawn |-> (Ids(all) \ TileIds(old)) \cup Ids(d.tex),
                      lit |-> IF engine THEN Ids(SubSeq(all, 1, ov)) ELSE {},
                      engine |-> engine, tex |-> d.tex, stale |-> d.stale,
                      pool |-> d.pool,
                      lost |-> statDropped + exhausted + d.missing - base]
                /\ FrameReset(d.pool)
                /\ base' = statDropped + exhausted + d.missing
  BY <1>3
<1> DEFINE d == DrawList(old, made, locks)
<1>5. /\ old \in Seq(ListEntry) /\ Len(old) <= Len(all)
      /\ \A n \in 1 .. Len(old) : \E k \in 1 .. Len(all) : old[n] = all[k]
  <2>1. ov + 1 \in 1 .. Len(all) + 1
    BY <1>1, <1>2
  <2> HIDE DEF ov, all
  <2>2. CASE engine
    <3>1. old = SubSeq(all, ov + 1, Len(all))
      BY <2>2
    <3>2. /\ SubSeq(all, ov + 1, Len(all)) \in Seq(ListEntry)
          /\ Len(SubSeq(all, ov + 1, Len(all))) <= Len(all)
          /\ \A n \in 1 .. Len(SubSeq(all, ov + 1, Len(all))) :
                \E k \in 1 .. Len(all) : SubSeq(all, ov + 1, Len(all))[n] = all[k]
      BY ONLY <1>1, <2>1, PartHas
    <3>q. QED
      BY <3>1, <3>2
  <2>3. CASE ~engine
    BY <1>1, <2>3
  <2>q. QED
    BY <2>2, <2>3
<1> HIDE DEF old, Old, ov
<1>6. Len(old) \in Nat
  BY <1>5, LenProperties
<1>7. DrawnInv(d, old, Len(old))
  <2>1. \A n \in 1 .. Len(old) : HasPixels(old[n])
    BY <1>0, <1>1, <1>5, <1>i DEF ArenaInv
  <2>q. QED
    BY <1>i, <1>5, <2>1, DrawListHas
<1> HIDE DEF d, all
<1>8. /\ exhausted' = exhausted + d.missing
      /\ FrameReset(d.pool)
      /\ base' = statDropped + exhausted + d.missing
      /\ shown'.gpu /\ shown'.asked = {a \in asked : a.dst = s}
      /\ shown'.drawn = (Ids(all) \ TileIds(old)) \cup Ids(d.tex)
      /\ shown'.tex = d.tex /\ shown'.stale = d.stale /\ shown'.pool = d.pool
      /\ shown'.lost = statDropped + exhausted + d.missing - base
  BY <1>4 DEF d
<1>9. shown'.engine => shown'.lit = Ids(SubSeq(all, 1, ov))
  BY <1>4 DEF d
<1>10. /\ d.pool \in Seq(Texture) /\ Len(d.pool) <= PoolMax /\ d.missing \in Nat /\ d.missing <= Len(old)
       /\ DOMAIN d.pool = 1 .. Len(d.pool)
  BY <1>7, LenProperties DEF DrawnInv, Drawn
<1>11. /\ {statDropped, exhausted, base} \subseteq Nat /\ requests \in Nat
       /\ statDropped + exhausted + Len(all) <= requests
  <2>1. {statDropped, exhausted, base} \subseteq Nat /\ requests \in Nat
    BY <1>i DEF LossInv, AskedInv
  <2>2. statDropped + exhausted + Len(Recorded(s)) <= requests
    BY <1>i DEF LossInv
  <2>q. QED
    BY <1>1, <2>1, <2>2
<1>12. ListInv' /\ ArenaInv' /\ PoolInv' /\ AskedInv' /\ LossInv' /\ Len(pool') = Len(d.pool)
  <2>1. exhausted + d.missing \in Nat /\ statDropped + (exhausted + d.missing) <= requests
        /\ statDropped + exhausted + d.missing = statDropped + (exhausted + d.missing)
    BY <1>1, <1>5, <1>6, <1>10, <1>11
  <2> DEFINE m == exhausted + d.missing
  <2>2. exhausted' = m /\ base' = statDropped + m /\ m \in Nat /\ statDropped + m <= requests
    BY <1>8, <2>1
  <2> HIDE DEF m
  <2>q. QED
    BY <1>0, <1>i, <1>8, <1>10, <2>2, FrameResetHolds
<1>13. /\ {a.id : a \in shown'.asked} = AskedFor(s)
       /\ Ids(all) \subseteq AskedFor(s)
  <2>1. {a.id : a \in shown'.asked} = AskedFor(s)
    BY <1>8 DEF AskedFor
  <2>2. ASSUME NEW n \in DOMAIN all PROVE all[n].id \in AskedFor(s)
    <3>1. PICK x \in asked : x.id = list[s].e[n].id /\ x.dst = s
      BY <1>0, <1>i DEF AskedInv, all
    <3>q. QED
      BY <3>1 DEF AskedFor, all
  <2>q. QED
    BY <2>1, <2>2 DEF Ids
<1>14. /\ TileIds(old) = TilesTo(old, Len(old)) /\ TileIds(old) \subseteq Ids(all)
       /\ Ids(d.tex) \subseteq TileIds(old)
  <2>1. TileIds(old) = TilesTo(old, Len(old))
    BY <1>5, TileIdsAre
  <2>2. TilesTo(old, Len(old)) \subseteq Ids(all)
    BY <1>1, <1>5 DEF TilesTo, Ids
  <2>3. Ids(d.tex) \subseteq TilesTo(old, Len(old))
    BY <1>7 DEF DrawnInv, Ids
  <2>q. QED
    BY <2>1, <2>2, <2>3
<1>15. FrameIsThisFrame'
  <2>1. shown'.drawn \subseteq {a.id : a \in shown'.asked}
    BY <1>8, <1>13, <1>14
  <2> DEFINE A == AskedFor(s) \ Ids(all)
             B == TileIds(old) \ Ids(d.tex)
             C == {a.id : a \in shown'.asked} \ shown'.drawn
  <2>2. C \subseteq A \cup B
    BY <1>8, <1>13
  <2>3. IsFiniteSet(A) /\ Cardinality(A) \in Nat /\ Cardinality(A) <= Losses
    <3>1. IsFiniteSet(A)
      BY <1>i, AskedForIsFinite DEF AskedInv
    <3>2. Cardinality(A) <= Losses
      BY <1>0, <1>1, <1>i DEF LossInv
    <3>q. QED
      BY <3>1, <3>2, FS_CardinalityType
  <2>4. IsFiniteSet(B) /\ Cardinality(B) \in Nat /\ Cardinality(B) <= d.missing
    BY <1>6, <1>7, <1>14, TilesToIsFinite DEF DrawnInv
  <2> HIDE DEF A, B
  <2>5. IsFiniteSet(A \cup B) /\ Cardinality(A \cup B) = Cardinality(A) + Cardinality(B) - Cardinality(A \cap B)
    BY <2>3, <2>4, FS_Union
  <2>6. Cardinality(A \cap B) \in Nat
    BY <2>3, FS_Subset, FS_CardinalityType
  <2>7. Cardinality(C) <= Cardinality(A \cup B) /\ Cardinality(C) \in Nat /\ Cardinality(A \cup B) \in Nat
    BY <2>2, <2>5, FS_Subset, FS_CardinalityType
  <2>8. Cardinality(C) <= Losses + d.missing
    <3>1. Losses \in Int
      BY <1>11 DEF Losses
    <3> HIDE DEF C
    <3>q. QED
      BY <1>10, <2>3, <2>4, <2>5, <2>6, <2>7, <3>1
  <2>9. Losses + d.missing = shown'.lost
    BY <1>8, <1>10, <1>11 DEF Losses
  <2>q. QED
    BY <2>1, <2>8, <2>9 DEF FrameIsThisFrame, LossesAreCounted
<1>16. UiIsUnlit'
  <2>1. ASSUME shown'.engine, NEW a \in shown'.asked, a.id \in shown'.drawn
        PROVE  a.ui <=> a.id \notin shown'.lit
    <3>1. a \in asked /\ a.dst = s
      BY <1>8
    <3>2. PICK n \in DOMAIN all : all[n].id = a.id
      <4>1. a.id \in Ids(all)
        BY <1>8, <1>14, <2>1
      <4>q. QED
        BY <4>1 DEF Ids
    <3>3. \A k \in DOMAIN all : all[k].id = a.id => (a.ui <=> list[s].ov # NoMark /\ k > list[s].ov)
      <4>1. ASSUME NEW k \in DOMAIN all, all[k].id = a.id
            PROVE  a.ui <=> list[s].ov # NoMark /\ k > list[s].ov
        <5>1. PICK x \in asked : /\ x.id = list[s].e[k].id
                                 /\ x.ui <=> list[s].ov # NoMark /\ k > list[s].ov
          BY <1>0, <1>i DEF AskedInv, all
        <5>2. x = a
          BY <1>i, <3>1, <4>1, <5>1 DEF AskedInv, all
        <5>q. QED
          BY <5>1, <5>2
      <4>q. QED
        BY <4>1
    <3>4. Ids(SubSeq(all, 1, ov)) = {all[k].id : k \in 1 .. ov}
      <4>1. /\ SubSeq(all, 1, ov) \in Seq(ListEntry) /\ Len(SubSeq(all, 1, ov)) = ov
            /\ \A k \in 1 .. ov : SubSeq(all, 1, ov)[k] = all[k]
        <5>1. \A k \in 1 .. ov : all[k] \in ListEntry
          BY <1>1, <1>2, ElementOfSeq
        <5>2. ov \in Int
          BY <1>1, <1>2
        <5>3. /\ SubSeq(all, 1, ov) \in Seq(ListEntry)
              /\ Len(SubSeq(all, 1, ov)) = IF 1 <= ov THEN ov - 1 + 1 ELSE 0
              /\ \A k \in 1 .. ov - 1 + 1 : SubSeq(all, 1, ov)[k] = all[1 + k - 1]
          BY <5>1, <5>2, SubSeqProperties
        <5>4. \A k \in 1 .. ov : k \in 1 .. ov - 1 + 1 /\ 1 + k - 1 = k
          BY <5>2
        <5>q. QED
          BY <1>1, <1>2, <5>2, <5>3, <5>4
      <4>2. DOMAIN SubSeq(all, 1, ov) = 1 .. ov
        BY <4>1, LenProperties
      <4>q. QED
        BY <4>1, <4>2 DEF Ids
    <3>5. \A k \in 1 .. Len(all) : k \in 1 .. ov <=> ~(list[s].ov # NoMark /\ k > list[s].ov)
      BY <1>1 DEF OverlayAt, ov, NoMark, all
    <3>6. a.id \in shown'.lit <=> \E k \in 1 .. ov : all[k].id = a.id
      BY <1>9, <2>1, <3>4
    <3>7. 1 .. ov \subseteq DOMAIN all
      BY <1>1, <1>2
    <3>q. QED
      BY <1>1, <3>2, <3>3, <3>5, <3>6, <3>7
  <2>q. QED
    BY <2>1 DEF UiIsUnlit
<1>17. ShownInv'
  <2>1. Drew' = d.tex
    BY <1>8 DEF Drew
  <2>2. \A n \in DOMAIN d.tex : Serves(d, n)
    BY <1>7 DEF DrawnInv
  <2>3. TextIsOwn' /\ TilesFitTheirTextures'
    BY <1>8, <2>1, <2>2 DEF TextIsOwn, TilesFitTheirTextures, Serves
  <2>4. \A n \in DOMAIN Drew' : Drew'[n].slot \in 1 .. Len(pool')
    BY <1>10, <1>12, <2>1, <2>2 DEF Serves
  <2>q. QED
    BY <1>15, <1>16, <2>3, <2>4 DEF ShownInv
<1>18. AllocationsNeeded
  BY <1>7, <1>8 DEF AllocationsNeeded, DrawnInv, NeedsNew, Claimed
<1>q. QED
  BY <1>12, <1>17, <1>18 DEF ListsInv

-----------------------------------------------------------------------------
LEMMA ListsStepPreserves == ListsInv /\ [ListsNext]_listVars => ListsInv' /\ AllocationsNeeded
<1> SUFFICES ASSUME ListsInv, [ListsNext]_listVars PROVE ListsInv' /\ AllocationsNeeded
  OBVIOUS
<1>1. ASSUME shown' = Software PROVE AllocationsNeeded
  BY <1>1 DEF AllocationsNeeded, Software
<1>2. ASSUME UNCHANGED <<shown, pool>> PROVE AllocationsNeeded
  <2>1. shown.gpu => \A t \in DOMAIN shown.tex : shown.tex[t].slot \in 1 .. Len(pool)
    BY DEF ListsInv, ShownInv, Drew
  <2>2. Len(pool) \in Nat
    BY LenProperties DEF ListsInv, PoolInv
  <2>3. shown' = shown
    BY <1>2
  <2>4. shown.gpu => \A t \in DOMAIN shown.tex : ~(shown.tex[t].slot > Len(pool))
    BY <2>1, <2>2
  <2>q. QED
    BY <2>3, <2>4 DEF AllocationsNeeded
<1>3. ASSUME NEW s \in Destinations, Record(s) PROVE ListsInv' /\ AllocationsNeeded
  BY <1>1, <1>3, RecordHolds DEF Record, Request
<1>4. ASSUME NEW s \in Destinations, OverlayMark(s) PROVE ListsInv' /\ AllocationsNeeded
  BY <1>2, <1>4, OverlayMarkHolds DEF OverlayMark
<1>5. ASSUME NEW s \in Destinations, PresentSoftware(s) PROVE ListsInv' /\ AllocationsNeeded
  BY <1>1, <1>5, PresentSoftwareHolds DEF PresentSoftware
<1>6. ASSUME NEW s \in Destinations, PresentFrame(s) PROVE ListsInv' /\ AllocationsNeeded
  BY <1>6, PresentFrameHolds
<1>7. ASSUME NEW s \in Destinations, NEW z \in TileSizes, Tile(s, z) PROVE ListsInv' /\ AllocationsNeeded
  BY <1>1, <1>7, TileHolds DEF Tile, Request
<1>8. CASE Shutdown
  BY <1>1, <1>8, ShutdownHolds DEF Shutdown
<1>9. CASE UNCHANGED listVars
  <2>1. /\ list' = list /\ used' = used /\ arena' = arena /\ pool' = pool /\ statDropped' = statDropped
        /\ exhausted' = exhausted /\ requests' = requests /\ asked' = asked /\ shown' = shown /\ base' = base
    BY <1>9 DEF listVars
  <2>2. ListsInv'
    <3>1. ListInv' /\ PoolInv'
      BY <2>1 DEF ListsInv, ListInv, PoolInv
    <3>2. ArenaInv'
      BY <2>1 DEF ListsInv, ArenaInv, HasPixels
    <3>3. AskedInv'
      BY <2>1 DEF ListsInv, AskedInv
    <3>4. LossInv'
      BY <2>1 DEF ListsInv, LossInv, Losses, AskedFor, Recorded
    <3>5. ShownInv'
      BY <2>1 DEF ListsInv, ShownInv, TextIsOwn, FrameIsThisFrame, LossesAreCounted, UiIsUnlit,
             TilesFitTheirTextures, Drew
    <3>q. QED
      BY <3>1, <3>2, <3>3, <3>4, <3>5 DEF ListsInv
  <2>q. QED
    BY <1>2, <2>1, <2>2
<1>q. QED
  BY <1>3, <1>4, <1>5, <1>6, <1>7, <1>8, <1>9 DEF ListsNext

LEMMA ListsInvariance == ListsSpec => []ListsInv
<1>1. ListsInv /\ [ListsNext]_listVars => ListsInv'
  BY ListsStepPreserves
<1>q. QED
  BY ListsInitHolds, <1>1, PTL DEF ListsSpec

\* The lists, the arena and the pool of render.c never exceed their caps, and
\* every counter stays within the requests made.
THEOREM ListsTypeCorrect == ListsSpec => []ListsTypeOK
<1>1. ListsInv => ListsTypeOK
  <2> SUFFICES ASSUME ListsInv PROVE ListsTypeOK
    OBVIOUS
  <2>1. /\ DOMAIN list \subseteq Destinations /\ Cardinality(DOMAIN list) <= ListsMax
        /\ \A s \in DOMAIN list :
              /\ list[s].e \in Seq(ListEntry) /\ Len(list[s].e) <= ListMax
              /\ list[s].ov \in NoMark .. Len(list[s].e)
    BY DEF ListsInv, ListInv
  <2>2. used \in 0 .. ArenaMax /\ arena \in [0 .. ArenaMax - 1 -> 0 .. MaxRequests]
    BY DEF ListsInv, ArenaInv
  <2>3. /\ Len(pool) <= PoolMax
        /\ \A k \in DOMAIN pool :
              /\ pool[k].w \in Nat /\ pool[k].h \in Nat /\ pool[k].busy \in BOOLEAN
              /\ pool[k].text \subseteq 1 .. MaxRequests
    <3>1. \A k \in DOMAIN pool : pool[k] \in Texture
      BY ElementOfSeq, LenProperties DEF ListsInv, PoolInv
    <3>q. QED
      BY <3>1 DEF ListsInv, PoolInv, Texture
  <2>4. requests \in Nat /\ requests <= MaxRequests /\ MaxRequests \in Nat
    BY SizeAssumption DEF ListsInv, AskedInv
  <2>5. {statDropped, exhausted, requests, base} \subseteq 0 .. MaxRequests
    <3>1. /\ statDropped \in Nat /\ exhausted \in Nat /\ base \in Nat
          /\ base <= requests /\ statDropped + exhausted <= requests
      BY DEF ListsInv, LossInv
    <3>q. QED
      BY <2>4, <3>1
  <2>6. asked \subseteq [id : 1 .. MaxRequests, dst : Destinations, ui : BOOLEAN]
    <3>1. \A x \in asked : x \in [id : 1 .. requests, dst : Destinations, ui : BOOLEAN]
      BY DEF ListsInv, AskedInv
    <3>q. QED
      BY <2>4, <3>1
  <2>q. QED
    BY <2>1, <2>2, <2>3, <2>5, <2>6 DEF ListsTypeOK
<1>q. QED
  BY <1>1, ListsInvariance, PTL

\* When a frame is complete the texture of every tile in it holds the pixels
\* of that tile only, whatever the sizes and the number of the tiles and
\* however the lists, the arena and the pool have filled (tile_texture).
THEOREM TextOfEveryTile == ListsSpec => []TextIsOwn
<1>1. ListsInv => TextIsOwn
  BY DEF ListsInv, ShownInv
<1>q. QED
  BY <1>1, ListsInvariance, PTL

\* And it is large enough for the tile (fl_pool_bucket, fl_pool_claim).
THEOREM TilesFit == ListsSpec => []TilesFitTheirTextures
<1>1. ListsInv => TilesFitTheirTextures
  BY DEF ListsInv, ShownInv
<1>q. QED
  BY <1>1, ListsInvariance, PTL

\* The native renderer shows only draws of the frame and surface presented,
\* and all of them but those it counted as lost (render_present,
\* render_frame_reset).
THEOREM FramesAreTheirOwn == ListsSpec => []FrameIsThisFrame
<1>1. ListsInv => FrameIsThisFrame
  BY DEF ListsInv, ShownInv
<1>q. QED
  BY <1>1, ListsInvariance, PTL

\* With the engine drawing, what the port drew after it first marked the
\* overlay is not lit, and what the game drew before is (fl_overlay_mark,
\* fl_overlay_at).
THEOREM UiStaysUnlit == ListsSpec => []UiIsUnlit
<1>1. ListsInv => UiIsUnlit
  BY DEF ListsInv, ShownInv
<1>q. QED
  BY <1>1, ListsInvariance, PTL

\* A present makes a texture only for a tile that no texture already in the
\* pool could serve (fl_pool_add after fl_pool_claim).
THEOREM TexturesAreReused == ListsSpec => AllocatesWhenBusy
<1>1. ListsInv /\ [ListsNext]_listVars => AllocationsNeeded
  BY ListsStepPreserves
<1>q. QED
  BY <1>1, ListsInvariance, PTL DEF ListsSpec, AllocatesWhenBusy
=============================================================================
