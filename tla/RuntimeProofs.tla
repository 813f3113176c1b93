---------------------------- MODULE RuntimeProofs ----------------------------
(***************************************************************************)
(* Proofs about the two engines that run the game: Executor, for any       *)
(* program of guest and native functions that call each other to any       *)
(* depth, and FrameClock, for any frame, intervals, clamp and pacer.       *)
(***************************************************************************)
EXTENDS Executor, FrameClock, SequenceTheorems, TLAPS

(* The guest code a run may execute, and the calls of that code.           *)
Code(run) ==
    CHOOSE code \in SUBSET Functions :
        IsCodeOf(code, run.fn, run.excluded) /\ run.back \notin ReturnsTo(code)
Entered(run) == Code(run) \union Services \union (Overridden \ {run.excluded})
GuestSite(run) == ReturnsTo(Code(run))

Place == [is : {"entry"}, fn : Functions \union Services]
         \union [is : {"in"}, fn : Functions \union {None}]
         \union [is : {"back"}, site : Address]
RunFrame == [is : {"run"}, fn : Functions, back : Address, excluded : Overridden \union {None},
             esp : Nat \ {0}, parent : Nat]
NativeFrame == [is : {"native"}, fn : Overridden \union Services, back : Address,
                by : {"run", "native"}, esp : Nat \ {0}, done : BOOLEAN]
MainFrame == Native(Main, None, "native", 0)
HostFrame == RunFrame \union NativeFrame

-----------------------------------------------------------------------------
(* The inductive invariant.  Whoever has control stands on the open calls. *)
Esp == IF Running THEN jit.esp ELSE view.esp
StackOn(s, c, esp) ==
    /\ s \in Seq(Address) /\ c \in Seq(Address) /\ Len(s) <= MaxStack
    /\ esp = Len(c) /\ esp <= Len(s) /\ c = SubSeq(s, 1, esp)
StackInv ==
    /\ jit \in [esp : 0..MaxStack, at : Place] /\ view \in [esp : 0..MaxStack]
    /\ StackOn(stack, calls, Esp)

\* A run is bounded by an address that its own code cannot come back to, and
\* so would be the run of the original of a function in progress.
OwnBack(f) ==
    /\ f.is = "run" => EndsAt(f.fn, f.excluded, f.back)
    /\ f.fn \in Overridden => EndsAt(f.fn, f.fn, f.back)
    /\ f.is = "native" => (f.done => f.fn \in Overridden)

\* The calls below a native function's own: an original called in place has
\* popped the return address it came with.
Below(f) == IF f.done THEN f.esp - 1 ELSE f.esp

\* How a frame of the native stack stands on the one below it.
Dispatched(a, b) ==
    /\ a.is = "run" /\ b.is = "native" /\ b.by = "run"
    /\ \/ b.esp = a.esp /\ b.back = a.back
       \/ b.esp > a.esp /\ b.back \in GuestSite(a)
Original(a, b) ==
    /\ a.is = "native" /\ b.is = "run" /\ a.done
    /\ b.excluded = a.fn /\ b.esp = a.esp /\ b.back = a.back
Called(a, b) ==
    /\ a.is = "native" /\ b.esp = Below(a) + 1
    /\ b.is = "native" => b.by = "native"
StandsOn(a, b) == Dispatched(a, b) \/ Original(a, b) \/ Called(a, b)

Chain(h) ==
    /\ h \in Seq(HostFrame \union {MainFrame}) /\ Len(h) >= 1 /\ h[1] = MainFrame
    /\ \A i \in 2..Len(h) : h[i] \in HostFrame /\ OwnBack(h[i])
    /\ \A i \in 1..Len(h) - 1 : StandsOn(h[i], h[i + 1])
    /\ \A i, j \in 1..Len(h) : i <= j => h[i].esp <= h[j].esp

\* The return address a frame came with is where it was put, until what
\* stands on the frame takes its place, and between a run and what stands on
\* it there are only calls of its own code.
Levels(h, c) ==
    /\ \A i \in 2..Len(h) :
          /\ h[i].esp <= Len(c)
          /\ i < Len(h) => h[i].esp < h[i + 1].esp
          => c[h[i].esp] = h[i].back
    /\ \A i \in 1..Len(h), k \in 1..Len(c) :
          /\ h[i].is = "run" /\ h[i].esp < k
          /\ i < Len(h) => k <= Below(h[i + 1])
          => c[k] \in GuestSite(h[i])

\* Each run remembers the innermost run below it.
InnermostRun(h, a, n) ==
    /\ a \in 0..n /\ (a # 0 => h[a].is = "run")
    /\ \A j \in a + 1..n : h[j].is = "native"
Parents(h) == \A i \in 1..Len(h) : h[i].is = "run" => InnermostRun(h, h[i].parent, i - 1)

\* Where control stands on the innermost frame.
JitAt(at, f, c) ==
    \/ at.is = "in" /\ at.fn \in Code(f) /\ Len(c) >= f.esp
    \/ /\ at.is = "entry" /\ at.fn \in Entered(f) /\ Len(c) >= f.esp
       /\ Len(c) = f.esp => at.fn = f.fn
       /\ Len(c) > f.esp => c[Len(c)][2] = at.fn
    \/ /\ at.is = "back" /\ Len(c) >= f.esp - 1
       /\ Len(c) = f.esp - 1 => at.site = f.back
       /\ Len(c) >= f.esp => at.site \in GuestSite(f)
PlaceInv ==
    IF Running THEN JitAt(jit.at, Innermost, calls)
    ELSE Len(calls) = Below(Innermost)

HostInv ==
    /\ Chain(host) /\ Levels(host, calls) /\ Parents(host)
    /\ InnermostRun(host, active, Len(host))
    /\ Len(host) <= MaxHost + 1 /\ (Running => Len(host) <= MaxHost)

IInv == StackInv /\ HostInv /\ PlaceInv

-----------------------------------------------------------------------------
(* What guest code can reach.                                              *)

LEMMA CodeFacts ==
    ASSUME NEW f \in RunFrame, OwnBack(f), f.is = "run"
    PROVE  /\ Code(f) \subseteq Functions /\ IsCodeOf(Code(f), f.fn, f.excluded)
           /\ f.back \notin GuestSite(f)
<1>1. \E code \in SUBSET Functions :
          IsCodeOf(code, f.fn, f.excluded) /\ f.back \notin ReturnsTo(code)
  BY DEF OwnBack, EndsAt
<1>2. Code(f) \in SUBSET Functions /\ IsCodeOf(Code(f), f.fn, f.excluded)
      /\ f.back \notin ReturnsTo(Code(f))
  BY <1>1, Zenon DEF Code
<1>q. QED
  BY <1>2 DEF GuestSite

LEMMA CodeCalls ==
    ASSUME NEW f \in RunFrame, OwnBack(f), f.is = "run", NEW g \in Code(f)
    PROVE  /\ g \in Functions
           /\ \A h \in Calls[g] : /\ h \in Entered(f) /\ h \in Functions \union Services
                                  /\ <<g, h>> \in GuestSite(f) /\ <<g, h>> \in Address
<1> USE ExecutorAssumption
<1>1. /\ Code(f) \subseteq Functions
      /\ Calls[g] \intersect Functions \subseteq Code(f) \union (Overridden \ {f.excluded})
  BY CodeFacts DEF IsCodeOf
<1>2. g \in Functions
  BY <1>1
<1>3. ASSUME NEW h \in Calls[g]
      PROVE  h \in Entered(f) /\ h \in Functions \union Services
  BY <1>1, <1>2, <1>3 DEF Entered
<1>4. ASSUME NEW h \in Calls[g] PROVE <<g, h>> \in GuestSite(f) /\ <<g, h>> \in Address
  BY <1>2, <1>3, <1>4 DEF GuestSite, ReturnsTo, Address, Sites
<1>q. QED
  BY <1>2, <1>3, <1>4

LEMMA GoesOn ==
    ASSUME NEW f, NEW g \in Entered(f), g \notin Services, g \notin Overridden \ {f.excluded}
    PROVE  g \in Code(f)
BY DEF Entered

\* An address of a run's own code is behind a call that code makes.
LEMMA SiteFacts ==
    ASSUME NEW f \in RunFrame, OwnBack(f), f.is = "run", NEW site \in GuestSite(f)
    PROVE  /\ site[1] \in Code(f) /\ site[1] \in Functions /\ site[2] \in Calls[site[1]]
           /\ site = <<site[1], site[2]>> /\ site \in Sites /\ site \notin Synthetic
<1>1. Code(f) \subseteq Functions
  BY CodeFacts
<1>2. /\ site \in Code(f) \X (Functions \union Services) /\ site[2] \in Calls[site[1]]
  BY DEF GuestSite, ReturnsTo
<1>3. site[1] \in Code(f) /\ site[2] \in Functions \union Services /\ site = <<site[1], site[2]>>
  BY <1>2
<1>4. site \in Sites
  BY <1>1, <1>3 DEF Sites
<1>q. QED
  BY <1>1, <1>2, <1>3, <1>4, ExecutorAssumption

-----------------------------------------------------------------------------
(* The native stack.                                                       *)

LEMMA FrontFacts ==
    ASSUME NEW S, NEW s \in Seq(S), Len(s) >= 1
    PROVE  /\ Front(s) \in Seq(S) /\ Len(s) \in Nat /\ Len(Front(s)) = Len(s) - 1
           /\ \A i \in 1..Len(s) - 1 : Front(s)[i] = s[i]
<1> DEFINE n == Len(s) - 1
<1>1. Len(s) \in Nat /\ n \in Nat /\ 1 \in Int /\ n \in Int
  OBVIOUS
<1>2. \A i \in 1..n : s[i] \in S
  OBVIOUS
<1> HIDE DEF n
<1>3. SubSeq(s, 1, n) \in Seq(S)
  BY <1>1, <1>2, SubSeqProperties
<1>4. Len(SubSeq(s, 1, n)) = IF 1 <= n THEN n - 1 + 1 ELSE 0
  BY <1>1, <1>2, SubSeqProperties
<1>5. \A i \in 1..n - 1 + 1 : SubSeq(s, 1, n)[i] = s[1 + i - 1]
  BY <1>1, <1>2, SubSeqProperties
<1>6. Len(SubSeq(s, 1, n)) = n
  BY <1>1, <1>4
<1>7. \A i \in 1..n : SubSeq(s, 1, n)[i] = s[i]
  <2> SUFFICES ASSUME NEW i \in 1..n PROVE SubSeq(s, 1, n)[i] = s[i]
    OBVIOUS
  <2>1. i \in 1..n - 1 + 1 /\ 1 + i - 1 = i
    BY <1>1
  <2>q. QED
    BY <1>5, <2>1
<1>q. QED
  BY <1>1, <1>3, <1>6, <1>7 DEF Front, n

LEMMA FrameKinds ==
    ASSUME NEW f \in HostFrame \union {MainFrame}
    PROVE  /\ f.is \in {"run", "native"} /\ f.esp \in Nat
           /\ f.is = "run" => f \in RunFrame
           /\ f.is = "native" => f \in NativeFrame \union {MainFrame}
           /\ f # MainFrame => f.esp >= 1
           /\ f.is = "native" /\ f.done => f # MainFrame
BY DEF HostFrame, RunFrame, NativeFrame, MainFrame, Native

LEMMA AppendFacts ==
    ASSUME NEW S, NEW s \in Seq(S), NEW e \in S
    PROVE  /\ Append(s, e) \in Seq(S) /\ Len(Append(s, e)) = Len(s) + 1
           /\ Append(s, e)[Len(s) + 1] = e
OBVIOUS

LEMMA ChainPush ==
    ASSUME NEW h, Chain(h), NEW f \in HostFrame, OwnBack(f), StandsOn(h[Len(h)], f),
           h[Len(h)].esp <= f.esp
    PROVE  Chain(Append(h, f))
<1> DEFINE g == Append(h, f)
<1>0. /\ h \in Seq(HostFrame \union {MainFrame}) /\ Len(h) \in Nat /\ Len(h) >= 1
      /\ g \in Seq(HostFrame \union {MainFrame}) /\ Len(g) = Len(h) + 1
      /\ \A i \in 1..Len(h) : g[i] = h[i]
      /\ g[Len(h) + 1] = f
  BY DEF Chain
<1> HIDE DEF g
<1>1. g[1] = MainFrame
  BY <1>0 DEF Chain
<1>2. \A i \in 2..Len(g) : g[i] \in HostFrame /\ OwnBack(g[i])
  BY <1>0 DEF Chain
<1>3. \A i \in 1..Len(g) - 1 : StandsOn(g[i], g[i + 1])
  BY <1>0 DEF Chain
<1>4. \A i, j \in 1..Len(g) : i <= j => g[i].esp <= g[j].esp
  <2> SUFFICES ASSUME NEW i \in 1..Len(g), NEW j \in 1..Len(g), i <= j
               PROVE  g[i].esp <= g[j].esp
    OBVIOUS
  <2>1. CASE j <= Len(h)
    BY <1>0, <2>1 DEF Chain
  <2>2. CASE j = Len(h) + 1 /\ i <= Len(h)
    <3>1. h[i].esp <= h[Len(h)].esp
      BY <1>0, <2>2 DEF Chain
    <3>2. h[i].esp \in Nat /\ h[Len(h)].esp \in Nat /\ f.esp \in Nat
      BY <1>0, <2>2, FrameKinds
    <3>q. QED
      BY <1>0, <2>2, <3>1, <3>2
  <2>3. CASE j = Len(h) + 1 /\ i = j
    BY <1>0, <2>3, FrameKinds
  <2>q. QED
    BY <1>0, <2>1, <2>2, <2>3
<1>r. Chain(g)
  BY <1>0, <1>1, <1>2, <1>3, <1>4 DEF Chain
<1>q. QED
  BY <1>r DEF g

LEMMA ChainPop ==
    ASSUME NEW h, Chain(h), Len(h) > 1
    PROVE  Chain(Front(h))
<1> DEFINE g == Front(h)
<1>0. /\ h \in Seq(HostFrame \union {MainFrame}) /\ Len(h) \in Nat
      /\ g \in Seq(HostFrame \union {MainFrame}) /\ Len(g) = Len(h) - 1
      /\ \A i \in 1..Len(g) : g[i] = h[i]
  BY FrontFacts DEF Chain
<1> HIDE DEF g
<1>1. \A i \in 2..Len(g) : g[i] \in HostFrame /\ OwnBack(g[i])
  BY <1>0 DEF Chain
<1>2. \A i \in 1..Len(g) - 1 : StandsOn(g[i], g[i + 1])
  BY <1>0 DEF Chain
<1>3. \A i, j \in 1..Len(g) : i <= j => g[i].esp <= g[j].esp
  BY <1>0 DEF Chain
<1>r. Chain(g)
  BY <1>0, <1>1, <1>2, <1>3 DEF Chain
<1>q. QED
  BY <1>r DEF g

\* The innermost native function is marked as done.
Marked(h) == [h EXCEPT ![Len(h)] = [h[Len(h)] EXCEPT !.done = TRUE]]

LEMMA MarkedFacts ==
    ASSUME NEW h, Chain(h), h[Len(h)].is = "native", h[Len(h)].fn \in Overridden
    PROVE  /\ Len(h) > 1 /\ Marked(h) \in Seq(HostFrame \union {MainFrame}) /\ Len(Marked(h)) = Len(h)
           /\ \A i \in 1..Len(h) - 1 : Marked(h)[i] = h[i]
           /\ LET f == h[Len(h)]
                  g == Marked(h)[Len(h)]
              IN  /\ g \in NativeFrame /\ g.is = "native" /\ g.fn = f.fn /\ g.back = f.back
                  /\ g.esp = f.esp /\ g.by = f.by /\ g.done
<1> DEFINE f == h[Len(h)]
           g == [f EXCEPT !.done = TRUE]
<1>0. h \in Seq(HostFrame \union {MainFrame}) /\ Len(h) \in Nat /\ Len(h) >= 1
  BY DEF Chain
<1>1. Len(h) > 1
  BY <1>0, ExecutorAssumption DEF Chain, MainFrame, Native
<1>2. f \in NativeFrame
  BY <1>0, <1>1, FrameKinds DEF Chain, HostFrame, RunFrame
<1>3. /\ g \in NativeFrame /\ g.is = "native" /\ g.fn = f.fn /\ g.back = f.back
      /\ g.esp = f.esp /\ g.by = f.by /\ g.done
  BY <1>2 DEF NativeFrame
<1> HIDE DEF f, g
<1>4. Marked(h) = [h EXCEPT ![Len(h)] = g]
  BY DEF Marked, f, g
<1>5. g \in HostFrame \union {MainFrame}
  BY <1>3 DEF HostFrame
<1>q. QED
  BY <1>0, <1>1, <1>3, <1>4, <1>5 DEF f

LEMMA ChainMark ==
    ASSUME NEW h, Chain(h), h[Len(h)].is = "native", h[Len(h)].fn \in Overridden
    PROVE  Chain(Marked(h))
<1> DEFINE g == Marked(h)
           n == Len(h)
<1>0. /\ h \in Seq(HostFrame \union {MainFrame}) /\ n \in Nat /\ n > 1
      /\ g \in Seq(HostFrame \union {MainFrame}) /\ Len(g) = n
      /\ \A i \in 1..n - 1 : g[i] = h[i]
      /\ g[n] \in NativeFrame /\ g[n].is = "native" /\ g[n].fn = h[n].fn /\ g[n].back = h[n].back
      /\ g[n].esp = h[n].esp /\ g[n].by = h[n].by /\ g[n].done
  BY MarkedFacts DEF Chain
<1> HIDE DEF g, n
<1>1. g[1] = MainFrame
  BY <1>0 DEF Chain
<1>2. \A i \in 2..n : g[i] \in HostFrame /\ OwnBack(g[i])
  <2> SUFFICES ASSUME NEW i \in 2..n PROVE g[i] \in HostFrame /\ OwnBack(g[i])
    OBVIOUS
  <2>1. h[i] \in HostFrame /\ OwnBack(h[i])
    BY DEF Chain, n
  <2>2. CASE i = n
    BY <1>0, <2>1, <2>2 DEF OwnBack, HostFrame, n
  <2>q. QED
    BY <1>0, <2>1, <2>2
<1>3. \A i \in 1..n - 1 : StandsOn(g[i], g[i + 1])
  <2> SUFFICES ASSUME NEW i \in 1..n - 1 PROVE StandsOn(g[i], g[i + 1])
    OBVIOUS
  <2>1. StandsOn(h[i], h[i + 1]) /\ g[i] = h[i]
    BY <1>0 DEF Chain, n
  <2>2. CASE i + 1 = n
    BY <1>0, <2>1, <2>2 DEF StandsOn, Dispatched, Original, Called, Below, n
  <2>q. QED
    BY <1>0, <2>1, <2>2
<1>4. \A i \in 1..n : g[i].esp = h[i].esp
  BY <1>0
<1>5. \A i, j \in 1..n : i <= j => g[i].esp <= g[j].esp
  BY <1>4 DEF Chain, n
<1>6. /\ \A i \in 2..Len(g) : g[i] \in HostFrame /\ OwnBack(g[i])
      /\ \A i \in 1..Len(g) - 1 : StandsOn(g[i], g[i + 1])
      /\ \A i, j \in 1..Len(g) : i <= j => g[i].esp <= g[j].esp
  BY <1>0, <1>2, <1>3, <1>5
<1>7. g \in Seq(HostFrame \union {MainFrame}) /\ Len(g) >= 1
  BY <1>0
<1>r. Chain(g)
  BY <1>1, <1>6, <1>7 DEF Chain

<1>q. QED
  BY <1>r DEF g

-----------------------------------------------------------------------------
(* The levels of the guest's stack.                                        *)

LEMMA BelowFacts ==
    ASSUME NEW h, Chain(h), NEW i \in 1..Len(h), h[i].is = "native"
    PROVE  /\ Below(h[i]) \in Int /\ Below(h[i]) <= h[i].esp /\ h[i].esp <= Below(h[i]) + 1
           /\ i < Len(h) => Below(h[i]) < h[Len(h)].esp
<1>1. /\ Len(h) \in Nat /\ h[i] \in NativeFrame \union {MainFrame} /\ h[i].esp \in Nat
      /\ h[i].done \in BOOLEAN
  <2>1. Len(h) \in Nat /\ h[i] \in HostFrame \union {MainFrame}
    BY DEF Chain
  <2>2. h[i] \in NativeFrame \union {MainFrame} /\ h[i].esp \in Nat
    BY <2>1, FrameKinds
  <2>3. MainFrame.done = FALSE
    BY DEF MainFrame, Native
  <2>4. h[i].done \in BOOLEAN
    BY <2>2, <2>3 DEF NativeFrame
  <2>q. QED
    BY <2>1, <2>2, <2>4
<1>2. Below(h[i]) \in Int /\ Below(h[i]) <= h[i].esp /\ h[i].esp <= Below(h[i]) + 1
  BY <1>1 DEF Below
<1>3. ASSUME i < Len(h) PROVE Below(h[i]) < h[Len(h)].esp
  <2>1. i + 1 \in 1..Len(h) /\ Len(h) \in 1..Len(h) /\ i \in 1..Len(h) - 1
    BY <1>1, <1>3
  <2>2. StandsOn(h[i], h[i + 1]) /\ h[i + 1].esp <= h[Len(h)].esp
    BY <1>1, <2>1 DEF Chain
  <2>3. h[i + 1].esp \in Nat /\ h[Len(h)].esp \in Nat
    BY <2>1, FrameKinds DEF Chain
  <2>4. Below(h[i]) < h[i + 1].esp
    BY <1>1, <1>2, <2>2, <2>3 DEF StandsOn, Dispatched, Original, Called, Below
  <2>q. QED
    BY <1>2, <2>2, <2>3, <2>4
<1>q. QED
  BY <1>2, <1>3

\* A native function stands on every run but the innermost.
LEMMA OnARun ==
    ASSUME NEW h, Chain(h), NEW i \in 1..Len(h) - 1, h[i].is = "run"
    PROVE  h[i + 1].is = "native" /\ i + 1 \in 1..Len(h)
<1>1. Len(h) \in Nat /\ StandsOn(h[i], h[i + 1])
  BY DEF Chain
<1>q. QED
  BY <1>1 DEF StandsOn, Dispatched, Original, Called

LEMMA EspFacts ==
    ASSUME NEW h, Chain(h)
    PROVE  /\ Len(h) \in Nat /\ Len(h) >= 1
           /\ \A i \in 1..Len(h) : h[i].esp \in Nat /\ h[i].esp <= h[Len(h)].esp
           /\ \A i \in 2..Len(h) : h[i].esp >= 1
           /\ \A i \in 1..Len(h) - 1 : h[i].esp <= h[i + 1].esp
<1>1. Len(h) \in Nat /\ Len(h) >= 1 /\ \A i \in 1..Len(h) : h[i] \in HostFrame \union {MainFrame}
  BY DEF Chain
<1>2. \A i \in 1..Len(h) : h[i].esp \in Nat
  BY <1>1, FrameKinds
<1>3. \A i \in 1..Len(h) : h[i].esp <= h[Len(h)].esp
  BY <1>1 DEF Chain
<1>4. \A i \in 2..Len(h) : h[i].esp >= 1
  BY DEF Chain, HostFrame, RunFrame, NativeFrame
<1>5. \A i \in 1..Len(h) - 1 : h[i].esp <= h[i + 1].esp
  <2> SUFFICES ASSUME NEW i \in 1..Len(h) - 1 PROVE h[i].esp <= h[i + 1].esp
    OBVIOUS
  <2>1. i \in 1..Len(h) /\ i + 1 \in 1..Len(h) /\ i <= i + 1
    BY <1>1
  <2>q. QED
    BY <2>1 DEF Chain
<1>q. QED
  BY <1>1, <1>2, <1>3, <1>4, <1>5

LEMMA LevelsCall ==
    ASSUME NEW h, Chain(h), NEW c \in Seq(Address), Levels(h, c), NEW site \in Address,
           h[Len(h)].esp <= Len(c), h[Len(h)].is = "run", site \in GuestSite(h[Len(h)])
    PROVE  Levels(h, Append(c, site))
<1> DEFINE d == Append(c, site)
           n == Len(h)
<1>0. /\ n \in Nat /\ n >= 1 /\ Len(d) = Len(c) + 1 /\ d[Len(c) + 1] = site
      /\ Len(c) \in Nat /\ \A k \in 1..Len(c) : d[k] = c[k]
      /\ \A i \in 1..n : h[i].esp \in Nat /\ h[i].esp <= Len(c)
      /\ \A i \in 2..n : h[i].esp >= 1
  BY EspFacts
<1> HIDE DEF d, n
<1>1. ASSUME NEW i \in 2..n, i < n => h[i].esp < h[i + 1].esp PROVE d[h[i].esp] = h[i].back
  <2>1. h[i].esp \in 1..Len(c)
    BY <1>0
  <2>2. c[h[i].esp] = h[i].back
    BY <1>1, <2>1 DEF Levels, n
  <2>q. QED
    BY <1>0, <2>1, <2>2
<1>2. ASSUME NEW i \in 1..n, NEW k \in 1..Len(d), h[i].is = "run", h[i].esp < k,
             i < n => k <= Below(h[i + 1])
      PROVE  d[k] \in GuestSite(h[i])
  <2>1. CASE k <= Len(c)
    <3>1. k \in 1..Len(c)
      BY <1>0, <2>1
    <3>2. c[k] \in GuestSite(h[i])
      BY <1>2, <3>1 DEF Levels, n
    <3>q. QED
      BY <1>0, <3>1, <3>2
  <2>2. CASE k = Len(c) + 1
    <3>1. i = n
      <4> SUFFICES ASSUME i # n PROVE FALSE
        OBVIOUS
      <4>1. i \in 1..n - 1 /\ i < n
        BY <1>0
      <4>2. h[i + 1].is = "native" /\ i + 1 \in 1..n
        BY <1>2, <4>1, OnARun DEF n
      <4>3. Below(h[i + 1]) \in Int /\ Below(h[i + 1]) <= h[i + 1].esp
        BY <4>2, BelowFacts DEF n
      <4>q. QED
        BY <1>0, <1>2, <2>2, <4>1, <4>2, <4>3
    <3>q. QED
      BY <1>0, <1>2, <2>2, <3>1 DEF n
  <2>q. QED
    BY <1>0, <2>1, <2>2
<1>q. QED
  BY <1>1, <1>2 DEF Levels, d, n

LEMMA LevelsReturn ==
    ASSUME NEW h, NEW c \in Seq(Address), Levels(h, c), Len(c) >= 1, Chain(h)
    PROVE  Levels(h, Front(c))
<1> DEFINE d == Front(c)
<1>0. /\ Len(c) \in Nat /\ Len(d) = Len(c) - 1 /\ \A k \in 1..Len(d) : d[k] = c[k]
  BY FrontFacts
<1> HIDE DEF d
<1>1. \A i \in 2..Len(h) : h[i].esp \in Nat /\ h[i].esp >= 1
  BY DEF Chain, HostFrame, RunFrame, NativeFrame
<1>2. ASSUME NEW i \in 2..Len(h), h[i].esp <= Len(d), i < Len(h) => h[i].esp < h[i + 1].esp
      PROVE  d[h[i].esp] = h[i].back
  <2>1. h[i].esp \in 1..Len(d) /\ h[i].esp <= Len(c)
    BY <1>0, <1>1, <1>2
  <2>2. c[h[i].esp] = h[i].back
    BY <1>2, <2>1 DEF Levels
  <2>q. QED
    BY <1>0, <2>1, <2>2
<1>3. ASSUME NEW i \in 1..Len(h), NEW k \in 1..Len(d), h[i].is = "run", h[i].esp < k,
             i < Len(h) => k <= Below(h[i + 1])
      PROVE  d[k] \in GuestSite(h[i])
  <2>1. k \in 1..Len(c)
    BY <1>0
  <2>2. c[k] \in GuestSite(h[i])
    BY <1>3, <2>1 DEF Levels
  <2>q. QED
    BY <1>0, <2>2
<1>q. QED
  BY <1>2, <1>3 DEF Levels, d

\* A frame comes with the return address that is on top.
LEMMA LevelsPush ==
    ASSUME NEW h, Chain(h), NEW c \in Seq(Address), Levels(h, c), NEW f \in HostFrame,
           f.esp = Len(c), c[Len(c)] = f.back
    PROVE  Levels(Append(h, f), c)
<1> DEFINE g == Append(h, f)
           n == Len(h)
<1>0. /\ n \in Nat /\ n >= 1 /\ Len(g) = n + 1 /\ g[n + 1] = f
      /\ \A i \in 1..n : g[i] = h[i]
      /\ Len(c) \in Nat
  BY DEF Chain
<1> HIDE DEF g, n
<1>1. ASSUME NEW i \in 2..Len(g), g[i].esp <= Len(c), i < Len(g) => g[i].esp < g[i + 1].esp
      PROVE  c[g[i].esp] = g[i].back
  <2>1. CASE i = n + 1
    BY <1>0, <2>1
  <2>2. CASE i <= n
    <3>1. i \in 2..n /\ g[i] = h[i] /\ (i < n => g[i + 1] = h[i + 1] /\ i < Len(g))
      BY <1>0, <2>2
    <3>q. QED
      BY <1>1, <3>1 DEF Levels, n
  <2>q. QED
    BY <1>0, <2>1, <2>2
<1>2. ASSUME NEW i \in 1..Len(g), NEW k \in 1..Len(c), g[i].is = "run", g[i].esp < k,
             i < Len(g) => k <= Below(g[i + 1])
      PROVE  c[k] \in GuestSite(g[i])
  <2>1. CASE i <= n
    <3>1. i \in 1..n /\ g[i] = h[i] /\ (i < n => g[i + 1] = h[i + 1] /\ i < Len(g))
      BY <1>0, <2>1
    <3>q. QED
      BY <1>2, <3>1 DEF Levels, n
  <2>2. CASE i = n + 1
    BY <1>0, <1>2, <2>2
  <2>q. QED
    BY <1>0, <2>1, <2>2
<1>r. Levels(g, c)
  BY <1>0, <1>1, <1>2 DEF Levels
<1>q. QED
  BY <1>r DEF g

\* Native code pushes the return address of what it calls.
LEMMA LevelsPushCall ==
    ASSUME NEW h, Chain(h), NEW c \in Seq(Address), Levels(h, c), NEW f \in HostFrame,
           h[Len(h)].is = "native", Len(c) = Below(h[Len(h)]),
           f.esp = Len(c) + 1, f.back \in Address
    PROVE  Levels(Append(h, f), Append(c, f.back))
<1> DEFINE g == Append(h, f)
           d == Append(c, f.back)
           n == Len(h)
<1>0. /\ n \in Nat /\ n >= 1 /\ Len(g) = n + 1 /\ g[n + 1] = f
      /\ \A i \in 1..n : g[i] = h[i]
      /\ Len(c) \in Nat /\ Len(d) = Len(c) + 1 /\ d[Len(c) + 1] = f.back
      /\ \A k \in 1..Len(c) : d[k] = c[k]
  BY DEF Chain
<1> HIDE DEF g, d, n
<1>a. /\ \A i \in 1..n : h[i].esp \in Nat /\ h[i].esp <= h[n].esp
      /\ \A i \in 2..n : h[i].esp >= 1
      /\ Len(c) <= h[n].esp /\ h[n].esp <= Len(c) + 1
  <2>1. n \in 1..n /\ h[n].is = "native" /\ Len(c) = Below(h[n])
    BY <1>0 DEF n
  <2>2. Below(h[n]) <= h[n].esp /\ h[n].esp <= Below(h[n]) + 1
    BY <2>1, BelowFacts DEF n
  <2>q. QED
    BY <2>1, <2>2, EspFacts DEF n
<1>1. ASSUME NEW i \in 2..Len(g), g[i].esp <= Len(d), i < Len(g) => g[i].esp < g[i + 1].esp
      PROVE  d[g[i].esp] = g[i].back
  <2>1. CASE i = n + 1
    BY <1>0, <2>1
  <2>2. CASE i <= n
    <3>1. i \in 2..n /\ g[i] = h[i] /\ g[i].esp < g[i + 1].esp
          /\ (i < n => g[i + 1] = h[i + 1] /\ i + 1 \in 1..n) /\ (i = n => g[i + 1] = f)
      BY <1>0, <1>1, <2>2
    <3>2. h[i].esp \in 1..Len(c)
      BY <1>0, <1>a, <3>1
    <3>3. c[h[i].esp] = h[i].back
      BY <3>1, <3>2 DEF Levels, n
    <3>q. QED
      BY <1>0, <3>1, <3>2, <3>3
  <2>q. QED
    BY <1>0, <2>1, <2>2
<1>2. ASSUME NEW i \in 1..Len(g), NEW k \in 1..Len(d), g[i].is = "run", g[i].esp < k,
             i < Len(g) => k <= Below(g[i + 1])
      PROVE  d[k] \in GuestSite(g[i])
  <2>1. i # n + 1
    BY <1>0, <1>2
  <2>2. i # n
    <3>1. h[n].is = "native"
      BY DEF n
    <3>q. QED
      BY <1>0, <1>2, <3>1
  <2>3. i \in 1..n - 1 /\ g[i] = h[i] /\ g[i + 1] = h[i + 1] /\ i < Len(g) /\ i + 1 \in 1..n
    BY <1>0, <2>1, <2>2
  <2>4. h[i + 1].is = "native" /\ k <= Below(h[i + 1])
    BY <1>2, <2>3, OnARun DEF n
  <2>5. Below(h[i + 1]) <= Len(c)
    <3>1. CASE i + 1 = n
      BY <3>1, <1>0 DEF n
    <3>2. CASE i + 1 < n
      <4>1. Below(h[i + 1]) \in Int /\ Below(h[i + 1]) < h[n].esp
        BY <2>3, <2>4, <3>2, BelowFacts DEF n
      <4>q. QED
        BY <1>0, <1>a, <4>1
    <3>q. QED
      BY <1>0, <2>3, <3>1, <3>2
  <2>6. k \in 1..Len(c)
    <3>1. Below(h[i + 1]) \in Int
      BY <2>3, <2>4, BelowFacts DEF n
    <3>q. QED
      BY <1>0, <2>4, <2>5, <3>1
  <2>7. c[k] \in GuestSite(h[i])
    BY <1>2, <2>3, <2>4, <2>6 DEF Levels, n
  <2>q. QED
    BY <1>0, <2>3, <2>6, <2>7
<1>r. Levels(g, d)
  BY <1>0, <1>1, <1>2 DEF Levels
<1>q. QED
  BY <1>r DEF g, d

LEMMA LevelsPop ==
    ASSUME NEW h, Chain(h), Len(h) > 1, NEW c \in Seq(Address), Levels(h, c),
           Len(c) < h[Len(h)].esp
    PROVE  Levels(Front(h), c)
<1> DEFINE g == Front(h)
           n == Len(h)
<1>0. /\ n \in Nat /\ n > 1 /\ Len(g) = n - 1 /\ \A i \in 1..n - 1 : g[i] = h[i]
      /\ Len(c) \in Nat /\ h[n].esp \in Nat /\ Len(c) < h[n].esp
  BY FrontFacts, FrameKinds DEF Chain
<1> HIDE DEF g, n
<1>1. ASSUME NEW i \in 2..Len(g), g[i].esp <= Len(c), i < Len(g) => g[i].esp < g[i + 1].esp
      PROVE  c[g[i].esp] = g[i].back
  <2>1. i \in 2..n /\ g[i] = h[i] /\ h[i].esp \in Nat /\ (i < n - 1 => g[i + 1] = h[i + 1] /\ i < Len(g))
        /\ (i >= n - 1 => i + 1 = n)
    BY <1>0, EspFacts DEF n
  <2>2. h[i].esp < h[i + 1].esp
    BY <1>0, <1>1, <2>1
  <2>q. QED
    BY <1>1, <2>1, <2>2 DEF Levels, n
<1>2. ASSUME NEW i \in 1..Len(g), NEW k \in 1..Len(c), g[i].is = "run", g[i].esp < k,
             i < Len(g) => k <= Below(g[i + 1])
      PROVE  c[k] \in GuestSite(g[i])
  <2>1. i \in 1..n - 1 /\ g[i] = h[i] /\ (i < n - 1 => g[i + 1] = h[i + 1] /\ i < Len(g))
        /\ (i >= n - 1 => i + 1 = n)
    BY <1>0
  <2>2. k <= Below(h[i + 1])
    <3>1. CASE i < n - 1
      BY <1>2, <2>1, <3>1
    <3>2. CASE i >= n - 1
      <4>1. h[n].is = "native" /\ n \in 1..n
        BY <1>0, <1>2, <2>1, <3>2, OnARun DEF n
      <4>2. Below(h[n]) \in Int /\ h[n].esp <= Below(h[n]) + 1
        BY <4>1, BelowFacts DEF n
      <4>q. QED
        <5>1. i + 1 = n /\ k \in Nat /\ k <= Len(c)
          BY <1>0, <2>1, <3>2
        <5>q. QED
          BY <1>0, <4>2, <5>1
    <3>q. QED
      BY <1>0, <3>1, <3>2
  <2>q. QED
    BY <1>0, <1>2, <2>1, <2>2 DEF Levels, n
<1>r. Levels(g, c)
  BY <1>0, <1>1, <1>2 DEF Levels
<1>q. QED
  BY <1>r DEF g

LEMMA LevelsMark ==
    ASSUME NEW h, Chain(h), h[Len(h)].is = "native", h[Len(h)].fn \in Overridden,
           NEW c \in Seq(Address), Levels(h, c)
    PROVE  Levels(Marked(h), c)
<1> DEFINE g == Marked(h)
           n == Len(h)
<1>0. /\ n \in Nat /\ n > 1 /\ Len(g) = n /\ \A i \in 1..n - 1 : g[i] = h[i]
      /\ g[n].is = "native" /\ g[n].back = h[n].back /\ g[n].esp = h[n].esp /\ g[n].done
      /\ h[n].is = "native" /\ h[n].esp \in Nat
  <2>1. n \in Nat /\ Len(h) > 1 /\ h[n].esp \in Nat
    BY MarkedFacts, EspFacts
  <2>q. QED
    BY <2>1, MarkedFacts
<1>a. Below(g[n]) \in Int /\ Below(h[n]) \in Int /\ Below(g[n]) <= Below(h[n])
  <2>1. Below(g[n]) = h[n].esp - 1
    BY <1>0 DEF Below
  <2>2. Below(h[n]) \in Int /\ h[n].esp <= Below(h[n]) + 1
    BY <1>0, BelowFacts
  <2> HIDE DEF g, n
  <2>q. QED
    BY <1>0, <2>1, <2>2
<1> HIDE DEF g, n
<1>1. \A i \in 1..n : g[i].esp = h[i].esp /\ g[i].back = h[i].back /\ g[i].is = h[i].is
  BY <1>0
<1>2. ASSUME NEW i \in 2..n, g[i].esp <= Len(c), i < n => g[i].esp < g[i + 1].esp
      PROVE  c[g[i].esp] = g[i].back
  <2>1. i \in 1..n /\ (i < n => i + 1 \in 1..n)
    BY <1>0
  <2>q. QED
    BY <1>1, <1>2, <2>1 DEF Levels, n
<1>3. ASSUME NEW i \in 1..n, NEW k \in 1..Len(c), g[i].is = "run", g[i].esp < k,
             i < n => k <= Below(g[i + 1])
      PROVE  c[k] \in GuestSite(g[i])
  <2>1. i \in 1..n - 1 /\ g[i] = h[i] /\ i < n
    BY <1>0, <1>3
  <2>2. k <= Below(h[i + 1])
    <3>1. CASE i + 1 = n
      BY <1>3, <1>a, <2>1, <3>1
    <3>2. CASE i + 1 < n
      <4>1. g[i + 1] = h[i + 1]
        BY <1>0, <2>1, <3>2
      <4>q. QED
        BY <1>3, <2>1, <4>1
    <3>q. QED
      BY <1>0, <2>1, <3>1, <3>2
  <2>q. QED
    BY <1>3, <2>1, <2>2 DEF Levels, n
<1>r. Levels(g, c)
  BY <1>0, <1>2, <1>3 DEF Levels
<1>q. QED
  BY <1>r DEF g

-----------------------------------------------------------------------------
(* The runs.                                                               *)

LEMMA SameBelow ==
    ASSUME NEW h, NEW g, NEW n \in Nat, NEW a, InnermostRun(h, a, n),
           \A i \in 1..n : g[i].is = h[i].is
    PROVE  InnermostRun(g, a, n)
BY DEF InnermostRun

LEMMA ParentsPush ==
    ASSUME NEW h, Chain(h), Parents(h), NEW f \in HostFrame,
           f.is = "run" => InnermostRun(h, f.parent, Len(h))
    PROVE  Parents(Append(h, f))
<1> DEFINE g == Append(h, f)
<1>0. /\ Len(h) \in Nat /\ Len(g) = Len(h) + 1 /\ g[Len(h) + 1] = f
      /\ \A i \in 1..Len(h) : g[i] = h[i]
  BY DEF Chain
<1> HIDE DEF g
<1> SUFFICES ASSUME NEW i \in 1..Len(g), g[i].is = "run"
             PROVE  InnermostRun(g, g[i].parent, i - 1)
  BY DEF Parents, g
<1>1. InnermostRun(h, g[i].parent, i - 1)
  <2>1. CASE i <= Len(h)
    BY <1>0, <2>1 DEF Parents
  <2>2. CASE i = Len(h) + 1
    BY <1>0, <2>2
  <2>q. QED
    BY <1>0, <2>1, <2>2
<1>2. i - 1 \in Nat /\ \A j \in 1..i - 1 : g[j].is = h[j].is
  BY <1>0
<1>q. QED
  BY <1>1, <1>2, SameBelow

LEMMA ParentsPop ==
    ASSUME NEW h, Chain(h), Parents(h)
    PROVE  Parents(Front(h))
<1> DEFINE g == Front(h)
<1>0. /\ Len(h) \in Nat /\ Len(g) = Len(h) - 1 /\ \A i \in 1..Len(h) - 1 : g[i] = h[i]
  BY FrontFacts DEF Chain
<1> HIDE DEF g
<1> SUFFICES ASSUME NEW i \in 1..Len(g), g[i].is = "run"
             PROVE  InnermostRun(g, g[i].parent, i - 1)
  BY DEF Parents, g
<1>1. InnermostRun(h, g[i].parent, i - 1)
  BY <1>0 DEF Parents
<1>2. i - 1 \in Nat /\ \A j \in 1..i - 1 : g[j].is = h[j].is
  BY <1>0
<1>q. QED
  BY <1>1, <1>2, SameBelow

LEMMA ParentsMark ==
    ASSUME NEW h, Chain(h), h[Len(h)].is = "native", h[Len(h)].fn \in Overridden, Parents(h)
    PROVE  Parents(Marked(h))
<1> DEFINE g == Marked(h)
<1>0. /\ Len(h) \in Nat /\ Len(g) = Len(h)
      /\ \A i \in 1..Len(h) : g[i].is = h[i].is /\ (h[i].is = "run" => g[i] = h[i])
  BY MarkedFacts DEF Chain
<1> HIDE DEF g
<1> SUFFICES ASSUME NEW i \in 1..Len(g), g[i].is = "run"
             PROVE  InnermostRun(g, g[i].parent, i - 1)
  BY DEF Parents, g
<1>1. InnermostRun(h, g[i].parent, i - 1)
  BY <1>0 DEF Parents
<1>2. i - 1 \in Nat /\ \A j \in 1..i - 1 : g[j].is = h[j].is
  BY <1>0
<1>q. QED
  BY <1>1, <1>2, SameBelow

-----------------------------------------------------------------------------
(* The guest's stack and the open calls.                                   *)

LEMMA OnTop ==
    ASSUME NEW s, NEW c, NEW esp, StackOn(s, c, esp)
    PROVE  /\ esp \in Nat /\ Len(s) \in Nat /\ esp <= MaxStack
           /\ \A k \in 1..esp : s[k] = c[k] /\ c[k] \in Address
<1>1. esp \in Nat /\ Len(s) \in Nat /\ esp <= MaxStack /\ c \in Seq(Address) /\ s \in Seq(Address)
  BY ExecutorAssumption DEF StackOn
<1>2. \A k \in 1..esp : s[k] \in Address /\ c[k] \in Address
  BY <1>1 DEF StackOn
<1>3. \A k \in 1..esp - 1 + 1 : SubSeq(s, 1, esp)[k] = s[1 + k - 1]
  BY <1>1, <1>2, SubSeqProperties
<1>4. ASSUME NEW k \in 1..esp PROVE s[k] = c[k]
  <2>1. k \in 1..esp - 1 + 1 /\ 1 + k - 1 = k
    BY <1>1
  <2>q. QED
    BY <1>3, <2>1 DEF StackOn
<1>q. QED
  BY <1>1, <1>2, <1>4

LEMMA StackCall ==
    ASSUME NEW s, NEW c, NEW esp, StackOn(s, c, esp), NEW site \in Address, esp < MaxStack
    PROVE  StackOn(Append(SubSeq(s, 1, esp), site), Append(c, site), esp + 1)
<1>1. /\ SubSeq(s, 1, esp) = c /\ c \in Seq(Address) /\ esp = Len(c) /\ esp \in Nat
      /\ MaxStack \in Nat
  BY ExecutorAssumption DEF StackOn
<1>2. Append(c, site) \in Seq(Address) /\ Len(Append(c, site)) = esp + 1
  BY <1>1
<1>3. SubSeq(Append(c, site), 1, Len(Append(c, site))) = Append(c, site)
  BY <1>2, SubSeqFull
<1>q. QED
  BY <1>1, <1>2, <1>3 DEF StackOn

LEMMA StackReturn ==
    ASSUME NEW s, NEW c, NEW esp, StackOn(s, c, esp), esp >= 1
    PROVE  StackOn(s, Front(c), esp - 1)
<1>1. esp \in Nat /\ s \in Seq(Address) /\ c \in Seq(Address) /\ Len(s) \in Nat /\ esp = Len(c)
      /\ esp <= Len(s)
  BY DEF StackOn
<1> DEFINE d == Front(c)
           t == SubSeq(s, 1, esp - 1)
<1>2. d \in Seq(Address) /\ Len(d) = esp - 1 /\ \A k \in 1..esp - 1 : d[k] = c[k]
  BY <1>1, FrontFacts
<1>3. t \in Seq(Address) /\ Len(t) = esp - 1 /\ \A k \in 1..esp - 1 : t[k] = s[k]
  <2> DEFINE n == esp - 1
  <2>1. n \in Nat /\ n \in Int /\ 1 \in Int /\ \A k \in 1..n : s[k] \in Address
    BY <1>1
  <2> HIDE DEF n
  <2>2. SubSeq(s, 1, n) \in Seq(Address)
    BY <2>1, SubSeqProperties
  <2>3. Len(SubSeq(s, 1, n)) = IF 1 <= n THEN n - 1 + 1 ELSE 0
    BY <2>1, SubSeqProperties
  <2>4. \A k \in 1..n - 1 + 1 : SubSeq(s, 1, n)[k] = s[1 + k - 1]
    BY <2>1, SubSeqProperties
  <2>5. Len(SubSeq(s, 1, n)) = n
    BY <2>1, <2>3
  <2>6. ASSUME NEW k \in 1..n PROVE SubSeq(s, 1, n)[k] = s[k]
    <3>1. k \in 1..n - 1 + 1 /\ 1 + k - 1 = k
      BY <2>1
    <3>q. QED
      BY <2>4, <3>1
  <2>q. QED
    BY <2>2, <2>5, <2>6 DEF n
<1>4. \A k \in 1..esp - 1 : d[k] = t[k]
  BY <1>1, <1>2, <1>3, OnTop
<1> HIDE DEF d, t
<1>5. d = t
  BY <1>2, <1>3, <1>4, SeqEqual
<1>q. QED
  BY <1>1, <1>2, <1>5 DEF StackOn, d, t

-----------------------------------------------------------------------------
(* What the invariant says of the innermost frame.                         *)

LEMMA RunFacts ==
    ASSUME IInv, Running
    PROVE  /\ Innermost = host[Len(host)] /\ Innermost \in RunFrame /\ Innermost.is = "run"
           /\ OwnBack(Innermost) /\ Len(host) \in Nat /\ Len(host) > 1 /\ active = Len(host)
           /\ Boundary = Innermost /\ Innermost.excluded \in Overridden \union {None} /\ Innermost.fn \in Functions
           /\ Innermost.esp \in Nat \ {0} /\ Len(host) <= MaxHost
           /\ StackOn(stack, calls, jit.esp) /\ jit.esp = Len(calls) /\ calls \in Seq(Address)
           /\ Innermost.esp <= Len(calls) => calls[Innermost.esp] = Innermost.back
<1> DEFINE n == Len(host)
<1>1. /\ host \in Seq(HostFrame \union {MainFrame}) /\ n \in Nat /\ n >= 1 /\ Innermost = host[n]
      /\ Innermost.is = "run" /\ n <= MaxHost
  BY DEF IInv, HostInv, Chain, Running, Innermost, Last
<1>2. n > 1
  BY <1>1 DEF IInv, HostInv, Chain, MainFrame, Native
<1>3. Innermost \in RunFrame /\ OwnBack(Innermost)
  <2>1. Innermost \in HostFrame /\ OwnBack(Innermost)
    BY <1>1, <1>2 DEF IInv, HostInv, Chain
  <2>q. QED
    BY <1>1, <2>1, FrameKinds DEF HostFrame
<1>4. active = n
  <2>1. active \in 0..n /\ \A j \in active + 1..n : host[j].is = "native"
    BY DEF IInv, HostInv, InnermostRun
  <2>2. ~(n \in active + 1..n)
    BY <1>1, <2>1
  <2>q. QED
    BY <1>1, <2>1, <2>2
<1>5. StackOn(stack, calls, jit.esp) /\ jit.esp = Len(calls) /\ calls \in Seq(Address)
  BY DEF IInv, StackInv, Esp, StackOn
<1>6. Innermost.esp <= Len(calls) => calls[Innermost.esp] = Innermost.back
  BY <1>1, <1>2 DEF IInv, HostInv, Levels
<1>q. QED
  BY <1>1, <1>2, <1>3, <1>4, <1>5, <1>6 DEF RunFrame, Boundary

LEMMA NativeFacts ==
    ASSUME IInv, ~Running
    PROVE  /\ Innermost = host[Len(host)] /\ Innermost.is = "native"
           /\ Innermost \in NativeFrame \union {MainFrame} /\ Innermost.fn \in Natives
           /\ Len(host) \in Nat /\ Len(host) >= 1 /\ Innermost.esp \in Nat
           /\ Len(host) = 1 => Innermost = MainFrame
           /\ Len(host) > 1 => /\ Innermost \in NativeFrame /\ OwnBack(Innermost)
                               /\ Innermost.esp <= Len(calls) => calls[Innermost.esp] = Innermost.back
           /\ StackOn(stack, calls, view.esp) /\ view.esp = Len(calls) /\ calls \in Seq(Address)
           /\ view.esp = Below(Innermost) /\ Innermost.done \in BOOLEAN
<1> DEFINE n == Len(host)
<1>1. /\ host \in Seq(HostFrame \union {MainFrame}) /\ n \in Nat /\ n >= 1 /\ Innermost = host[n]
      /\ Innermost.is # "run"
  BY DEF IInv, HostInv, Chain, Running, Innermost, Last
<1>2. Innermost \in NativeFrame \union {MainFrame} /\ Innermost.is = "native" /\ Innermost.esp \in Nat
  BY <1>1, FrameKinds
<1>3. Innermost.fn \in Natives /\ Innermost.done \in BOOLEAN
  <2>1. CASE Innermost \in NativeFrame
    BY <2>1 DEF NativeFrame, Natives
  <2>2. CASE Innermost = MainFrame
    <3>1. MainFrame.fn = Main /\ MainFrame.done = FALSE
      BY DEF MainFrame, Native
    <3>q. QED
      BY <2>2, <3>1 DEF Natives
  <2>q. QED
    BY <1>2, <2>1, <2>2

<1>4. n = 1 => Innermost = MainFrame
  BY <1>1 DEF IInv, HostInv, Chain
<1>5. n > 1 => /\ Innermost \in NativeFrame /\ OwnBack(Innermost)
               /\ Innermost.esp <= Len(calls) => calls[Innermost.esp] = Innermost.back
  <2> SUFFICES ASSUME n > 1
               PROVE  /\ Innermost \in NativeFrame /\ OwnBack(Innermost)
                      /\ Innermost.esp <= Len(calls) => calls[Innermost.esp] = Innermost.back
    OBVIOUS
  <2>1. Innermost \in HostFrame /\ OwnBack(Innermost)
    BY <1>1 DEF IInv, HostInv, Chain
  <2>2. Innermost \in NativeFrame
    BY <1>1, <2>1 DEF HostFrame, RunFrame
  <2>3. Innermost.esp <= Len(calls) => calls[Innermost.esp] = Innermost.back
    BY <1>1 DEF IInv, HostInv, Levels
  <2>q. QED
    BY <2>1, <2>2, <2>3
<1>6. StackOn(stack, calls, view.esp) /\ view.esp = Len(calls) /\ calls \in Seq(Address)
  BY DEF IInv, StackInv, Esp, StackOn
<1>7. view.esp = Below(Innermost)
  BY <1>6 DEF IInv, PlaceInv
<1>q. QED
  BY <1>1, <1>2, <1>3, <1>4, <1>5, <1>6, <1>7

-----------------------------------------------------------------------------
(* Guest code leaves the native stack alone.                               *)

LEMMA GuestKeepsHost ==
    ASSUME IInv, Running, UNCHANGED <<host, active>>
    PROVE  /\ Running' /\ Innermost' = Innermost
           /\ Chain(host)' /\ Parents(host)' /\ InnermostRun(host, active, Len(host))'
           /\ (Len(host) <= MaxHost + 1 /\ (Running => Len(host) <= MaxHost))'
BY DEF IInv, HostInv, Running, Innermost, Chain, Parents, InnermostRun

LEMMA GuestCallsHolds ==
    ASSUME IInv, NEW g \in Functions \union Services, GuestCalls(g)
    PROVE  IInv'
<1> DEFINE site == <<jit.at.fn, g>>
           f == Innermost
<1>0. /\ Running /\ jit.at.is = "in" /\ g \in Calls[jit.at.fn] /\ jit.esp < MaxStack
      /\ stack' = PushedAt(jit.esp, site) /\ calls' = Append(calls, site)
      /\ jit' = [esp |-> jit.esp + 1, at |-> Entry(g)] /\ view' = view
      /\ UNCHANGED <<host, active>>
  BY DEF GuestCalls
<1>1. /\ f = host[Len(host)] /\ f \in RunFrame /\ f.is = "run" /\ OwnBack(f)
      /\ f.esp \in Nat /\ StackOn(stack, calls, jit.esp) /\ jit.esp = Len(calls)
      /\ calls \in Seq(Address) /\ jit.esp \in Nat
  BY <1>0, RunFacts, OnTop
<1>2. jit.at.fn \in Code(f) /\ Len(calls) >= f.esp
  BY <1>0 DEF IInv, PlaceInv, JitAt
<1>3. g \in Entered(f) /\ site \in GuestSite(f) /\ site \in Address
  BY <1>0, <1>1, <1>2, CodeCalls
<1>4. /\ Running' /\ Innermost' = f
      /\ Chain(host)' /\ Parents(host)' /\ InnermostRun(host, active, Len(host))'
      /\ (Len(host) <= MaxHost + 1 /\ (Running => Len(host) <= MaxHost))'
  BY <1>0, GuestKeepsHost
<1>5. StackInv'
  <2>1. StackOn(stack', calls', jit.esp + 1)
    BY <1>0, <1>1, <1>3, StackCall DEF PushedAt
  <2>2. jit' \in [esp : 0..MaxStack, at : Place] /\ jit'.esp = jit.esp + 1
    BY <1>0, <1>1, ExecutorAssumption DEF Place, Entry
  <2>3. view' \in [esp : 0..MaxStack]
    BY <1>0 DEF IInv, StackInv
  <2>q. QED
    BY <1>4, <2>1, <2>2, <2>3 DEF StackInv, Esp
<1>6. Levels(host, calls)'
  <2>1. Levels(host, Append(calls, site))
    BY <1>1, <1>2, <1>3, LevelsCall DEF IInv, HostInv
  <2>q. QED
    BY <1>0, <2>1
<1>7. PlaceInv'
  <2>1. /\ calls' \in Seq(Address) /\ Len(calls') = Len(calls) + 1 /\ calls'[Len(calls')] = site
        /\ Len(calls) \in Nat
    BY <1>0, <1>1, <1>3
  <2>2. jit'.at.is = "entry" /\ jit'.at.fn = g
    BY <1>0 DEF Entry
  <2>3. JitAt(jit'.at, f, calls')
    <3>1. Len(calls') > f.esp /\ calls'[Len(calls')][2] = g
      BY <1>1, <1>2, <2>1
    <3>q. QED
      BY <1>1, <1>3, <2>2, <3>1 DEF JitAt
  <2>q. QED
    BY <1>4, <2>3 DEF PlaceInv
<1>q. QED
  BY <1>4, <1>5, <1>6, <1>7 DEF IInv, HostInv

LEMMA GuestReturnsHolds == ASSUME IInv, GuestReturns PROVE IInv'
<1> DEFINE f == Innermost
           site == stack[jit.esp]
<1>0. /\ Running /\ jit.at.is = "in" /\ jit' = [esp |-> jit.esp - 1, at |-> Back(site)]
      /\ calls' = Front(calls) /\ stack' = stack /\ view' = view
      /\ UNCHANGED <<host, active>>
  BY DEF GuestReturns
<1>1. /\ f = host[Len(host)] /\ f \in RunFrame /\ f.is = "run"
      /\ f.esp \in Nat \ {0} /\ StackOn(stack, calls, jit.esp) /\ jit.esp = Len(calls)
      /\ calls \in Seq(Address) /\ jit.esp \in Nat /\ jit.esp <= MaxStack /\ Len(host) \in Nat
      /\ Len(host) > 1
      /\ f.esp <= Len(calls) => calls[f.esp] = f.back
  BY <1>0, RunFacts, OnTop
<1>2. Len(calls) >= f.esp
  BY <1>0 DEF IInv, PlaceInv, JitAt
<1>3. site = calls[Len(calls)] /\ site \in Address
  BY <1>1, <1>2, OnTop
<1>4. /\ Running' /\ Innermost' = f
      /\ Chain(host)' /\ Parents(host)' /\ InnermostRun(host, active, Len(host))'
      /\ (Len(host) <= MaxHost + 1 /\ (Running => Len(host) <= MaxHost))'
  BY <1>0, GuestKeepsHost
<1>5. StackInv'
  <2>1. StackOn(stack', calls', jit.esp - 1)
    <3>1. jit.esp >= 1
      BY <1>1, <1>2
    <3>2. StackOn(stack, Front(calls), jit.esp - 1)
      BY <1>1, <3>1, StackReturn
    <3>q. QED
      BY <1>0, <3>2
  <2>2. jit' \in [esp : 0..MaxStack, at : Place] /\ jit'.esp = jit.esp - 1

    BY <1>0, <1>1, <1>2, <1>3, ExecutorAssumption DEF Place, Back
  <2>3. view' \in [esp : 0..MaxStack]
    BY <1>0 DEF IInv, StackInv
  <2>q. QED
    BY <1>4, <2>1, <2>2, <2>3 DEF StackInv, Esp
<1>6. Levels(host, calls)'
  <2>1. Levels(host, Front(calls))
    BY <1>1, <1>2, LevelsReturn DEF IInv, HostInv
  <2>q. QED
    BY <1>0, <2>1
<1>7. PlaceInv'
  <2>1. Len(calls') = Len(calls) - 1 /\ Len(calls) \in Nat
    BY <1>0, <1>1, <1>2, FrontFacts
  <2>2. jit'.at.is = "back" /\ jit'.at.site = site
    BY <1>0 DEF Back
  <2>3. Len(calls) = f.esp => site = f.back
    BY <1>1, <1>3
  <2>4. Len(calls) > f.esp => site \in GuestSite(f)
    <3>1. host[Len(host)].is = "run" /\ Len(host) \in 1..Len(host) /\ Len(calls) \in 1..Len(calls)
      BY <1>1, <1>2 DEF RunFrame
    <3>q. QED
      BY <1>1, <1>3, <3>1 DEF IInv, HostInv, Levels
  <2>5. JitAt(jit'.at, f, calls')
    BY <1>1, <1>2, <2>1, <2>2, <2>3, <2>4 DEF JitAt
  <2>q. QED
    BY <1>4, <2>5 DEF PlaceInv
<1>q. QED
  BY <1>4, <1>5, <1>6, <1>7 DEF IInv, HostInv

LEMMA GuestGoesOnHolds == ASSUME IInv, GuestGoesOn PROVE IInv'
<1> DEFINE f == Innermost
<1>0. /\ Running /\ jit.at.is # "in" /\ ~Intercept(jit.at)
      /\ UNCHANGED <<host, active>> /\ stack' = stack /\ view' = view /\ calls' = calls
  BY DEF GuestGoesOn
<1>1. /\ f \in RunFrame /\ f.esp \in Nat \ {0} /\ Boundary = f
      /\ f.is = "run" /\ OwnBack(f)
      /\ StackOn(stack, calls, jit.esp) /\ jit.esp = Len(calls) /\ jit.esp \in Nat
  BY <1>0, RunFacts, OnTop
<1>2. /\ Running' /\ Innermost' = f
      /\ Chain(host)' /\ Parents(host)' /\ InnermostRun(host, active, Len(host))'
      /\ (Len(host) <= MaxHost + 1 /\ (Running => Len(host) <= MaxHost))'
  BY <1>0, GuestKeepsHost
<1>3. JitAt(jit.at, f, calls)
  BY <1>0 DEF IInv, PlaceInv
<1>4. PICK g : /\ g \in Code(f) /\ Len(calls) >= f.esp
               /\ jit' = [jit EXCEPT !.at = Inside(g)]
  <2>1. CASE jit.at.is = "entry"
    <3>1. jit.at.fn \in Code(f)
      BY <1>0, <1>1, <1>3, <2>1, GoesOn DEF JitAt, Intercept
    <3>q. QED
      BY <1>3, <2>1, <3>1 DEF GuestGoesOn, JitAt
  <2>2. CASE jit.at.is = "back"
    <3>1. jit.at.site # f.back
      BY <1>0, <1>1, <2>2 DEF Intercept
    <3>2. Len(calls) >= f.esp /\ jit.at.site \in GuestSite(f)
      BY <1>1, <1>3, <2>2, <3>1 DEF JitAt
    <3>3. jit.at.site[1] \in Code(f)
      BY <1>1, <3>2, SiteFacts
    <3>q. QED
      BY <2>2, <3>2, <3>3 DEF GuestGoesOn
  <2>q. QED
    BY <1>0, <1>3, <2>1, <2>2 DEF JitAt
<1>5. g \in Functions
  BY <1>1, <1>4, CodeCalls
<1>6. /\ jit' \in [esp : 0..MaxStack, at : Place] /\ jit'.esp = jit.esp
      /\ jit'.at.is = "in" /\ jit'.at.fn = g
  <2>1. jit \in [esp : 0..MaxStack, at : Place]
    BY DEF IInv, StackInv
  <2>2. Inside(g) \in Place
    BY <1>5 DEF Inside, Place
  <2>3. Inside(g).is = "in" /\ Inside(g).fn = g
    BY DEF Inside
  <2>q. QED
    BY <1>4, <2>1, <2>2, <2>3
<1>7. StackInv'
  BY <1>0, <1>1, <1>2, <1>6 DEF IInv, StackInv, Esp
<1>8. PlaceInv'
  <2>1. JitAt(jit'.at, f, calls)
    BY <1>4, <1>6 DEF JitAt
  <2>q. QED
    BY <1>0, <1>2, <2>1 DEF PlaceInv
<1>9. Levels(host, calls)'
  BY <1>0 DEF IInv, HostInv
<1>q. QED
  BY <1>2, <1>7, <1>8, <1>9 DEF IInv, HostInv

-----------------------------------------------------------------------------
(* Native code starts, and starts runs.                                    *)

LEMMA PushedHost ==
    ASSUME NEW h, Chain(h), NEW f \in HostFrame
    PROVE  /\ Len(Append(h, f)) = Len(h) + 1 /\ Last(Append(h, f)) = f
           /\ \A i \in 1..Len(h) : Append(h, f)[i] = h[i]
           /\ Append(h, f)[Len(h) + 1] = f /\ Len(h) \in Nat /\ Len(h) >= 1
BY DEF Chain, Last

LEMMA InnermostPush ==
    ASSUME NEW h, Chain(h), NEW f \in HostFrame, NEW a, InnermostRun(h, a, Len(h)), f.is = "native"
    PROVE  InnermostRun(Append(h, f), a, Len(h) + 1)
<1> DEFINE g == Append(h, f)
<1>1. g[Len(h) + 1] = f /\ Len(h) \in Nat /\ \A i \in 1..Len(h) : g[i] = h[i]
  BY PushedHost
<1> HIDE DEF g
<1>2. InnermostRun(g, a, Len(h) + 1)
  BY <1>1 DEF InnermostRun
<1>q. QED
  BY <1>2 DEF g

LEMMA DispatchHolds == ASSUME IInv, Dispatch PROVE IInv'
<1> USE ExecutorAssumption
<1> DEFINE f == Innermost
           g == Native(jit.at.fn, stack[jit.esp], "run", jit.esp)
<1>0. /\ Running /\ jit.at.is = "entry" /\ Intercept(jit.at)
      /\ view' = [esp |-> jit.esp] /\ host' = Append(host, g)
      /\ stack' = stack /\ jit' = jit /\ active' = active /\ calls' = calls
  BY DEF Dispatch
<1>1. /\ f = host[Len(host)] /\ f \in RunFrame /\ f.is = "run" /\ OwnBack(f)
      /\ f.esp \in Nat \ {0} /\ StackOn(stack, calls, jit.esp) /\ jit.esp = Len(calls)
      /\ calls \in Seq(Address) /\ jit.esp \in Nat /\ jit.esp <= MaxStack
      /\ Len(host) > 1 /\ Boundary = f /\ Len(host) <= MaxHost /\ Len(host) \in Nat
  BY <1>0, RunFacts, OnTop
<1>2. f.esp <= Len(calls) => calls[f.esp] = f.back
  BY <1>0, RunFacts
<1>3. /\ Len(calls) >= f.esp /\ (Len(calls) = f.esp => jit.at.fn = f.fn)
      /\ Len(calls) > f.esp => calls[Len(calls)][2] = jit.at.fn
  BY <1>0 DEF IInv, PlaceInv, JitAt
<1>4. stack[jit.esp] = calls[Len(calls)] /\ stack[jit.esp] \in Address
  BY <1>1, <1>3, OnTop
<1>5. jit.at.fn \in Overridden \union Services
  BY <1>0 DEF Intercept
<1>6. /\ g \in NativeFrame /\ g \in HostFrame /\ g.is = "native" /\ g.fn = jit.at.fn /\ ~g.done
      /\ g.back = calls[Len(calls)] /\ g.esp = Len(calls) /\ g.by = "run"
  BY <1>1, <1>3, <1>4, <1>5 DEF Native, NativeFrame, HostFrame
<1> HIDE DEF g
<1>a. Len(calls) > f.esp => calls[Len(calls)] \in GuestSite(f)
  <2>1. Len(calls) > f.esp => Len(calls) \in 1..Len(calls) /\ Len(host) \in 1..Len(host)
    BY <1>1
  <2>q. QED
    BY <1>1, <2>1 DEF IInv, HostInv, Levels
<1>7. OwnBack(g)
  <2>1. ASSUME g.fn \in Overridden PROVE EndsAt(g.fn, g.fn, g.back)
    <3>1. CASE Len(calls) = f.esp
      BY <1>1, <1>2, <1>3, <1>6, <2>1, <3>1 DEF OwnBack
    <3>2. CASE Len(calls) > f.esp
      <4> DEFINE site == calls[Len(calls)]
      <4>1. /\ site[1] \in Functions /\ site[2] \in Calls[site[1]] /\ site = <<site[1], site[2]>>
            /\ site[2] = g.fn /\ g.back = site
        BY <1>1, <1>3, <1>6, <1>a, <3>2, SiteFacts
      <4> HIDE DEF site
      <4>2. EndsAt(g.fn, g.fn, <<site[1], g.fn>>)
        BY <2>1, <4>1, ProgramAssumption
      <4>q. QED
        BY <4>1, <4>2
    <3>q. QED
      BY <1>1, <1>3, <3>1, <3>2
  <2>q. QED
    BY <1>6, <2>1 DEF OwnBack
<1>8. StandsOn(f, g)
  <2>1. CASE Len(calls) = f.esp
    BY <1>1, <1>2, <1>6, <2>1 DEF StandsOn, Dispatched
  <2>2. CASE Len(calls) > f.esp
    BY <1>1, <1>6, <1>a, <2>2 DEF StandsOn, Dispatched
  <2>q. QED
    BY <1>1, <1>3, <2>1, <2>2
<1>9. Chain(host) /\ Levels(host, calls) /\ Parents(host) /\ InnermostRun(host, active, Len(host))
  BY DEF IInv, HostInv
<1>10. /\ Len(host') = Len(host) + 1 /\ Innermost' = g /\ ~Running'
  BY <1>0, <1>6, <1>9, PushedHost DEF Innermost, Running
<1>11. Chain(host)'
  <2>1. Chain(Append(host, g))
    BY <1>1, <1>3, <1>6, <1>7, <1>8, <1>9, ChainPush
  <2>q. QED
    BY <1>0, <2>1
<1>12. Levels(host, calls)'
  <2>1. Levels(Append(host, g), calls)
    BY <1>1, <1>6, <1>9, LevelsPush
  <2>q. QED
    BY <1>0, <2>1
<1>13. Parents(host)'
  <2>1. Parents(Append(host, g))
    BY <1>6, <1>9, ParentsPush
  <2>q. QED
    BY <1>0, <2>1
<1>14. InnermostRun(host, active, Len(host))'
  <2>1. InnermostRun(Append(host, g), active, Len(host) + 1)
    BY <1>6, <1>9, InnermostPush
  <2>q. QED
    BY <1>0, <1>10, <2>1
<1>15. (Len(host) <= MaxHost + 1 /\ (Running => Len(host) <= MaxHost))'
  BY <1>1, <1>10
<1>16. StackInv'
  BY <1>0, <1>1, <1>10 DEF IInv, StackInv, Esp
<1>17. PlaceInv'
  BY <1>0, <1>6, <1>10 DEF PlaceInv, Below
<1>q. QED
  BY <1>11, <1>12, <1>13, <1>14, <1>15, <1>16, <1>17 DEF IInv, HostInv

(* execute, called by native code for f.                                   *)
LEMMA ExecuteHolds ==
    ASSUME IInv, ~Running, Len(host) < MaxHost,
           NEW f \in Functions, NEW back \in Address, NEW excluded \in Overridden \union {None},
           NEW esp \in 1..MaxStack, NEW h, Chain(h), Parents(h), Len(h) = Len(host),
           NEW c, NEW s, Levels(Append(h, Run(f, back, excluded, esp, active)), c),
           StackOn(s, c, esp), InnermostRun(h, active, Len(h)), h[Len(h)].esp <= esp,
           OwnBack(Run(f, back, excluded, esp, active)),
           StandsOn(h[Len(h)], Run(f, back, excluded, esp, active)),
           stack' = s, calls' = c, host' = Append(h, Run(f, back, excluded, esp, active)),
           jit' = [esp |-> esp, at |-> Entry(f)], active' = Len(host) + 1,
           view' \in [esp : 0..MaxStack]
    PROVE  IInv'
<1> USE ExecutorAssumption
<1> DEFINE g == Run(f, back, excluded, esp, active)
<1>1. /\ active \in Nat /\ c \in Seq(Address) /\ esp = Len(c) /\ Len(h) \in Nat /\ Len(h) >= 1
  BY DEF InnermostRun, StackOn, Chain
<1>2. /\ g \in RunFrame /\ g \in HostFrame /\ g.is = "run" /\ g.esp = esp /\ g.back = back
      /\ g.parent = active /\ g.excluded = excluded /\ g.fn = f
  BY <1>1 DEF Run, RunFrame, HostFrame
<1> HIDE DEF g
<1>3. /\ OwnBack(g) /\ StandsOn(h[Len(h)], g) /\ host' = Append(h, g) /\ Levels(Append(h, g), c)
  BY DEF g
<1>4. /\ Len(host') = Len(h) + 1 /\ Innermost' = g /\ Running'
      /\ host'[Len(h) + 1] = g
  BY <1>2, <1>3, PushedHost DEF Innermost, Running
<1>5. Chain(host)'
  <2>1. Chain(Append(h, g))
    BY <1>2, <1>3, ChainPush
  <2>q. QED
    BY <1>3, <2>1
<1>6. Levels(host, calls)'
  BY <1>3
<1>7. Parents(host)'
  <2>1. Parents(Append(h, g))
    BY <1>2, ParentsPush
  <2>q. QED
    BY <1>3, <2>1
<1>8. InnermostRun(host, active, Len(host))'
  BY <1>1, <1>2, <1>4 DEF InnermostRun
<1>9. (Len(host) <= MaxHost + 1 /\ (Running => Len(host) <= MaxHost))'
  BY <1>1, <1>4
<1>10. StackInv'
  <2>1. Entry(f) \in Place
    BY DEF Entry, Place
  <2>q. QED
    BY <1>4, <2>1 DEF StackInv, Esp
<1>11. PlaceInv'
  <2>1. jit'.at.is = "entry" /\ jit'.at.fn = f
    BY DEF Entry
  <2>2. f \in Entered(g)
    BY <1>2, <1>3, CodeFacts DEF Entered, IsCodeOf
  <2>3. JitAt(jit'.at, g, c)
    BY <1>1, <1>2, <2>1, <2>2 DEF JitAt
  <2>q. QED
    BY <1>4, <2>3 DEF PlaceInv
<1>q. QED
  BY <1>5, <1>6, <1>7, <1>8, <1>9, <1>10, <1>11 DEF IInv, HostInv

LEMMA CallsOriginalHolds == ASSUME IInv, NativeCallsOriginal PROVE IInv'
<1> USE ExecutorAssumption
<1> DEFINE f == Innermost
           back == stack[view.esp]
           g == Run(f.fn, back, f.fn, view.esp, active)
<1>0. /\ ~Running /\ f.fn \in Overridden /\ ~f.done /\ Len(host) < MaxHost
      /\ jit' = [esp |-> view.esp, at |-> Entry(f.fn)] /\ active' = Len(host) + 1
      /\ host' = Append([host EXCEPT ![Len(host)] = [f EXCEPT !.done = TRUE]], g)
      /\ stack' = stack /\ view' = view /\ calls' = calls
  BY DEF NativeCallsOriginal, Execute, ExecuteUnder
<1>1. /\ f = host[Len(host)] /\ f.is = "native" /\ Len(host) \in Nat /\ f.esp \in Nat
      /\ StackOn(stack, calls, view.esp) /\ view.esp = Len(calls) /\ calls \in Seq(Address)
      /\ view.esp = f.esp
  BY <1>0, NativeFacts DEF Below
<1>2. Chain(host) /\ Levels(host, calls) /\ Parents(host) /\ InnermostRun(host, active, Len(host))
  BY DEF IInv, HostInv
<1> DEFINE h == Marked(host)
<1>3. /\ Len(host) > 1 /\ Len(h) = Len(host) /\ h \in Seq(HostFrame \union {MainFrame})
      /\ \A i \in 1..Len(host) - 1 : h[i] = host[i]
      /\ h[Len(host)] \in NativeFrame /\ h[Len(host)].is = "native" /\ h[Len(host)].fn = f.fn
      /\ h[Len(host)].back = f.back /\ h[Len(host)].esp = f.esp /\ h[Len(host)].done
  BY <1>0, <1>1, <1>2, MarkedFacts
<1>4. host' = Append(h, g)
  BY <1>0, <1>1 DEF Marked
<1>5. Chain(h) /\ Levels(h, calls) /\ Parents(h)
  BY <1>0, <1>1, <1>2, ChainMark, LevelsMark, ParentsMark
<1>6. f \in NativeFrame /\ OwnBack(f) /\ (f.esp <= Len(calls) => calls[f.esp] = f.back)
  BY <1>0, <1>3, NativeFacts
<1>7. f.esp \in 1..MaxStack
  BY <1>1, <1>6, OnTop DEF NativeFrame
<1>8. back = f.back /\ calls[Len(calls)] = back /\ back \in Address
  BY <1>1, <1>6, <1>7, OnTop DEF NativeFrame
<1> HIDE DEF h
<1>9. InnermostRun(h, active, Len(h))
  <2>1. \A i \in 1..Len(host) : h[i].is = host[i].is
    BY <1>1, <1>3
  <2>q. QED
    BY <1>1, <1>2, <1>3, <2>1, SameBelow
<1>10. OwnBack(g) /\ StandsOn(h[Len(h)], g)
  <2>1. g.is = "run" /\ g.back = back /\ g.excluded = f.fn /\ g.esp = f.esp /\ g.fn = f.fn
    BY <1>1 DEF Run
  <2> HIDE DEF g
  <2>2. EndsAt(f.fn, f.fn, back)
    BY <1>0, <1>6, <1>8 DEF OwnBack
  <2>3. OwnBack(g)
    BY <2>1, <2>2 DEF OwnBack
  <2>4. StandsOn(h[Len(h)], g)
    BY <1>0, <1>3, <1>8, <2>1 DEF StandsOn, Original
  <2>q. QED
    BY <2>3, <2>4
<1>11. h[Len(h)].esp <= view.esp /\ view.esp \in 1..MaxStack /\ view \in [esp : 0..MaxStack]
  BY <1>1, <1>3, <1>7 DEF IInv, StackInv
<1>12. f.fn \in Functions
  BY <1>0
<1>13. Levels(Append(h, g), calls)
  <2>1. g \in HostFrame /\ g.esp = Len(calls) /\ g.back = back
    BY <1>0, <1>1, <1>2, <1>8, <1>11 DEF Run, RunFrame, HostFrame, InnermostRun
  <2> HIDE DEF g
  <2>q. QED
    BY <1>1, <1>5, <1>8, <2>1, LevelsPush
<1> HIDE DEF back, f
<1>q. QED
  <2>1. host' = Append(h, Run(f.fn, back, f.fn, view.esp, active))
    BY <1>4
  <2>2. OwnBack(Run(f.fn, back, f.fn, view.esp, active))
        /\ StandsOn(h[Len(h)], Run(f.fn, back, f.fn, view.esp, active))
    BY <1>10
  <2>3. Levels(Append(h, Run(f.fn, back, f.fn, view.esp, active)), calls)
    BY <1>13
  <2> HIDE DEF g
  <2>q. QED
    BY <1>0, <1>1, <1>3, <1>5, <1>8, <1>9, <1>11, <1>12, <2>1, <2>2, <2>3, ExecuteHolds

(* Native code calls by an address it pushes, excluding nothing or the     *)
(* function it replaces: before its original was called in place or after. *)
LEMMA PushedRunHolds ==
    ASSUME IInv, NEW f \in Functions, NEW address \in Address, NativePushes(f, address),
           NEW excluded \in Overridden \union {None}, EndsAt(f, excluded, address),
           f \in Overridden => EndsAt(f, f, address),
           Execute(f, address, excluded, view.esp + 1, Innermost)
    PROVE  IInv'
<1> USE ExecutorAssumption
<1> DEFINE a == Innermost
           esp == view.esp + 1
           g == Run(f, address, excluded, esp, active)
           c == Append(calls, address)
           s == PushedAt(view.esp, address)
<1>0. /\ ~Running /\ Len(host) < MaxHost /\ view.esp < MaxStack
      /\ stack' = s /\ calls' = c /\ view' = [esp |-> esp]
      /\ jit' = [esp |-> esp, at |-> Entry(f)] /\ active' = Len(host) + 1
      /\ host' = Append([host EXCEPT ![Len(host)] = a], g)
  BY DEF NativePushes, Execute, ExecuteUnder
<1>1. /\ a = host[Len(host)] /\ a.is = "native" /\ Len(host) \in Nat /\ a.esp \in Nat
      /\ Len(host) >= 1 /\ StackOn(stack, calls, view.esp) /\ view.esp = Len(calls)
      /\ calls \in Seq(Address) /\ view.esp = Below(a) /\ view.esp \in Nat
  BY <1>0, NativeFacts, OnTop
<1>2. Chain(host) /\ Levels(host, calls) /\ Parents(host) /\ InnermostRun(host, active, Len(host))
  BY DEF IInv, HostInv
<1>3. [host EXCEPT ![Len(host)] = a] = host
  <2>1. host \in Seq(HostFrame \union {MainFrame})
    BY <1>2 DEF Chain
  <2>q. QED
    BY <1>1, <2>1
<1>4. esp \in 1..MaxStack
  BY <1>0, <1>1
<1>5. StackOn(s, c, esp)
  BY <1>0, <1>1, StackCall DEF PushedAt
<1>6. /\ g \in HostFrame /\ g.is = "run" /\ g.back = address /\ g.excluded = excluded
      /\ g.esp = esp /\ g.fn = f
  BY <1>2, <1>4 DEF Run, RunFrame, HostFrame, InnermostRun
<1>7. a.esp <= esp
  <2>1. Len(host) \in 1..Len(host)
    BY <1>1
  <2>2. a.esp <= Below(a) + 1
    BY <1>1, <1>2, <2>1, BelowFacts
  <2>q. QED
    BY <1>1, <2>2
<1> HIDE DEF g
<1>8. Levels(Append(host, g), c)
  BY <1>1, <1>2, <1>6, LevelsPushCall
<1>9. OwnBack(g) /\ StandsOn(host[Len(host)], g)
  BY <1>1, <1>6 DEF OwnBack, StandsOn, Called
<1>10. view' \in [esp : 0..MaxStack]
  BY <1>0, <1>4
<1> HIDE DEF a, esp, c, s
<1>q. QED
  <2>1. host' = Append(host, Run(f, address, excluded, esp, active))
    BY <1>0, <1>3 DEF g
  <2>2. OwnBack(Run(f, address, excluded, esp, active))
        /\ StandsOn(host[Len(host)], Run(f, address, excluded, esp, active))
        /\ Levels(Append(host, Run(f, address, excluded, esp, active)), c)
    BY <1>8, <1>9 DEF g
  <2>q. QED
    BY <1>0, <1>1, <1>2, <1>4, <1>5, <1>7, <1>10, <2>1, <2>2, ExecuteHolds

LEMMA CallsGuestHolds ==
    ASSUME IInv, NEW f \in Functions, NEW address \in Address, NativeCallsGuest(f, address)
    PROVE  IInv'
<1>1. NativePushes(f, address) /\ Execute(f, address, None, view.esp + 1, Innermost)
  BY DEF NativeCallsGuest
<1>2. Innermost.fn \in Natives /\ <<f, address>> \in NativeCalls[Innermost.fn]
  BY <1>1, NativeFacts DEF NativePushes
<1>3. EndsAt(f, None, address) /\ (f \in Overridden => EndsAt(f, f, address))
  <2>1. <<f, address>>[1] = f /\ <<f, address>>[2] = address
    OBVIOUS
  <2>q. QED
    BY <1>2, <2>1, ProgramAssumption
<1>q. QED
  BY <1>1, <1>3, PushedRunHolds

LEMMA CallsSuperHolds ==
    ASSUME IInv, NEW address \in Address, NativeCallsSuper(address)
    PROVE  IInv'
<1> DEFINE f == Innermost.fn
<1>1. NativePushes(f, address) /\ f \in Overridden
      /\ Execute(f, address, f, view.esp + 1, Innermost)
  BY DEF NativeCallsSuper
<1>2. f \in Natives /\ <<f, address>> \in NativeCalls[f] /\ f \in Functions
  BY <1>1, NativeFacts, ExecutorAssumption DEF NativePushes
<1> HIDE DEF f
<1>3. EndsAt(f, f, address)
  <2>1. <<f, address>>[1] = f /\ <<f, address>>[2] = address
    OBVIOUS
  <2>q. QED
    BY <1>1, <1>2, <2>1, ProgramAssumption
<1>q. QED
  BY <1>1, <1>2, <1>3, PushedRunHolds

LEMMA NativeDispatchesHolds ==
    ASSUME IInv, NEW f \in Services, NEW address \in Address, NativeDispatches(f, address)
    PROVE  IInv'
<1> USE ExecutorAssumption
<1> DEFINE a == Innermost
           esp == view.esp + 1
           g == Native(f, address, "native", esp)
           c == Append(calls, address)
<1>0. /\ ~Running /\ Len(host) < MaxHost /\ view.esp < MaxStack
      /\ stack' = PushedAt(view.esp, address) /\ calls' = c /\ view' = [esp |-> esp]
      /\ host' = Append(host, g) /\ jit' = jit /\ active' = active
  BY DEF NativeDispatches, NativePushes
<1>1. /\ a = host[Len(host)] /\ a.is = "native" /\ Len(host) \in Nat /\ a.esp \in Nat
      /\ StackOn(stack, calls, view.esp) /\ view.esp = Len(calls) /\ calls \in Seq(Address)
      /\ view.esp = Below(a) /\ view.esp \in Nat /\ Len(host) >= 1
  BY <1>0, NativeFacts, OnTop
<1>2. Chain(host) /\ Levels(host, calls) /\ Parents(host) /\ InnermostRun(host, active, Len(host))
  BY DEF IInv, HostInv
<1>4. /\ g \in NativeFrame /\ g \in HostFrame /\ g.is = "native" /\ g.fn = f /\ ~g.done
      /\ g.back = address /\ g.esp = esp /\ g.by = "native" /\ esp \in 1..MaxStack
  BY <1>0, <1>1 DEF Native, NativeFrame, HostFrame
<1>5. StackOn(stack', c, esp)
  BY <1>0, <1>1, StackCall DEF PushedAt
<1>6. c \in Seq(Address) /\ Len(c) = esp
  BY <1>5 DEF StackOn
<1>7. a.esp <= esp
  <2>1. Len(host) \in 1..Len(host)
    BY <1>1
  <2>2. a.esp <= Below(a) + 1
    BY <1>1, <1>2, <2>1, BelowFacts
  <2>q. QED
    BY <1>1, <2>2
<1> HIDE DEF g
<1>a. Levels(Append(host, g), c)
  BY <1>1, <1>2, <1>4, LevelsPushCall
<1> HIDE DEF c, a
<1>8. OwnBack(g) /\ StandsOn(host[Len(host)], g)
  BY <1>1, <1>4, ExecutorAssumption DEF OwnBack, StandsOn, Called
<1>9. Len(host') = Len(host) + 1 /\ Innermost' = g /\ ~Running'
  BY <1>0, <1>2, <1>4, PushedHost DEF Innermost, Running
<1>10. Chain(host)'
  <2>1. Chain(Append(host, g))
    BY <1>1, <1>2, <1>4, <1>7, <1>8, ChainPush
  <2>q. QED
    BY <1>0, <2>1
<1>11. Levels(host, calls)'
  BY <1>0, <1>a
<1>12. Parents(host)'
  <2>1. Parents(Append(host, g))
    BY <1>2, <1>4, ParentsPush
  <2>q. QED
    BY <1>0, <2>1
<1>13. InnermostRun(host, active, Len(host))'
  <2>1. InnermostRun(Append(host, g), active, Len(host) + 1)
    BY <1>2, <1>4, InnermostPush
  <2>q. QED
    BY <1>0, <1>9, <2>1
<1>14. (Len(host) <= MaxHost + 1 /\ (Running => Len(host) <= MaxHost))'
  BY <1>0, <1>1, <1>9
<1>15. StackInv'
  BY <1>0, <1>4, <1>5, <1>9 DEF IInv, StackInv, Esp
<1>16. PlaceInv'
  BY <1>0, <1>4, <1>6, <1>9 DEF PlaceInv, Below
<1>q. QED
  BY <1>10, <1>11, <1>12, <1>13, <1>14, <1>15, <1>16 DEF IInv, HostInv

-----------------------------------------------------------------------------
(* Runs and native functions end.                                          *)

LEMMA PoppedHost ==
    ASSUME NEW h, Chain(h), Len(h) > 1
    PROVE  /\ Len(h) \in Nat /\ Len(Front(h)) = Len(h) - 1 /\ Last(Front(h)) = h[Len(h) - 1]
           /\ \A i \in 1..Len(h) - 1 : Front(h)[i] = h[i]
           /\ StandsOn(h[Len(h) - 1], h[Len(h)])
           /\ h[Len(h) - 1] \in HostFrame \union {MainFrame}
           /\ h[Len(h) - 1].esp \in Nat /\ h[Len(h) - 1].is \in {"run", "native"}
           /\ h[Len(h) - 1].esp <= h[Len(h)].esp
<1>1. h \in Seq(HostFrame \union {MainFrame}) /\ Len(h) \in Nat
  BY DEF Chain
<1>2. h[Len(h) - 1] \in HostFrame \union {MainFrame}
  BY <1>1
<1>3. StandsOn(h[Len(h) - 1], h[Len(h)]) /\ h[Len(h) - 1].esp <= h[Len(h)].esp
  <2>1. StandsOn(h[Len(h) - 1], h[Len(h) - 1 + 1])
    BY <1>1 DEF Chain
  <2>2. h[Len(h) - 1].esp <= h[Len(h)].esp
    BY <1>1 DEF Chain
  <2>q. QED
    BY <1>1, <2>1, <2>2
<1>4. Len(Front(h)) = Len(h) - 1 /\ \A i \in 1..Len(h) - 1 : Front(h)[i] = h[i]
  BY <1>1, FrontFacts
<1>5. Last(Front(h)) = h[Len(h) - 1]
  BY <1>1, <1>4 DEF Last
<1>q. QED
  BY <1>1, <1>2, <1>3, <1>4, <1>5, FrameKinds

LEMMA RunEndsHolds == ASSUME IInv, RunEnds PROVE IInv'
<1> USE ExecutorAssumption
<1> DEFINE f == Innermost
           a == host[Len(host) - 1]
<1>0. /\ Running /\ jit.at = Back(f.back) /\ view' = [esp |-> jit.esp]
      /\ active' = f.parent /\ host' = Front(host)
      /\ stack' = stack /\ jit' = jit /\ calls' = calls
  BY DEF RunEnds
<1>1. /\ f = host[Len(host)] /\ f \in RunFrame /\ f.is = "run" /\ OwnBack(f)
      /\ f.esp \in Nat \ {0} /\ StackOn(stack, calls, jit.esp) /\ jit.esp = Len(calls)
      /\ calls \in Seq(Address) /\ jit.esp \in Nat /\ jit.esp <= MaxStack
      /\ Len(host) > 1 /\ Len(host) \in Nat
  BY <1>0, RunFacts, OnTop
<1>2. Len(calls) = f.esp - 1
  <2>1. jit.at.is = "back" /\ jit.at.site = f.back
    BY <1>0 DEF Back
  <2>2. JitAt(jit.at, f, calls)
    BY <1>0 DEF IInv, PlaceInv
  <2>3. f.back \notin GuestSite(f)
    BY <1>1, CodeFacts
  <2>q. QED
    BY <1>1, <2>1, <2>2, <2>3 DEF JitAt
<1>3. Chain(host) /\ Levels(host, calls) /\ Parents(host) /\ Len(host) <= MaxHost + 1
  BY DEF IInv, HostInv
<1>4. /\ Len(host') = Len(host) - 1 /\ Innermost' = a /\ StandsOn(a, f)
      /\ a.esp \in Nat /\ a.is \in {"run", "native"}
      /\ \A i \in 1..Len(host) - 1 : host'[i] = host[i]
  BY <1>0, <1>1, <1>3, PoppedHost DEF Innermost
<1>5. a.is = "native" /\ f.esp - 1 = Below(a)
  <2>1. a.is = "native" /\ (Original(a, f) \/ Called(a, f))
    BY <1>1, <1>4 DEF StandsOn, Dispatched, Original, Called
  <2>2. Below(a) \in Int
    <3>1. Len(host) - 1 \in 1..Len(host)
      BY <1>1
    <3>q. QED
      BY <1>3, <2>1, <3>1, BelowFacts
  <2>q. QED
    BY <1>1, <1>4, <2>1, <2>2 DEF Original, Called, Below
<1>6. ~Running'
  BY <1>4, <1>5 DEF Running, Innermost
<1>7. Chain(host)'
  <2>1. Chain(Front(host))
    BY <1>1, <1>3, ChainPop
  <2>q. QED
    BY <1>0, <2>1
<1>8. Levels(host, calls)'
  <2>1. Levels(Front(host), calls)
    BY <1>1, <1>2, <1>3, LevelsPop
  <2>q. QED
    BY <1>0, <2>1
<1>9. Parents(host)'
  <2>1. Parents(Front(host))
    BY <1>3, ParentsPop
  <2>q. QED
    BY <1>0, <2>1
<1>10. InnermostRun(host, active, Len(host))'
  <2>1. InnermostRun(host, f.parent, Len(host) - 1)
    BY <1>1, <1>3 DEF Parents
  <2>2. InnermostRun(host', f.parent, Len(host) - 1)
    BY <1>1, <1>4, <2>1, SMTT(30) DEF InnermostRun

  <2>q. QED
    BY <1>0, <1>4, <2>2
<1>11. (Len(host) <= MaxHost + 1 /\ (Running => Len(host) <= MaxHost))'
  BY <1>1, <1>3, <1>4, <1>6
<1>12. StackInv'
  BY <1>0, <1>1, <1>6 DEF IInv, StackInv, Esp
<1>13. PlaceInv'
  BY <1>0, <1>1, <1>2, <1>4, <1>5, <1>6 DEF PlaceInv
<1>q. QED
  BY <1>7, <1>8, <1>9, <1>10, <1>11, <1>12, <1>13 DEF IInv, HostInv

LEMMA NativeReturnsHolds == ASSUME IInv, NativeReturns PROVE IInv'
<1> USE ExecutorAssumption
<1> DEFINE f == Innermost
           a == host[Len(host) - 1]
           esp == IF f.done THEN view.esp ELSE view.esp - 1
<1>0. /\ ~Running /\ f.fn # Main /\ view' = [esp |-> esp]
      /\ jit' = (IF f.by = "run" THEN [esp |-> esp, at |-> Back(f.back)] ELSE jit)
      /\ calls' = (IF f.done THEN calls ELSE Front(calls))
      /\ host' = Front(host) /\ stack' = stack /\ active' = active
  BY DEF NativeReturns
<1>1. Len(host) > 1 /\ Len(host) \in Nat
  <2>1. MainFrame.fn = Main
    BY DEF MainFrame, Native
  <2>2. Len(host) = 1 => f = MainFrame
    BY <1>0, NativeFacts
  <2>3. Len(host) # 1
    BY <1>0, <2>1, <2>2
  <2>4. Len(host) \in Nat /\ Len(host) >= 1
    BY <1>0, NativeFacts
  <2> DEFINE n == Len(host)
  <2>5. n \in Nat /\ n >= 1 /\ n # 1
    BY <2>3, <2>4
  <2> HIDE DEF n
  <2>6. n > 1 /\ n \in Nat
    BY <2>5
  <2>q. QED
    BY <2>6 DEF n
<1>2. /\ f = host[Len(host)] /\ f.is = "native" /\ f \in NativeFrame /\ f.esp \in Nat \ {0}
      /\ f.back \in Address /\ f.done \in BOOLEAN
      /\ StackOn(stack, calls, view.esp) /\ view.esp = Len(calls) /\ calls \in Seq(Address)
      /\ view.esp \in Nat /\ view.esp <= MaxStack
      /\ f.done => view.esp = f.esp - 1
      /\ ~f.done => view.esp = f.esp
  BY <1>0, <1>1, NativeFacts, OnTop DEF NativeFrame, Below
<1>3. esp = f.esp - 1 /\ esp \in 0..MaxStack
  BY <1>2
<1>4. StackOn(stack', calls', esp) /\ Len(calls') = esp /\ calls' \in Seq(Address)
  <2>1. CASE f.done
    BY <1>0, <1>2, <2>1
  <2>2. CASE ~f.done
    <3>0. view.esp >= 1
      BY <1>2, <2>2
    <3>1. StackOn(stack, Front(calls), view.esp - 1)
      BY <1>2, <3>0, StackReturn
    <3>q. QED
      BY <1>0, <2>2, <3>1 DEF StackOn
  <2>q. QED
    BY <2>1, <2>2
<1>5. Chain(host) /\ Levels(host, calls) /\ Parents(host) /\ Len(host) <= MaxHost + 1
      /\ InnermostRun(host, active, Len(host))
  BY DEF IInv, HostInv
<1>6. /\ Len(host') = Len(host) - 1 /\ Innermost' = a /\ StandsOn(a, f)
      /\ a.esp \in Nat /\ a.is \in {"run", "native"}
      /\ \A i \in 1..Len(host) - 1 : host'[i] = host[i]
  BY <1>0, <1>1, <1>2, <1>5, PoppedHost DEF Innermost
<1>7. Levels(host, calls')
  <2>1. CASE f.done
    BY <1>0, <1>5, <2>1
  <2>2. CASE ~f.done
    <3>1. Len(calls) >= 1
      BY <1>2, <2>2
    <3>2. Levels(host, Front(calls))
      BY <1>2, <1>5, <3>1, LevelsReturn
    <3>q. QED
      BY <1>0, <2>2, <3>2
  <2>q. QED
    BY <2>1, <2>2
<1>8. Levels(host, calls)'
  <2> DEFINE c == calls'
  <2>1. c \in Seq(Address) /\ Levels(host, c) /\ Len(c) < host[Len(host)].esp
    BY <1>2, <1>3, <1>4, <1>7
  <2> HIDE DEF c
  <2>2. Levels(Front(host), c)
    BY <1>1, <1>5, <2>1, LevelsPop
  <2>q. QED
    BY <1>0, <2>2 DEF c
<1>9. Chain(host)'
  <2>1. Chain(Front(host))
    BY <1>1, <1>5, ChainPop
  <2>q. QED
    BY <1>0, <2>1
<1>10. Parents(host)'
  <2>1. Parents(Front(host))
    BY <1>5, ParentsPop
  <2>q. QED
    BY <1>0, <2>1
<1>11. InnermostRun(host, active, Len(host))'
  <2>1. active # Len(host)
    BY <1>1, <1>2, <1>5 DEF InnermostRun
  <2>2. InnermostRun(host', active, Len(host) - 1)
    BY <1>1, <1>5, <1>6, <2>1 DEF InnermostRun
  <2>q. QED
    BY <1>0, <1>6, <2>2
<1>12. (Len(host) <= MaxHost + 1 /\ (Running => Len(host) <= MaxHost))'
  BY <1>1, <1>5, <1>6
<1>13. Running' <=> a.is = "run"
  BY <1>6 DEF Running, Innermost
<1>14. f.by = "run" <=> a.is = "run"
  BY <1>2, <1>6 DEF StandsOn, Dispatched, Original, Called
<1>15. StackInv'
  <2>1. Back(f.back) \in Place
    BY <1>2 DEF Back, Place
  <2>2. jit' \in [esp : 0..MaxStack, at : Place] /\ view' \in [esp : 0..MaxStack]
    BY <1>0, <1>3, <2>1 DEF IInv, StackInv
  <2>3. Esp' = esp
    BY <1>0, <1>13, <1>14 DEF Esp
  <2>q. QED
    BY <1>4, <2>2, <2>3 DEF StackInv
<1>16. PlaceInv'
  <2>1. CASE a.is = "run"
    <3>1. jit'.at.is = "back" /\ jit'.at.site = f.back
      BY <1>0, <1>14, <2>1 DEF Back
    <3>2. Dispatched(a, f)
      BY <1>6, <2>1 DEF StandsOn, Original, Called
    <3>3. JitAt(jit'.at, a, calls')
      BY <1>2, <1>3, <1>4, <1>6, <3>1, <3>2, SMTT(30) DEF JitAt, Dispatched
    <3>q. QED
      BY <1>6, <1>13, <2>1, <3>3 DEF PlaceInv
  <2>2. CASE a.is = "native"
    <3>1. f.esp = Below(a) + 1
      BY <1>2, <1>6, <2>2 DEF StandsOn, Dispatched, Original, Called
    <3>2. Below(a) \in Int
      <4>1. Len(host) - 1 \in 1..Len(host)
        BY <1>1
      <4>q. QED
        BY <1>5, <2>2, <4>1, BelowFacts
    <3>q. QED
      BY <1>3, <1>4, <1>6, <1>13, <2>2, <3>1, <3>2 DEF PlaceInv
  <2>q. QED
    BY <1>6, <2>1, <2>2
<1>q. QED
  BY <1>8, <1>9, <1>10, <1>11, <1>12, <1>15, <1>16 DEF IInv, HostInv

-----------------------------------------------------------------------------
LEMMA InitHolds == Init => IInv
<1> SUFFICES ASSUME Init PROVE IInv
  OBVIOUS
<1> USE ExecutorAssumption DEF Init
<1>1. /\ Len(host) = 1 /\ host[1] = MainFrame /\ Innermost = MainFrame
      /\ host \in Seq(HostFrame \union {MainFrame})
  BY DEF MainFrame, Innermost, Last
<1>2. MainFrame.is = "native" /\ MainFrame.esp = 0 /\ ~MainFrame.done
  BY DEF MainFrame, Native
<1>3. ~Running
  BY <1>1, <1>2 DEF Running, Innermost
<1>4. Chain(host)
  BY <1>1, <1>2 DEF Chain
<1>5. Levels(host, calls) /\ Parents(host) /\ InnermostRun(host, active, Len(host))
  BY <1>1, <1>2 DEF Levels, Parents, InnermostRun
<1>6. StackInv
  <2>1. Inside(None) \in Place
    BY DEF Inside, Place
  <2>2. StackOn(stack, calls, 0)
    <3>1. SubSeq(stack, 1, 0) = << >>
      BY SubSeqEmpty
    <3>q. QED
      BY <3>1 DEF StackOn
  <2>q. QED
    BY <1>3, <2>1, <2>2 DEF StackInv, Esp
<1>7. PlaceInv
  BY <1>1, <1>2, <1>3 DEF PlaceInv, Below
<1>q. QED
  BY <1>1, <1>3, <1>4, <1>5, <1>6, <1>7 DEF IInv, HostInv

LEMMA StutterHolds == ASSUME IInv, UNCHANGED vars PROVE IInv'
BY DEF vars, IInv, StackInv, Esp, StackOn, HostInv, PlaceInv, JitAt, Running, Innermost,
       Chain, Levels, Parents, InnermostRun

LEMMA StepPreserves == IInv /\ [Next]_vars => IInv'
<1> SUFFICES ASSUME IInv, [Next]_vars PROVE IInv'
  OBVIOUS
<1>1. ASSUME NEW g \in Functions \union Services, GuestCalls(g) PROVE IInv'
  BY <1>1, GuestCallsHolds
<1>2. CASE GuestReturns
  BY <1>2, GuestReturnsHolds
<1>3. CASE GuestGoesOn
  BY <1>3, GuestGoesOnHolds
<1>4. CASE Dispatch
  BY <1>4, DispatchHolds
<1>5. CASE NativeCallsOriginal
  BY <1>5, CallsOriginalHolds
<1>6. CASE NativeReturns
  BY <1>6, NativeReturnsHolds
<1>7. ASSUME NEW f \in Functions, NEW a \in Address, NativeCallsGuest(f, a) PROVE IInv'
  BY <1>7, CallsGuestHolds
<1>7a. ASSUME NEW a \in Address, NativeCallsSuper(a) PROVE IInv'
  BY <1>7a, CallsSuperHolds
<1>8. ASSUME NEW s \in Services, NEW a \in Address, NativeDispatches(s, a) PROVE IInv'
  BY <1>8, NativeDispatchesHolds
<1>9. CASE RunEnds
  BY <1>9, RunEndsHolds
<1>10. CASE UNCHANGED vars
  BY <1>10, StutterHolds
<1>q. QED
  BY <1>1, <1>2, <1>3, <1>4, <1>5, <1>6, <1>7, <1>7a, <1>8, <1>9, <1>10
  DEF Next, Guest, NativeSide

LEMMA Invariance == Spec => []IInv
<1>1. Init => IInv
  BY InitHolds
<1>2. IInv /\ [Next]_vars => IInv'
  BY StepPreserves
<1>q. QED
  BY <1>1, <1>2, PTL DEF Spec

(* The stack never outgrows its room, nor the runs theirs, and the         *)
(* engine's boundary is one of the runs in progress (select_boundary).     *)
THEOREM TypeCorrect == Spec => []TypeOK
<1>1. IInv => TypeOK
  <2> SUFFICES ASSUME IInv PROVE TypeOK
    OBVIOUS
  <2>1. Len(host) \in 1..MaxHost + 1
    BY ExecutorAssumption DEF IInv, HostInv, Chain
  <2>2. jit.esp \in 0..MaxStack /\ view.esp \in 0..MaxStack /\ Len(stack) <= MaxStack
    BY DEF IInv, StackInv, StackOn
  <2>3. active \in 0..MaxHost
    <3>1. CASE Running
      BY <2>1, <3>1, RunFacts
    <3>2. CASE ~Running
      <4>1. host[Len(host)].is # "run" /\ active \in 0..Len(host)
            /\ (active # 0 => host[active].is = "run")
        BY <3>2, NativeFacts DEF IInv, HostInv, InnermostRun
      <4>q. QED
        BY <2>1, <4>1, ExecutorAssumption
    <3>q. QED
      BY <3>1, <3>2
  <2>q. QED
    BY <2>1, <2>2, <2>3 DEF TypeOK
<1>q. QED
  BY <1>1, Invariance, PTL

(* The two copies of the registers stay in step: whoever has control       *)
(* stands on the calls that have not returned (view_from_jit,              *)
(* jit_from_view), however deep guest and native code call each other.     *)
THEOREM RegistersAgree == Spec => []StackIsItsCalls
<1>1. IInv => StackIsItsCalls
  <2> SUFFICES ASSUME IInv PROVE StackIsItsCalls
    OBVIOUS
  <2>1. StackOn(stack, calls, Esp)
    BY DEF IInv, StackInv
  <2>q. QED
    BY <2>1 DEF StackOn, StackIsItsCalls, Esp
<1>q. QED
  BY <1>1, Invariance, PTL

(* A run ends at the call that began it (the comparison of the program     *)
(* counter with return_address in execute), for every program whose        *)
(* overridden functions do not come back to themselves in guest code.      *)
THEOREM RunsEndInPlace == Spec => []RunsEndWhereTheyBegan
<1>1. IInv => RunsEndWhereTheyBegan
  <2> SUFFICES ASSUME IInv, Running, jit.at = Back(Innermost.back)
               PROVE  jit.esp = Innermost.esp - 1
    BY DEF RunsEndWhereTheyBegan
  <2>1. jit.at.is = "back" /\ jit.at.site = Innermost.back
    BY DEF Back
  <2>2. JitAt(jit.at, Innermost, calls)
    BY DEF IInv, PlaceInv
  <2>3. /\ Innermost.back \notin GuestSite(Innermost)
        /\ jit.esp = Len(calls) /\ calls \in Seq(Address) /\ Innermost.esp \in Nat
    BY RunFacts, CodeFacts
  <2>q. QED
    BY <2>1, <2>2, <2>3 DEF JitAt
<1>q. QED
  BY <1>1, Invariance, PTL

(* An overridden function runs as guest code only inside the call of its   *)
(* original (excluded_override), and the engine looks at the innermost     *)
(* run.                                                                    *)
THEOREM OriginalsStayScoped == Spec => []OriginalsAreScoped
<1>1. IInv => OriginalsAreScoped
  <2> SUFFICES ASSUME IInv, Running
               PROVE  /\ active = Len(host)
                      /\ jit.at.is = "in" /\ jit.at.fn \in Overridden
                         => Innermost.excluded = jit.at.fn
    BY DEF OriginalsAreScoped
  <2>1. active = Len(host) /\ Innermost.excluded \in Overridden \union {None}
    BY RunFacts
  <2>2. ASSUME jit.at.is = "in", jit.at.fn \in Overridden PROVE Innermost.excluded = jit.at.fn
    <3>1. jit.at.fn \in Code(Innermost)
      BY <2>2 DEF IInv, PlaceInv, JitAt
    <3>2. Code(Innermost) \intersect Overridden \subseteq {Innermost.excluded}
      BY RunFacts, CodeFacts DEF IsCodeOf
    <3>q. QED
      BY <2>2, <3>1, <3>2
  <2>q. QED
    BY <2>1, <2>2
<1>q. QED
  BY <1>1, Invariance, PTL
-----------------------------------------------------------------------------
(* FrameClock.  The loop's clock and the pacer are proved about            *)
(* separately: neither reads the other's state, but for the time that a    *)
(* sleep takes from both.  Arithmetic first.                               *)

LEMMA DivisionWithRest ==
    ASSUME NEW a \in Nat, NEW b \in Nat \ {0}
    PROVE  /\ a \div b \in Nat /\ a % b \in Nat /\ a % b < b
           /\ a = b * (a \div b) + (a % b)
  OBVIOUS

LEMMA ProductMonotone ==
    ASSUME NEW a \in Nat, NEW b \in Nat, NEW c \in Nat, a <= b
    PROVE  a * c <= b * c
  OBVIOUS

LEMMA QuotientBound ==
    ASSUME NEW a \in Nat, NEW b \in Nat \ {0}, NEW q \in Int, q * b <= a
    PROVE  q <= a \div b
  OBVIOUS

-----------------------------------------------------------------------------
(* The inductive invariant.                                                *)

\* The loop's clock; inside a frame, what the frame will be charged is on it.
ClockInv ==
    /\ pc \in {"top", "frame", "rest", "done"} /\ interval \in {Slow, Fast}
    /\ steps \in 0..MaxSteps /\ clock \in Nat
    /\ pc = "frame" => interval * Ms <= clock

\* The pacer is never ahead of the wall after a present, and a frame that
\* was let through at once has used up a frame of what it may lag behind.
PacerInv ==
    /\ early \in Int \union {Unanchored} /\ (early # Unanchored => early <= 0)
    /\ log \in [waited : Nat, free : Nat, still : Nat]
    /\ log.waited <= Frame
    /\ log.free >= 1 => early # Unanchored /\ (log.free - 1) * Frame - Resync <= early

\* Every frame stepped in one instant has been charged its interval.
Charged == IF pc = "frame" THEN log.still - 1 ELSE log.still
CatchUpInv == log.still >= 1 => clock + Charged * (Fast * Ms) < (Clamp + 1) * Ms

PacingInv == ClockInv /\ PacerInv /\ CatchUpInv

-----------------------------------------------------------------------------
LEMMA ClockFacts ==
    ASSUME clock \in Nat
    PROVE  /\ Elapsed \in Nat /\ clock % Ms \in 0 .. Ms - 1
           /\ clock = Elapsed * Ms + (clock % Ms)
BY DivisionWithRest, FrameClockAssumption DEF Elapsed

LEMMA ClockInitHolds == ClockInit => PacingInv
<1> SUFFICES ASSUME ClockInit PROVE PacingInv
  OBVIOUS
<1>1. ClockInv
  BY FrameClockAssumption DEF ClockInit, ClockInv
<1>2. PacerInv
  BY FrameClockAssumption DEF ClockInit, PacerInv
<1>3. CatchUpInv
  BY DEF ClockInit, CatchUpInv
<1>q. QED
  BY <1>1, <1>2, <1>3 DEF PacingInv

LEMMA CreditIsTime ==
    ASSUME NEW ms \in Nat, NEW loading \in BOOLEAN
    PROVE  Credit(ms, loading) \in Nat /\ Slept(ms, loading) \in Nat
BY FrameClockAssumption DEF Credit, Slept

\* A sleep only puts the pacer further behind, and is no free frame.
LEMMA PassedIsLater ==
    ASSUME early \in Int \union {Unanchored}, early # Unanchored => early <= 0, NEW t \in Nat
    PROVE  /\ Passed(early, t) \in Int \union {Unanchored}
           /\ Passed(early, t) # Unanchored => Passed(early, t) <= 0
BY FrameClockAssumption DEF Passed, Latest

LEMMA TopPreserves ==
    ASSUME PacingInv, NEW quit \in BOOLEAN, NEW i \in {Slow, Fast}, Top(quit, i)
    PROVE  PacingInv'
<1> USE FrameClockAssumption DEF Top
<1>0. clock \in Nat /\ log \in [waited : Nat, free : Nat, still : Nat]
  BY DEF PacingInv, ClockInv, PacerInv
<1>1. CASE pc' = "frame"
  <2>1. Elapsed >= i /\ clock' = Clamped /\ i \in Nat /\ i >= Fast /\ i <= Clamp
    BY <1>0, <1>1 DEF Due
  <2>2. i * Ms <= Elapsed * Ms /\ i * Ms <= Clamp * Ms
    BY <2>1, <1>0, ClockFacts, ProductMonotone
  <2>3. i * Ms <= clock' /\ clock' \in Nat
    BY <2>1, <2>2, <1>0, ClockFacts DEF Clamped
  <2>4. CASE log.still = 0
    <3>1. Clamped < (Clamp + 1) * Ms
      <4>1. CASE Elapsed > Clamp
        BY <4>1, <1>0, ClockFacts DEF Clamped
      <4>2. CASE Elapsed <= Clamp
        <5>1. Elapsed * Ms <= Clamp * Ms
          BY <4>2, <1>0, ClockFacts, ProductMonotone
        <5>q. QED
          BY <5>1, <4>2, <1>0, ClockFacts DEF Clamped
      <4>q. QED
        BY <4>1, <4>2, <1>0, ClockFacts
    <3>2. log'.still = 1
      BY <2>4, <1>1, <1>0
    <3>3. CatchUpInv'
      BY <3>1, <3>2, <2>1, <1>1, <2>3 DEF CatchUpInv, Charged
    <3>q. QED
      BY <3>3, <2>3, <1>0, <1>1 DEF PacingInv, ClockInv, PacerInv
  <2>5. CASE log.still >= 1
    <3>1. clock + log.still * (Fast * Ms) < (Clamp + 1) * Ms
      BY <2>5 DEF PacingInv, CatchUpInv, Charged
    <3>2. clock < (Clamp + 1) * Ms
      BY <3>1, <1>0
    <3>3. ~(Elapsed > Clamp)
      <4> SUFFICES ASSUME Elapsed >= Clamp + 1 PROVE FALSE
        BY <1>0, ClockFacts
      <4>1. Clamp + 1 \in Nat /\ Elapsed \in Nat /\ Ms \in Nat
        BY <1>0, ClockFacts
      <4>2. (Clamp + 1) * Ms <= Elapsed * Ms
        BY ONLY <4>1, ProductMonotone, Elapsed >= Clamp + 1
      <4>q. QED
        BY <4>2, <3>2, <1>0, ClockFacts
    <3>4. clock' = clock
      BY <3>3, <2>1, <1>0 DEF Clamped
    <3>5. log'.still = log.still + 1
      BY <1>1, <1>0
    <3>6. CatchUpInv'
      BY <3>1, <3>4, <3>5, <1>1, <1>0 DEF CatchUpInv, Charged
    <3>q. QED
      BY <3>6, <2>3, <1>0, <1>1 DEF PacingInv, ClockInv, PacerInv
  <2>q. QED
    BY <2>4, <2>5, <1>0
<1>2. CASE pc' # "frame"
  BY <1>2, <1>0 DEF PacingInv, ClockInv, PacerInv, CatchUpInv, Charged
<1>q. QED
  BY <1>1, <1>2

LEMMA PresentPreserves ==
    ASSUME PacingInv, NEW work \in Works, NEW loading \in BOOLEAN, Present(work, loading)
    PROVE  PacingInv'
<1> USE FrameClockAssumption
<1>0. /\ clock \in Nat /\ work \in Nat /\ Frame \in Nat
      /\ log \in [waited : Nat, free : Nat, still : Nat]
      /\ early \in Int \union {Unanchored} /\ (early # Unanchored => early <= 0)
  BY DEF PacingInv, ClockInv, PacerInv
<1>1. ClockInv'
  <2>1. interval * Ms \in Nat
    BY DEF PacingInv, ClockInv
  <2>q. QED
    BY <1>0, <2>1 DEF PacingInv, ClockInv, Present
<1>2. early' \in Int \union {Unanchored} /\ (early' # Unanchored => early' <= 0)
  BY <1>0 DEF Present, Paced, Ahead
<1>3. Wait(work, loading) \in 0 .. Frame
  BY <1>0 DEF Wait, Ahead
<1>4. log' \in [waited : Nat, free : Nat, still : Nat] /\ log'.waited <= Frame /\ log'.still = 0
  BY <1>0, <1>3 DEF Present
<1>5. log'.free >= 1 => early' # Unanchored /\ (log'.free - 1) * Frame - Resync <= early'
  <2> SUFFICES ASSUME log'.free >= 1
               PROVE  early' # Unanchored /\ (log'.free - 1) * Frame - Resync <= early'
    OBVIOUS
  <2>1. work = 0 /\ ~loading /\ Wait(work, loading) = 0 /\ log'.free = log.free + 1
    BY <1>0 DEF Present
  <2>2. CASE log.free = 0
    BY <2>1, <2>2, <1>0 DEF Present, Paced, Ahead, Wait
  <2>3. CASE log.free >= 1
    <3>1. early \in Int /\ early # Unanchored /\ (log.free - 1) * Frame - Resync <= early
      BY <2>3, <1>0 DEF PacingInv, PacerInv
    <3>2. (log.free - 1) * Frame >= 0
      BY <2>3, <1>0
    <3>3. early + Frame <= 0
      BY <2>1, <3>1, <1>0 DEF Wait, Ahead
    <3>4. early' = early + Frame
      BY <2>1, <3>1, <3>2, <3>3, <1>0 DEF Present, Paced, Ahead
    <3>5. (log.free + 1 - 1) * Frame = (log.free - 1) * Frame + Frame
      BY <1>0
    <3>q. QED
      BY <2>1, <3>1, <3>4, <3>5, <1>0
  <2>q. QED
    BY <2>2, <2>3, <1>0
<1>6. PacerInv'
  BY <1>2, <1>4, <1>5 DEF PacerInv
<1>7. CatchUpInv'
  BY <1>4 DEF CatchUpInv
<1>q. QED
  BY <1>1, <1>6, <1>7 DEF PacingInv

LEMMA SleepPreserves ==
    ASSUME PacingInv, NEW ms \in Requests, NEW loading \in BOOLEAN, GameSleeps(ms, loading)
    PROVE  PacingInv'
<1> USE FrameClockAssumption
<1>0. /\ clock \in Nat /\ ms \in Nat
      /\ log \in [waited : Nat, free : Nat, still : Nat]
      /\ early \in Int \union {Unanchored} /\ (early # Unanchored => early <= 0)
      /\ Credit(ms, loading) \in Nat /\ Slept(ms, loading) \in Nat
      /\ interval * Ms \in Nat
  BY CreditIsTime DEF PacingInv, ClockInv, PacerInv
<1>1. ClockInv'
  BY <1>0 DEF PacingInv, ClockInv, GameSleeps
<1>2. PacerInv'
  <2>1. early' = Passed(early, Slept(ms, loading))
    BY DEF GameSleeps
  <2>2. early' \in Int \union {Unanchored} /\ (early' # Unanchored => early' <= 0)
    BY <1>0, <2>1, PassedIsLater
  <2>3. log' \in [waited : Nat, free : Nat, still : Nat] /\ log'.free = 0 /\ log'.waited = log.waited
    BY <1>0 DEF GameSleeps
  <2>q. QED
    BY <2>2, <2>3 DEF PacingInv, PacerInv
<1>3. CatchUpInv'
  BY <1>0 DEF PacingInv, CatchUpInv, Charged, GameSleeps
<1>q. QED
  BY <1>1, <1>2, <1>3 DEF PacingInv

LEMMA FrameEndPreserves == ASSUME PacingInv, FrameEnds PROVE PacingInv'
<1> USE FrameClockAssumption
<1>0. clock \in Nat /\ interval \in {Slow, Fast} /\ interval * Ms <= clock
  BY DEF PacingInv, ClockInv, FrameEnds
<1>1. Fast * Ms <= interval * Ms /\ Fast * Ms \in Nat /\ interval * Ms \in Nat
  BY <1>0, ProductMonotone
<1>2. ClockInv' /\ PacerInv'
  BY <1>0, <1>1 DEF PacingInv, ClockInv, PacerInv, FrameEnds
<1>3. CatchUpInv'
  <2> SUFFICES ASSUME log'.still >= 1 PROVE clock' + Charged' * (Fast * Ms) < (Clamp + 1) * Ms
    BY DEF CatchUpInv
  <2>1. /\ log.still \in Nat /\ log.still >= 1
        /\ clock + (log.still - 1) * (Fast * Ms) < (Clamp + 1) * Ms
    BY DEF PacingInv, PacerInv, CatchUpInv, Charged, FrameEnds
  <2>2. Charged' = log.still /\ clock' = clock - interval * Ms
    BY DEF Charged, FrameEnds
  <2>3. log.still * (Fast * Ms) = (log.still - 1) * (Fast * Ms) + Fast * Ms
    BY <2>1, <1>1
  <2>q. QED
    BY <2>1, <2>2, <2>3, <1>0, <1>1
<1>q. QED
  BY <1>2, <1>3 DEF PacingInv

LEMMA RestPreserves == ASSUME PacingInv, NEW loading \in BOOLEAN, Rest(loading) PROVE PacingInv'
<1> USE FrameClockAssumption
<1> DEFINE ms == Smaller(interval - Elapsed, SleepMax)
<1>0. /\ clock \in Nat /\ interval \in Nat
      /\ log \in [waited : Nat, free : Nat, still : Nat]
      /\ early \in Int \union {Unanchored} /\ (early # Unanchored => early <= 0)
  BY DEF PacingInv, ClockInv, PacerInv
<1>1. CASE interval - Elapsed > 0
  <2>1. ms \in Nat
    BY <1>0, <1>1, ClockFacts DEF Smaller
  <2>2. Credit(ms, loading) \in Nat /\ Slept(ms, loading) \in Nat
    BY <2>1, CreditIsTime
  <2>3. /\ pc = "rest" /\ pc' = "top" /\ interval' = interval /\ steps' = steps
        /\ clock' = clock + Credit(ms, loading)
        /\ early' = Passed(early, Slept(ms, loading))
        /\ log' = [log EXCEPT !.free = 0, !.still = IF clock' = clock THEN @ ELSE 0]
    BY <1>1 DEF Rest
  <2> HIDE DEF ms
  <2>4. ClockInv'
    BY <1>0, <2>2, <2>3 DEF PacingInv, ClockInv
  <2>5. PacerInv'
    <3>1. early' \in Int \union {Unanchored} /\ (early' # Unanchored => early' <= 0)
      BY <1>0, <2>2, <2>3, PassedIsLater
    <3>2. log' \in [waited : Nat, free : Nat, still : Nat] /\ log'.free = 0 /\ log'.waited = log.waited
      BY <1>0, <2>3
    <3>q. QED
      BY <3>1, <3>2 DEF PacingInv, PacerInv
  <2>6. CatchUpInv'
    BY <1>0, <2>2, <2>3 DEF PacingInv, CatchUpInv, Charged
  <2>q. QED
    BY <2>4, <2>5, <2>6 DEF PacingInv
<1>2. CASE ~(interval - Elapsed > 0)
  BY <1>0, <1>2 DEF Rest, PacingInv, ClockInv, PacerInv, CatchUpInv, Charged
<1>q. QED
  BY <1>1, <1>2

LEMMA ClockStepPreserves == PacingInv /\ [ClockNext]_clockVars => PacingInv'
<1> SUFFICES ASSUME PacingInv, [ClockNext]_clockVars PROVE PacingInv'
  OBVIOUS
<1>1. ASSUME NEW quit \in BOOLEAN, NEW i \in {Slow, Fast}, Top(quit, i) PROVE PacingInv'
  BY <1>1, TopPreserves
<1>2. ASSUME NEW work \in Works, NEW loading \in BOOLEAN, Present(work, loading) PROVE PacingInv'
  BY <1>2, PresentPreserves
<1>3. ASSUME NEW ms \in Requests, NEW loading \in BOOLEAN, GameSleeps(ms, loading) PROVE PacingInv'
  BY <1>3, SleepPreserves
<1>4. CASE FrameEnds
  BY <1>4, FrameEndPreserves
<1>5. ASSUME NEW loading \in BOOLEAN, Rest(loading) PROVE PacingInv'
  BY <1>5, RestPreserves
<1>6. CASE UNCHANGED clockVars
  BY <1>6 DEF clockVars, PacingInv, ClockInv, PacerInv, CatchUpInv, Charged
<1>q. QED
  BY <1>1, <1>2, <1>3, <1>4, <1>5, <1>6 DEF ClockNext, Loop, Done

(* The invariant of the loop and the pacer holds throughout a run          *)
(* (run_main_loop, frame_pace).                                            *)
THEOREM ClockInvariance == ClockSpec => []PacingInv
<1>1. ClockInit => PacingInv
  BY ClockInitHolds
<1>2. PacingInv /\ [ClockNext]_clockVars => PacingInv'
  BY ClockStepPreserves
<1>q. QED
  BY <1>1, <1>2, PTL DEF ClockSpec

(* The unsigned subtraction of run_main_loop never wraps, whatever the     *)
(* frames present and sleep, the intervals and the clamp.                  *)
THEOREM ClockIsNeverOvertaken == ClockSpec => []NeverAheadOfTheClock
<1>1. PacingInv => NeverAheadOfTheClock
  BY DEF PacingInv, ClockInv, NeverAheadOfTheClock
<1>q. QED
  BY <1>1, ClockInvariance, PTL

(* The game is never stepped more often in one instant of its clock than   *)
(* the clamp of run_main_loop holds intervals.                             *)
THEOREM CatchUpEnds == ClockSpec => []CatchUpIsBounded
<1>1. PacingInv => CatchUpIsBounded
  <2> USE FrameClockAssumption
  <2> SUFFICES ASSUME PacingInv PROVE CatchUpIsBounded
    OBVIOUS
  <2>0. /\ log.still \in Nat /\ clock \in Nat /\ (pc = "frame" => Fast * Ms <= clock)
    <3>1. interval \in Nat /\ Fast <= interval
      BY DEF PacingInv, ClockInv
    <3>q. QED
      BY <3>1, ProductMonotone DEF PacingInv, ClockInv, PacerInv
  <2>1. Clamp \div Fast \in Nat
    BY DivisionWithRest
  <2>2. CASE log.still = 0
    BY <2>1, <2>2 DEF CatchUpIsBounded
  <2>3. CASE log.still >= 1
    <3>1. clock + Charged * (Fast * Ms) < (Clamp + 1) * Ms
      BY <2>3 DEF PacingInv, CatchUpInv
    <3>2. log.still * (Fast * Ms) = (log.still - 1) * (Fast * Ms) + Fast * Ms /\ Fast * Ms \in Nat
      BY <2>0
    <3>3. log.still * (Fast * Ms) < (Clamp + 1) * Ms
      BY <2>0, <3>1, <3>2 DEF Charged
    <3>4. log.still * (Fast * Ms) = (log.still * Fast) * Ms /\ log.still * Fast \in Nat
      BY <2>0
    <3>5. ~(Clamp + 1 <= log.still * Fast)
      <4> SUFFICES ASSUME Clamp + 1 <= log.still * Fast PROVE FALSE
        OBVIOUS
      <4>1. Clamp + 1 \in Nat /\ log.still * Fast \in Nat /\ Ms \in Nat
        BY <3>4
      <4>2. (Clamp + 1) * Ms <= (log.still * Fast) * Ms
        BY ONLY <4>1, ProductMonotone, Clamp + 1 <= log.still * Fast
      <4>q. QED
        BY <4>2, <3>3, <3>4
    <3>6. log.still * Fast <= Clamp
      BY <3>4, <3>5
    <3>7. log.still <= Clamp \div Fast
      BY <3>6, <2>0, QuotientBound
    <3>q. QED
      BY <3>7, <2>0, <2>1 DEF CatchUpIsBounded
  <2>q. QED
    BY <2>0, <2>2, <2>3
<1>q. QED
  BY <1>1, ClockInvariance, PTL

(* run_main_loop steps the game by the guest clock.                        *)
THEOREM StepsAreTheClocks == ClockSpec => []StepsFollowTheClock
BY ClockIsNeverOvertaken, CatchUpEnds, PTL DEF StepsFollowTheClock

(* frame_pace never holds a present for longer than a frame: the time in   *)
(* which it was not pacing is not paid back.                               *)
THEOREM PacerWaitsAFrameAtMost == ClockSpec => []WaitsAtMostAFrame
<1>1. PacingInv => WaitsAtMostAFrame
  BY DEF PacingInv, PacerInv, WaitsAtMostAFrame
<1>q. QED
  BY <1>1, ClockInvariance, PTL

(* Nor are frames let through in a burst longer than the lateness it       *)
(* forgives (FRAME_PACE_RESYNC_NS).                                        *)
THEOREM BurstsEnd == ClockSpec => []BurstIsBounded
<1>1. PacingInv => BurstIsBounded
  <2> USE FrameClockAssumption
  <2> SUFFICES ASSUME PacingInv PROVE BurstIsBounded
    OBVIOUS
  <2>0. log.free \in Nat /\ Frame \in Nat \ {0}
    <3>1. Slow >= 1 /\ Slow \in Nat /\ Ms \in Nat
      OBVIOUS
    <3>2. 1 * Ms <= Slow * Ms
      BY <3>1, ProductMonotone
    <3>q. QED
      BY <3>1, <3>2 DEF PacingInv, PacerInv
  <2>1. Resync \div Frame \in Nat
    BY <2>0, DivisionWithRest
  <2>2. CASE log.free = 0
    BY <2>1, <2>2 DEF BurstIsBounded
  <2>3. CASE log.free >= 1
    <3>1. early \in Int /\ early <= 0 /\ (log.free - 1) * Frame - Resync <= early
      BY <2>3 DEF PacingInv, PacerInv
    <3>2. (log.free - 1) * Frame <= Resync
      BY <3>1, <2>0
    <3>3. log.free - 1 <= Resync \div Frame
      BY <3>2, <2>0, QuotientBound
    <3>q. QED
      BY <3>3, <2>0, <2>1 DEF BurstIsBounded
  <2>q. QED
    BY <2>0, <2>2, <2>3
<1>q. QED
  BY <1>1, ClockInvariance, PTL
=============================================================================
