------------------------------- MODULE Executor -------------------------------
(***************************************************************************)
(* How guest code and native code call each other (cpu/jit_executor.c,     *)
(* overrides/native_override.c, dispatch and host_import of cpu/guest.c,   *)
(* com_call and guest_call of win32/com.c).                                *)
(*                                                                         *)
(* The JIT runs guest code until its program counter reaches the return    *)
(* address of the call in progress, a service (an import or a COM method)  *)
(* or a function the port overrides.  The latter two run native code,      *)
(* which may call the guest again: a nested run, on the same guest stack   *)
(* and the one JIT engine, under a boundary of its own.  An override may   *)
(* call the original it replaces, which is excluded from interception for  *)
(* that run.                                                               *)
(*                                                                         *)
(* There are two copies of the registers: the JIT's, and the view that     *)
(* native code reads and writes.  Only the stack pointer and the program   *)
(* counter matter here.  A step is one transfer of control.                *)
(***************************************************************************)
EXTENDS Naturals, Sequences, SequencesExt

CONSTANTS Functions,   \* guest functions
          Overridden,  \* those the port overrides (native_override.c)
          Services,    \* imports and COM methods
          Calls,       \* guest function -> what its code calls
          Synthetic,   \* return addresses at which no code of the game stands
          NativeCalls, \* native function -> <<what it calls, return address it pushes>>
          Main,        \* the native entry (port_entry.c)
          MaxStack,    \* bound: return addresses on the guest stack
          MaxHost,     \* bound: nested runs and native functions
          None

Natives == Overridden \union Services \union {Main}

(* A return address: behind a call the game's code makes, named by its     *)
(* caller and callee, or a synthetic one, such as guest_call's 0xDEAD0000. *)
(* Native code may push either, and the same one for different calls.      *)
(* It is a place of its own, not an entry (object_parser.c:92 pushes one). *)
Sites == Functions \X (Functions \union Services)
Address == Sites \union Synthetic

ASSUME ExecutorAssumption ==
    /\ Overridden \subseteq Functions
    /\ Functions \intersect Services = {} /\ Main \notin Functions \union Services
    /\ Calls \in [Functions -> SUBSET (Functions \union Services)]
    /\ Synthetic \intersect Sites = {}
    /\ NativeCalls \in [Natives -> SUBSET ((Functions \union Services) \X Address)]
    /\ MaxStack \in Nat /\ MaxHost \in Nat
    /\ None \notin Functions \union Services \union {Main}

(* The guest code of a call of f in which only the override of e is left   *)
(* out: it reaches what it calls, up to the functions the port overrides.  *)
IsCodeOf(code, f, e) ==
    /\ f \in code \union (Overridden \ {e}) /\ code \intersect Overridden \subseteq {e}
    /\ \A g \in code : Calls[g] \intersect Functions \subseteq code \union (Overridden \ {e})
ReturnsTo(code) == {site \in code \X (Functions \union Services) : site[2] \in Calls[site[1]]}
EndsAt(f, e, address) ==
    \E code \in SUBSET Functions : IsCodeOf(code, f, e) /\ address \notin ReturnsTo(code)

(* The program, the game's code and the port's: no call's own guest code   *)
(* returns to the address that ends the call.                              *)
ASSUME ProgramAssumption ==
    /\ \A g \in Functions : \A f \in Calls[g] \intersect Overridden : EndsAt(f, f, <<g, f>>)
    /\ \A n \in Natives : \A call \in NativeCalls[n] :
          /\ call[1] \in Functions => EndsAt(call[1], None, call[2])
          /\ call[1] \in Overridden => EndsAt(call[1], call[1], call[2])

VARIABLES
    stack,   \* the guest's stack: return addresses
    jit,     \* the JIT's registers: esp, at
    view,    \* native code's registers: esp
    host,    \* the native stack: runs of the JIT and native functions
    active,  \* active_boundary: the run the engine's predicates look at, 0 if none
    calls    \* history: the return addresses of the calls that have not returned

vars == <<stack, jit, view, host, active, calls>>

-----------------------------------------------------------------------------
(* Where guest code is: about to execute a function's first instruction,   *)
(* inside it, or back at a return address.                                 *)
Entry(f) == [is |-> "entry", fn |-> f]
Inside(f) == [is |-> "in", fn |-> f]
Back(site) == [is |-> "back", site |-> site]

(* A run (one execute) and a native function in progress.  `by` is how it  *)
(* was reached: intercepted by a run, or dispatched by native code; `done` *)
(* that it called its original in place, which popped its return address.  *)
(* `esp` is history: where the stack stood, the return address on top.     *)
Run(f, back, excluded, esp, parent) ==
    [is |-> "run", fn |-> f, back |-> back, excluded |-> excluded, esp |-> esp, parent |-> parent]
Native(f, back, by, esp) ==
    [is |-> "native", fn |-> f, back |-> back, by |-> by, esp |-> esp, done |-> FALSE]

Running == Last(host).is = "run"
Innermost == Last(host)
Boundary == host[active]

(* intercept, and the same question when a block is translated.            *)
Intercept(at) ==
    \/ at.is = "back" /\ at.site = Boundary.back
    \/ at.is = "entry" /\ at.fn \in Services
    \/ at.is = "entry" /\ at.fn \in Overridden \ {Boundary.excluded}

PushedAt(esp, site) == Append(SubSeq(stack, 1, esp), site)

-----------------------------------------------------------------------------
(* Guest code.                                                             *)

GuestCalls(g) ==
    /\ Running /\ jit.at.is = "in" /\ g \in Calls[jit.at.fn]
    /\ jit.esp < MaxStack /\ Len(host) < MaxHost
    /\ LET site == <<jit.at.fn, g>>
       IN  /\ stack' = PushedAt(jit.esp, site)
           /\ calls' = Append(calls, site)
    /\ jit' = [esp |-> jit.esp + 1, at |-> Entry(g)]
    /\ UNCHANGED <<view, host, active>>

GuestReturns ==
    /\ Running /\ jit.at.is = "in"
    /\ jit' = [esp |-> jit.esp - 1, at |-> Back(stack[jit.esp])]
    /\ calls' = Front(calls)
    /\ UNCHANGED <<stack, view, host, active>>

(* The next block is guest code: nothing stops it.  At a synthetic address *)
(* there is none, and the program ends (JIT execution stopped).            *)
GuestGoesOn ==
    /\ Running /\ jit.at.is # "in" /\ ~Intercept(jit.at)
    /\ IF jit.at.is = "entry" THEN jit' = [jit EXCEPT !.at = Inside(jit.at.fn)]
       ELSE jit.at.site \notin Synthetic /\ jit' = [jit EXCEPT !.at = Inside(jit.at.site[1])]
    /\ UNCHANGED <<stack, view, host, active, calls>>

-----------------------------------------------------------------------------
(* dispatch_intercept: the view takes the JIT's registers, the return      *)
(* address is read from the stack, and the owner of the address is called: *)
(* an override, a COM method or an import.  Services are answered inside   *)
(* the engine (dispatch_inline), overrides after it has unwound.           *)
DispatchViewKept ==
    /\ Running /\ jit.at.is = "entry" /\ Intercept(jit.at)
    /\ host' = Append(host, Native(jit.at.fn, stack[view.esp], "run", view.esp))
    /\ UNCHANGED <<stack, jit, view, active, calls>>
Dispatch ==
    /\ Running /\ jit.at.is = "entry" /\ Intercept(jit.at)
    /\ view' = [esp |-> jit.esp]
    /\ host' = Append(host, Native(jit.at.fn, stack[jit.esp], "run", jit.esp))
    /\ UNCHANGED <<stack, jit, active, calls>>

(* execute: the JIT takes the view's registers, the return address on top  *)
(* of the stack bounds the run, and the engine's predicates look at it.    *)
ExecuteUnder(f, back, excluded, esp, top) ==
    /\ jit' = [esp |-> esp, at |-> Entry(f)]
    /\ host' = Append([host EXCEPT ![Len(host)] = top], Run(f, back, excluded, esp, active))
    /\ active' = Len(host) + 1
ExecuteToCaller(f, back, excluded, esp, top) ==
    ExecuteUnder(f, IF esp > 1 THEN stack[esp - 1] ELSE back, excluded, esp, top)
Execute(f, back, excluded, esp, top) == ExecuteUnder(f, back, excluded, esp, top)

(* lf2_jit_call_original: the override replaced a call whose return        *)
(* address is still on the stack.                                          *)
NativeCallsOriginal ==
    /\ ~Running /\ Innermost.fn \in Overridden /\ ~Innermost.done /\ Len(host) < MaxHost
    /\ Execute(Innermost.fn, stack[view.esp], Innermost.fn, view.esp, [Innermost EXCEPT !.done = TRUE])
    /\ UNCHANGED <<stack, view, calls>>

(* Native code calls f by an address it pushes itself, at any point of its *)
(* own course: before it calls its original in place or after.             *)
NativePushes(f, address) ==
    /\ ~Running /\ <<f, address>> \in NativeCalls[Innermost.fn]
    /\ Len(host) < MaxHost /\ view.esp < MaxStack
    /\ stack' = PushedAt(view.esp, address)
    /\ calls' = Append(calls, address)
    /\ view' = [esp |-> view.esp + 1]

(* lf2_jit_call; guest_call.                                               *)
NativeCallsGuest(f, address) ==
    /\ NativePushes(f, address) /\ f # Innermost.fn
    /\ Execute(f, address, None, view.esp + 1, Innermost)

(* lf2_jit_call_original after a push (call_prefix_super): a fresh call of *)
(* the original, beside the call the override replaced.                    *)
NativeCallsSuper(address) ==
    /\ NativePushes(Innermost.fn, address) /\ Innermost.fn \in Overridden
    /\ Execute(Innermost.fn, address, Innermost.fn, view.esp + 1, Innermost)

(* dispatch of a service by native code: no run is involved.               *)
NativeDispatches(s, address) ==
    /\ NativePushes(s, address)
    /\ host' = Append(host, Native(s, address, "native", view.esp + 1))
    /\ UNCHANGED <<jit, active>>

(* The run has come to its return address: native code has the registers   *)
(* again, and the engine looks at the enclosing run's boundary.            *)
RunEndsKeepingBoundary ==
    /\ Running /\ Intercept(jit.at) /\ jit.at = Back(Innermost.back)
    /\ view' = [esp |-> jit.esp]
    /\ host' = Front(host)
    /\ UNCHANGED <<stack, jit, active, calls>>
RunEnds ==
    /\ Running /\ Intercept(jit.at) /\ jit.at = Back(Innermost.back)
    /\ view' = [esp |-> jit.esp]
    /\ active' = Innermost.parent
    /\ host' = Front(host)
    /\ UNCHANGED <<stack, jit, calls>>

(* A native function is done.  It pops its own return address, unless the  *)
(* original it called has; dispatch_intercept then resumes the run at the  *)
(* address it had read.                                                    *)
NativeReturns ==
    /\ ~Running /\ Innermost.fn # Main
    /\ LET esp == IF Innermost.done THEN view.esp ELSE view.esp - 1
       IN  /\ view' = [esp |-> esp]
           /\ jit' = IF Innermost.by = "run" THEN [esp |-> esp, at |-> Back(Innermost.back)] ELSE jit
    /\ calls' = IF Innermost.done THEN calls ELSE Front(calls)
    /\ host' = Front(host)
    /\ UNCHANGED <<stack, active>>

-----------------------------------------------------------------------------
Init ==
    /\ stack = << >> /\ calls = << >>
    /\ jit = [esp |-> 0, at |-> Inside(None)]
    /\ view = [esp |-> 0]
    /\ host = <<Native(Main, None, "native", 0)>>
    /\ active = 0

Guest == (\E g \in Functions \union Services : GuestCalls(g)) \/ GuestReturns \/ GuestGoesOn
NativeSide == \/ NativeCallsOriginal \/ NativeReturns
              \/ \E f \in Functions, a \in Address : NativeCallsGuest(f, a)
              \/ \E a \in Address : NativeCallsSuper(a)
              \/ \E s \in Services, a \in Address : NativeDispatches(s, a)

Next == Guest \/ Dispatch \/ NativeSide \/ RunEnds

Spec == Init /\ [][Next]_vars

-----------------------------------------------------------------------------
(* Properties.                                                             *)

TypeOK ==
    /\ jit.esp \in 0..MaxStack /\ view.esp \in 0..MaxStack
    /\ Len(host) \in 1..MaxHost + 1 /\ active \in 0..MaxHost
    /\ Len(stack) <= MaxStack

(* Whoever has control -- the JIT or native code -- stands on the stack of *)
(* the calls that have not returned, across every nesting of runs: the two *)
(* copies of the registers are exchanged wherever control changes hands.   *)
StackIsItsCalls ==
    LET esp == IF Running THEN jit.esp ELSE view.esp
    IN  esp = Len(calls) /\ SubSeq(stack, 1, esp) = calls

(* A run ends at the call that began it, not at another visit of the same  *)
(* return address: the boundary is an address, and knows no depth.         *)
RunsEndWhereTheyBegan ==
    Running /\ jit.at = Back(Innermost.back) => jit.esp = Innermost.esp - 1

(* While guest code runs, the engine's predicates look at the innermost    *)
(* run, so an overridden function runs as guest code only inside the call  *)
(* of its original.                                                        *)
OriginalsAreScoped ==
    Running =>
        /\ active = Len(host)
        /\ jit.at.is = "in" /\ jit.at.fn \in Overridden => Innermost.excluded = jit.at.fn
=============================================================================
