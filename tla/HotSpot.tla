------------------------------- MODULE HotSpot -------------------------------
(***************************************************************************)
(* Procedures start as abstract code and are compiled once they were called *)
(* often enough (src/alice/vm-seam/alice/HotSpotConcreteCode.cc), while    *)
(* other activations of them are still on the stack.  The same call runs   *)
(* twice: in the machine "abstract", where nothing is ever compiled        *)
(* (AliceConcreteCode), and in the machine "hotspot".  The machines share  *)
(* nothing but the transients, which are bound from outside at any time.   *)
(* The part of the scheduler they need is here (src/seam/generic:          *)
(* Scheduler.cc, Primitive.cc, PushCallWorker.cc).                         *)
(***************************************************************************)
EXTENDS ByteCodeInterpreter

CONSTANTS Entries,     \* the calls that are made: records with a procedure
                       \* (clo), its arguments (args), what the transients are
                       \* bound to at first (fut) and how often each of its
                       \* procedures is still to be interpreted (left)
          FutValues    \* what each transient may be bound to

ABSTRACT_CODE_COUNTER_INIT == 5

ASSUME MachinesAssumption == Machines = {"abstract", "hotspot"}
ASSUME CountersAssumption ==
    \A e \in Entries :
       /\ DOMAIN e.left \subseteq DOMAIN Functions
       /\ \A f \in DOMAIN e.left : e.left[f] \in 0..ABSTRACT_CODE_COUNTER_INIT

vars == <<m, fut>>

Never == -1                           \* the counter of code that is not a HotSpot

Machine(k, e) ==
    [stack |-> <<>>, handlers |-> <<>>, args |-> e.args, mode |-> "call",
     data |-> e.clo, trace |-> <<>>, cons |-> 0, code |-> <<>>,
     left |-> [f \in DOMAIN e.left |-> IF k = "hotspot" THEN e.left[f] ELSE Never]]

Init ==
    \E e \in Entries : fut = e.fut /\ m = [k \in Machines |-> Machine(k, e)]

-----------------------------------------------------------------------------
PushFrame(t, fr) == [t EXCEPT !.stack = Append(@, fr), !.mode = "run"]

\* Scheduler::PushCall waits for a closure that is a transient; then
\* HotSpotInterpreter::PushCall, or that of the other interpreters.
Compiled(t, f) ==
    IF f \in DOMAIN t.code THEN t ELSE [t EXCEPT !.code = (f :> Compile(f)) @@ @]
PushByte(t, clo) == PushFrame(t, ByteCodeFrame(t, clo))
PushClosure(t, clo) ==
    CASE t.left[clo[2]] = 0 -> PushByte(Compiled(t, clo[2]), clo)
      [] t.left[clo[2]] = Never -> PushFrame(t, AbstractCodeFrame(clo))
      [] OTHER -> PushFrame([t EXCEPT !.left[clo[2]] = @ - 1], AbstractCodeFrame(clo))

Call(k) ==
    /\ m[k].mode = "call"
    /\ \E w \in {Deref(m[k].data)} :
          \/ Kind(w) = "clo" /\ Become(k, PushClosure(m[k], w))
          \/ Kind(w) = "ext" /\ Become(k, PushFrame(m[k], PrimFrame(w[2])))
          \/ Kind(w) = "failed" /\ Become(k, Raise(m[k], w[2]))

\* PrimitiveInterpreter::Run, and the primitive: it may need its first
\* argument, and it fails or answers its arguments.
Answer(out, args) == CASE out = 0 -> <<>>
                       [] out = 1 -> Constructed(args)
                       [] OTHER -> args
RunPrimitive(k) ==
    /\ Running(k, "prim")
    /\ \E p \in {Externals[Top(k).ext]} :
          \/ CCCRequest(p.in, m[k].args) # <<>> /\ Request(k, m[k].args[1])
          \/ /\ CCCRequest(p.in, m[k].args) = <<>>
             /\ \E args \in {Converted(p.in, m[k].args)} :
                \E t \in {[m[k] EXCEPT !.args = args]},
                   called \in {[m[k] EXCEPT !.args = args,
                                            !.trace = Append(@, <<Top(k).ext, args>>)]} :
                  \/ /\ p.strict /\ IsTransient(args[1])
                     /\ Become(k, [t EXCEPT !.mode = "request", !.data = args[1]])
                  \/ /\ ~(p.strict /\ IsTransient(args[1]))
                     /\ Become(k, IF p.raises THEN Raise(called, <<"str", 9>>)
                                  ELSE [PopFrame(called) EXCEPT !.args = Answer(p.out, args)])

\* The transient that was requested is bound or failed.
Resume(k) ==
    /\ m[k].mode = "request"
    /\ \E w \in {Deref(m[k].data)} :
          \/ Kind(w) = "failed" /\ Become(k, Raise(m[k], w[2]))
          \/ Kind(w) \notin {"failed", "fut"} /\ Become(k, [m[k] EXCEPT !.mode = "run"])

\* Scheduler::DoRaise: handlers that already run are left, the next one is
\* activated and its frame becomes the top of the stack.
Handlers(t) == {i \in DOMAIN t.handlers : t.handlers[i].trying}
Unwound(t, i) ==
    [t EXCEPT !.handlers = Append(SubSeq(@, 1, i - 1), [@[i] EXCEPT !.trying = FALSE]),
              !.stack = SubSeq(@, 1, t.handlers[i].depth),
              !.args = <<Package(t.data), t.data>>, !.mode = "run"]
Handled(t, h) ==
    IF t.stack[Len(t.stack)].worker = "abstract"
    THEN WithTop(t, AbstractHandle(t.stack[Len(t.stack)], h))
    ELSE WithTop(t, ByteHandle(t.stack[Len(t.stack)], h, Package(t.data)))

DoRaise(k) ==
    /\ m[k].mode = "raise"
    /\ \/ /\ Handlers(m[k]) = {}
          /\ Become(k, [m[k] EXCEPT !.mode = "uncaught", !.stack = <<>>, !.handlers = <<>>])
       \/ /\ Handlers(m[k]) # {}
          /\ \E i \in {Max(Handlers(m[k]))} :
                Become(k, Handled(Unwound(m[k], i), m[k].handlers[i]))

\* The thread has no more frames.
End(k) ==
    /\ m[k].mode = "run" /\ m[k].stack = <<>>
    /\ Become(k, [m[k] EXCEPT !.mode = "return"])

StepOf(k) ==
    /\ \/ RunAbstract(k) \/ RunByte(k) \/ Call(k) \/ RunPrimitive(k)
       \/ Resume(k) \/ DoRaise(k) \/ End(k)
    /\ UNCHANGED fut

\* Another thread binds or fails a transient.
Bind1 ==
    /\ \E f \in Futures : \E w \in FutValues[f] :
          fut[f] = Unbound /\ fut' = [fut EXCEPT ![f] = w]
    /\ UNCHANGED m

Terminating == (\A k \in Machines : Ended(k)) /\ UNCHANGED vars

Next == (\E k \in Machines : StepOf(k)) \/ Bind1 \/ Terminating

\* Weak fairness, with ENABLED written out: a thread that does not wait for a
\* transient is run (module Scheduler).  A step of a machine is one that changes
\* it.  Nobody is obliged to bind the transients.
CanStep(k) == \/ m[k].mode \in {"run", "raise"}
              \/ m[k].mode \in {"call", "request"} /\ Kind(Deref(m[k].data)) # "fut"
Fairness == \A k \in Machines : []<>~CanStep(k) \/ []<><<m'[k] # m[k]>>_vars

Spec == Init /\ [][Next]_vars /\ Fairness

-----------------------------------------------------------------------------
\* Compiled code does what the abstract code says, whenever in a run it is
\* compiled and whenever the transients are bound: the same primitives are
\* called with the same arguments in the same order, and both executions end
\* in the same way with the same results or the same exception ("It traverses
\* the abstract code graph and emits a sematically equivalent byte code
\* sequence", ByteCodeJitter.hh).
SameOutcome ==
    \A k, j \in Machines :
       /\ IsPrefix(m[k].trace, m[j].trace) \/ IsPrefix(m[j].trace, m[k].trace)
       /\ Ended(k) /\ Ended(j) =>
             /\ m[k].mode = m[j].mode /\ m[k].trace = m[j].trace
             /\ IF m[k].mode = "return" THEN m[k].args = m[j].args
                                        ELSE m[k].data = m[j].data

\* The top frame executes byte code; the abstract code it was compiled from.
InByteCode(k) == m[k].stack # <<>> /\ Top(k).worker = "byte"
CodeOf(k) == Functions[Top(k).clo[2]]

\* Compiled code waits in a contest for a constructor that the value cannot
\* have, as its branch is for values of the other arity.
WaitsForOtherArity(k) ==
    /\ m[k].mode = "request"
    /\ InByteCode(k) /\ Instr(k).op = "contest" /\ CodeOf(k).body.op = "ConTest"
    /\ LET w == Deref(Top(k).regs[Instr(k).src])
       IN  \E b \in Range(CodeOf(k).body.tests) :
              /\ b.binds # (Kind(w) = "conval")
              /\ LookupSubst(Top(k).clo[2], b.key) = <<"Immediate", m[k].data>>

\* Compiled code goes on with the next round of a procedure that has several
\* arguments and uses none of them.
UsesNoArgument(k) ==
    /\ m[k].mode = "run"
    /\ InByteCode(k) /\ Len(CodeOf(k).args) > 1 /\ AllIdDefsWildcards(CodeOf(k).args)

\* When one execution has ended, so does the other, even if no further transient
\* is bound: compiled code waits only for transients for which the abstract code
\* waits, and the other way round, but for two cases.  InstrConTest tests the
\* constructors of all branches, where the abstract code takes those of the
\* arity of the value, so that compiled code may wait for ever for one of the
\* others; and CompileInlineCCC drops a tuple that no argument is taken from,
\* so that it goes on where the abstract code fails with the future it awaits.
BothEnd ==
    /\ Ended("hotspot") ~> Ended("abstract")
    /\ Ended("abstract") ~> \/ Ended("hotspot")
                            \/ []WaitsForOtherArity("hotspot")
                            \/ []UsesNoArgument("hotspot")
=============================================================================
