-------------------------------- MODULE Lock --------------------------------
(***************************************************************************)
(* The lock of the Alice library (src/alice/lib/fundamental/Lock.aml).     *)
(*                                                                         *)
(*   fun sync (signal, thread) f x =                                       *)
(*     if !thread = self then f x else                                     *)
(*       Future.await (Ref.exchange (signal, Promise.future p));           *)
(*       thread := self;                                                   *)
(*       f x finally (thread := NONE; Promise.fulfill (p, ()))             *)
(*                                                                         *)
(* Every call brings a promise p of its own, waits for the future of the   *)
(* promise that the call before it left in signal, and fulfills p when f   *)
(* has returned or raised.  A thread may be preempted between any two of   *)
(* these operations, and another one may raise an exception in it          *)
(* (Thread.raiseIn, Thread.terminate) while it waits.  Promises are        *)
(* numbered in the order of their exchange, 0 is the unit that the new     *)
(* lock holds.                                                             *)
(***************************************************************************)
EXTENDS Naturals

CONSTANTS Thread, NoThread,
          MaxSync,    \* bound: calls that take part in the exchange
          MaxDepth    \* bound: nested calls of a thread

ASSUME LockAssumption == /\ NoThread \notin Thread
                         /\ MaxSync \in Nat /\ MaxDepth \in Nat

VARIABLES
  signal,     \* the promise whose future is in the first reference cell
  thread,     \* the second reference cell
  fulfilled,  \* the promises that are fulfilled
  pc,         \* what each thread does next
  mine,       \* its promise
  depth,      \* how many calls of f it is in
  abandoned   \* observer: the promises of interrupted calls

vars == <<signal, thread, fulfilled, pc, mine, depth, abandoned>>

Init == /\ signal = 0
        /\ thread = NoThread
        /\ fulfilled = {0}
        /\ pc = [t \in Thread |-> "outside"]
        /\ mine = [t \in Thread |-> 0]
        /\ depth = [t \in Thread |-> 0]
        /\ abandoned = {}

Goes(t, a, b) == pc[t] = a /\ pc' = [pc EXCEPT ![t] = b]

(* sync is called, from outside or from within f, and finds !thread = self *)
EnterHeld(t) ==
  /\ pc[t] \in {"outside", "inside"}
  /\ depth[t] < MaxDepth
  /\ thread = t
  /\ depth' = [depth EXCEPT ![t] = @ + 1]
  /\ pc' = [pc EXCEPT ![t] = "inside"]
  /\ UNCHANGED <<signal, thread, fulfilled, mine, abandoned>>

Enter(t) ==
  /\ pc[t] \in {"outside", "inside"}
  /\ depth[t] < MaxDepth
  /\ thread # t
  /\ pc' = [pc EXCEPT ![t] = "exchange"]
  /\ UNCHANGED <<signal, thread, fulfilled, mine, depth, abandoned>>

(* Promise.promise and Ref.exchange; the promise before mine is awaited *)
Exchange(t) ==
  /\ signal < MaxSync
  /\ Goes(t, "exchange", "await")
  /\ signal' = signal + 1
  /\ mine' = [mine EXCEPT ![t] = signal + 1]
  /\ UNCHANGED <<thread, fulfilled, depth, abandoned>>

(* Mutant of Await: the future is not awaited *)
AwaitNot(t) ==
  /\ Goes(t, "await", "acquire")
  /\ UNCHANGED <<signal, thread, fulfilled, mine, depth, abandoned>>

Await(t) ==
  /\ mine[t] - 1 \in fulfilled
  /\ Goes(t, "await", "acquire")
  /\ UNCHANGED <<signal, thread, fulfilled, mine, depth, abandoned>>

(* Future.await raises instead: no handler of sync is active yet *)
Interrupt(t) ==
  /\ Goes(t, "await", "outside")
  /\ abandoned' = abandoned \cup {mine[t]}
  /\ UNCHANGED <<signal, thread, fulfilled, mine, depth>>

(* thread := self, and f is called *)
Acquire(t) ==
  /\ Goes(t, "acquire", "inside")
  /\ thread' = t
  /\ depth' = [depth EXCEPT ![t] = @ + 1]
  /\ UNCHANGED <<signal, fulfilled, mine, abandoned>>

(* A nested call of f returns or raises *)
LeaveNested(t) ==
  /\ pc[t] = "inside" /\ depth[t] > 1
  /\ depth' = [depth EXCEPT ![t] = @ - 1]
  /\ UNCHANGED <<signal, thread, fulfilled, pc, mine, abandoned>>

(* Mutants of Leave: the owner stays; an exception skips the finally clause *)
LeaveOwned(t) ==
  /\ depth[t] = 1
  /\ Goes(t, "inside", "fulfill")
  /\ depth' = [depth EXCEPT ![t] = 0]
  /\ UNCHANGED <<signal, thread, fulfilled, mine, abandoned>>

LeaveByException(t) ==
  /\ depth[t] = 1
  /\ Goes(t, "inside", "outside")
  /\ depth' = [depth EXCEPT ![t] = 0]
  /\ thread' = NoThread
  /\ UNCHANGED <<signal, fulfilled, mine, abandoned>>

(* The outermost one does: thread := NONE ... *)
Leave(t) ==
  /\ depth[t] = 1
  /\ Goes(t, "inside", "fulfill")
  /\ depth' = [depth EXCEPT ![t] = 0]
  /\ thread' = NoThread
  /\ UNCHANGED <<signal, fulfilled, mine, abandoned>>

(* ... and Promise.fulfill (p, ()) *)
Fulfill(t) ==
  /\ Goes(t, "fulfill", "outside")
  /\ fulfilled' = fulfilled \cup {mine[t]}
  /\ UNCHANGED <<signal, thread, mine, depth, abandoned>>

Next == \E t \in Thread :
          \/ EnterHeld(t) \/ Enter(t) \/ Exchange(t) \/ Await(t) \/ Interrupt(t)
          \/ Acquire(t) \/ LeaveNested(t) \/ Leave(t) \/ Fulfill(t)

Spec == Init /\ [][Next]_vars

(***************************************************************************)
(* The scheduler runs every thread that can run (NoStarvation of module    *)
(* Scheduler), and f returns: calls nested in it, of which it may make     *)
(* many, enable and disable its return, hence strong fairness of Leave.    *)
(***************************************************************************)
Fairness == \A t \in Thread :
              /\ WF_vars(Await(t) \/ Acquire(t) \/ LeaveNested(t) \/ Fulfill(t))
              /\ SF_vars(Leave(t))

FairSpec == Spec /\ Fairness

-----------------------------------------------------------------------------
(* The type invariant. *)
TypeOK == /\ signal \in Nat
          /\ thread \in Thread \cup {NoThread}
          /\ fulfilled \in SUBSET Nat
          /\ pc \in [Thread -> {"outside", "exchange", "await", "acquire", "inside", "fulfill"}]
          /\ mine \in [Thread -> Nat]
          /\ depth \in [Thread -> Nat]
          /\ abandoned \in SUBSET Nat

Holds(t) == pc[t] \in {"acquire", "inside", "fulfill"}

(***************************************************************************)
(* "Only one function per lock can be evaluated at one time": at most one  *)
(* thread is between the end of its await and its fulfill, however the     *)
(* calls interleave and whoever is interrupted.                            *)
(***************************************************************************)
MutualExclusion == \A t, u \in Thread : Holds(t) /\ Holds(u) => t = u

(***************************************************************************)
(* The cell thread names the thread that evaluates f, and no other: a      *)
(* nested call never waits for the promise of its own thread, and nobody   *)
(* enters on the strength of a stale owner.                                *)
(***************************************************************************)
OwnerExact == /\ \A t \in Thread : thread = t <=> pc[t] = "inside"
              /\ \A t \in Thread : depth[t] > 0 <=> pc[t] = "inside"

(***************************************************************************)
(* A waiting thread gets the lock, unless it or a call before it was       *)
(* interrupted: nobody else can hold up the queue of promises for ever.    *)
(***************************************************************************)
WaiterServed ==
  \A t \in Thread :
     pc[t] = "await" ~> (pc[t] # "await" \/ \E p \in abandoned : p < mine[t])

(***************************************************************************)
(* The inductive invariant of MutualExclusion: promises are fulfilled in   *)
(* the order of the exchange, each by the thread it belongs to.            *)
(***************************************************************************)
Waiting(t) == pc[t] \in {"await", "acquire", "inside", "fulfill"}

LockInv ==
  /\ TypeOK
  /\ \A p \in fulfilled : p <= signal /\ \A q \in 0..p : q \in fulfilled
  /\ \A t \in Thread : Waiting(t) =>
       mine[t] \in 1..signal /\ mine[t] \notin fulfilled
  /\ \A t, u \in Thread : Waiting(t) /\ Waiting(u) /\ mine[t] = mine[u] => t = u
  /\ \A t \in Thread : Holds(t) => mine[t] - 1 \in fulfilled
  /\ OwnerExact
=============================================================================
