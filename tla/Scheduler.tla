------------------------------ MODULE Scheduler ------------------------------
(***************************************************************************)
(* The thread scheduler of SEAM (src/seam/generic/Scheduler.cc/.hh,        *)
(* Thread.hh, ThreadQueue.hh, Transients.hh, BindFutureWorker.cc) with the *)
(* thread, future, hole and promise primitives of Alice                    *)
(* (src/alice/vm-seam/alice/primitives).                                   *)
(*                                                                         *)
(* One operating-system thread runs Scheduler::Run.  It takes an Alice     *)
(* thread from the run queue and runs workers for it until one of them     *)
(* returns PREEMPT, SUSPEND, TERMINATE, EXIT or a REQUEST of an unresolved *)
(* transient.  The Alice program is arbitrary: the current thread may call *)
(* any primitive on any word.  Between two threads the runtime may bind a  *)
(* future of its own (an alarm, a readable descriptor) or start the thread *)
(* of a signal handler.                                                    *)
(***************************************************************************)
EXTENDS Transients

CONSTANTS Thread, NoThread,
          CyclicFulfill  \* may a program fulfill a promise with its own future?

ASSUME ThreadAssumption == /\ NoThread \notin Thread
                           /\ CyclicFulfill \in BOOLEAN

VARIABLES
  state,      \* Thread::STATE_POS ("FREE": not allocated)
  suspended,  \* Thread::IS_SUSPENDED_POS
  blockedOn,  \* Thread::FUTURE_POS
  task,       \* what the top frames of the thread's task stack do next
  binder,     \* the future of its BindFutureFrame, NoWord without one
  waiters,    \* the wait queue of each future
  queue,      \* Scheduler::wThreadQueue
  current,    \* Scheduler::currentThread
  binding,    \* a ScheduleWaitingThreads loop and the Become that follows
  promise,    \* Promise::FLAG_POS, per future of a promise
  external,   \* futures that the runtime binds: alarms and I/O
  exited      \* Scheduler::Run has returned

threadVars == <<state, suspended, blockedOn, task, binder>>
transVars  == <<label, arg, waiters, promise, external>>
vars == <<threadVars, transVars, queue, current, binding, exited>>

(***************************************************************************)
(* The top of a task stack.  "run": code of the program.  "raise": an      *)
(* exception is being raised, by a worker or by the frame that raiseIn     *)
(* pushed.  "end": only the empty task is left.  The others are primitives *)
(* whose frame the REQUEST macro pushed back, to be executed again.        *)
(***************************************************************************)
Task == [op : {"run", "raise", "end", "await", "raiseIn", "holeFail", "promiseFail"},
         obj : Word \cup Thread \cup {NoWord}, word : Word \cup {NoWord}]

Call(op, obj, w) == [op |-> op, obj |-> obj, word |-> w]
RunTask   == Call("run", NoWord, NoWord)
RaiseTask == Call("raise", NoWord, NoWord)
EndTask   == Call("end", NoWord, NoWord)

NoBinding == [wake |-> NoWord, targets |-> {}, label |-> "FREE", arg |-> NoWord]

Queued(s) == {s[i] : i \in 1..Len(s)}

(* Queue::Remove: the first occurrence of e goes, the others keep their order *)
Remove(s, e) ==
  IF e \in Queued(s)
  THEN LET i == CHOOSE i \in 1..Len(s) : s[i] = e /\ \A j \in 1..(i-1) : s[j] # e
       IN  [j \in 1..(Len(s) - 1) |-> IF j < i THEN s[j] ELSE s[j + 1]]
  ELSE s

Init ==
  /\ label = [x \in Transient |-> "FREE"]
  /\ arg = [x \in Transient |-> NoWord]
  /\ waiters = [x \in Transient |-> <<>>]
  /\ promise = [x \in Transient |-> "none"]
  /\ external = {}
  /\ \E main \in Thread :
       /\ state = [t \in Thread |-> IF t = main THEN "RUNNABLE" ELSE "FREE"]
       /\ queue = <<main>>
  /\ suspended = [t \in Thread |-> FALSE]
  /\ blockedOn = [t \in Thread |-> NoWord]
  /\ task = [t \in Thread |-> RunTask]
  /\ binder = [t \in Thread |-> NoWord]
  /\ current = NoThread
  /\ binding = NoBinding
  /\ exited = FALSE

-----------------------------------------------------------------------------
(* Thread t executes a worker, whose stack top is k. *)
Executes(t, k) == /\ ~exited
                  /\ binding = NoBinding
                  /\ current = t
                  /\ t \in Thread
                  /\ task[t] = k

(* A primitive is called by the program, or executed again after a REQUEST. *)
Performs(t, c) == Executes(t, RunTask) \/ Executes(t, c)

Idle == ~exited /\ binding = NoBinding /\ current = NoThread

(* The stack top of t becomes k. *)
Goes(t, k) == task' = [task EXCEPT ![t] = k]

(* t raises in the primitive it executes, nothing else changes. *)
Raises(t) ==
  /\ Goes(t, RaiseTask)
  /\ UNCHANGED <<state, suspended, blockedOn, binder, transVars, queue, current,
                 binding, exited>>

(* The primitive returns and has changed nothing. *)
Returns(t) ==
  /\ Goes(t, RunTask)
  /\ UNCHANGED <<state, suspended, blockedOn, binder, transVars, queue, current,
                 binding, exited>>

(* Scheduler::NewThread: f is the future of its BindFutureFrame, if any. *)
NewThread(n, f) ==
  /\ state[n] = "FREE"
  /\ binder' = [binder EXCEPT ![n] = f]
  /\ queue' = Append(queue, n)

(***************************************************************************)
(* Worker::REQUEST of the transient that w leads to; c is executed again   *)
(* when t is woken up.                                                     *)
(***************************************************************************)
RequestRaises(t, x) == label[x] \in {"HOLE", "CANCELLED"} /\ Raises(t)

RequestBlocks(t, x, c) ==
  /\ label[x] = "FUTURE"
  /\ state' = [state EXCEPT ![t] = "BLOCKED"]
  /\ blockedOn' = [blockedOn EXCEPT ![t] = x]
  /\ waiters' = [waiters EXCEPT ![x] = Append(@, t)]
  /\ Goes(t, c)
  /\ current' = NoThread
  /\ UNCHANGED <<suspended, binder, label, arg, promise, external, queue, binding, exited>>

(* Mutant of RequestByneed: the new thread gets no BindFutureFrame *)
RequestByneedNoFrame(t, x, c) ==
  /\ label[x] = "BYNEED"
  /\ \E n \in Thread :
       /\ NewThread(n, NoWord)
       /\ state' = [state EXCEPT ![n] = "RUNNABLE", ![t] = "BLOCKED"]
  /\ label' = [label EXCEPT ![x] = "FUTURE"]
  /\ waiters' = [waiters EXCEPT ![x] = <<t>>]
  /\ blockedOn' = [blockedOn EXCEPT ![t] = x]
  /\ Goes(t, c)
  /\ current' = NoThread
  /\ UNCHANGED <<suspended, arg, promise, external, binding, exited>>

RequestByneed(t, x, c) ==
  /\ label[x] = "BYNEED"
  /\ \E n \in Thread :
       /\ NewThread(n, x)
       /\ state' = [state EXCEPT ![n] = "RUNNABLE", ![t] = "BLOCKED"]
  /\ label' = [label EXCEPT ![x] = "FUTURE"]
  /\ waiters' = [waiters EXCEPT ![x] = <<t>>]
  /\ blockedOn' = [blockedOn EXCEPT ![t] = x]
  /\ Goes(t, c)
  /\ current' = NoThread
  /\ UNCHANGED <<suspended, arg, promise, external, binding, exited>>

Request(t, w, c) ==
  LET x == Deref(w)
  IN  /\ x \in Transient
      /\ \/ RequestRaises(t, x)
         \/ RequestBlocks(t, x, c)
         \/ RequestByneed(t, x, c)

(***************************************************************************)
(* Starts to replace the transients X by word a (label "REF") or by a      *)
(* failed future ("CANCELLED"); f is the future whose waiters are woken    *)
(* before, NoWord if there is none.                                        *)
(***************************************************************************)
Bind(f, X, l, a) == binding' = [wake |-> f, targets |-> X, label |-> l, arg |-> a]

(* Mutants of WakeupThread: it forgets to look at IS_SUSPENDED, to enqueue *)
WakeupSuspended(u) ==
  /\ state' = [state EXCEPT ![u] = "RUNNABLE"]
  /\ blockedOn' = [blockedOn EXCEPT ![u] = NoWord]
  /\ queue' = Append(queue, u)

WakeupLost(u) ==
  /\ state' = [state EXCEPT ![u] = "RUNNABLE"]
  /\ blockedOn' = [blockedOn EXCEPT ![u] = NoWord]
  /\ UNCHANGED queue

(* Scheduler::WakeupThread *)
WakeupThread(u) ==
  /\ state' = [state EXCEPT ![u] = "RUNNABLE"]
  /\ blockedOn' = [blockedOn EXCEPT ![u] = NoWord]
  /\ queue' = IF suspended[u] THEN queue ELSE Append(queue, u)

(* One iteration of Future::ScheduleWaitingThreads *)
ScheduleWaitingThread ==
  LET x == binding.wake
  IN  /\ x \in Transient
      /\ waiters[x] # <<>>
      /\ waiters' = [waiters EXCEPT ![x] = Tail(@)]
      /\ WakeupThread(Head(waiters[x]))
      /\ UNCHANGED <<suspended, task, binder, label, arg, promise, external,
                     current, binding, exited>>

(* The Become that follows the loop *)
FinishBind ==
  /\ binding # NoBinding
  /\ binding.wake \in Transient => waiters[binding.wake] = <<>>
  /\ Become(binding.targets, binding.label, binding.arg)
  /\ binding' = NoBinding
  /\ UNCHANGED <<threadVars, waiters, promise, external, queue, current, exited>>

-----------------------------------------------------------------------------
(* The loop of Scheduler::Run *)

(* ThreadQueue::Dequeue and SwitchToThread *)
Dispatch ==
  /\ Idle
  /\ queue # <<>>
  /\ current' = Head(queue)
  /\ queue' = Tail(queue)
  /\ UNCHANGED <<threadVars, transVars, binding, exited>>

(* Mutant of Preempt: the thread goes to the front of the queue *)
PreemptToFront(t) ==
  /\ Executes(t, RunTask)
  /\ queue' = <<t>> \o queue
  /\ current' = NoThread
  /\ UNCHANGED <<threadVars, transVars, binding, exited>>

(* Worker::PREEMPT: Thread.yield, or a call while a status bit is set *)
Preempt(t) ==
  /\ Executes(t, RunTask)
  /\ queue' = Append(queue, t)
  /\ current' = NoThread
  /\ UNCHANGED <<threadVars, transVars, binding, exited>>

(* The empty task is all that is left: Worker::TERMINATE *)
Terminate(t) ==
  /\ Executes(t, EndTask)
  /\ state' = [state EXCEPT ![t] = "TERMINATED"]
  /\ current' = NoThread
  /\ UNCHANGED <<suspended, blockedOn, task, binder, transVars, queue, binding, exited>>

(* The program's code returns w: BindFutureWorker::Run, if t has such a frame *)
Return(t, w) ==
  /\ Executes(t, RunTask)
  /\ Goes(t, EndTask)
  /\ IF binder[t] = NoWord
     THEN UNCHANGED binding
     ELSE IF Deref(w) = binder[t]
          THEN Bind(binder[t], {binder[t]}, "CANCELLED", NoWord)
          ELSE /\ ~IsRef(Deref(w))
               /\ Bind(binder[t], {binder[t]}, "REF", Deref(w))
  /\ binder' = [binder EXCEPT ![t] = NoWord]
  /\ UNCHANGED <<state, suspended, blockedOn, transVars, queue, current, exited>>

(* Worker::RAISE, DoRaise: a handler of the program takes the exception *)
Handle(t) == Executes(t, RaiseTask) /\ Returns(t)

(* No handler in the program: BindFutureWorker::Handle fails the future *)
HandleByBinder(t) ==
  /\ Executes(t, RaiseTask)
  /\ binder[t] # NoWord
  /\ Goes(t, EndTask)
  /\ binder' = [binder EXCEPT ![t] = NoWord]
  /\ Bind(binder[t], {binder[t]}, "CANCELLED", NoWord)
  /\ UNCHANGED <<state, suspended, blockedOn, transVars, queue, current, exited>>

(* Nor a BindFutureFrame: EmptyTaskWorker::Handle, Worker::EXIT *)
HandleByEmptyTask(t) ==
  /\ Executes(t, RaiseTask)
  /\ binder[t] = NoWord
  /\ exited' = TRUE
  /\ UNCHANGED <<threadVars, transVars, queue, current, binding>>

(* An exception raised by the program itself *)
Raise(t) == Executes(t, RunTask) /\ Raises(t)

-----------------------------------------------------------------------------
(* Future primitives *)

(* Future.await, and every access of the program to a transient *)
Await(t, w) ==
  LET c == Call("await", NoWord, w)
  IN  /\ Performs(t, c)
      /\ \/ Request(t, w, c)
         \/ ~IsTransient(w) /\ Returns(t)

Byneed(t, x) ==
  /\ Executes(t, RunTask)
  /\ Alloc(x, "BYNEED", NoWord)
  /\ UNCHANGED <<threadVars, waiters, promise, external, queue, current, binding, exited>>

Concur(t, x, n) ==
  /\ Executes(t, RunTask)
  /\ Alloc(x, "FUTURE", NoWord)
  /\ NewThread(n, x)
  /\ state' = [state EXCEPT ![n] = "RUNNABLE"]
  /\ UNCHANGED <<suspended, blockedOn, task, waiters, promise, external, current,
                 binding, exited>>

(* Future.alarm', IOHandler::WaitReadable and WaitWritable *)
NewExternal(t, x) ==
  /\ Executes(t, RunTask)
  /\ Alloc(x, "FUTURE", NoWord)
  /\ external' = external \cup {x}
  /\ UNCHANGED <<threadVars, waiters, promise, queue, current, binding, exited>>

(* SignalHandler::CheckAlarms, IOHandler's Set::Schedule *)
BindExternal(x, v) ==
  /\ Idle
  /\ x \in external
  /\ external' = external \ {x}
  /\ Bind(x, {x}, "REF", v)
  /\ UNCHANGED <<threadVars, label, arg, waiters, promise, queue, current, exited>>

(* SignalHandler::HandlePendingSignals: a thread that applies a handler *)
SignalThread(n) ==
  /\ Idle
  /\ NewThread(n, NoWord)
  /\ state' = [state EXCEPT ![n] = "RUNNABLE"]
  /\ UNCHANGED <<suspended, blockedOn, task, transVars, current, binding, exited>>

-----------------------------------------------------------------------------
(* Hole primitives *)

HoleHole(t, x) ==
  /\ Executes(t, RunTask)
  /\ Alloc(x, "HOLE", NoWord)
  /\ UNCHANGED <<threadVars, waiters, promise, external, queue, current, binding, exited>>

IsHole(w) == Deref(w) \in Transient /\ label[Deref(w)] = "HOLE"

(* Hole.future of a hole that has no future yet *)
HoleFuture(t, w, x) ==
  /\ Executes(t, RunTask)
  /\ IsHole(w)
  /\ arg[Deref(w)] = NoWord
  /\ label[x] = "FREE"
  /\ label' = [label EXCEPT ![x] = "FUTURE"]
  /\ arg' = [arg EXCEPT ![Deref(w)] = x]
  /\ UNCHANGED <<threadVars, waiters, promise, external, queue, current, binding, exited>>

(* Mutant of HoleTargets: the future of a hole is not bound with it *)
HoleAlone(h) == {h}

(* The hole and, if it was created, its associated future *)
HoleTargets(h) == {h} \cup ({arg[h]} \cap Transient)

(* Mutant of Fill: a hole may be filled with itself *)
FillUnchecked(h, a) ==
  /\ ~IsRef(a)
  /\ Bind(arg[h], HoleTargets(h), "REF", a)
  /\ UNCHANGED <<threadVars, transVars, queue, current, exited>>

(* Hole::Fill that finds no cycle *)
Fill(h, a) ==
  /\ a \notin HoleTargets(h)
  /\ ~IsRef(a)
  /\ Bind(arg[h], HoleTargets(h), "REF", a)
  /\ UNCHANGED <<threadVars, transVars, queue, current, exited>>

HoleFill(t, w, v) ==
  /\ Executes(t, RunTask)
  /\ \/ ~IsHole(w) /\ Raises(t)
     \/ IsHole(w) /\ Deref(v) \in HoleTargets(Deref(w)) /\ Raises(t)
     \/ IsHole(w) /\ Fill(Deref(w), Deref(v))

(* Hole::Fail *)
Fail(t, h) ==
  /\ Goes(t, RunTask)
  /\ Bind(arg[h], HoleTargets(h), "CANCELLED", NoWord)
  /\ UNCHANGED <<state, suspended, blockedOn, binder, transVars, queue, current, exited>>

HoleFail(t, w, v) ==
  LET c == Call("holeFail", w, v)
  IN  /\ Performs(t, c)
      /\ \/ ~IsHole(w) /\ Raises(t)
         \/ IsHole(w) /\ Request(t, v, c)
         \/ IsHole(w) /\ ~IsTransient(v) /\ Fail(t, Deref(w))

-----------------------------------------------------------------------------
(* Promise primitives; a promise is named by its future *)

PromisePromise(t, x) ==
  /\ Executes(t, RunTask)
  /\ Alloc(x, "FUTURE", NoWord)
  /\ promise' = [promise EXCEPT ![x] = "open"]
  /\ UNCHANGED <<threadVars, waiters, external, queue, current, binding, exited>>

(* Promise::Fulfill and Promise::Fail of a promise that is not fulfilled *)
Settle(t, p, l, a) ==
  /\ promise[p] = "open"
  /\ promise' = [promise EXCEPT ![p] = "done"]
  /\ Goes(t, RunTask)
  /\ Bind(p, {p}, l, a)
  /\ UNCHANGED <<state, suspended, blockedOn, binder, label, arg, waiters, external,
                 queue, current, exited>>

PromiseFulfill(t, p, v) ==
  /\ Executes(t, RunTask)
  /\ \/ promise[p] = "done" /\ Raises(t)
     \/ /\ ~IsRef(Deref(v))
        /\ Deref(v) = p => CyclicFulfill
        /\ Settle(t, p, "REF", Stored(p, v))

PromiseFail(t, p, v) ==
  LET c == Call("promiseFail", p, v)
  IN  /\ promise[p] # "none"
      /\ Performs(t, c)
      /\ \/ Request(t, v, c)
         \/ ~IsTransient(v) /\ promise[p] = "done" /\ Raises(t)
         \/ ~IsTransient(v) /\ Settle(t, p, "CANCELLED", NoWord)

-----------------------------------------------------------------------------
(* Thread primitives *)

(* Thread.suspend of the calling thread: Worker::SUSPEND *)
SuspendSelf(t) ==
  /\ Executes(t, RunTask)
  /\ suspended' = [suspended EXCEPT ![t] = TRUE]
  /\ current' = NoThread
  /\ UNCHANGED <<state, blockedOn, task, binder, transVars, queue, binding, exited>>

(* Thread.suspend of another thread: Scheduler::SuspendThread *)
SuspendThread(t, u) ==
  /\ Executes(t, RunTask)
  /\ u # t /\ state[u] # "FREE"
  /\ suspended' = [suspended EXCEPT ![u] = TRUE]
  /\ queue' = IF state[u] = "RUNNABLE" THEN Remove(queue, u) ELSE queue
  /\ UNCHANGED <<state, blockedOn, task, binder, transVars, current, binding, exited>>

(* Scheduler::ResumeThread; without effect on a thread that is not suspended *)
ResumeThread(t, u) ==
  /\ Executes(t, RunTask)
  /\ suspended[u]
  /\ suspended' = [suspended EXCEPT ![u] = FALSE]
  /\ queue' = IF state[u] = "RUNNABLE" THEN Append(queue, u) ELSE queue
  /\ UNCHANGED <<state, blockedOn, task, binder, transVars, current, binding, exited>>

(* Mutant of RaiseInOther: the thread stays in the wait queue *)
RaiseInStays(t, u) ==
  /\ task' = [task EXCEPT ![t] = RunTask, ![u] = RaiseTask]
  /\ \/ /\ state[u] = "RUNNABLE"
        /\ UNCHANGED <<state, blockedOn, queue>>
     \/ state[u] = "BLOCKED" /\ WakeupThread(u)
  /\ UNCHANGED <<suspended, binder, transVars, current, binding, exited>>

(* Thread.raiseIn pushes a RaiseFrame on the stack of another thread u *)
RaiseInOther(t, u) ==
  /\ task' = [task EXCEPT ![t] = RunTask, ![u] = RaiseTask]
  /\ \/ /\ state[u] = "RUNNABLE"
        /\ UNCHANGED <<state, blockedOn, waiters, queue>>
     \/ /\ state[u] = "BLOCKED"
        /\ waiters' = [waiters EXCEPT ![blockedOn[u]] = Remove(@, u)]
        /\ WakeupThread(u)
  /\ UNCHANGED <<suspended, binder, label, arg, promise, external, current, binding, exited>>

RaiseIn(t, u, w) ==
  LET c == Call("raiseIn", u, w)
  IN  /\ state[u] # "FREE"
      /\ Performs(t, c)
      /\ \/ Request(t, w, c)
         \/ ~IsTransient(w) /\ (u = t \/ state[u] = "TERMINATED") /\ Raises(t)
         \/ ~IsTransient(w) /\ u # t /\ RaiseInOther(t, u)

-----------------------------------------------------------------------------
(* The words a program can have got hold of *)
LiveWord == {w \in Word : w \in Transient => label[w] # "FREE"}

ThreadStep(t) ==
  \/ Preempt(t) \/ Terminate(t) \/ Raise(t) \/ SuspendSelf(t)
  \/ Handle(t) \/ HandleByBinder(t) \/ HandleByEmptyTask(t)
  \/ \E x \in Transient : \/ Byneed(t, x) \/ HoleHole(t, x)
                          \/ PromisePromise(t, x) \/ NewExternal(t, x)
  \/ \E w \in LiveWord : Return(t, w) \/ Await(t, w)
  \/ \E x \in Transient, n \in Thread : Concur(t, x, n)
  \/ \E w \in LiveWord, x \in Transient : HoleFuture(t, w, x)
  \/ \E w \in LiveWord, v \in LiveWord : HoleFill(t, w, v) \/ HoleFail(t, w, v)
  \/ \E p \in Transient, v \in LiveWord : PromiseFulfill(t, p, v) \/ PromiseFail(t, p, v)
  \/ \E u \in Thread : SuspendThread(t, u) \/ ResumeThread(t, u)
  \/ \E u \in Thread, w \in LiveWord : RaiseIn(t, u, w)

RuntimeStep == \/ Dispatch \/ ScheduleWaitingThread \/ FinishBind
               \/ \E x \in Transient, v \in Value : BindExternal(x, v)
               \/ \E n \in Thread : SignalThread(n)

Next == RuntimeStep \/ \E t \in Thread : ThreadStep(t)

(* What t has begun goes on: it ends, raises to a handler, executes again *)
Proceed(t) ==
  LET k == task[t]
  IN  \/ Terminate(t)
      \/ Handle(t) \/ HandleByBinder(t) \/ HandleByEmptyTask(t)
      \/ k.op = "await" /\ Await(t, k.word)
      \/ k.op = "holeFail" /\ HoleFail(t, k.obj, k.word)
      \/ k.op = "promiseFail" /\ PromiseFail(t, k.obj, k.word)
      \/ k.op = "raiseIn" /\ RaiseIn(t, k.obj, k.word)

(***************************************************************************)
(* The scheduler's loop never waits while there is work.  Every 10 ms the  *)
(* timer sets a status bit, which stays set until the slice ends; the next *)
(* call of a procedure then returns PREEMPT, and every loop of a program   *)
(* calls procedures: hence strong fairness of Preempt.                     *)
(***************************************************************************)
Fairness == /\ WF_vars(Dispatch)
            /\ WF_vars(ScheduleWaitingThread \/ FinishBind)
            /\ \A t \in Thread : WF_vars(Proceed(t)) /\ SF_vars(Preempt(t))

Spec == Init /\ [][Next]_vars
FairSpec == Spec /\ Fairness

-----------------------------------------------------------------------------
(* The type invariant. *)
TypeOK ==
  /\ label \in [Transient -> Label]
  /\ arg \in [Transient -> Word \cup {NoWord}]
  /\ \A x \in Transient : label[x] = "HOLE" => arg[x] \in Transient \cup {NoWord}
  /\ waiters \in [Transient -> Seq(Thread)]
  /\ promise \in [Transient -> {"none", "open", "done"}]
  /\ external \in SUBSET Transient
  /\ state \in [Thread -> {"FREE", "RUNNABLE", "BLOCKED", "TERMINATED"}]
  /\ suspended \in [Thread -> BOOLEAN]
  /\ blockedOn \in [Thread -> Transient \cup {NoWord}]
  /\ task \in [Thread -> Task]
  /\ binder \in [Thread -> Transient \cup {NoWord}]
  /\ queue \in Seq(Thread)
  /\ current \in Thread \cup {NoThread}
  /\ binding \in [wake : Transient \cup {NoWord}, targets : SUBSET Transient,
                  label : {"FREE", "REF", "CANCELLED"}, arg : Word \cup {NoWord}]
  /\ exited \in BOOLEAN

NoDuplicates(s) == \A i, j \in 1..Len(s) : s[i] = s[j] => i = j

(***************************************************************************)
(* The run queue holds, once each, exactly the threads that can run and    *)
(* are not running: whatever sequence of suspend, resume, raiseIn, wake-up *)
(* and preemption led here, no thread is lost to the scheduler, none is    *)
(* queued twice ("precondition: must not be scheduled"), and a suspended,  *)
(* blocked or terminated thread is never dispatched.                       *)
(***************************************************************************)
RunQueueExact ==
  /\ NoDuplicates(queue)
  /\ \A t \in Thread :
       t \in Queued(queue) <=> state[t] = "RUNNABLE" /\ ~suspended[t] /\ t # current
  /\ current \in Thread => state[current] = "RUNNABLE" /\ ~suspended[current]

(***************************************************************************)
(* A thread is blocked exactly when it is in the wait queue, once, of the  *)
(* future it recorded, and that future is still unresolved: a wake-up is   *)
(* never lost, Scheduler::WakeupThread meets only blocked threads, and     *)
(* raiseIn finds the thread in the queue it removes it from.               *)
(***************************************************************************)
WaitQueueExact ==
  /\ \A x \in Transient : NoDuplicates(waiters[x])
  /\ \A x \in Transient, t \in Thread :
       t \in Queued(waiters[x]) <=> state[t] = "BLOCKED" /\ blockedOn[t] = x
  /\ \A t \in Thread :
       state[t] = "BLOCKED" => blockedOn[t] \in Transient /\ label[blockedOn[t]] = "FUTURE"

(* A binding replaces the future whose waiters it wakes, and a hole. *)
BindingTargets ==
  \A x \in binding.targets : x = binding.wake \/ label[x] = "HOLE"

(* Both queue invariants hold together: the inductive invariant behind them. *)
QueueInv ==
  /\ TypeOK
  /\ RunQueueExact
  /\ WaitQueueExact
  /\ BindingTargets
  /\ \A t \in Thread : state[t] = "FREE" => ~suspended[t]

(* Who is going to resolve future x *)
Resolvers(x) ==
  {<<"thread", t>> : t \in {t \in Thread : binder[t] = x}}
  \cup {<<"hole", h>> : h \in {h \in Transient \ binding.targets :
                                  label[h] = "HOLE" /\ arg[h] = x}}
  \cup {<<"promise", p>> : p \in {p \in {x} : promise[p] = "open"}}
  \cup {<<"runtime", e>> : e \in external \cap {x}}
  \cup {<<"binding", b>> : b \in binding.targets \cap {x}}

(***************************************************************************)
(* Every unresolved future has one party, and one only, that will resolve  *)
(* it (the thread of a concurrent or lazy computation that has not         *)
(* terminated, a hole, a promise, the runtime), and no party is left with  *)
(* a future that is resolved already: nobody waits for a future that       *)
(* everybody has forgotten, a lazy future is computed once, and the        *)
(* BindFutureFrame finds a transient labelled FUTURE.                      *)
(***************************************************************************)
OneResolver ==
  /\ \A x \in Transient : label[x] = "FUTURE" =>
       \E r \in Resolvers(x) : \A s \in Resolvers(x) : s = r
  /\ \A x \in Transient \ binding.targets : Resolvers(x) # {} => label[x] = "FUTURE"
  /\ \A t \in Thread : binder[t] # NoWord => state[t] \in {"RUNNABLE", "BLOCKED"}

(***************************************************************************)
(* Every chain of references ends in a word of the program: Deref always   *)
(* terminates and never returns data of the runtime, although holes and    *)
(* futures are replaced by one another in any order.                       *)
(***************************************************************************)
RefsResolve == \A x \in Transient : IsRef(x) => \E v \in Word : Denotes(x, v)

(***************************************************************************)
(* Single assignment: a resolved transient keeps its label and its         *)
(* argument, and an unresolved one follows the life cycle of transients.   *)
(***************************************************************************)
SingleAssignment ==
  [][\A x \in Transient :
       /\ label[x] \in {"REF", "CANCELLED"} => label'[x] = label[x] /\ arg'[x] = arg[x]
       /\ label[x] = "FUTURE" => label'[x] \in {"FUTURE", "REF", "CANCELLED"}
       /\ label[x] = "BYNEED" => label'[x] \in {"BYNEED", "FUTURE"}
       /\ label[x] = "HOLE" => label'[x] \in {"HOLE", "REF", "CANCELLED"}]_vars

(***************************************************************************)
(* The transients implement dataflow variables: a variable means the word  *)
(* at the end of its chain of references, although waking the waiters and  *)
(* binding the future and the hole are several steps, and although chains  *)
(* grow at either end in any order.  No step is visible but the creation   *)
(* of a variable, the start of a lazy computation and one resolution that  *)
(* takes effect for all aliases, for a hole and for its future at once.    *)
(***************************************************************************)
Meaning == [x \in Transient |-> Deref(x)]
HeldFuture == [x \in Transient |-> IF label[x] = "HOLE" THEN arg[x] ELSE NoWord]

Flow == INSTANCE Dataflow
          WITH Variable <- Transient, Nothing <- NoWord,
               status <- label, means <- Meaning, future <- HeldFuture

DataflowSpec == Flow!Spec

(***************************************************************************)
(* Where the bound on threads ends a behaviour: the current thread asks    *)
(* again for what has become a by-need future, and every thread is taken.  *)
(***************************************************************************)
OutOfThreads ==
  /\ \A n \in Thread : state[n] # "FREE"
  /\ \E t \in Thread :
       /\ current = t
       /\ task[t].word \in Word
       /\ Deref(task[t].word) \in Transient
       /\ label[Deref(task[t].word)] = "BYNEED"

(***************************************************************************)
(* Round robin: a thread that can run is eventually executed, unless it is *)
(* suspended again or the system exits (or threads run out, see above).    *)
(***************************************************************************)
NoStarvation ==
  \A t \in Thread :
    state[t] = "RUNNABLE" /\ ~suspended[t]
      ~> current = t \/ suspended[t] \/ exited \/ OutOfThreads

(***************************************************************************)
(* Every thread that waits for a future when it is resolved is eventually  *)
(* executed, with the same exceptions.                                     *)
(***************************************************************************)
WaitersRun ==
  \A t \in Thread :
    blockedOn[t] \in binding.targets
      ~> current = t \/ suspended[t] \/ exited \/ OutOfThreads
=============================================================================
