--------------------------- MODULE SchedulerProofs ---------------------------
(***************************************************************************)
(* Proofs about Scheduler, for any sets of threads, transients and values. *)
(***************************************************************************)
EXTENDS Scheduler, TLAPS

-----------------------------------------------------------------------------
(* What the queue operations do to the set of queued threads. *)

(* Queue::Enqueue adds one element and duplicates none that was not there. *)
LEMMA AppendQueued ==
  ASSUME NEW S, NEW s \in Seq(S), NEW e \in S
  PROVE  /\ Append(s, e) \in Seq(S)
         /\ Queued(Append(s, e)) = Queued(s) \cup {e}
         /\ NoDuplicates(s) /\ e \notin Queued(s) => NoDuplicates(Append(s, e))
  BY DEF Queued, NoDuplicates

(* Queue::Dequeue takes the head and leaves the others. *)
LEMMA TailQueued ==
  ASSUME NEW S, NEW s \in Seq(S), s # <<>>, NoDuplicates(s)
  PROVE  /\ Head(s) \in S
         /\ Head(s) \in Queued(s)
         /\ Tail(s) \in Seq(S)
         /\ Queued(Tail(s)) = Queued(s) \ {Head(s)}
         /\ NoDuplicates(Tail(s))
<1>1. Len(s) \in Nat /\ Len(s) >= 1 /\ Head(s) = s[1]
  OBVIOUS
<1>2. Head(s) \in S /\ Head(s) \in Queued(s) /\ Tail(s) \in Seq(S)
  BY <1>1 DEF Queued
<1>3. Len(Tail(s)) = Len(s) - 1 /\ \A i \in 1..(Len(s) - 1) : Tail(s)[i] = s[i + 1]
  BY <1>1
<1>4. ASSUME NEW e PROVE e \in Queued(Tail(s)) <=> e \in Queued(s) \ {Head(s)}
  <2>1. ASSUME e \in Queued(Tail(s)) PROVE e \in Queued(s) \ {Head(s)}
    <3>1. PICK i \in 1..(Len(s) - 1) : e = s[i + 1]
      BY <1>3, <2>1 DEF Queued
    <3>2. e # s[1]
      BY <3>1, <1>1 DEF NoDuplicates
    <3> QED BY <3>1, <3>2, <1>1 DEF Queued
  <2>2. ASSUME e \in Queued(s) \ {Head(s)} PROVE e \in Queued(Tail(s))
    <3>1. PICK i \in 1..Len(s) : e = s[i]
      BY <2>2 DEF Queued
    <3>2. i - 1 \in 1..(Len(s) - 1)
      BY <3>1, <2>2, <1>1
    <3>3. e = Tail(s)[i - 1]
      BY <3>1, <3>2, <1>3, <1>1
    <3> QED BY <3>2, <3>3, <1>3 DEF Queued
  <2> QED BY <2>1, <2>2
<1>5. NoDuplicates(Tail(s))
  BY <1>1, <1>3 DEF NoDuplicates
<1> QED BY <1>2, <1>4, <1>5

(* Queue::Remove takes out the element, and leaves a queue without it alone. *)
LEMMA RemoveQueued ==
  ASSUME NEW S, NEW s \in Seq(S), NEW e, NoDuplicates(s)
  PROVE  /\ Remove(s, e) \in Seq(S)
         /\ Queued(Remove(s, e)) = Queued(s) \ {e}
         /\ NoDuplicates(Remove(s, e))
<1>1. CASE e \notin Queued(s)
  BY <1>1 DEF Remove
<1>2. CASE e \in Queued(s)
  <2> DEFINE P(i) == s[i] = e /\ \A j \in 1..(i-1) : s[j] # e
             k == CHOOSE i \in 1..Len(s) : P(i)
             r == [j \in 1..(Len(s) - 1) |-> IF j < k THEN s[j] ELSE s[j + 1]]
  <2>1. \E i \in 1..Len(s) : P(i)
    <3>1. PICK i \in 1..Len(s) : s[i] = e
      BY <1>2 DEF Queued
    <3>2. \A j \in 1..(i-1) : s[j] # e
      BY <3>1 DEF NoDuplicates
    <3> QED BY <3>1, <3>2
  <2>2. k \in 1..Len(s) /\ P(k)
    BY <2>1
  <2>3. Remove(s, e) = r
    BY <1>2 DEF Remove
  <2> HIDE DEF k
  <2>4. r \in Seq(S) /\ Len(r) = Len(s) - 1
    BY <2>2
  <2>5. \A i \in 1..(Len(s) - 1) : r[i] = IF i < k THEN s[i] ELSE s[i + 1]
    OBVIOUS
  <2> HIDE DEF r
  <2>6. ASSUME NEW d PROVE d \in Queued(r) <=> d \in Queued(s) \ {e}
    <3>1. ASSUME d \in Queued(r) PROVE d \in Queued(s) \ {e}
      <4>1. PICK i \in 1..(Len(s) - 1) : d = r[i]
        BY <3>1, <2>4 DEF Queued
      <4>2. PICK j \in 1..Len(s) : d = s[j] /\ j # k
        BY <4>1, <2>5, <2>2
      <4> QED BY <4>2, <2>2 DEF Queued, NoDuplicates
    <3>2. ASSUME d \in Queued(s) \ {e} PROVE d \in Queued(r)
      <4>1. PICK i \in 1..Len(s) : d = s[i]
        BY <3>2 DEF Queued
      <4>2. i # k
        BY <4>1, <3>2, <2>2
      <4>3. CASE i < k
        <5>1. i \in 1..(Len(s) - 1) /\ r[i] = d
          BY <4>1, <4>3, <2>2, <2>5
        <5> QED BY <5>1, <2>4 DEF Queued
      <4>4. CASE i > k
        <5>1. (i - 1) \in 1..(Len(s) - 1) /\ r[i - 1] = d
          BY <4>1, <4>4, <2>2, <2>5
        <5> QED BY <5>1, <2>4 DEF Queued
      <4> QED BY <4>2, <4>3, <4>4, <2>2
    <3> QED BY <3>1, <3>2
  <2>7. NoDuplicates(r)
    <3>1. SUFFICES ASSUME NEW i \in 1..(Len(s) - 1), NEW j \in 1..(Len(s) - 1), r[i] = r[j]
                   PROVE  i = j
      BY <2>4 DEF NoDuplicates
    <3> DEFINE at(m) == IF m < k THEN m ELSE m + 1
    <3>2. at(i) \in 1..Len(s) /\ at(j) \in 1..Len(s) /\ s[at(i)] = s[at(j)]
      BY <3>1, <2>5, <2>2
    <3>3. at(i) = at(j)
      BY <3>2 DEF NoDuplicates
    <3> QED BY <3>3, <2>2
  <2> QED BY <2>3, <2>4, <2>6, <2>7
<1> QED BY <1>1, <1>2

-----------------------------------------------------------------------------
(* Type correctness. *)

(* Deref returns a word, or the content of an argument that holds none. *)
LEMMA DerefWord ==
  ASSUME NEW w \in Word
  PROVE  Deref(w) \in Word \cup {NoWord}
<1> DEFINE W == Word \cup {NoWord}
<1>1. CASE IsRef(w) /\ \E v \in W : Denotes(w, v)
  <2>1. (CHOOSE v \in W : Denotes(w, v)) \in W
    BY <1>1
  <2> QED BY <1>1, <2>1 DEF Deref
<1>2. CASE ~(IsRef(w) /\ \E v \in W : Denotes(w, v))
  BY <1>2 DEF Deref
<1> QED BY <1>1, <1>2

(* Queue::Remove keeps the type of the queue, with or without duplicates. *)
LEMMA RemoveType ==
  ASSUME NEW S, NEW s \in Seq(S), NEW e
  PROVE  Remove(s, e) \in Seq(S)
<1>1. CASE e \notin Queued(s)
  BY <1>1 DEF Remove
<1>2. CASE e \in Queued(s)
  <2> DEFINE k == CHOOSE i \in 1..Len(s) : s[i] = e /\ \A j \in 1..(i-1) : s[j] # e
             r == [j \in 1..(Len(s) - 1) |-> IF j < k THEN s[j] ELSE s[j + 1]]
  <2>1. Remove(s, e) = r
    BY <1>2 DEF Remove
  <2>2. Len(s) - 1 \in Nat
    BY <1>2 DEF Queued
  <2> HIDE DEF k
  <2>3. \A j \in 1..(Len(s) - 1) : (IF j < k THEN s[j] ELSE s[j + 1]) \in S
    OBVIOUS
  <2> QED BY <2>1, <2>2, <2>3
<1> QED BY <1>1, <1>2

(* The tasks, words and threads that an action writes have their type. *)
LEMMA TaskTypes ==
  /\ RunTask \in Task /\ RaiseTask \in Task /\ EndTask \in Task
  /\ \A w \in Word : Call("await", NoWord, w) \in Task
  /\ \A o \in Word \cup Thread, w \in Word :
       /\ Call("raiseIn", o, w) \in Task
       /\ Call("holeFail", o, w) \in Task
       /\ Call("promiseFail", o, w) \in Task
  BY DEF RunTask, RaiseTask, EndTask, Call, Task

(* A primitive that raises, or returns, preserves the types. *)
LEMMA RaisesType ==
  ASSUME TypeOK, NEW t \in Thread, Raises(t) \/ Returns(t)
  PROVE  TypeOK'
<1>1. UNCHANGED <<state, suspended, blockedOn, binder, label, arg, waiters, promise, external,
                  queue, current, binding, exited>>
  BY DEF Raises, Returns, transVars
<1>2. task' = [task EXCEPT ![t] = RaiseTask] \/ task' = [task EXCEPT ![t] = RunTask]
  BY DEF Raises, Returns, Goes
<1>3. task' \in [Thread -> Task]
  BY <1>2, TaskTypes DEF TypeOK
<1> QED BY <1>1, <1>3 DEF TypeOK

(* A wake-up preserves the types of what it changes. *)
LEMMA WakeupType ==
  ASSUME TypeOK, NEW u \in Thread, WakeupThread(u)
  PROVE  /\ state' \in [Thread -> {"FREE", "RUNNABLE", "BLOCKED", "TERMINATED"}]
         /\ blockedOn' \in [Thread -> Transient \cup {NoWord}]
         /\ queue' \in Seq(Thread)
  BY AppendQueued DEF TypeOK, WakeupThread

(* A REQUEST preserves the types. *)
LEMMA RequestType ==
  ASSUME TypeOK, NEW t \in Thread, NEW w \in Word, NEW c \in Task, Request(t, w, c)
  PROVE  TypeOK'
<1> DEFINE x == Deref(w)
<1>1. x \in Transient
  BY DEF Request
<1> HIDE DEF x
<1>2. CASE RequestRaises(t, x)
  BY <1>2, RaisesType DEF RequestRaises
<1>3. CASE RequestBlocks(t, x, c)
  BY <1>1, <1>3, AppendQueued DEF TypeOK, RequestBlocks, Goes, Word
<1>4. CASE RequestByneed(t, x, c)
  <2>1. PICK n \in Thread :
          /\ NewThread(n, x)
          /\ state' = [state EXCEPT ![n] = "RUNNABLE", ![t] = "BLOCKED"]
    BY <1>4 DEF RequestByneed
  <2>2. queue' \in Seq(Thread) /\ <<t>> \in Seq(Thread)
    BY <2>1, AppendQueued DEF NewThread, TypeOK
  <2>3. /\ state' \in [Thread -> {"FREE", "RUNNABLE", "BLOCKED", "TERMINATED"}]
        /\ binder' \in [Thread -> Transient \cup {NoWord}]
    BY <2>1, <1>1 DEF NewThread, TypeOK
  <2>4. /\ label' = [label EXCEPT ![x] = "FUTURE"]
        /\ waiters' \in [Transient -> Seq(Thread)]
        /\ blockedOn' \in [Thread -> Transient \cup {NoWord}]
        /\ task' \in [Thread -> Task]
        /\ current' = NoThread
        /\ UNCHANGED <<suspended, arg, promise, external, binding, exited>>
    BY <1>1, <1>4, <2>2 DEF TypeOK, RequestByneed, Goes
  <2>5. /\ label' \in [Transient -> Label]
        /\ \A y \in Transient : label'[y] = "HOLE" => arg'[y] \in Transient \cup {NoWord}
    BY <1>1, <2>4 DEF TypeOK, Label
  <2> QED BY <2>2, <2>3, <2>4, <2>5 DEF TypeOK
<1> QED BY <1>2, <1>3, <1>4 DEF Request, x

(* Every step of a thread preserves the types. *)
LEMMA ThreadType ==
  ASSUME TypeOK, NEW t \in Thread, ThreadStep(t)
  PROVE  TypeOK'
<1> USE DEF Goes, threadVars, transVars
<1>1. CASE Preempt(t)
  BY <1>1, AppendQueued DEF TypeOK, Preempt
<1>2. CASE Terminate(t)
  BY <1>2 DEF TypeOK, Terminate
<1>3. CASE Raise(t)
  BY <1>3, RaisesType DEF Raise
<1>4. CASE SuspendSelf(t)
  BY <1>4 DEF TypeOK, SuspendSelf
<1>5. CASE Handle(t)
  BY <1>5, RaisesType DEF Handle
<1>6. CASE HandleByBinder(t)
  BY <1>6, TaskTypes DEF TypeOK, HandleByBinder, Bind
<1>7. CASE HandleByEmptyTask(t)
  BY <1>7 DEF TypeOK, HandleByEmptyTask
<1>8. ASSUME NEW x \in Transient,
             Byneed(t, x) \/ HoleHole(t, x) \/ PromisePromise(t, x) \/ NewExternal(t, x)
      PROVE  TypeOK'
  <2>1. PICK l \in Label : Alloc(x, l, NoWord)
    BY <1>8 DEF Byneed, HoleHole, PromisePromise, NewExternal, Label
  <2>2. /\ label' \in [Transient -> Label] /\ arg' \in [Transient -> Word \cup {NoWord}]
        /\ \A y \in Transient : label'[y] = "HOLE" => arg'[y] \in Transient \cup {NoWord}
    BY <1>8, <2>1 DEF TypeOK, Alloc
  <2>3. /\ promise' \in [Transient -> {"none", "open", "done"}]
        /\ external' \in SUBSET Transient
        /\ UNCHANGED <<state, suspended, blockedOn, task, binder, waiters, queue, current,
                       binding, exited>>
    BY <1>8 DEF TypeOK, Byneed, HoleHole, PromisePromise, NewExternal
  <2> QED BY <2>2, <2>3 DEF TypeOK
<1>9. ASSUME NEW w \in Word, Return(t, w)
      PROVE  TypeOK'
  <2>1. Deref(w) \in Word \cup {NoWord}
    BY DerefWord
  <2> QED BY <1>9, <2>1, TaskTypes DEF TypeOK, Return, Bind
<1>10. ASSUME NEW w \in Word, Await(t, w)
       PROVE  TypeOK'
  <2>1. CASE Request(t, w, Call("await", NoWord, w))
    BY <2>1, TaskTypes, RequestType
  <2>2. CASE Returns(t)
    BY <2>2, RaisesType
  <2> QED BY <1>10, <2>1, <2>2 DEF Await
<1>11. ASSUME NEW x \in Transient, NEW n \in Thread, Concur(t, x, n)
       PROVE  TypeOK'
  BY <1>11, AppendQueued DEF TypeOK, Concur, Alloc, NewThread, Label
<1>12. ASSUME NEW w \in Word, NEW x \in Transient, HoleFuture(t, w, x)
       PROVE  TypeOK'
  BY <1>12 DEF TypeOK, HoleFuture, Label, Word
<1>13. ASSUME NEW w \in Word, NEW v \in Word, HoleFill(t, w, v)
       PROVE  TypeOK'
  <2>1. Deref(v) \in Word \cup {NoWord}
    BY DerefWord
  <2>2. CASE Raises(t)
    BY <2>2, RaisesType
  <2>3. CASE IsHole(w) /\ Fill(Deref(w), Deref(v))
    BY <2>1, <2>3 DEF TypeOK, Fill, Bind, HoleTargets, IsHole
  <2> QED BY <1>13, <2>2, <2>3 DEF HoleFill
<1>14. ASSUME NEW w \in Word, NEW v \in Word, HoleFail(t, w, v)
       PROVE  TypeOK'
  <2>1. CASE Request(t, v, Call("holeFail", w, v))
    BY <2>1, TaskTypes, RequestType
  <2>2. CASE Raises(t)
    BY <2>2, RaisesType
  <2>3. CASE IsHole(w) /\ Fail(t, Deref(w))
    BY <2>3, TaskTypes DEF TypeOK, Fail, Bind, HoleTargets, IsHole
  <2> QED BY <1>14, <2>1, <2>2, <2>3 DEF HoleFail
<1>15. ASSUME NEW p \in Transient, NEW v \in Word, PromiseFulfill(t, p, v)
       PROVE  TypeOK'
  <2>1. Deref(v) \in Word \cup {NoWord}
    BY DerefWord
  <2>2. CASE Raises(t)
    BY <2>2, RaisesType
  <2>3. CASE Settle(t, p, "REF", Stored(p, v))
    BY <2>1, <2>3, TaskTypes DEF TypeOK, Settle, Bind, Stored
  <2> QED BY <1>15, <2>2, <2>3 DEF PromiseFulfill
<1>16. ASSUME NEW p \in Transient, NEW v \in Word, PromiseFail(t, p, v)
       PROVE  TypeOK'
  <2>1. CASE Request(t, v, Call("promiseFail", p, v))
    BY <2>1, TaskTypes, RequestType DEF Word
  <2>2. CASE Raises(t)
    BY <2>2, RaisesType
  <2>3. CASE Settle(t, p, "CANCELLED", NoWord)
    BY <2>3, TaskTypes DEF TypeOK, Settle, Bind
  <2> QED BY <1>16, <2>1, <2>2, <2>3 DEF PromiseFail
<1>17. ASSUME NEW u \in Thread, SuspendThread(t, u)
       PROVE  TypeOK'
  BY <1>17, RemoveType DEF TypeOK, SuspendThread
<1>18. ASSUME NEW u \in Thread, ResumeThread(t, u)
       PROVE  TypeOK'
  BY <1>18, AppendQueued DEF TypeOK, ResumeThread
<1>19. ASSUME NEW u \in Thread, NEW w \in Word, RaiseIn(t, u, w)
       PROVE  TypeOK'
  <2>1. CASE Request(t, w, Call("raiseIn", u, w))
    BY <2>1, TaskTypes, RequestType
  <2>2. CASE Raises(t)
    BY <2>2, RaisesType
  <2>3. CASE RaiseInOther(t, u)
    <3>1. task' \in [Thread -> Task]
      BY <2>3, TaskTypes DEF TypeOK, RaiseInOther
    <3>2. CASE state[u] = "RUNNABLE" /\ UNCHANGED <<state, blockedOn, waiters, queue>>
      BY <2>3, <3>1, <3>2 DEF TypeOK, RaiseInOther
    <3>3. CASE /\ state[u] = "BLOCKED"
               /\ waiters' = [waiters EXCEPT ![blockedOn[u]] = Remove(@, u)]
               /\ WakeupThread(u)
      <4>1. \A x \in Transient : Remove(waiters[x], u) \in Seq(Thread)
        BY RemoveType DEF TypeOK
      <4>2. waiters' \in [Transient -> Seq(Thread)]
        BY <3>3, <4>1 DEF TypeOK
      <4> QED BY <2>3, <3>1, <3>3, <4>2, WakeupType DEF TypeOK, RaiseInOther
    <3> QED BY <2>3, <3>2, <3>3 DEF RaiseInOther
  <2> QED BY <1>19, <2>1, <2>2, <2>3 DEF RaiseIn
<1> QED
  BY <1>1, <1>2, <1>3, <1>4, <1>5, <1>6, <1>7, <1>8, <1>9, <1>10, <1>11, <1>12, <1>13,
     <1>14, <1>15, <1>16, <1>17, <1>18, <1>19 DEF ThreadStep, LiveWord

(* Every step of the runtime preserves the types. *)
LEMMA RuntimeType ==
  ASSUME TypeOK, RuntimeStep
  PROVE  TypeOK'
<1> USE DEF threadVars, transVars
<1>1. CASE Dispatch
  BY <1>1 DEF TypeOK, Dispatch
<1>2. CASE ScheduleWaitingThread
  BY <1>2, WakeupType DEF TypeOK, ScheduleWaitingThread
<1>3. CASE FinishBind
  BY <1>3 DEF TypeOK, FinishBind, Become, Label, NoBinding
<1>4. ASSUME NEW x \in Transient, NEW v \in Value, BindExternal(x, v)
      PROVE  TypeOK'
  BY <1>4 DEF TypeOK, BindExternal, Bind, Word
<1>5. ASSUME NEW n \in Thread, SignalThread(n)
      PROVE  TypeOK'
  BY <1>5, AppendQueued DEF TypeOK, SignalThread, NewThread
<1> QED BY <1>1, <1>2, <1>3, <1>4, <1>5 DEF RuntimeStep

(* The initial state has the types. *)
LEMMA InitType == Init => TypeOK
<1> SUFFICES ASSUME Init PROVE TypeOK
  OBVIOUS
<1>1. PICK main \in Thread : state = [t \in Thread |-> IF t = main THEN "RUNNABLE" ELSE "FREE"]
                             /\ queue = <<main>>
  BY DEF Init
<1>2. queue \in Seq(Thread) /\ state \in [Thread -> {"FREE", "RUNNABLE", "BLOCKED", "TERMINATED"}]
  BY <1>1
<1>3. binding \in [wake : Transient \cup {NoWord}, targets : SUBSET Transient,
                   label : {"FREE", "REF", "CANCELLED"}, arg : Word \cup {NoWord}]
  BY DEF Init, NoBinding
<1>4. waiters \in [Transient -> Seq(Thread)]
  BY DEF Init
<1>5. task \in [Thread -> Task] /\ suspended \in [Thread -> BOOLEAN]
  BY TaskTypes DEF Init
<1>6. /\ label \in [Transient -> Label]
      /\ arg \in [Transient -> Word \cup {NoWord}]
      /\ \A x \in Transient : arg[x] = NoWord
      /\ promise \in [Transient -> {"none", "open", "done"}]
      /\ external \in SUBSET Transient
      /\ blockedOn \in [Thread -> Transient \cup {NoWord}]
      /\ binder \in [Thread -> Transient \cup {NoWord}]
      /\ current \in Thread \cup {NoThread}
      /\ exited \in BOOLEAN
  BY DEF Init, Label
<1> QED BY <1>2, <1>3, <1>4, <1>5, <1>6 DEF TypeOK

(* The variables always have their types, for every program. *)
THEOREM TypeCorrect == Spec => []TypeOK
<1>1. Init => TypeOK
  BY InitType
<1>2. TypeOK /\ [Next]_vars => TypeOK'
  <2>1. CASE UNCHANGED vars
    BY <2>1 DEF vars, threadVars, transVars, TypeOK
  <2> QED BY <2>1, ThreadType, RuntimeType DEF Next
<1> QED BY <1>1, <1>2, PTL DEF Spec

-----------------------------------------------------------------------------
(* The run queue and the wait queues. *)

(* Nothing that the queues depend on changes, and no future is resolved. *)
Quiet == /\ UNCHANGED <<state, suspended, blockedOn, waiters, queue, current>>
         /\ \A x \in Transient : label[x] = "FUTURE" => label'[x] = "FUTURE"

(* A step that leaves the queues alone preserves the invariant. *)
LEMMA QuietStep ==
  ASSUME QueueInv, TypeOK', Quiet, BindingTargets'
  PROVE  QueueInv'
<1>1. RunQueueExact'
  BY DEF QueueInv, Quiet, RunQueueExact, Queued, NoDuplicates
<1>2. WaitQueueExact'
  <2>1. \A x \in Transient : NoDuplicates(waiters'[x])
    BY DEF QueueInv, Quiet, WaitQueueExact
  <2>2. \A x \in Transient, t \in Thread :
          t \in Queued(waiters'[x]) <=> state'[t] = "BLOCKED" /\ blockedOn'[t] = x
    BY DEF QueueInv, Quiet, WaitQueueExact
  <2>3. \A t \in Thread : state'[t] = "BLOCKED" =>
          blockedOn'[t] \in Transient /\ label'[blockedOn'[t]] = "FUTURE"
    BY DEF QueueInv, Quiet, WaitQueueExact
  <2> QED BY <2>1, <2>2, <2>3 DEF WaitQueueExact
<1> QED BY <1>1, <1>2 DEF QueueInv, Quiet

(* While a thread executes or the loop is idle, nothing is being bound. *)
LEMMA NothingBound ==
  ASSUME binding = NoBinding
  PROVE  binding.targets = {}
  BY DEF NoBinding

(* A thread that executes is runnable, and in no queue. *)
LEMMA ExecutingThread ==
  ASSUME QueueInv, NEW t \in Thread, current = t
  PROVE  /\ state[t] = "RUNNABLE" /\ ~suspended[t]
         /\ t \notin Queued(queue)
         /\ \A x \in Transient : t \notin Queued(waiters[x])
  BY DEF QueueInv, RunQueueExact, WaitQueueExact

(* A primitive that raises or returns leaves the queues alone. *)
LEMMA RaisesQuiet ==
  ASSUME QueueInv, NEW t \in Thread, Raises(t) \/ Returns(t)
  PROVE  QueueInv'
<1>1. TypeOK'
  BY RaisesType DEF QueueInv
<1>2. Quiet /\ BindingTargets'
  BY DEF Raises, Returns, transVars, Quiet, QueueInv, BindingTargets
<1> QED BY <1>1, <1>2, QuietStep

(* Append of a thread that is not queued and that becomes able to run. *)
LEMMA Scheduled ==
  ASSUME QueueInv, NEW u \in Thread, u \notin Queued(queue),
         queue' = Append(queue, u),
         current' = (IF current = u THEN NoThread ELSE current),
         state'[u] = "RUNNABLE", ~suspended'[u],
         \A t \in Thread \ {u} : (state'[t] = "RUNNABLE" /\ ~suspended'[t] /\ t # current')
                             <=> (state[t] = "RUNNABLE" /\ ~suspended[t] /\ t # current),
         current' \in Thread => state'[current'] = "RUNNABLE" /\ ~suspended'[current']
  PROVE  RunQueueExact'
<1>1. /\ Queued(queue') = Queued(queue) \cup {u}
      /\ NoDuplicates(queue')
  BY AppendQueued DEF QueueInv, TypeOK, RunQueueExact
<1>2. u # current'
  BY ThreadAssumption
<1>3. \A t \in Thread : t \in Queued(queue') <=>
         state'[t] = "RUNNABLE" /\ ~suspended'[t] /\ t # current'
  <2> TAKE t \in Thread
  <2>1. CASE t = u
    BY <1>1, <1>2, <2>1
  <2>2. CASE t # u
    BY <1>1, <2>2 DEF QueueInv, RunQueueExact
  <2> QED BY <2>1, <2>2
<1> QED BY <1>1, <1>3 DEF RunQueueExact

(* A thread that blocks enters one wait queue and leaves the processor. *)
LEMMA Blocks ==
  ASSUME QueueInv, NEW t \in Thread, current = t, binding = NoBinding,
         NEW x \in Transient,
         NEW q \in Seq(Thread), NoDuplicates(q),
         \A u \in Thread : u \in Queued(q) <=> u = t \/ u \in Queued(waiters[x]),
         waiters' = [waiters EXCEPT ![x] = q],
         state'[t] = "BLOCKED",
         \A u \in Thread \ {t} : state'[u] = "BLOCKED" <=> state[u] = "BLOCKED",
         blockedOn' = [blockedOn EXCEPT ![t] = x],
         label'[x] = "FUTURE",
         \A y \in Transient \ {x} : label'[y] = label[y]
  PROVE  WaitQueueExact'
<1> USE DEF QueueInv
<1>1. \A y \in Transient : NoDuplicates(waiters'[y])
  BY DEF TypeOK, WaitQueueExact
<1>2. ASSUME NEW y \in Transient, NEW u \in Thread
      PROVE  u \in Queued(waiters'[y]) <=> state'[u] = "BLOCKED" /\ blockedOn'[u] = y
  <2>1. state[t] # "BLOCKED" /\ t \notin Queued(waiters[y])
    BY ExecutingThread
  <2>2. CASE y = x
    BY <2>1, <2>2 DEF TypeOK, WaitQueueExact
  <2>3. CASE y # x
    BY <2>1, <2>3 DEF TypeOK, WaitQueueExact
  <2> QED BY <2>2, <2>3
<1>3. ASSUME NEW u \in Thread, state'[u] = "BLOCKED"
      PROVE  blockedOn'[u] \in Transient /\ label'[blockedOn'[u]] = "FUTURE"
  BY <1>3 DEF TypeOK, WaitQueueExact
<1> QED BY <1>1, <1>2, <1>3 DEF WaitQueueExact

(* The wait queues when no thread blocks, and none is woken up *)
LEMMA WaitFrame ==
  ASSUME QueueInv, UNCHANGED <<blockedOn, waiters>>,
         \A t \in Thread : state'[t] = "BLOCKED" <=> state[t] = "BLOCKED",
         \A x \in Transient : label[x] = "FUTURE" => label'[x] = "FUTURE"
  PROVE  WaitQueueExact'
<1> USE DEF QueueInv
<1>1. \A x \in Transient : NoDuplicates(waiters'[x])
  BY DEF WaitQueueExact
<1>2. \A x \in Transient, t \in Thread :
        t \in Queued(waiters'[x]) <=> state'[t] = "BLOCKED" /\ blockedOn'[t] = x
  BY DEF WaitQueueExact
<1>3. \A t \in Thread : state'[t] = "BLOCKED" =>
        blockedOn'[t] \in Transient /\ label'[blockedOn'[t]] = "FUTURE"
  BY DEF WaitQueueExact
<1> QED BY <1>1, <1>2, <1>3 DEF WaitQueueExact

(* The current thread leaves the processor and cannot run any more. *)
LEMMA Leaves ==
  ASSUME QueueInv, NEW t \in Thread, current = t, current' = NoThread, queue' = queue,
         state'[t] # "RUNNABLE" \/ suspended'[t],
         \A u \in Thread \ {t} : (state'[u] = "RUNNABLE" /\ ~suspended'[u])
                              <=> (state[u] = "RUNNABLE" /\ ~suspended[u])
  PROVE  RunQueueExact'
<1> USE DEF QueueInv
<1>1. NoDuplicates(queue')
  BY DEF RunQueueExact
<1>2. \A u \in Thread : u \in Queued(queue') <=>
        state'[u] = "RUNNABLE" /\ ~suspended'[u] /\ u # current'
  BY ExecutingThread, ThreadAssumption DEF RunQueueExact
<1> QED BY <1>1, <1>2, ThreadAssumption DEF RunQueueExact

(* A REQUEST preserves the queue invariant. *)
LEMMA RequestQueues ==
  ASSUME QueueInv, binding = NoBinding, NEW t \in Thread, current = t, NEW w \in Word,
         NEW c \in Task, Request(t, w, c)
  PROVE  QueueInv'
<1> DEFINE x == Deref(w)
<1>1. x \in Transient /\ TypeOK'
  BY RequestType DEF Request, QueueInv
<1>0. RequestRaises(t, x) \/ RequestBlocks(t, x, c) \/ RequestByneed(t, x, c)
  BY DEF Request
<1> HIDE DEF x
<1>2. CASE RequestRaises(t, x)
  BY <1>2, RaisesQuiet DEF RequestRaises
<1>3. CASE RequestBlocks(t, x, c)
  <2>1. t \notin Queued(waiters[x])
    BY <1>1, ExecutingThread
  <2>2. /\ Append(waiters[x], t) \in Seq(Thread)
        /\ NoDuplicates(Append(waiters[x], t))
        /\ Queued(Append(waiters[x], t)) = Queued(waiters[x]) \cup {t}
    BY <1>1, <2>1, AppendQueued DEF QueueInv, TypeOK, WaitQueueExact
  <2>3. WaitQueueExact'
    <3> DEFINE q == Append(waiters[x], t)
    <3>1. \A u \in Thread : u \in Queued(q) <=> u = t \/ u \in Queued(waiters[x])
      BY <2>2
    <3> HIDE DEF q
    <3>2. waiters' = [waiters EXCEPT ![x] = q]
      BY <1>3 DEF RequestBlocks, q
    <3>3. q \in Seq(Thread) /\ NoDuplicates(q)
      BY <2>2 DEF q
    <3>4. /\ state'[t] = "BLOCKED"
          /\ \A u \in Thread \ {t} : state'[u] = "BLOCKED" <=> state[u] = "BLOCKED"
      BY <1>3 DEF RequestBlocks, QueueInv, TypeOK
    <3>5. /\ blockedOn' = [blockedOn EXCEPT ![t] = x]
          /\ label'[x] = "FUTURE"
          /\ \A y \in Transient \ {x} : label'[y] = label[y]
      BY <1>3 DEF RequestBlocks
    <3> QED BY <1>1, <3>1, <3>2, <3>3, <3>4, <3>5, Blocks
  <2>4. RunQueueExact'
    BY <1>3, Leaves DEF RequestBlocks, QueueInv, TypeOK
  <2>5. BindingTargets' /\ \A u \in Thread : state'[u] = "FREE" => ~suspended'[u]
    BY <1>3 DEF RequestBlocks, QueueInv, TypeOK, BindingTargets
  <2> QED BY <1>1, <2>3, <2>4, <2>5 DEF QueueInv
<1>4. CASE RequestByneed(t, x, c)
  <2>1. PICK n \in Thread :
          /\ NewThread(n, x)
          /\ state' = [state EXCEPT ![n] = "RUNNABLE", ![t] = "BLOCKED"]
    BY <1>4 DEF RequestByneed
  <2>2. state[n] = "FREE" /\ n # t /\ ~suspended[n] /\ n \notin Queued(queue)
    BY <2>1, ExecutingThread DEF NewThread, QueueInv, RunQueueExact
  <2>3. \A u \in Thread : u \notin Queued(waiters[x])
    BY <1>1, <1>4 DEF RequestByneed, QueueInv, WaitQueueExact
  <2>4. WaitQueueExact'
    <3> DEFINE q == <<t>>
    <3>1. q \in Seq(Thread) /\ NoDuplicates(q) /\ Queued(q) = {t}
      BY DEF NoDuplicates, Queued
    <3> HIDE DEF q
    <3>2. waiters' = [waiters EXCEPT ![x] = q]
      BY <1>4 DEF RequestByneed, q
    <3>3. /\ state'[t] = "BLOCKED"
          /\ \A u \in Thread \ {t} : state'[u] = "BLOCKED" <=> state[u] = "BLOCKED"
      BY <2>1, <2>2 DEF QueueInv, TypeOK
    <3>4. /\ blockedOn' = [blockedOn EXCEPT ![t] = x]
          /\ label'[x] = "FUTURE"
          /\ \A y \in Transient \ {x} : label'[y] = label[y]
      BY <1>1, <1>4 DEF RequestByneed, QueueInv, TypeOK
    <3>5. \A u \in Thread : u \in Queued(q) <=> u = t \/ u \in Queued(waiters[x])
      BY <3>1, <2>3
    <3> QED BY <1>1, <3>1, <3>2, <3>3, <3>4, <3>5, Blocks
  <2>5. RunQueueExact'
    <3>1. queue' = Append(queue, n) /\ current' = NoThread
      BY <1>4, <2>1 DEF RequestByneed, NewThread
    <3>2. /\ Queued(queue') = Queued(queue) \cup {n}
          /\ NoDuplicates(queue')
      BY <2>2, <3>1, AppendQueued DEF QueueInv, TypeOK, RunQueueExact
    <3>3. \A u \in Thread : u \in Queued(queue') <=>
            state'[u] = "RUNNABLE" /\ ~suspended'[u] /\ u # current'
      BY <1>4, <2>1, <2>2, <3>1, <3>2, ExecutingThread, ThreadAssumption
      DEF RequestByneed, QueueInv, TypeOK, RunQueueExact
    <3> QED BY <3>1, <3>2, <3>3, ThreadAssumption DEF RunQueueExact
  <2>6. BindingTargets' /\ \A u \in Thread : state'[u] = "FREE" => ~suspended'[u]
    BY <1>4, <2>1, NothingBound DEF RequestByneed, QueueInv, TypeOK, BindingTargets
  <2> QED BY <1>1, <2>4, <2>5, <2>6 DEF QueueInv
<1> QED BY <1>0, <1>2, <1>3, <1>4

(* A woken thread leaves its wait queue; it is scheduled if not suspended. *)
LEMMA Woken ==
  ASSUME QueueInv, NEW x \in Transient, NEW u \in Thread, u \in Queued(waiters[x]),
         NEW q, NoDuplicates(q), Queued(q) = Queued(waiters[x]) \ {u},
         waiters' = [waiters EXCEPT ![x] = q],
         WakeupThread(u), UNCHANGED <<suspended, current, label>>
  PROVE  RunQueueExact' /\ WaitQueueExact'
<1>1. state[u] = "BLOCKED" /\ blockedOn[u] = x /\ u \notin Queued(queue) /\ u # current
  BY DEF QueueInv, RunQueueExact, WaitQueueExact
<1>2. /\ state' = [state EXCEPT ![u] = "RUNNABLE"]
      /\ blockedOn' = [blockedOn EXCEPT ![u] = NoWord]
      /\ queue' = IF suspended[u] THEN queue ELSE Append(queue, u)
  BY DEF WakeupThread
<1>3. RunQueueExact'
  <2>1. CASE suspended[u]
    <3>1. NoDuplicates(queue')
      BY <1>2, <2>1 DEF QueueInv, RunQueueExact
    <3>2. \A t \in Thread : t \in Queued(queue') <=>
            state'[t] = "RUNNABLE" /\ ~suspended'[t] /\ t # current'
      BY <1>1, <1>2, <2>1 DEF QueueInv, TypeOK, RunQueueExact
    <3>3. current' \in Thread => state'[current'] = "RUNNABLE" /\ ~suspended'[current']
      BY <1>1, <1>2 DEF QueueInv, TypeOK, RunQueueExact
    <3> QED BY <3>1, <3>2, <3>3 DEF RunQueueExact
  <2>2. CASE ~suspended[u]
    <3>1. /\ state'[u] = "RUNNABLE" /\ ~suspended'[u]
          /\ \A t \in Thread \ {u} : state'[t] = state[t]
      BY <1>2, <2>2 DEF QueueInv, TypeOK
    <3>2. current' \in Thread => state'[current'] = "RUNNABLE" /\ ~suspended'[current']
      BY <1>1, <3>1 DEF QueueInv, RunQueueExact
    <3>3. queue' = Append(queue, u) /\ current' = current
      BY <1>2, <2>2
    <3> QED BY <1>1, <3>1, <3>2, <3>3, Scheduled
  <2> QED BY <2>1, <2>2
<1>4. WaitQueueExact'
  <2>1. \A y \in Transient : NoDuplicates(waiters'[y])
    BY DEF QueueInv, TypeOK, WaitQueueExact
  <2>2. ASSUME NEW y \in Transient, NEW t \in Thread
        PROVE  t \in Queued(waiters'[y]) <=> state'[t] = "BLOCKED" /\ blockedOn'[t] = y
    <3>1. CASE y = x
      BY <1>1, <1>2, <3>1 DEF QueueInv, TypeOK, WaitQueueExact
    <3>2. CASE y # x
      BY <1>1, <1>2, <3>2 DEF QueueInv, TypeOK, WaitQueueExact
    <3> QED BY <3>1, <3>2
  <2>3. ASSUME NEW t \in Thread, state'[t] = "BLOCKED"
        PROVE  blockedOn'[t] \in Transient /\ label'[blockedOn'[t]] = "FUTURE"
    BY <1>2, <2>3 DEF QueueInv, TypeOK, WaitQueueExact
  <2> QED BY <2>1, <2>2, <2>3 DEF WaitQueueExact
<1> QED BY <1>3, <1>4

(* Suspending another thread takes it out of the run queue. *)
LEMMA SuspendQueues ==
  ASSUME QueueInv, NEW t \in Thread, NEW u \in Thread, SuspendThread(t, u)
  PROVE  RunQueueExact'
<1>1. /\ current = t /\ u # t
      /\ suspended' = [suspended EXCEPT ![u] = TRUE]
      /\ queue' = IF state[u] = "RUNNABLE" THEN Remove(queue, u) ELSE queue
      /\ UNCHANGED <<state, current>>
  BY DEF SuspendThread, Executes
<1>2. Queued(queue') = Queued(queue) \ {u} /\ NoDuplicates(queue')
  <2>1. CASE state[u] = "RUNNABLE"
    BY <1>1, <2>1, RemoveQueued DEF QueueInv, TypeOK, RunQueueExact
  <2>2. CASE state[u] # "RUNNABLE"
    BY <1>1, <2>2 DEF QueueInv, RunQueueExact
  <2> QED BY <2>1, <2>2
<1>3. \A v \in Thread : v \in Queued(queue') <=>
        state'[v] = "RUNNABLE" /\ ~suspended'[v] /\ v # current'
  BY <1>1, <1>2 DEF QueueInv, TypeOK, RunQueueExact
<1>4. current' \in Thread => state'[current'] = "RUNNABLE" /\ ~suspended'[current']
  BY <1>1 DEF QueueInv, TypeOK, RunQueueExact
<1> QED BY <1>2, <1>3, <1>4 DEF RunQueueExact

(* Resuming a thread puts it back if it is runnable. *)
LEMMA ResumeQueues ==
  ASSUME QueueInv, NEW t \in Thread, NEW u \in Thread, ResumeThread(t, u)
  PROVE  RunQueueExact'
<1>1. /\ current = t /\ suspended[u]
      /\ suspended' = [suspended EXCEPT ![u] = FALSE]
      /\ queue' = IF state[u] = "RUNNABLE" THEN Append(queue, u) ELSE queue
      /\ UNCHANGED <<state, current>>
  BY DEF ResumeThread, Executes
<1>2. u \notin Queued(queue) /\ u # current
  BY <1>1 DEF QueueInv, RunQueueExact
<1>3. current' \in Thread => state'[current'] = "RUNNABLE" /\ ~suspended'[current']
  BY <1>1, <1>2 DEF QueueInv, TypeOK, RunQueueExact
<1>4. CASE state[u] = "RUNNABLE"
  <2>1. ~suspended'[u] /\ \A v \in Thread \ {u} : suspended'[v] = suspended[v]
    BY <1>1 DEF QueueInv, TypeOK
  <2> QED BY <1>1, <1>2, <1>3, <1>4, <2>1, Scheduled
<1>5. CASE state[u] # "RUNNABLE"
  <2>1. \A v \in Thread : v \in Queued(queue') <=>
          state'[v] = "RUNNABLE" /\ ~suspended'[v] /\ v # current'
    BY <1>1, <1>5 DEF QueueInv, TypeOK, RunQueueExact
  <2> QED BY <1>1, <1>3, <1>5, <2>1 DEF QueueInv, RunQueueExact
<1> QED BY <1>4, <1>5

(* A new thread is scheduled. *)
LEMMA NewThreadQueues ==
  ASSUME QueueInv, NEW n \in Thread, NEW f, NewThread(n, f),
         state' = [state EXCEPT ![n] = "RUNNABLE"],
         UNCHANGED <<suspended, blockedOn, waiters, current>>,
         \A x \in Transient : label[x] = "FUTURE" => label'[x] = "FUTURE"
  PROVE  RunQueueExact' /\ WaitQueueExact'
<1>1. state[n] = "FREE" /\ queue' = Append(queue, n)
  BY DEF NewThread
<1>2. n \notin Queued(queue) /\ n # current /\ ~suspended[n]
  BY <1>1 DEF QueueInv, RunQueueExact
<1>3. state'[n] = "RUNNABLE" /\ \A u \in Thread \ {n} : state'[u] = state[u]
  BY DEF QueueInv, TypeOK
<1>4. current' \in Thread => state'[current'] = "RUNNABLE" /\ ~suspended'[current']
  BY <1>2, <1>3 DEF QueueInv, RunQueueExact
<1>5. RunQueueExact'
  BY <1>1, <1>2, <1>3, <1>4, Scheduled
<1>6. \A u \in Thread : state'[u] = "BLOCKED" <=> state[u] = "BLOCKED"
  BY <1>1, <1>3
<1>7. WaitQueueExact'
  BY <1>6, WaitFrame
<1> QED BY <1>5, <1>7

(* Every step of a thread preserves the queue invariant. *)
LEMMA ThreadQueues ==
  ASSUME QueueInv, NEW t \in Thread, ThreadStep(t)
  PROVE  QueueInv'
<1>1. TypeOK'
  BY ThreadType DEF QueueInv
<1>2. current = t /\ binding = NoBinding /\ binding.targets = {}
  BY NothingBound
  DEF ThreadStep, Preempt, Terminate, Raise, SuspendSelf, Handle, HandleByBinder,
      HandleByEmptyTask, Byneed, HoleHole, PromisePromise, NewExternal, Return, Await,
      Concur, HoleFuture, HoleFill, HoleFail, PromiseFulfill, PromiseFail, SuspendThread,
      ResumeThread, RaiseIn, Performs, Executes
<1>3. state[t] = "RUNNABLE" /\ ~suspended[t] /\ t \notin Queued(queue)
  BY <1>2, ExecutingThread
<1> USE DEF threadVars, transVars
<1>4. CASE Preempt(t)
  <2>1. /\ queue' = Append(queue, t) /\ current' = NoThread
        /\ UNCHANGED <<state, suspended, blockedOn, waiters, label, binding>>
    BY <1>4 DEF Preempt
  <2>2. RunQueueExact'
    BY <1>2, <1>3, <2>1, Scheduled, ThreadAssumption
  <2>3. WaitQueueExact'
    BY <2>1, WaitFrame
  <2> QED BY <1>1, <2>1, <2>2, <2>3 DEF QueueInv, BindingTargets
<1>5. CASE Terminate(t)
  <2>1. /\ state' = [state EXCEPT ![t] = "TERMINATED"] /\ current' = NoThread
        /\ UNCHANGED <<queue, suspended, blockedOn, waiters, label, binding>>
    BY <1>5 DEF Terminate
  <2>2. /\ state'[t] = "TERMINATED"
        /\ \A u \in Thread \ {t} : state'[u] = state[u]
    BY <2>1 DEF QueueInv, TypeOK
  <2>3. RunQueueExact'
    BY <1>2, <2>1, <2>2, Leaves
  <2>4. WaitQueueExact'
    BY <1>3, <2>1, <2>2, WaitFrame
  <2> QED BY <1>1, <2>1, <2>2, <2>3, <2>4 DEF QueueInv, BindingTargets
<1>6. CASE Raise(t)
  BY <1>6, RaisesQuiet DEF Raise
<1>7. CASE SuspendSelf(t)
  <2>1. /\ suspended' = [suspended EXCEPT ![t] = TRUE] /\ current' = NoThread
        /\ UNCHANGED <<queue, state, blockedOn, waiters, label, binding>>
    BY <1>7 DEF SuspendSelf
  <2>2. suspended'[t] /\ \A u \in Thread \ {t} : suspended'[u] = suspended[u]
    BY <2>1 DEF QueueInv, TypeOK
  <2>3. RunQueueExact'
    BY <1>2, <2>1, <2>2, Leaves
  <2>4. WaitQueueExact'
    BY <2>1, WaitFrame
  <2> QED BY <1>1, <1>3, <2>1, <2>2, <2>3, <2>4 DEF QueueInv, BindingTargets
<1>8. CASE Handle(t)
  BY <1>8, RaisesQuiet DEF Handle
<1>9. CASE HandleByBinder(t)
  <2>1. Quiet /\ BindingTargets'
    BY <1>9 DEF HandleByBinder, Bind, Quiet, BindingTargets
  <2> QED BY <1>1, <2>1, QuietStep
<1>10. CASE HandleByEmptyTask(t)
  <2>1. Quiet /\ BindingTargets'
    BY <1>2, <1>10 DEF HandleByEmptyTask, Quiet, BindingTargets
  <2> QED BY <1>1, <2>1, QuietStep
<1>11. ASSUME NEW x \in Transient,
              Byneed(t, x) \/ HoleHole(t, x) \/ PromisePromise(t, x) \/ NewExternal(t, x)
       PROVE  QueueInv'
  <2>1. Quiet /\ BindingTargets'
    BY <1>2, <1>11 DEF Byneed, HoleHole, PromisePromise, NewExternal, Alloc, Quiet,
                       BindingTargets, QueueInv, TypeOK
  <2> QED BY <1>1, <2>1, QuietStep
<1>12. ASSUME NEW w \in Word, Return(t, w)
       PROVE  QueueInv'
  <2>1. Quiet
    BY <1>12 DEF Return, Quiet
  <2>2. BindingTargets'
    BY <1>2, <1>12 DEF Return, Bind, BindingTargets
  <2> QED BY <1>1, <2>1, <2>2, QuietStep
<1>13. ASSUME NEW w \in Word, Await(t, w)
       PROVE  QueueInv'
  <2>1. CASE Request(t, w, Call("await", NoWord, w))
    BY <1>2, <2>1, TaskTypes, RequestQueues
  <2>2. CASE Returns(t)
    BY <2>2, RaisesQuiet
  <2> QED BY <1>13, <2>1, <2>2 DEF Await
<1>14. ASSUME NEW x \in Transient, NEW n \in Thread, Concur(t, x, n)
       PROVE  QueueInv'
  <2>1. /\ NewThread(n, x) /\ state' = [state EXCEPT ![n] = "RUNNABLE"]
        /\ UNCHANGED <<suspended, blockedOn, waiters, current, binding>>
        /\ \A y \in Transient : label[y] = "FUTURE" => label'[y] = "FUTURE"
    BY <1>14 DEF Concur, Alloc, QueueInv, TypeOK
  <2>2. RunQueueExact' /\ WaitQueueExact'
    BY <2>1, NewThreadQueues
  <2>3. BindingTargets' /\ \A u \in Thread : state'[u] = "FREE" => ~suspended'[u]
    BY <1>2, <2>1 DEF QueueInv, TypeOK, BindingTargets
  <2> QED BY <1>1, <2>2, <2>3 DEF QueueInv
<1>15. ASSUME NEW w \in Word, NEW x \in Transient, HoleFuture(t, w, x)
       PROVE  QueueInv'
  <2>1. Quiet /\ BindingTargets'
    BY <1>2, <1>15 DEF HoleFuture, Quiet, BindingTargets, QueueInv, TypeOK
  <2> QED BY <1>1, <2>1, QuietStep
<1>16. ASSUME NEW w \in Word, NEW v \in Word, HoleFill(t, w, v)
       PROVE  QueueInv'
  <2>1. CASE Raises(t)
    BY <2>1, RaisesQuiet
  <2>2. CASE IsHole(w) /\ Fill(Deref(w), Deref(v))
    <3>1. Quiet /\ BindingTargets'
      BY <2>2 DEF Fill, Bind, HoleTargets, IsHole, Quiet, BindingTargets
    <3> QED BY <1>1, <3>1, QuietStep
  <2> QED BY <1>16, <2>1, <2>2 DEF HoleFill
<1>17. ASSUME NEW w \in Word, NEW v \in Word, HoleFail(t, w, v)
       PROVE  QueueInv'
  <2>1. CASE Request(t, v, Call("holeFail", w, v))
    BY <1>2, <2>1, TaskTypes, RequestQueues
  <2>2. CASE Raises(t)
    BY <2>2, RaisesQuiet
  <2>3. CASE IsHole(w) /\ Fail(t, Deref(w))
    <3>1. Quiet /\ BindingTargets'
      BY <2>3 DEF Fail, Bind, HoleTargets, IsHole, Quiet, BindingTargets
    <3> QED BY <1>1, <3>1, QuietStep
  <2> QED BY <1>17, <2>1, <2>2, <2>3 DEF HoleFail
<1>18. ASSUME NEW p \in Transient, NEW v \in Word, PromiseFulfill(t, p, v)
       PROVE  QueueInv'
  <2>1. CASE Raises(t)
    BY <2>1, RaisesQuiet
  <2>2. CASE Settle(t, p, "REF", Stored(p, v))
    <3>1. Quiet /\ BindingTargets'
      BY <2>2 DEF Settle, Bind, Quiet, BindingTargets
    <3> QED BY <1>1, <3>1, QuietStep
  <2> QED BY <1>18, <2>1, <2>2 DEF PromiseFulfill
<1>19. ASSUME NEW p \in Transient, NEW v \in Word, PromiseFail(t, p, v)
       PROVE  QueueInv'
  <2>1. CASE Request(t, v, Call("promiseFail", p, v))
    BY <1>2, <2>1, TaskTypes, RequestQueues DEF Word
  <2>2. CASE Raises(t)
    BY <2>2, RaisesQuiet
  <2>3. CASE Settle(t, p, "CANCELLED", NoWord)
    <3>1. Quiet /\ BindingTargets'
      BY <2>3 DEF Settle, Bind, Quiet, BindingTargets
    <3> QED BY <1>1, <3>1, QuietStep
  <2> QED BY <1>19, <2>1, <2>2, <2>3 DEF PromiseFail
<1>20. ASSUME NEW u \in Thread, SuspendThread(t, u)
       PROVE  QueueInv'
  <2>1. /\ UNCHANGED <<state, blockedOn, waiters, label, binding>>
        /\ state[u] # "FREE"
        /\ suspended' = [suspended EXCEPT ![u] = TRUE]
    BY <1>20 DEF SuspendThread
  <2>2. RunQueueExact'
    BY <1>20, SuspendQueues
  <2>3. WaitQueueExact'
    BY <2>1, WaitFrame
  <2>4. BindingTargets' /\ \A v \in Thread : state'[v] = "FREE" => ~suspended'[v]
    BY <2>1 DEF QueueInv, TypeOK, BindingTargets
  <2> QED BY <1>1, <2>2, <2>3, <2>4 DEF QueueInv
<1>21. ASSUME NEW u \in Thread, ResumeThread(t, u)
       PROVE  QueueInv'
  <2>1. /\ UNCHANGED <<state, blockedOn, waiters, label, binding>>
        /\ suspended' = [suspended EXCEPT ![u] = FALSE]
    BY <1>21 DEF ResumeThread
  <2>2. RunQueueExact'
    BY <1>21, ResumeQueues
  <2>3. WaitQueueExact'
    BY <2>1, WaitFrame
  <2>4. BindingTargets' /\ \A v \in Thread : state'[v] = "FREE" => ~suspended'[v]
    BY <2>1 DEF QueueInv, TypeOK, BindingTargets
  <2> QED BY <1>1, <2>2, <2>3, <2>4 DEF QueueInv
<1>22. ASSUME NEW u \in Thread, NEW w \in Word, RaiseIn(t, u, w)
       PROVE  QueueInv'
  <2>1. CASE Request(t, w, Call("raiseIn", u, w))
    BY <1>2, <2>1, TaskTypes, RequestQueues
  <2>2. CASE Raises(t)
    BY <2>2, RaisesQuiet
  <2>3. CASE RaiseInOther(t, u) /\ state[u] = "RUNNABLE"
    <3>1. Quiet /\ BindingTargets'
      BY <1>2, <2>3 DEF RaiseInOther, Quiet, BindingTargets
    <3> QED BY <1>1, <3>1, QuietStep
  <2>4. CASE RaiseInOther(t, u) /\ state[u] = "BLOCKED"
    <3> DEFINE x == blockedOn[u]
               q == Remove(waiters[x], u)
    <3>1. x \in Transient /\ u \in Queued(waiters[x])
      BY <2>4 DEF QueueInv, WaitQueueExact
    <3>2. Queued(q) = Queued(waiters[x]) \ {u} /\ NoDuplicates(q)
      BY <3>1, RemoveQueued DEF QueueInv, TypeOK, WaitQueueExact
    <3>3. /\ waiters' = [waiters EXCEPT ![x] = q] /\ WakeupThread(u)
          /\ UNCHANGED <<suspended, current, label, binding>>
      BY <2>4 DEF RaiseInOther
    <3> HIDE DEF x, q
    <3>4. RunQueueExact' /\ WaitQueueExact'
      BY <3>1, <3>2, <3>3, Woken
    <3>5. BindingTargets' /\ \A v \in Thread : state'[v] = "FREE" => ~suspended'[v]
      BY <3>3, <1>2 DEF QueueInv, TypeOK, BindingTargets, WakeupThread
    <3> QED BY <1>1, <3>4, <3>5 DEF QueueInv
  <2> QED BY <1>22, <2>1, <2>2, <2>3, <2>4 DEF RaiseIn, RaiseInOther
<1> QED
  BY <1>4, <1>5, <1>6, <1>7, <1>8, <1>9, <1>10, <1>11, <1>12, <1>13, <1>14, <1>15, <1>16,
     <1>17, <1>18, <1>19, <1>20, <1>21, <1>22 DEF ThreadStep, LiveWord

(* Every step of the runtime preserves the queue invariant. *)
LEMMA RuntimeQueues ==
  ASSUME QueueInv, RuntimeStep
  PROVE  QueueInv'
<1>1. TypeOK'
  BY RuntimeType DEF QueueInv
<1> USE DEF threadVars, transVars
<1>2. CASE Dispatch
  <2>1. /\ queue # <<>> /\ current = NoThread
        /\ current' = Head(queue) /\ queue' = Tail(queue)
        /\ UNCHANGED <<state, suspended, blockedOn, waiters, label, binding>>
    BY <1>2 DEF Dispatch, Idle
  <2>2. /\ Head(queue) \in Thread /\ Head(queue) \in Queued(queue)
        /\ Queued(queue') = Queued(queue) \ {Head(queue)}
        /\ NoDuplicates(queue')
    BY <2>1, TailQueued DEF QueueInv, TypeOK, RunQueueExact
  <2>3. RunQueueExact'
    <3>1. current' \in Thread /\ current' \in Queued(queue)
      BY <2>1, <2>2
    <3>2. state'[current'] = "RUNNABLE" /\ ~suspended'[current']
      BY <2>1, <3>1 DEF QueueInv, RunQueueExact
    <3>3. \A u \in Thread : u \in Queued(queue') <=>
            state'[u] = "RUNNABLE" /\ ~suspended'[u] /\ u # current'
      BY <2>1, <2>2, ThreadAssumption DEF QueueInv, RunQueueExact
    <3> QED BY <2>2, <3>2, <3>3 DEF RunQueueExact
  <2>4. WaitQueueExact'
    BY <2>1, WaitFrame
  <2> QED BY <1>1, <2>1, <2>3, <2>4 DEF QueueInv, BindingTargets
<1>3. CASE ScheduleWaitingThread
  <2> DEFINE x == binding.wake
             u == Head(waiters[x])
             q == Tail(waiters[x])
  <2>1. /\ x \in Transient /\ waiters[x] # <<>>
        /\ waiters' = [waiters EXCEPT ![x] = q] /\ WakeupThread(u)
        /\ UNCHANGED <<suspended, current, label, binding>>
    BY <1>3 DEF ScheduleWaitingThread
  <2>2. /\ u \in Thread /\ u \in Queued(waiters[x])
        /\ Queued(q) = Queued(waiters[x]) \ {u} /\ NoDuplicates(q)
    BY <2>1, TailQueued DEF QueueInv, TypeOK, WaitQueueExact
  <2> HIDE DEF x, u, q
  <2>3. RunQueueExact' /\ WaitQueueExact'
    BY <2>1, <2>2, Woken
  <2>4. BindingTargets' /\ \A v \in Thread : state'[v] = "FREE" => ~suspended'[v]
    BY <2>1, <2>2 DEF QueueInv, TypeOK, BindingTargets, WakeupThread
  <2> QED BY <1>1, <2>3, <2>4 DEF QueueInv
<1>4. CASE FinishBind
  <2>1. /\ UNCHANGED <<state, suspended, blockedOn, waiters, queue, current>>
        /\ binding.wake \in Transient => waiters[binding.wake] = <<>>
        /\ \A y \in Transient \ binding.targets : label'[y] = label[y]
        /\ binding' = NoBinding
    BY <1>4 DEF FinishBind, Become
  <2>2. Queued(<<>>) = {}
    BY DEF Queued
  <2>3. ASSUME NEW t \in Thread, state[t] = "BLOCKED"
        PROVE  blockedOn[t] \in Transient /\ label'[blockedOn[t]] = "FUTURE"
    <3>1. /\ blockedOn[t] \in Transient /\ label[blockedOn[t]] = "FUTURE"
          /\ t \in Queued(waiters[blockedOn[t]])
      BY <2>3 DEF QueueInv, WaitQueueExact
    <3>2. blockedOn[t] \notin binding.targets
      BY <2>1, <2>2, <3>1 DEF QueueInv, BindingTargets
    <3> QED BY <2>1, <3>1, <3>2
  <2>4. WaitQueueExact'
    <3>1. \A y \in Transient : NoDuplicates(waiters'[y])
      BY <2>1 DEF QueueInv, WaitQueueExact
    <3>2. \A y \in Transient, t \in Thread :
            t \in Queued(waiters'[y]) <=> state'[t] = "BLOCKED" /\ blockedOn'[t] = y
      BY <2>1 DEF QueueInv, WaitQueueExact
    <3>3. \A t \in Thread : state'[t] = "BLOCKED" =>
            blockedOn'[t] \in Transient /\ label'[blockedOn'[t]] = "FUTURE"
      BY <2>1, <2>3
    <3> QED BY <3>1, <3>2, <3>3 DEF WaitQueueExact
  <2>5. RunQueueExact'
    BY <2>1 DEF QueueInv, RunQueueExact, Queued, NoDuplicates
  <2>6. BindingTargets'
    BY <2>1 DEF BindingTargets, NoBinding
  <2> QED BY <1>1, <2>1, <2>4, <2>5, <2>6 DEF QueueInv
<1>5. ASSUME NEW x \in Transient, NEW v \in Value, BindExternal(x, v)
      PROVE  QueueInv'
  <2>1. Quiet /\ BindingTargets'
    BY <1>5 DEF BindExternal, Bind, Quiet, BindingTargets
  <2> QED BY <1>1, <2>1, QuietStep
<1>6. ASSUME NEW n \in Thread, SignalThread(n)
      PROVE  QueueInv'
  <2>1. /\ NewThread(n, NoWord) /\ state' = [state EXCEPT ![n] = "RUNNABLE"]
        /\ UNCHANGED <<suspended, blockedOn, waiters, current, binding, label>>
    BY <1>6 DEF SignalThread
  <2>2. RunQueueExact' /\ WaitQueueExact'
    BY <2>1, NewThreadQueues
  <2>3. BindingTargets' /\ \A u \in Thread : state'[u] = "FREE" => ~suspended'[u]
    BY <2>1 DEF QueueInv, TypeOK, BindingTargets
  <2> QED BY <1>1, <2>2, <2>3 DEF QueueInv
<1> QED BY <1>2, <1>3, <1>4, <1>5, <1>6 DEF RuntimeStep

(* The main thread is queued at the start, and nothing waits. *)
LEMMA QueuesInit == Init => QueueInv
<1> SUFFICES ASSUME Init PROVE QueueInv
  OBVIOUS
<1>1. TypeOK
  BY InitType
<1>2. PICK main \in Thread : state = [t \in Thread |-> IF t = main THEN "RUNNABLE" ELSE "FREE"]
                             /\ queue = <<main>>
  BY DEF Init
<1>3. NoDuplicates(queue) /\ Queued(queue) = {main}
  BY <1>2 DEF NoDuplicates, Queued
<1>4. RunQueueExact
  BY <1>2, <1>3, ThreadAssumption DEF Init, RunQueueExact
<1>5. \A x \in Transient : NoDuplicates(waiters[x]) /\ Queued(waiters[x]) = {}
  <2>1. NoDuplicates(<<>>) /\ Queued(<<>>) = {}
    BY DEF NoDuplicates, Queued
  <2> QED BY <2>1 DEF Init
<1>6. WaitQueueExact
  BY <1>2, <1>5 DEF WaitQueueExact
<1> QED BY <1>1, <1>4, <1>6 DEF QueueInv, BindingTargets, Init, NoBinding

(* Every step of every program preserves the queue invariant. *)
LEMMA QueuesStep == QueueInv /\ [Next]_vars => QueueInv'
<1>1. ASSUME QueueInv, UNCHANGED vars PROVE QueueInv'
  <2>1. TypeOK'
    BY <1>1 DEF vars, threadVars, transVars, TypeOK, QueueInv
  <2>2. Quiet /\ BindingTargets'
    BY <1>1 DEF vars, threadVars, transVars, Quiet, BindingTargets, QueueInv
  <2> QED BY <1>1, <2>1, <2>2, QuietStep
<1> QED BY <1>1, ThreadQueues, RuntimeQueues DEF Next

(* The queue invariant holds in every state of every program. *)
THEOREM QueuesInvariant == Spec => []QueueInv
  BY QueuesInit, QueuesStep, PTL DEF Spec

(* No thread is ever lost to the scheduler, queued twice, or run when it may not. *)
THEOREM RunQueueCorrect == Spec => []RunQueueExact
<1>1. QueueInv => RunQueueExact
  BY DEF QueueInv
<1> QED BY <1>1, QueuesInvariant, PTL

(* No wake-up is ever lost: a thread waits only for what is still unresolved. *)
THEOREM WaitQueueCorrect == Spec => []WaitQueueExact
<1>1. QueueInv => WaitQueueExact
  BY DEF QueueInv
<1> QED BY <1>1, QueuesInvariant, PTL

-----------------------------------------------------------------------------
(***************************************************************************)
(* Proofs about the transients of Scheduler: who resolves a future, that a *)
(* resolved transient stays as it is, and that references lead to words.   *)
(*                                                                         *)
(* Every step has one of a few effects on the transients (Effect below);   *)
(* the invariants are shown to be preserved once for each effect.          *)
(***************************************************************************)
(* The invariants. *)

(* Party y, of kind k, is going to resolve x: the members of Resolvers(x). *)
Claim(k, y, x) ==
  \/ k = "thread" /\ y \in Thread /\ binder[y] = x
  \/ k = "hole" /\ y \in Transient \ binding.targets /\ label[y] = "HOLE" /\ arg[y] = x
  \/ k = "promise" /\ y = x /\ promise[x] = "open"
  \/ k = "runtime" /\ y = x /\ x \in external
  \/ k = "binding" /\ y = x /\ x \in binding.targets

(* x has one party, and no other. *)
Unique(x) == \E k, y : Claim(k, y, x) /\ \A j, z : Claim(j, z, x) => j = k /\ z = y

(* Only an unresolved future has a party, and it has one. *)
Settled(x) ==
  /\ label[x] = "FUTURE" => Unique(x)
  /\ \A k, y : Claim(k, y, x) /\ k # "binding" => label[x] = "FUTURE"
  /\ x \in binding.targets => label[x] \in {"FUTURE", "HOLE"}

(* A thread with a BindFutureFrame has not ended; a new thread has its first task. *)
Lives(t) ==
  /\ binder[t] # NoWord => state[t] \in {"RUNNABLE", "BLOCKED"} /\ task[t] # EndTask
  /\ state[t] = "FREE" => task[t] = RunTask

(* What is being bound becomes a reference or a failed future. *)
BindingLabel == binding = NoBinding \/ binding.label \in {"REF", "CANCELLED"}

(* The inductive invariant behind OneResolver and SingleAssignment. *)
ResolverInv ==
  /\ QueueInv
  /\ \A x \in Transient : Settled(x)
  /\ \A t \in Thread : Lives(t)
  /\ BindingLabel

(* The argument of a reference is a word of the program, and it exists. *)
RefArgs == \A x \in Transient : IsRef(x) => arg[x] \in LiveWord

(* a may be stored in the transients X: it is the end of a chain that avoids X. *)
GoodArg(X, a) == a \in LiveWord \ X /\ ~IsRef(a)

GoodBinding == binding.label = "REF" => GoodArg(binding.targets, binding.arg)

(* The inductive invariant behind RefsResolve. *)
RefInv ==
  /\ ResolverInv
  /\ RefArgs
  /\ RefsResolve
  /\ GoodBinding

-----------------------------------------------------------------------------
(* The effects of a step on the transients. *)

(* Nobody's claim changes. *)
Same == UNCHANGED <<label, arg, promise, external, binder, binding>>

(* Byneed, Hole.hole: a new transient that nobody has to resolve yet. *)
Allocates(x) ==
  /\ binding = NoBinding
  /\ label[x] = "FREE"
  /\ \E l \in {"BYNEED", "HOLE"} : label' = [label EXCEPT ![x] = l]
  /\ arg' = [arg EXCEPT ![x] = NoWord]
  /\ UNCHANGED <<promise, external, binder, binding>>

(* x becomes a future: its argument is a new wait queue. *)
Becomes(x) ==
  /\ binding = NoBinding
  /\ label[x] \in {"FREE", "BYNEED"}
  /\ label' = [label EXCEPT ![x] = "FUTURE"]
  /\ arg' = [arg EXCEPT ![x] = NoWord] \/ arg' = arg
  /\ UNCHANGED binding

ForThread(x, n) == /\ Becomes(x)
                   /\ binder[n] = NoWord
                   /\ binder' = [binder EXCEPT ![n] = x]
                   /\ UNCHANGED <<promise, external>>

ForPromise(x) == /\ Becomes(x)
                 /\ promise' = [promise EXCEPT ![x] = "open"]
                 /\ UNCHANGED <<external, binder>>

ForRuntime(x) == /\ Becomes(x)
                 /\ external' = external \cup {x}
                 /\ UNCHANGED <<promise, binder>>

ForHole(x, h) == /\ binding = NoBinding
                 /\ label[x] = "FREE"
                 /\ label[h] = "HOLE" /\ arg[h] = NoWord
                 /\ label' = [label EXCEPT ![x] = "FUTURE"]
                 /\ arg' = [arg EXCEPT ![h] = x]
                 /\ UNCHANGED <<promise, external, binder, binding>>

(* The transients X are going to be replaced. *)
Starts(X) ==
  /\ binding = NoBinding
  /\ binding'.targets = X
  /\ binding'.label \in {"REF", "CANCELLED"}
  /\ ~CyclicFulfill /\ RefArgs /\ binding'.label = "REF" => GoodArg(X, binding'.arg)
  /\ UNCHANGED <<label, arg>>

FromThread(t) == /\ binder[t] # NoWord
                 /\ Starts({binder[t]})
                 /\ binder' = [binder EXCEPT ![t] = NoWord]
                 /\ UNCHANGED <<promise, external>>

FromPromise(p) == /\ promise[p] = "open"
                  /\ Starts({p})
                  /\ promise' = [promise EXCEPT ![p] = "done"]
                  /\ UNCHANGED <<external, binder>>

FromRuntime(x) == /\ x \in external
                  /\ Starts({x})
                  /\ external' = external \ {x}
                  /\ UNCHANGED <<promise, binder>>

FromHole(h) == /\ label[h] = "HOLE"
               /\ Starts(HoleTargets(h))
               /\ UNCHANGED <<promise, external, binder>>

(* The transients are replaced. *)
Finishes == /\ binding # NoBinding
            /\ Become(binding.targets, binding.label, binding.arg)
            /\ binding' = NoBinding
            /\ UNCHANGED <<promise, external, binder>>

Effect ==
  \/ Same \/ Finishes
  \/ \E x \in Transient : Allocates(x) \/ ForPromise(x) \/ ForRuntime(x)
                          \/ FromPromise(x) \/ FromRuntime(x) \/ FromHole(x)
  \/ \E x \in Transient, n \in Thread : ForThread(x, n)
  \/ \E x \in Transient, h \in Transient : ForHole(x, h)
  \/ \E t \in Thread : FromThread(t)

(* What a reference leads to exists, when the argument of each one does. *)
LEMMA DerefRef ==
  ASSUME RefArgs, NEW w \in LiveWord
  PROVE  Deref(w) \in LiveWord
<1>1. CASE IsRef(w) /\ \E v \in Word \cup {NoWord} : Denotes(w, v)
  <2> DEFINE d == CHOOSE v \in Word \cup {NoWord} : Denotes(w, v)
  <2>1. Denotes(w, d)
    BY <1>1
  <2>2. Deref(w) = d
    BY <1>1 DEF Deref
  <2> HIDE DEF d
  <2>3. LiveWord \in SUBSET (Word \cup {NoWord})
    BY DEF LiveWord
  <2>4. \A x \in LiveWord : IsRef(x) => arg[x] \in LiveWord
    BY DEF RefArgs, IsRef
  <2>5. d \in LiveWord
    BY <2>1, <2>3, <2>4 DEF Denotes
  <2> QED BY <2>2, <2>5
<1>2. CASE ~(IsRef(w) /\ \E v \in Word \cup {NoWord} : Denotes(w, v))
  BY <1>2 DEF Deref
<1> QED BY <1>1, <1>2

(* A primitive that raises or returns does nothing to the transients. *)
LEMMA RaisesSame ==
  ASSUME NEW t \in Thread, Raises(t) \/ Returns(t)
  PROVE  Same
  BY DEF Raises, Returns, transVars, Same

(* A thread that was never started has no BindFutureFrame. *)
LEMMA FreeBinder ==
  ASSUME NEW n \in Thread, Lives(n), state[n] = "FREE"
  PROVE  binder[n] = NoWord
  BY DEF Lives

(* A REQUEST creates a thread for a by-need future, and touches no other one. *)
LEMMA RequestEffect ==
  ASSUME NEW t \in Thread, NEW w \in Word, NEW c, Request(t, w, c),
         \A n \in Thread : Lives(n), binding = NoBinding
  PROVE  Effect
<1> DEFINE x == Deref(w)
<1>1. x \in Transient
  BY DEF Request
<1> HIDE DEF x
<1>2. CASE RequestRaises(t, x)
  BY <1>2, RaisesSame DEF RequestRaises, Effect
<1>3. CASE RequestBlocks(t, x, c)
  BY <1>3 DEF RequestBlocks, Same, Effect
<1>4. CASE RequestByneed(t, x, c)
  <2>1. PICK n \in Thread : NewThread(n, x)
    BY <1>4 DEF RequestByneed
  <2>2. binder[n] = NoWord /\ binder' = [binder EXCEPT ![n] = x]
    BY <2>1, FreeBinder DEF NewThread
  <2>3. Becomes(x) /\ UNCHANGED <<promise, external>>
    BY <1>4 DEF RequestByneed, Becomes
  <2> QED BY <1>1, <2>2, <2>3 DEF ForThread, Effect
<1> QED BY <1>2, <1>3, <1>4 DEF Request, x

(* Every step of a thread has one of the effects. *)
LEMMA ThreadEffect ==
  ASSUME TypeOK, \A n \in Thread : Lives(n), NEW t \in Thread, ThreadStep(t)
  PROVE  Effect
<1> USE DEF threadVars, transVars
<1>0. \A c : Performs(t, c) => binding = NoBinding
  BY DEF Performs, Executes
<1>1. CASE Preempt(t) \/ Terminate(t) \/ SuspendSelf(t) \/ HandleByEmptyTask(t)
  <2>1. Same
    BY <1>1 DEF Preempt, Terminate, SuspendSelf, HandleByEmptyTask, Same
  <2> QED BY <2>1 DEF Effect
<1>2. CASE Raise(t) \/ Handle(t)
  BY <1>2, RaisesSame DEF Raise, Handle, Effect
<1>3. CASE HandleByBinder(t)
  <2>1. binding = NoBinding
    BY <1>3 DEF HandleByBinder, Executes
  <2>2. FromThread(t)
    BY <1>3, <2>1 DEF HandleByBinder, Bind, FromThread, Starts
  <2> QED BY <2>2 DEF Effect
<1>4. ASSUME NEW x \in Transient,
             Byneed(t, x) \/ HoleHole(t, x) \/ PromisePromise(t, x) \/ NewExternal(t, x)
      PROVE  Effect
  <2>1. CASE Byneed(t, x) \/ HoleHole(t, x)
    BY <2>1 DEF Byneed, HoleHole, Executes, Alloc, Allocates, Effect
  <2>2. CASE PromisePromise(t, x)
    BY <2>2 DEF PromisePromise, Executes, Alloc, ForPromise, Becomes, Effect
  <2>3. CASE NewExternal(t, x)
    BY <2>3 DEF NewExternal, Executes, Alloc, ForRuntime, Becomes, Effect
  <2> QED BY <1>4, <2>1, <2>2, <2>3
<1>5. ASSUME NEW w \in LiveWord, Return(t, w)
      PROVE  Effect
  <2>1. CASE binder[t] = NoWord
    <3>1. binder' = binder
      BY <1>5, <2>1 DEF Return, TypeOK
    <3> QED BY <1>5, <2>1, <3>1 DEF Return, Same, Effect
  <2>2. CASE binder[t] # NoWord
    <3>1. binding = NoBinding
      BY <1>5 DEF Return, Executes
    <3>2. RefArgs => Deref(w) \in LiveWord
      BY DerefRef
    <3>3. FromThread(t)
      BY <1>5, <2>2, <3>1, <3>2 DEF Return, Bind, FromThread, Starts, GoodArg
    <3> QED BY <3>3 DEF Effect
  <2> QED BY <2>1, <2>2
<1>6. ASSUME NEW w \in Word, Await(t, w)
      PROVE  Effect
  <2>1. CASE Request(t, w, Call("await", NoWord, w))
    BY <1>0, <1>6, <2>1, RequestEffect DEF Await
  <2>2. CASE Returns(t)
    BY <2>2, RaisesSame DEF Effect
  <2> QED BY <1>6, <2>1, <2>2 DEF Await
<1>7. ASSUME NEW x \in Transient, NEW n \in Thread, Concur(t, x, n)
      PROVE  Effect
  <2>1. binder[n] = NoWord
    BY <1>7, FreeBinder DEF Concur, NewThread
  <2>2. ForThread(x, n)
    BY <1>7, <2>1 DEF Concur, Executes, NewThread, Alloc, ForThread, Becomes
  <2> QED BY <2>2 DEF Effect
<1>8. ASSUME NEW w \in Word, NEW x \in Transient, HoleFuture(t, w, x)
      PROVE  Effect
  BY <1>8 DEF HoleFuture, Executes, IsHole, ForHole, Effect
<1>9. ASSUME NEW w \in Word, NEW v \in LiveWord, HoleFill(t, w, v)
      PROVE  Effect
  <2>1. CASE Raises(t)
    BY <2>1, RaisesSame DEF Effect
  <2>2. CASE IsHole(w) /\ Fill(Deref(w), Deref(v))
    <3>1. binding = NoBinding
      BY <1>9 DEF HoleFill, Executes
    <3>2. RefArgs => Deref(v) \in LiveWord
      BY DerefRef
    <3>3. Deref(w) \in Transient /\ FromHole(Deref(w))
      BY <2>2, <3>1, <3>2 DEF IsHole, Fill, Bind, FromHole, Starts, GoodArg
    <3> QED BY <3>3 DEF Effect
  <2> QED BY <1>9, <2>1, <2>2 DEF HoleFill
<1>10. ASSUME NEW w \in Word, NEW v \in Word, HoleFail(t, w, v)
       PROVE  Effect
  <2>1. CASE Request(t, v, Call("holeFail", w, v))
    BY <1>0, <1>10, <2>1, RequestEffect DEF HoleFail
  <2>2. CASE Raises(t)
    BY <2>2, RaisesSame DEF Effect
  <2>3. CASE IsHole(w) /\ Fail(t, Deref(w))
    <3>1. binding = NoBinding
      BY <1>10 DEF HoleFail, Performs, Executes
    <3>2. Deref(w) \in Transient /\ FromHole(Deref(w))
      BY <2>3, <3>1 DEF IsHole, Fail, Bind, FromHole, Starts
    <3> QED BY <3>2 DEF Effect
  <2> QED BY <1>10, <2>1, <2>2, <2>3 DEF HoleFail
<1>11. ASSUME NEW p \in Transient, NEW v \in LiveWord, PromiseFulfill(t, p, v)
       PROVE  Effect
  <2>1. CASE Raises(t)
    BY <2>1, RaisesSame DEF Effect
  <2>2. CASE /\ ~IsRef(Deref(v)) /\ (Deref(v) = p => CyclicFulfill)
             /\ Settle(t, p, "REF", Stored(p, v))
    <3>1. binding = NoBinding
      BY <1>11 DEF PromiseFulfill, Executes
    <3>2. RefArgs => Deref(v) \in LiveWord
      BY DerefRef
    <3>3. FromPromise(p)
      BY <2>2, <3>1, <3>2 DEF Settle, Bind, Stored, FromPromise, Starts, GoodArg
    <3> QED BY <3>3 DEF Effect
  <2> QED BY <1>11, <2>1, <2>2 DEF PromiseFulfill
<1>12. ASSUME NEW p \in Transient, NEW v \in Word, PromiseFail(t, p, v)
       PROVE  Effect
  <2>1. CASE Request(t, v, Call("promiseFail", p, v))
    BY <1>0, <1>12, <2>1, RequestEffect DEF PromiseFail
  <2>2. CASE Raises(t)
    BY <2>2, RaisesSame DEF Effect
  <2>3. CASE Settle(t, p, "CANCELLED", NoWord)
    <3>1. binding = NoBinding
      BY <1>12 DEF PromiseFail, Performs, Executes
    <3>2. FromPromise(p)
      BY <2>3, <3>1 DEF Settle, Bind, FromPromise, Starts
    <3> QED BY <3>2 DEF Effect
  <2> QED BY <1>12, <2>1, <2>2, <2>3 DEF PromiseFail
<1>13. ASSUME NEW u \in Thread, SuspendThread(t, u) \/ ResumeThread(t, u)
       PROVE  Effect
  <2>1. Same
    BY <1>13 DEF SuspendThread, ResumeThread, Same
  <2> QED BY <2>1 DEF Effect
<1>14. ASSUME NEW u \in Thread, NEW w \in Word, RaiseIn(t, u, w)
       PROVE  Effect
  <2>1. CASE Request(t, w, Call("raiseIn", u, w))
    BY <1>0, <1>14, <2>1, RequestEffect DEF RaiseIn
  <2>2. CASE Raises(t)
    BY <2>2, RaisesSame DEF Effect
  <2>3. CASE RaiseInOther(t, u)
    <3>1. Same
      BY <2>3 DEF RaiseInOther, Same
    <3> QED BY <3>1 DEF Effect
  <2> QED BY <1>14, <2>1, <2>2, <2>3 DEF RaiseIn
<1> QED
  BY <1>1, <1>2, <1>3, <1>4, <1>5, <1>6, <1>7, <1>8, <1>9, <1>10, <1>11, <1>12, <1>13,
     <1>14 DEF ThreadStep, LiveWord

(* So has every step of the runtime, and a step that changes nothing. *)
LEMMA StepEffect ==
  ASSUME ResolverInv, [Next]_vars
  PROVE  Effect
<1> USE DEF threadVars, transVars
<1>1. TypeOK /\ \A n \in Thread : Lives(n)
  BY DEF ResolverInv, QueueInv
<1>2. CASE UNCHANGED vars \/ Dispatch \/ ScheduleWaitingThread
  <2>1. Same
    BY <1>2 DEF vars, Dispatch, ScheduleWaitingThread, Same
  <2> QED BY <2>1 DEF Effect
<1>3. CASE FinishBind
  BY <1>3 DEF FinishBind, Finishes, Effect
<1>4. ASSUME NEW x \in Transient, NEW v \in Value, BindExternal(x, v)
      PROVE  Effect
  <2>1. v \in LiveWord /\ v # x /\ ~IsRef(v)
    BY WordAssumption DEF LiveWord, Word, IsRef
  <2>2. FromRuntime(x)
    BY <1>4, <2>1 DEF BindExternal, Idle, Bind, FromRuntime, Starts, GoodArg
  <2> QED BY <2>2 DEF Effect
<1>5. ASSUME NEW n \in Thread, SignalThread(n)
      PROVE  Effect
  <2>1. binder[n] = NoWord /\ binder' = [binder EXCEPT ![n] = NoWord]
    BY <1>1, <1>5, FreeBinder DEF SignalThread, NewThread
  <2>2. binder' = binder
    BY <1>1, <2>1 DEF TypeOK
  <2> QED BY <1>5, <2>2 DEF SignalThread, Same, Effect
<1> QED
  BY <1>1, <1>2, <1>3, <1>4, <1>5, ThreadEffect DEF Next, RuntimeStep

-----------------------------------------------------------------------------
(* The effects preserve the invariant. *)

(* The parties of x are the same as before. *)
LEMMA KeepsSettled ==
  ASSUME NEW x, Settled(x), label'[x] = "FUTURE" <=> label[x] = "FUTURE",
         \A k, y : Claim(k, y, x)' <=> Claim(k, y, x),
         x \in binding'.targets => x \in binding.targets /\ label'[x] = label[x]
  PROVE  Settled(x)'
<1>1. label'[x] = "FUTURE" => Unique(x)'
  BY SMT DEF Settled, Unique
<1>2. \A k, y : Claim(k, y, x)' /\ k # "binding" => label'[x] = "FUTURE"
  BY Zenon DEF Settled
<1>3. x \in binding'.targets => label'[x] \in {"FUTURE", "HOLE"}
  BY Zenon DEF Settled
<1> QED BY <1>1, <1>2, <1>3 DEF Settled

(* x has a party now, and it is a future. *)
LEMMA GetsSettled ==
  ASSUME NEW x, label'[x] = "FUTURE", NEW k, NEW y,
         \A j, z : Claim(j, z, x)' <=> j = k /\ z = y
  PROVE  Settled(x)'
<1>1. Unique(x)'
  BY SMT DEF Unique
<1> QED BY <1>1 DEF Settled

(* x is no future, and only a binding may be there for it. *)
LEMMA NoneSettled ==
  ASSUME NEW x, label'[x] # "FUTURE", x \in binding'.targets => label'[x] = "HOLE",
         \A k, y : Claim(k, y, x)' => k = "binding"
  PROVE  Settled(x)'
  BY DEF Settled

(* A transient that is not a future, and not being bound, has no party. *)
LEMMA NoClaim ==
  ASSUME NEW x, Settled(x), label[x] # "FUTURE", x \notin binding.targets
  PROVE  \A k, y : ~Claim(k, y, x)
<1> SUFFICES ASSUME NEW k, NEW y, Claim(k, y, x) PROVE FALSE
  OBVIOUS
<1>1. k # "binding"
  BY DEF Claim
<1> QED BY <1>1 DEF Settled

(* Nothing is touched. *)
LEMMA SameSettled ==
  ASSUME \A x \in Transient : Settled(x), Same
  PROVE  \A x \in Transient : Settled(x)'
<1> SUFFICES ASSUME NEW x \in Transient PROVE Settled(x)'
  OBVIOUS
<1>1. \A k, y : Claim(k, y, x)' <=> Claim(k, y, x)
  BY DEF Same, Claim
<1> QED BY <1>1, KeepsSettled DEF Same

(* Byneed, Hole.hole *)
LEMMA AllocatesSettled ==
  ASSUME TypeOK, \A x \in Transient : Settled(x),
         NEW a \in Transient, Allocates(a)
  PROVE  \A x \in Transient : Settled(x)'
<1> SUFFICES ASSUME NEW x \in Transient PROVE Settled(x)'
  OBVIOUS
<1>1. /\ label'[a] \in {"BYNEED", "HOLE"} /\ arg'[a] = NoWord
      /\ \A y \in Transient \ {a} : label'[y] = label[y] /\ arg'[y] = arg[y]
      /\ label[a] = "FREE"
      /\ UNCHANGED <<promise, external, binder, binding>>
      /\ x # NoWord
      /\ binding.targets = {}
  BY NothingBound, WordAssumption DEF Allocates, TypeOK
<1>2. \A k, y : Claim(k, y, x)' <=> Claim(k, y, x)
  BY <1>1 DEF Claim
<1>3. label'[x] = "FUTURE" <=> label[x] = "FUTURE"
  BY <1>1
<1> QED BY <1>1, <1>2, <1>3, KeepsSettled

(* Concur and the request of a by-need future *)
LEMMA ForThreadSettled ==
  ASSUME TypeOK, \A x \in Transient : Settled(x),
         NEW a \in Transient, NEW n \in Thread, ForThread(a, n)
  PROVE  \A x \in Transient : Settled(x)'
<1> SUFFICES ASSUME NEW x \in Transient PROVE Settled(x)'
  OBVIOUS
<1>1. /\ label'[a] = "FUTURE" /\ label[a] \in {"FREE", "BYNEED"}
      /\ \A y \in Transient \ {a} : label'[y] = label[y] /\ arg'[y] = arg[y]
      /\ binder[n] = NoWord /\ binder'[n] = a
      /\ \A u \in Thread \ {n} : binder'[u] = binder[u]
      /\ UNCHANGED <<promise, external, binding>>
      /\ x # NoWord
      /\ binding.targets = {}
  BY NothingBound, WordAssumption DEF ForThread, Becomes, TypeOK
<1>2. CASE x = a
  <2>1. \A j, z : ~Claim(j, z, a)
    BY <1>1, NoClaim
  <2>2. \A j, z : Claim(j, z, a)' <=> j = "thread" /\ z = n
    BY <1>1, <2>1 DEF Claim
  <2>3. label'[a] = "FUTURE"
    BY <1>1
  <2>4. Settled(a)'
    BY ONLY <2>2, <2>3, GetsSettled
  <2> QED BY <1>2, <2>4
<1>3. CASE x # a
  <2>1. \A k, y : Claim(k, y, x)' <=> Claim(k, y, x)
    BY <1>1, <1>3 DEF Claim
  <2> QED BY <1>1, <1>3, <2>1, KeepsSettled
<1> QED BY <1>2, <1>3

(* Promise.promise *)
LEMMA ForPromiseSettled ==
  ASSUME TypeOK, \A x \in Transient : Settled(x),
         NEW a \in Transient, ForPromise(a)
  PROVE  \A x \in Transient : Settled(x)'
<1> SUFFICES ASSUME NEW x \in Transient PROVE Settled(x)'
  OBVIOUS
<1>1. /\ label'[a] = "FUTURE" /\ label[a] \in {"FREE", "BYNEED"}
      /\ \A y \in Transient \ {a} : /\ label'[y] = label[y] /\ arg'[y] = arg[y]
                                    /\ promise'[y] = promise[y]
      /\ promise'[a] = "open"
      /\ UNCHANGED <<external, binder, binding>>
      /\ binding.targets = {}
  BY NothingBound DEF ForPromise, Becomes, TypeOK
<1>2. CASE x = a
  <2>1. \A j, z : ~Claim(j, z, a)
    BY <1>1, NoClaim
  <2>2. \A j, z : Claim(j, z, a)' <=> j = "promise" /\ z = a
    BY <1>1, <2>1 DEF Claim
  <2>3. label'[a] = "FUTURE"
    BY <1>1
  <2>4. Settled(a)'
    BY ONLY <2>2, <2>3, GetsSettled
  <2> QED BY <1>2, <2>4
<1>3. CASE x # a
  <2>1. \A k, y : Claim(k, y, x)' <=> Claim(k, y, x)
    BY <1>1, <1>3 DEF Claim
  <2> QED BY <1>1, <1>3, <2>1, KeepsSettled
<1> QED BY <1>2, <1>3

(* The future of an alarm or of a descriptor *)
LEMMA ForRuntimeSettled ==
  ASSUME TypeOK, \A x \in Transient : Settled(x),
         NEW a \in Transient, ForRuntime(a)
  PROVE  \A x \in Transient : Settled(x)'
<1> SUFFICES ASSUME NEW x \in Transient PROVE Settled(x)'
  OBVIOUS
<1>1. /\ label'[a] = "FUTURE" /\ label[a] \in {"FREE", "BYNEED"}
      /\ \A y \in Transient \ {a} : label'[y] = label[y] /\ arg'[y] = arg[y]
      /\ external' = external \cup {a}
      /\ UNCHANGED <<promise, binder, binding>>
      /\ binding.targets = {}
  BY NothingBound DEF ForRuntime, Becomes, TypeOK
<1>2. CASE x = a
  <2>1. \A j, z : ~Claim(j, z, a)
    BY <1>1, NoClaim
  <2>2. \A j, z : Claim(j, z, a)' <=> j = "runtime" /\ z = a
    BY <1>1, <2>1 DEF Claim
  <2>3. label'[a] = "FUTURE"
    BY <1>1
  <2>4. Settled(a)'
    BY ONLY <2>2, <2>3, GetsSettled
  <2> QED BY <1>2, <2>4
<1>3. CASE x # a
  <2>1. \A k, y : Claim(k, y, x)' <=> Claim(k, y, x)
    BY <1>1, <1>3 DEF Claim
  <2> QED BY <1>1, <1>3, <2>1, KeepsSettled
<1> QED BY <1>2, <1>3

(* Hole.future *)
LEMMA ForHoleSettled ==
  ASSUME TypeOK, \A x \in Transient : Settled(x),
         NEW a \in Transient, NEW h \in Transient, ForHole(a, h)
  PROVE  \A x \in Transient : Settled(x)'
<1> SUFFICES ASSUME NEW x \in Transient PROVE Settled(x)'
  OBVIOUS
<1>1. /\ label'[a] = "FUTURE" /\ label[a] = "FREE" /\ label[h] = "HOLE" /\ a # h
      /\ \A y \in Transient \ {a} : label'[y] = label[y]
      /\ \A y \in Transient \ {h} : arg'[y] = arg[y]
      /\ arg[h] = NoWord /\ arg'[h] = a
      /\ UNCHANGED <<promise, external, binder, binding>>
      /\ x # NoWord
      /\ binding.targets = {}
  BY NothingBound, WordAssumption DEF ForHole, TypeOK
<1>2. CASE x = a
  <2>1. \A j, z : ~Claim(j, z, a)
    BY <1>1, NoClaim
  <2>2. \A j, z : Claim(j, z, a)' <=> j = "hole" /\ z = h
    BY <1>1, <2>1 DEF Claim
  <2>3. label'[a] = "FUTURE"
    BY <1>1
  <2>4. Settled(a)'
    BY ONLY <2>2, <2>3, GetsSettled
  <2> QED BY <1>2, <2>4
<1>3. CASE x # a
  <2>1. \A k, y : Claim(k, y, x)' <=> Claim(k, y, x)
    BY <1>1, <1>3 DEF Claim
  <2> QED BY <1>1, <1>3, <2>1, KeepsSettled
<1> QED BY <1>2, <1>3

(***************************************************************************)
(* A binding begins: it takes the place of the one party of the future,    *)
(* which gives up its claim, and may take a hole with it.                  *)
(***************************************************************************)
LEMMA StartsSettled ==
  ASSUME \A x \in Transient : Settled(x), NEW X \in SUBSET Transient, Starts(X),
         NEW j, NEW z, j # "binding",
         \A x \in X : label[x] = "HOLE" \/ Claim(j, z, x),
         \A x \in Transient : \A k, y :
           Claim(k, y, x)' <=> \/ Claim(k, y, x) /\ ~(k = j /\ y = z /\ x \in X)
                               \/ k = "binding" /\ y = x /\ x \in X
  PROVE  \A x \in Transient : Settled(x)'
<1> SUFFICES ASSUME NEW x \in Transient PROVE Settled(x)'
  OBVIOUS
<1>1. label' = label /\ binding.targets = {} /\ binding'.targets = X
  BY NothingBound DEF Starts
<1>2. CASE x \notin X
  BY <1>1, <1>2, KeepsSettled
<1>3. CASE x \in X /\ label[x] = "HOLE"
  <2>1. \A k, y : ~Claim(k, y, x)
    BY <1>1, <1>3, NoClaim
  <2> QED BY <1>1, <1>3, <2>1, NoneSettled
<1>4. CASE x \in X /\ Claim(j, z, x)
  <2>1. label[x] = "FUTURE"
    BY <1>4 DEF Settled
  <2>2. \A k, y : Claim(k, y, x) => k = j /\ y = z
    BY <1>4, <2>1 DEF Settled, Unique
  <2>3. \A k, y : Claim(k, y, x)' <=> k = "binding" /\ y = x
    BY <1>4, <2>2
  <2> QED BY <1>1, <2>1, <2>3, GetsSettled
<1> QED BY <1>2, <1>3, <1>4

(* BindFutureWorker binds the future of its frame, which it has popped. *)
LEMMA FromThreadSettled ==
  ASSUME TypeOK, \A x \in Transient : Settled(x), NEW t \in Thread, FromThread(t)
  PROVE  \A x \in Transient : Settled(x)'
<1> DEFINE f == binder[t]
<1>1. f \in Transient /\ Starts({f})
  BY DEF FromThread, TypeOK
<1>2. /\ binder'[t] = NoWord /\ binder[t] = f
      /\ \A u \in Thread \ {t} : binder'[u] = binder[u]
      /\ UNCHANGED <<promise, external, label, arg>>
      /\ binding.targets = {} /\ binding'.targets = {f}
      /\ \A x \in Transient : x # NoWord
  BY NothingBound, WordAssumption DEF FromThread, Starts, TypeOK
<1> HIDE DEF f
<1>3. Claim("thread", t, f) /\ label[f] = "FUTURE"
  BY <1>1, <1>2 DEF Claim, Settled
<1>4. ASSUME NEW x \in Transient, NEW k, NEW y
      PROVE  Claim(k, y, x)' <=> \/ Claim(k, y, x) /\ ~(k = "thread" /\ y = t /\ x \in {f})
                                 \/ k = "binding" /\ y = x /\ x \in {f}
  BY <1>1, <1>2, <1>3 DEF Claim
<1> QED BY <1>1, <1>3, <1>4, StartsSettled

(* Promise::Fulfill and Promise::Fail set the flag. *)
LEMMA FromPromiseSettled ==
  ASSUME TypeOK, \A x \in Transient : Settled(x), NEW f \in Transient, FromPromise(f)
  PROVE  \A x \in Transient : Settled(x)'
<1>1. Starts({f})
  BY DEF FromPromise
<1>2. /\ promise[f] = "open" /\ promise'[f] = "done"
      /\ \A y \in Transient \ {f} : promise'[y] = promise[y]
      /\ UNCHANGED <<binder, external, label, arg>>
      /\ binding.targets = {} /\ binding'.targets = {f}
  BY NothingBound DEF FromPromise, Starts, TypeOK
<1>3. Claim("promise", f, f) /\ label[f] = "FUTURE"
  BY <1>2 DEF Claim, Settled
<1>4. ASSUME NEW x \in Transient, NEW k, NEW y
      PROVE  Claim(k, y, x)' <=> \/ Claim(k, y, x) /\ ~(k = "promise" /\ y = f /\ x \in {f})
                                 \/ k = "binding" /\ y = x /\ x \in {f}
  BY <1>2, <1>3 DEF Claim
<1> QED BY <1>1, <1>3, <1>4, StartsSettled

(* An alarm or a descriptor is taken off its list. *)
LEMMA FromRuntimeSettled ==
  ASSUME TypeOK, \A x \in Transient : Settled(x), NEW f \in Transient, FromRuntime(f)
  PROVE  \A x \in Transient : Settled(x)'
<1>1. Starts({f})
  BY DEF FromRuntime
<1>2. /\ f \in external /\ external' = external \ {f}
      /\ UNCHANGED <<binder, promise, label, arg>>
      /\ binding.targets = {} /\ binding'.targets = {f}
  BY NothingBound DEF FromRuntime, Starts
<1>3. Claim("runtime", f, f) /\ label[f] = "FUTURE"
  BY <1>2 DEF Claim, Settled
<1>4. ASSUME NEW x \in Transient, NEW k, NEW y
      PROVE  Claim(k, y, x)' <=> \/ Claim(k, y, x) /\ ~(k = "runtime" /\ y = f /\ x \in {f})
                                 \/ k = "binding" /\ y = x /\ x \in {f}
  BY <1>2, <1>3 DEF Claim
<1> QED BY <1>1, <1>3, <1>4, StartsSettled

(* Hole::Fill and Hole::Fail replace the hole together with its future. *)
LEMMA FromHoleSettled ==
  ASSUME TypeOK, \A x \in Transient : Settled(x), NEW h \in Transient, FromHole(h)
  PROVE  \A x \in Transient : Settled(x)'
<1> DEFINE X == HoleTargets(h)
<1>1. X \in SUBSET Transient /\ Starts(X) /\ h \in X
  BY DEF FromHole, HoleTargets
<1>2. /\ UNCHANGED <<binder, promise, external, label, arg>>
      /\ binding.targets = {} /\ binding'.targets = X /\ label[h] = "HOLE"
  BY NothingBound DEF FromHole, Starts
<1>3. \A x \in Transient : x \in X <=> x = h \/ x = arg[h]
  BY DEF HoleTargets
<1> HIDE DEF X
<1>4. \A x \in Transient : x = arg[h] => Claim("hole", h, x) /\ label[x] = "FUTURE"
  BY <1>2 DEF Claim, Settled
<1>5. \A y : y \in X => label[y] = "HOLE" \/ label[y] = "FUTURE"
  BY <1>1, <1>2, <1>3, <1>4
<1>6. \A y : y \in X /\ label[y] = "HOLE" => y = h
  BY <1>1, <1>3, <1>4
<1>7. ASSUME NEW x \in Transient, NEW k, NEW y
      PROVE  Claim(k, y, x)' <=> \/ Claim(k, y, x) /\ ~(k = "hole" /\ y = h /\ x \in X)
                                 \/ k = "binding" /\ y = x /\ x \in X
  <2>1. CASE k = "hole"
    <3>1. Claim(k, y, x)' <=> y \in Transient /\ y \notin X /\ label[y] = "HOLE" /\ arg[y] = x
      BY <1>2, <2>1 DEF Claim
    <3>2. Claim(k, y, x) <=> y \in Transient /\ label[y] = "HOLE" /\ arg[y] = x
      BY <1>2, <2>1 DEF Claim
    <3> QED BY <1>1, <1>3, <1>6, <2>1, <3>1, <3>2
  <2>2. CASE k # "hole"
    BY <1>2, <2>2 DEF Claim
  <2> QED BY <2>1, <2>2
<1>8. \A x \in X : label[x] = "HOLE" \/ Claim("hole", h, x)
  BY <1>1, <1>2, <1>3, <1>4
<1> QED BY <1>1, <1>7, <1>8, StartsSettled

(* Become resolves what was being bound: nobody is left with it. *)
LEMMA FinishesSettled ==
  ASSUME TypeOK, \A x \in Transient : Settled(x), BindingLabel, Finishes
  PROVE  \A x \in Transient : Settled(x)'
<1> SUFFICES ASSUME NEW x \in Transient PROVE Settled(x)'
  OBVIOUS
<1> DEFINE X == binding.targets
<1>1. /\ \A y \in Transient : y \in X => label'[y] \in {"REF", "CANCELLED"}
      /\ \A y \in Transient : y \notin X => label'[y] = label[y] /\ arg'[y] = arg[y]
      /\ binding'.targets = {}
      /\ UNCHANGED <<binder, promise, external>>
      /\ X \in SUBSET Transient
  BY NothingBound DEF Finishes, Become, BindingLabel, TypeOK, NoBinding
<1>2. \A k, y : Claim(k, y, x)' <=> Claim(k, y, x) /\ k # "binding"
  BY <1>1 DEF Claim
<1>3. CASE x \in X
  <2>1. \A k, y : Claim(k, y, x) => k = "binding"
    <3>1. Claim("binding", x, x)
      BY <1>3 DEF Claim
    <3>2. CASE label[x] = "FUTURE"
      BY <3>1, <3>2 DEF Settled, Unique
    <3>3. CASE label[x] # "FUTURE"
      BY <3>3 DEF Settled
    <3> QED BY <3>2, <3>3
  <2>2. label'[x] # "FUTURE"
    BY <1>1, <1>3
  <2> QED BY <1>1, <1>2, <2>1, <2>2, NoneSettled
<1>4. CASE x \notin X
  <2>1. \A k, y : Claim(k, y, x) => k # "binding"
    BY <1>4 DEF Claim
  <2>2. \A k, y : Claim(k, y, x)' <=> Claim(k, y, x)
    BY <1>2, <2>1
  <2> QED BY <1>1, <1>4, <2>2, KeepsSettled
<1> QED BY <1>3, <1>4

(* Every effect preserves that a future has one party. *)
LEMMA EffectSettled ==
  ASSUME ResolverInv, Effect
  PROVE  \A x \in Transient : Settled(x)'
<1>1. TypeOK /\ (\A x \in Transient : Settled(x)) /\ BindingLabel
  BY DEF ResolverInv, QueueInv
<1>2. CASE Same
  BY <1>1, <1>2, SameSettled
<1>3. CASE Finishes
  BY <1>1, <1>3, FinishesSettled
<1>4. ASSUME NEW x \in Transient, Allocates(x) \/ ForPromise(x) \/ ForRuntime(x)
      PROVE  \A y \in Transient : Settled(y)'
  BY <1>1, <1>4, AllocatesSettled, ForPromiseSettled, ForRuntimeSettled
<1>5. ASSUME NEW x \in Transient, FromPromise(x) \/ FromRuntime(x) \/ FromHole(x)
      PROVE  \A y \in Transient : Settled(y)'
  BY <1>1, <1>5, FromPromiseSettled, FromRuntimeSettled, FromHoleSettled
<1>6. ASSUME NEW x \in Transient, NEW n \in Thread, ForThread(x, n)
      PROVE  \A y \in Transient : Settled(y)'
  BY <1>1, <1>6, ForThreadSettled
<1>7. ASSUME NEW x \in Transient, NEW h \in Transient, ForHole(x, h)
      PROVE  \A y \in Transient : Settled(y)'
  BY <1>1, <1>7, ForHoleSettled
<1>8. ASSUME NEW t \in Thread, FromThread(t)
      PROVE  \A y \in Transient : Settled(y)'
  BY <1>1, <1>8, FromThreadSettled
<1> QED BY <1>2, <1>3, <1>4, <1>5, <1>6, <1>7, <1>8 DEF Effect

(* A binding that an effect leaves behind has its label. *)
LEMMA EffectLabel ==
  ASSUME ResolverInv, Effect
  PROVE  BindingLabel'
<1>1. CASE UNCHANGED binding
  BY <1>1 DEF ResolverInv, BindingLabel
<1>2. CASE binding'.label \in {"REF", "CANCELLED"} \/ binding' = NoBinding
  BY <1>2 DEF BindingLabel, NoBinding
<1> QED
  BY <1>1, <1>2 DEF Effect, Same, Finishes, Allocates, ForPromise, ForRuntime, ForThread,
     ForHole, Becomes, FromPromise, FromRuntime, FromHole, FromThread, Starts

-----------------------------------------------------------------------------
(* A thread keeps its BindFutureFrame until it ends or fails. *)

(* The tasks of a thread that has something to do are not the empty task. *)
LEMMA TaskNotEnd ==
  /\ RunTask # EndTask /\ RaiseTask # EndTask
  /\ \A o, w : /\ Call("await", o, w) # EndTask
               /\ Call("raiseIn", o, w) # EndTask
               /\ Call("holeFail", o, w) # EndTask
               /\ Call("promiseFail", o, w) # EndTask
  BY DEF RunTask, RaiseTask, EndTask, Call

(* A thread whose state, task and frame stay as they are lives on. *)
LEMMA LivesOn ==
  ASSUME NEW u, Lives(u), state'[u] = state[u], task'[u] = task[u], binder'[u] = binder[u]
  PROVE  Lives(u)'
  BY DEF Lives

(* So does one that is runnable or blocked and has a task. *)
LEMMA LivesWith ==
  ASSUME NEW u, state'[u] \in {"RUNNABLE", "BLOCKED"}, task'[u] # EndTask \/ binder'[u] = NoWord
  PROVE  Lives(u)'
  BY DEF Lives

(* Raising, returning. *)
LEMMA RaisesLives ==
  ASSUME TypeOK, \A n \in Thread : Lives(n), NEW t \in Thread, state[t] = "RUNNABLE",
         Raises(t) \/ Returns(t)
  PROVE  \A u \in Thread : Lives(u)'
<1>1. /\ task'[t] \in {RunTask, RaiseTask}
      /\ \A u \in Thread \ {t} : task'[u] = task[u]
      /\ UNCHANGED <<state, binder>>
  BY DEF Raises, Returns, Goes, TypeOK
<1>2. Lives(t)'
  BY <1>1, TaskNotEnd, LivesWith
<1> QED BY <1>1, <1>2, LivesOn

(* A REQUEST: the thread that blocks will execute c again. *)
LEMMA RequestLives ==
  ASSUME TypeOK, \A n \in Thread : Lives(n), NEW t \in Thread, state[t] = "RUNNABLE",
         NEW w, NEW c, c # EndTask, Request(t, w, c)
  PROVE  \A u \in Thread : Lives(u)'
<1> DEFINE x == Deref(w)
<1>1. x \in Transient
  BY DEF Request
<1> HIDE DEF x
<1>2. CASE RequestRaises(t, x)
  BY <1>2, RaisesLives DEF RequestRaises
<1>3. CASE RequestBlocks(t, x, c)
  <2>1. /\ task'[t] = c /\ state'[t] = "BLOCKED"
        /\ \A u \in Thread \ {t} : task'[u] = task[u] /\ state'[u] = state[u]
        /\ UNCHANGED binder
    BY <1>3 DEF RequestBlocks, Goes, TypeOK
  <2> QED BY <2>1, LivesOn, LivesWith
<1>4. CASE RequestByneed(t, x, c)
  <2>1. PICK n \in Thread :
          /\ NewThread(n, x)
          /\ state' = [state EXCEPT ![n] = "RUNNABLE", ![t] = "BLOCKED"]
    BY <1>4 DEF RequestByneed
  <2>2. n # t /\ task[n] = RunTask
    BY <2>1 DEF NewThread, Lives
  <2>3. /\ task'[t] = c /\ state'[t] = "BLOCKED"
        /\ task'[n] = RunTask /\ state'[n] = "RUNNABLE"
        /\ \A u \in Thread \ {t, n} : /\ task'[u] = task[u] /\ state'[u] = state[u]
                                      /\ binder'[u] = binder[u]
    BY <1>4, <2>1, <2>2 DEF RequestByneed, NewThread, Goes, TypeOK
  <2> QED BY <2>3, TaskNotEnd, LivesOn, LivesWith
<1> QED BY <1>2, <1>3, <1>4 DEF Request, x

(* Every step of a thread. *)
LEMMA ThreadLives ==
  ASSUME ResolverInv, NEW t \in Thread, ThreadStep(t)
  PROVE  \A u \in Thread : Lives(u)'
<1> USE DEF threadVars, transVars
<1>1. TypeOK /\ \A n \in Thread : Lives(n)
  BY DEF ResolverInv, QueueInv
<1>2. current = t
  BY DEF ThreadStep, Preempt, Terminate, Raise, SuspendSelf, Handle, HandleByBinder,
     HandleByEmptyTask, Byneed, HoleHole, PromisePromise, NewExternal, Return, Await,
     Concur, HoleFuture, HoleFill, HoleFail, PromiseFulfill, PromiseFail, SuspendThread,
     ResumeThread, RaiseIn, Performs, Executes
<1>3. state[t] = "RUNNABLE"
  BY <1>2, ExecutingThread DEF ResolverInv
<1>4. ASSUME UNCHANGED <<state, task, binder>>
      PROVE  \A u \in Thread : Lives(u)'
  BY <1>1, <1>4, LivesOn
<1>5. ASSUME Raises(t) \/ Returns(t)
      PROVE  \A u \in Thread : Lives(u)'
  BY <1>1, <1>3, <1>5, RaisesLives
<1>6. ASSUME NEW w, NEW c, c # EndTask, Request(t, w, c)
      PROVE  \A u \in Thread : Lives(u)'
  BY <1>1, <1>3, <1>6, RequestLives
<1>7. ASSUME NEW k, Goes(t, k), UNCHANGED state, k # EndTask \/ binder'[t] = NoWord,
             \A u \in Thread \ {t} : binder'[u] = binder[u]
      PROVE  \A u \in Thread : Lives(u)'
  <2>1. task'[t] = k /\ \A u \in Thread \ {t} : task'[u] = task[u]
    BY <1>1, <1>7 DEF Goes, TypeOK
  <2>2. Lives(t)'
    BY <1>3, <1>7, <2>1, LivesWith
  <2> QED BY <1>1, <1>7, <2>1, <2>2, LivesOn
<1>8. CASE \/ Preempt(t) \/ SuspendSelf(t) \/ HandleByEmptyTask(t)
           \/ \E x \in Transient : \/ Byneed(t, x) \/ HoleHole(t, x)
                                   \/ PromisePromise(t, x) \/ NewExternal(t, x)
           \/ \E w \in Word, x \in Transient : HoleFuture(t, w, x)
           \/ \E u \in Thread : SuspendThread(t, u) \/ ResumeThread(t, u)
  BY <1>4, <1>8 DEF Preempt, SuspendSelf, HandleByEmptyTask, Byneed, HoleHole,
     PromisePromise, NewExternal, HoleFuture, SuspendThread, ResumeThread
<1>9. CASE Terminate(t)
  <2>1. binder[t] = NoWord
    BY <1>1, <1>9 DEF Terminate, Executes, Lives
  <2>2. /\ state'[t] = "TERMINATED" /\ UNCHANGED <<task, binder>>
        /\ \A u \in Thread \ {t} : state'[u] = state[u]
    BY <1>1, <1>9 DEF Terminate, TypeOK
  <2>3. Lives(t)'
    BY <2>1, <2>2 DEF Lives
  <2> QED BY <1>1, <2>2, <2>3, LivesOn
<1>10. CASE Raise(t) \/ Handle(t)
  BY <1>5, <1>10 DEF Raise, Handle
<1>11. ASSUME NEW w \in Word, Return(t, w)
       PROVE  \A u \in Thread : Lives(u)'
  <2>1. /\ Goes(t, EndTask) /\ UNCHANGED state /\ binder'[t] = NoWord
        /\ \A u \in Thread \ {t} : binder'[u] = binder[u]
    BY <1>1, <1>11 DEF Return, TypeOK
  <2> QED BY <2>1, <1>7
<1>12. ASSUME NEW w \in Word, Await(t, w)
       PROVE  \A u \in Thread : Lives(u)'
  BY <1>5, <1>6, <1>12, TaskNotEnd DEF Await
<1>13. ASSUME NEW x \in Transient, NEW n \in Thread, Concur(t, x, n)
       PROVE  \A u \in Thread : Lives(u)'
  <2>1. task[n] = RunTask
    BY <1>1, <1>13 DEF Concur, NewThread, Lives
  <2>2. /\ task'[n] = RunTask /\ state'[n] = "RUNNABLE"
        /\ \A u \in Thread \ {n} : /\ task'[u] = task[u] /\ state'[u] = state[u]
                                   /\ binder'[u] = binder[u]
    BY <1>1, <1>13, <2>1 DEF Concur, NewThread, TypeOK
  <2> QED BY <1>1, <2>2, TaskNotEnd, LivesOn, LivesWith
<1>14. ASSUME NEW w \in Word, NEW v \in Word, HoleFill(t, w, v)
       PROVE  \A u \in Thread : Lives(u)'
  BY <1>4, <1>5, <1>14 DEF HoleFill, Fill
<1>15. ASSUME NEW w \in Word, NEW v \in Word, HoleFail(t, w, v)
       PROVE  \A u \in Thread : Lives(u)'
  <2>1. CASE Fail(t, Deref(w))
    <3>1. Goes(t, RunTask) /\ UNCHANGED <<state, binder>>
      BY <2>1 DEF Fail
    <3> QED BY <1>7, <3>1, TaskNotEnd
  <2> QED BY <1>5, <1>6, <1>15, <2>1, TaskNotEnd DEF HoleFail
<1>16. ASSUME NEW p \in Transient, NEW v \in Word, PromiseFulfill(t, p, v) \/ PromiseFail(t, p, v)
       PROVE  \A u \in Thread : Lives(u)'
  <2>1. ASSUME NEW l, NEW a, Settle(t, p, l, a)
        PROVE  \A u \in Thread : Lives(u)'
    <3>1. Goes(t, RunTask) /\ UNCHANGED <<state, binder>>
      BY <2>1 DEF Settle
    <3> QED BY <1>7, <3>1, TaskNotEnd
  <2> QED BY <1>5, <1>6, <1>16, <2>1, TaskNotEnd DEF PromiseFulfill, PromiseFail
<1>17. ASSUME NEW u \in Thread, NEW w \in Word, RaiseIn(t, u, w)
       PROVE  \A v \in Thread : Lives(v)'
  <2>1. CASE u # t /\ RaiseInOther(t, u)
    <3>1. /\ task'[t] = RunTask /\ task'[u] = RaiseTask
          /\ \A v \in Thread \ {t, u} : task'[v] = task[v]
          /\ UNCHANGED binder
      BY <1>1, <2>1 DEF RaiseInOther, TypeOK
    <3>2. /\ state'[u] = "RUNNABLE"
          /\ \A v \in Thread \ {u} : state'[v] = state[v]
      BY <1>1, <2>1 DEF RaiseInOther, WakeupThread, TypeOK
    <3> QED BY <1>1, <1>3, <2>1, <3>1, <3>2, TaskNotEnd, LivesOn, LivesWith
  <2> QED BY <1>5, <1>6, <1>17, <2>1, TaskNotEnd DEF RaiseIn
<1>18. CASE HandleByBinder(t)
  <2>1. /\ Goes(t, EndTask) /\ UNCHANGED state /\ binder'[t] = NoWord
        /\ \A u \in Thread \ {t} : binder'[u] = binder[u]
    BY <1>1, <1>18 DEF HandleByBinder, TypeOK
  <2> QED BY <2>1, <1>7
<1> QED
  BY <1>8, <1>9, <1>10, <1>11, <1>12, <1>13, <1>14, <1>15, <1>16, <1>17, <1>18
  DEF ThreadStep, LiveWord

(* Every step of the runtime. *)
LEMMA RuntimeLives ==
  ASSUME ResolverInv, RuntimeStep
  PROVE  \A u \in Thread : Lives(u)'
<1> USE DEF threadVars, transVars
<1>1. QueueInv /\ TypeOK /\ \A n \in Thread : Lives(n)
  BY DEF ResolverInv, QueueInv
<1>2. ASSUME UNCHANGED <<state, task, binder>>
      PROVE  \A u \in Thread : Lives(u)'
  BY <1>1, <1>2, LivesOn
<1>3. CASE Dispatch \/ FinishBind \/ \E x \in Transient, v \in Value : BindExternal(x, v)
  BY <1>2, <1>3 DEF Dispatch, FinishBind, BindExternal
<1>4. CASE ScheduleWaitingThread
  <2>1. /\ binding.wake \in Transient /\ waiters[binding.wake] # <<>>
        /\ WakeupThread(Head(waiters[binding.wake]))
        /\ task' = task /\ binder' = binder
    BY <1>4 DEF ScheduleWaitingThread
  <2>2. PICK u \in Thread : u = Head(waiters[binding.wake]) /\ u \in Queued(waiters[binding.wake])
    BY <1>1, <2>1, TailQueued DEF TypeOK, QueueInv, WaitQueueExact
  <2>3. state[u] = "BLOCKED"
    BY <1>1, <2>1, <2>2 DEF QueueInv, WaitQueueExact
  <2>4. state'[u] = "RUNNABLE" /\ \A n \in Thread \ {u} : state'[n] = state[n]
    BY <1>1, <2>1, <2>2 DEF WakeupThread, TypeOK
  <2>5. Lives(u)'
    BY <1>1, <2>1, <2>3, <2>4 DEF Lives
  <2> QED BY <1>1, <2>1, <2>4, <2>5, LivesOn
<1>5. ASSUME NEW n \in Thread, SignalThread(n)
      PROVE  \A u \in Thread : Lives(u)'
  <2>1. /\ task' = task /\ state'[n] = "RUNNABLE" /\ binder'[n] = NoWord
        /\ \A u \in Thread \ {n} : state'[u] = state[u] /\ binder'[u] = binder[u]
    BY <1>1, <1>5 DEF SignalThread, NewThread, TypeOK
  <2> QED BY <1>1, <2>1, LivesOn, LivesWith
<1> QED BY <1>3, <1>4, <1>5 DEF RuntimeStep

-----------------------------------------------------------------------------
(* One party for every future, and single assignment. *)

(* Nothing is allocated and only the main thread exists at the start. *)
LEMMA ResolverInit == Init => ResolverInv
<1> SUFFICES ASSUME Init PROVE ResolverInv
  OBVIOUS
<1>1. QueueInv
  BY QueuesInit
<1>2. binding.targets = {}
  BY NothingBound DEF Init
<1>3. ASSUME NEW x \in Transient PROVE Settled(x)
  <2>1. \A k, y : ~Claim(k, y, x)
    BY <1>2, WordAssumption DEF Init, Claim
  <2> QED BY <1>2, <2>1 DEF Init, Settled
<1>4. \A t \in Thread : Lives(t)
  BY DEF Init, Lives
<1> QED BY <1>1, <1>3, <1>4 DEF ResolverInv, BindingLabel, Init

(* Every step preserves the invariant. *)
LEMMA ResolverStep == ResolverInv /\ [Next]_vars => ResolverInv'
<1> SUFFICES ASSUME ResolverInv, [Next]_vars PROVE ResolverInv'
  OBVIOUS
<1>1. QueueInv'
  BY QueuesStep DEF ResolverInv
<1>2. (\A x \in Transient : Settled(x)') /\ BindingLabel'
  BY StepEffect, EffectSettled, EffectLabel
<1>3. \A t \in Thread : Lives(t)'
  <2>1. CASE UNCHANGED vars
    BY <2>1, LivesOn DEF ResolverInv, vars, threadVars
  <2> QED BY <2>1, ThreadLives, RuntimeLives DEF Next
<1> QED BY <1>1, <1>2, <1>3 DEF ResolverInv

(* The members of Resolvers(x), as claims. *)
LEMMA ResolverClaims ==
  ASSUME NEW x \in Transient, NEW r
  PROVE  r \in Resolvers(x) <=> \E k, y : r = <<k, y>> /\ Claim(k, y, x)
<1>1. ASSUME r \in Resolvers(x) PROVE \E k, y : r = <<k, y>> /\ Claim(k, y, x)
  BY <1>1 DEF Resolvers, Claim
<1>2. ASSUME NEW k, NEW y, r = <<k, y>>, Claim(k, y, x) PROVE r \in Resolvers(x)
  BY <1>2 DEF Resolvers, Claim
<1> QED BY <1>1, <1>2

(***************************************************************************)
(* Every future that a program can wait for has exactly one party that is  *)
(* going to resolve it, whatever the program does: the BindFutureFrame of  *)
(* a thread, a hole, a promise, the runtime, or a binding under way.       *)
(***************************************************************************)
THEOREM ResolversUnique == Spec => []OneResolver
<1>1. ResolverInv => OneResolver
  <2> SUFFICES ASSUME ResolverInv PROVE OneResolver
    OBVIOUS
  <2>1. ASSUME NEW x \in Transient, label[x] = "FUTURE"
        PROVE  \E r \in Resolvers(x) : \A s \in Resolvers(x) : s = r
    <3>1. PICK k, y : Claim(k, y, x) /\ \A j, z : Claim(j, z, x) => j = k /\ z = y
      BY <2>1 DEF ResolverInv, Settled, Unique
    <3>2. <<k, y>> \in Resolvers(x)
      BY <3>1, ResolverClaims
    <3>3. ASSUME NEW s \in Resolvers(x) PROVE s = <<k, y>>
      <4>1. PICK j, z : s = <<j, z>> /\ Claim(j, z, x)
        BY ResolverClaims
      <4> QED BY <3>1, <4>1
    <3> QED BY <3>2, <3>3
  <2>2. ASSUME NEW x \in Transient \ binding.targets, Resolvers(x) # {}
        PROVE  label[x] = "FUTURE"
    <3>1. PICK r : r \in Resolvers(x)
      BY <2>2
    <3>2. PICK k, y : Claim(k, y, x)
      BY <3>1, ResolverClaims
    <3>3. k # "binding"
      BY <3>2 DEF Claim
    <3> QED BY <3>2, <3>3 DEF ResolverInv, Settled
  <2>3. \A t \in Thread : binder[t] # NoWord => state[t] \in {"RUNNABLE", "BLOCKED"}
    BY DEF ResolverInv, Lives
  <2> QED BY <2>1, <2>2, <2>3 DEF OneResolver
<1> QED BY <1>1, ResolverInit, ResolverStep, PTL DEF Spec

(* An effect changes only what is unresolved, and along the life cycle. *)
LEMMA EffectAssigns ==
  ASSUME ResolverInv, Effect, NEW x \in Transient
  PROVE  /\ label[x] \in {"REF", "CANCELLED"} => label'[x] = label[x] /\ arg'[x] = arg[x]
         /\ label[x] = "FUTURE" => label'[x] \in {"FUTURE", "REF", "CANCELLED"}
         /\ label[x] = "BYNEED" => label'[x] \in {"BYNEED", "FUTURE"}
         /\ label[x] = "HOLE" => label'[x] \in {"HOLE", "REF", "CANCELLED"}
<1>1. TypeOK /\ Settled(x) /\ BindingLabel
  BY DEF ResolverInv, QueueInv
<1>2. CASE label' = label /\ arg' = arg
  BY <1>2
<1>3. CASE Finishes
  BY <1>1, <1>3 DEF Finishes, Become, Settled, BindingLabel
<1>4. ASSUME NEW a \in Transient, Allocates(a) \/ Becomes(a)
      PROVE  /\ label[x] # "BYNEED" /\ label[x] # "FREE" => label'[x] = label[x] /\ arg'[x] = arg[x]
             /\ label[x] = "BYNEED" => label'[x] \in {"BYNEED", "FUTURE"}
  BY <1>1, <1>4 DEF Allocates, Becomes, TypeOK
<1>5. ASSUME NEW a \in Transient, NEW h \in Transient, ForHole(a, h)
      PROVE  /\ label[x] # "FREE" => label'[x] = label[x]
             /\ label[x] # "HOLE" => arg'[x] = arg[x]
  BY <1>1, <1>5 DEF ForHole, TypeOK
<1> QED
  BY <1>2, <1>3, <1>4, <1>5 DEF Effect, Same, ForPromise, ForRuntime, ForThread,
     FromPromise, FromRuntime, FromHole, FromThread, Starts

(***************************************************************************)
(* Transients are single-assignment cells: Become is never applied to one  *)
(* that is resolved already, and BYNEED only becomes FUTURE.               *)
(***************************************************************************)
THEOREM AssignedOnce == Spec => SingleAssignment
<1> DEFINE P == \A x \in Transient :
       /\ label[x] \in {"REF", "CANCELLED"} => label'[x] = label[x] /\ arg'[x] = arg[x]
       /\ label[x] = "FUTURE" => label'[x] \in {"FUTURE", "REF", "CANCELLED"}
       /\ label[x] = "BYNEED" => label'[x] \in {"BYNEED", "FUTURE"}
       /\ label[x] = "HOLE" => label'[x] \in {"HOLE", "REF", "CANCELLED"}
<1>1. ResolverInv /\ [Next]_vars => [P]_vars
  BY StepEffect, EffectAssigns
<1> HIDE DEF P
<1> QED BY <1>1, ResolverInit, ResolverStep, PTL DEF Spec, SingleAssignment, P

-----------------------------------------------------------------------------
(* References lead to words. *)

(* S holds what a reference in S is replaced by. *)
Closed(S) == \A y \in S : IsRef(y) => arg[y] \in S

(* References that stay lead to what they led to, and perhaps further. *)
LEMMA StillReached ==
  ASSUME NEW x, NEW v, Denotes(x, v),
         \A y : IsRef(y) => IsRef(y)' /\ arg'[y] = arg[y],
         NEW S \in SUBSET (Word \cup {NoWord}), x \in S, Closed(S)'
  PROVE  v \in S
<1>1. Closed(S)
  BY DEF Closed
<1> QED BY <1>1 DEF Denotes, Closed

(* References that stay as they are, with no new one, end where they ended. *)
LEMMA SameEnd ==
  ASSUME \A y : IsRef(y)' <=> IsRef(y),
         \A y : IsRef(y) => arg'[y] = arg[y],
         NEW x, NEW v, Denotes(x, v)
  PROVE  Denotes(x, v)'
<1>1. ~IsRef(v)'
  BY DEF Denotes
<1>2. ASSUME NEW S \in SUBSET (Word \cup {NoWord}), x \in S, Closed(S)' PROVE v \in S
  BY <1>2, StillReached
<1> QED BY <1>1, <1>2 DEF Denotes, Closed

(* Become: a chain that ended in one of the transients Y now ends in b. *)
LEMMA BoundEnd ==
  ASSUME NEW Y \in SUBSET Transient, NEW b, ~IsRef(b), b \notin Y,
         \A y : IsRef(y)' <=> y \in Y \/ IsRef(y),
         \A y \in Y : ~IsRef(y) /\ arg'[y] = b,
         \A y : IsRef(y) => arg'[y] = arg[y],
         NEW x, NEW v, Denotes(x, v)
  PROVE  Denotes(x, IF v \in Y THEN b ELSE v)'
<1>1. ASSUME NEW S \in SUBSET (Word \cup {NoWord}), x \in S, Closed(S)' PROVE v \in S
  BY <1>1, StillReached
<1>2. CASE v \notin Y
  <2>1. ~IsRef(v)'
    BY <1>2 DEF Denotes
  <2> QED BY <1>1, <1>2, <2>1 DEF Denotes, Closed
<1>3. CASE v \in Y
  <2>1. ASSUME NEW S \in SUBSET (Word \cup {NoWord}), x \in S, Closed(S)' PROVE b \in S
    <3>1. v \in S
      BY <1>1, <2>1
    <3>2. IsRef(v)' /\ arg'[v] = b
      BY <1>3
    <3> QED BY <2>1, <3>1, <3>2 DEF Closed
  <2>2. ~IsRef(b)'
    OBVIOUS
  <2> QED BY <1>3, <2>1, <2>2 DEF Denotes, Closed
<1> QED BY <1>2, <1>3

(* The references are the same. *)
LEMMA SameRefs ==
  ASSUME RefArgs, RefsResolve,
         \A y : IsRef(y)' <=> IsRef(y),
         \A y : IsRef(y) => arg'[y] = arg[y],
         \A y \in LiveWord : y \in LiveWord'
  PROVE  RefArgs' /\ RefsResolve'
<1>1. RefArgs'
  BY DEF RefArgs
<1>2. ASSUME NEW x \in Transient, IsRef(x)' PROVE \E v \in Word : Denotes(x, v)'
  <2>1. PICK v \in Word : Denotes(x, v)
    BY <1>2 DEF RefsResolve
  <2> QED BY <2>1, SameEnd
<1> QED BY <1>1, <1>2 DEF RefsResolve

(* What a Become does: Y are the transients it replaces, by b if m is REF. *)
Replaces(Y, m, b) ==
  /\ Y \in SUBSET Transient /\ m \in {"REF", "CANCELLED"}
  /\ \A y \in Y : label[y] \in {"FUTURE", "HOLE"} /\ label'[y] = m /\ arg'[y] = b
  /\ \A y \in Transient \ Y : label'[y] = label[y] /\ arg'[y] = arg[y]
  /\ m = "REF" => GoodArg(Y, b)

(* The Become that follows the wake-ups replaces what is unresolved. *)
LEMMA FinishReplaces ==
  ASSUME RefInv, Finishes
  PROVE  Replaces(binding.targets, binding.label, binding.arg)
<1>1. /\ binding.targets \in SUBSET Transient
      /\ binding.label \in {"REF", "CANCELLED"}
      /\ \A y \in binding.targets : label[y] \in {"FUTURE", "HOLE"}
  BY DEF RefInv, ResolverInv, QueueInv, TypeOK, Settled, BindingLabel, Finishes
<1>2. /\ \A y \in Transient : label'[y] = IF y \in binding.targets THEN binding.label ELSE label[y]
      /\ \A y \in Transient : arg'[y] = IF y \in binding.targets THEN binding.arg ELSE arg[y]
  BY DEF Finishes, Become
<1>3. binding.label = "REF" => GoodArg(binding.targets, binding.arg)
  BY DEF RefInv, GoodBinding
<1> QED BY <1>1, <1>2, <1>3 DEF Replaces

(* It creates references, or none. *)
LEMMA ReplacedRefs ==
  ASSUME NEW Y, NEW m, NEW b, Replaces(Y, m, b)
  PROVE  /\ m = "CANCELLED" => \A y : IsRef(y)' <=> IsRef(y)
         /\ m = "REF" => \A y : IsRef(y)' <=> y \in Y \/ IsRef(y)
         /\ \A y \in Y : ~IsRef(y) /\ arg'[y] = b
         /\ \A y : IsRef(y) => arg'[y] = arg[y]
         /\ \A y \in LiveWord : y \in LiveWord'
<1>1. \A y : IsRef(y) => y \in Transient /\ y \notin Y
  BY DEF Replaces, IsRef
<1>2. /\ m = "CANCELLED" => \A y : IsRef(y)' <=> IsRef(y)
      /\ m = "REF" => \A y : IsRef(y)' <=> y \in Y \/ IsRef(y)
  BY <1>1 DEF Replaces, IsRef
<1>3. \A y \in LiveWord : y \in LiveWord'
  BY DEF Replaces, LiveWord
<1> QED BY <1>1, <1>2, <1>3 DEF Replaces

(* Become: the transients that are replaced lead to the word, or to nothing. *)
LEMMA FinishesRefs ==
  ASSUME RefInv, Finishes
  PROVE  RefArgs' /\ RefsResolve'
<1>1. PICK Y, m, b : Replaces(Y, m, b)
  BY FinishReplaces
<1>2. RefArgs /\ RefsResolve
  BY DEF RefInv
<1>3. /\ \A y \in Y : ~IsRef(y) /\ arg'[y] = b
      /\ \A y : IsRef(y) => arg'[y] = arg[y]
      /\ \A y \in LiveWord : y \in LiveWord'
  BY <1>1, ReplacedRefs
<1>4. CASE m = "CANCELLED"
  <2>1. \A y : IsRef(y)' <=> IsRef(y)
    BY <1>1, <1>4, ReplacedRefs
  <2> QED BY <1>2, <1>3, <2>1, SameRefs
<1>5. CASE m = "REF"
  <2>1. \A y : IsRef(y)' <=> y \in Y \/ IsRef(y)
    BY <1>1, <1>5, ReplacedRefs
  <2>2. /\ Y \in SUBSET Transient
        /\ b \in Word /\ b \in LiveWord' /\ b \notin Y /\ ~IsRef(b)
    BY <1>1, <1>3, <1>5 DEF Replaces, GoodArg, LiveWord
  <2>3. RefArgs'
    BY <1>2, <1>3, <2>1, <2>2 DEF RefArgs
  <2>4. ASSUME NEW x \in Transient, IsRef(x)' PROVE \E v \in Word : Denotes(x, v)'
    <3>1. \E v \in Word : Denotes(x, v)
      <4>1. CASE IsRef(x)
        BY <1>2, <4>1 DEF RefsResolve
      <4>2. CASE ~IsRef(x)
        BY <4>2 DEF Denotes, Word
      <4> QED BY <4>1, <4>2
    <3>2. PICK v \in Word : Denotes(x, v)
      BY <3>1
    <3>3. Denotes(x, IF v \in Y THEN b ELSE v)'
      BY <1>3, <2>1, <2>2, <3>2, BoundEnd
    <3> QED BY <2>2, <3>3
  <2> QED BY <2>3, <2>4 DEF RefsResolve
<1> QED BY <1>1, <1>4, <1>5 DEF Replaces

(* Every effect preserves that references lead to words. *)
LEMMA EffectRefs ==
  ASSUME RefInv, Effect, ~CyclicFulfill
  PROVE  /\ RefArgs' /\ RefsResolve'
         /\ GoodBinding'
<1>1. TypeOK /\ RefArgs /\ RefsResolve
  BY DEF RefInv, ResolverInv, QueueInv
<1>2. CASE Finishes
  BY <1>2, FinishesRefs DEF Finishes, GoodBinding, NoBinding
<1>3. ASSUME UNCHANGED <<label, arg>>
      PROVE  RefArgs' /\ RefsResolve'
  <2>1. /\ \A y : IsRef(y)' <=> IsRef(y)
        /\ \A y \in LiveWord : y \in LiveWord'
    BY <1>3 DEF IsRef, LiveWord
  <2> QED BY <1>1, <1>3, <2>1, SameRefs
<1>4. CASE Same
  <2>1. binding' = binding /\ GoodBinding
    BY <1>4 DEF Same, RefInv
  <2>2. GoodBinding'
    BY <1>4, <2>1 DEF Same, GoodBinding, GoodArg, IsRef, LiveWord
  <2> QED BY <1>3, <1>4, <2>2 DEF Same
<1>5. ASSUME NEW X, Starts(X)
      PROVE  /\ RefArgs' /\ RefsResolve'
             /\ GoodBinding'
  <2>1. GoodBinding'
    BY <1>1, <1>5 DEF Starts, GoodBinding, GoodArg, IsRef, LiveWord
  <2> QED BY <1>3, <1>5, <2>1 DEF Starts
<1>6. ASSUME binding = NoBinding, binding' = binding,
             \A y \in Transient : label[y] = "REF" <=> label'[y] = "REF",
             \A y \in Transient : label[y] = "REF" => arg'[y] = arg[y],
             \A y \in Transient : label[y] # "FREE" => label'[y] # "FREE"
      PROVE  /\ RefArgs' /\ RefsResolve'
             /\ GoodBinding'
  <2>1. /\ \A y : IsRef(y)' <=> IsRef(y)
        /\ \A y : IsRef(y) => arg'[y] = arg[y]
        /\ \A y \in LiveWord : y \in LiveWord'
    BY <1>6 DEF IsRef, LiveWord
  <2> QED BY <1>1, <1>6, <2>1, SameRefs DEF GoodBinding, NoBinding
<1>7. ASSUME NEW x \in Transient, Allocates(x) \/ Becomes(x)
      PROVE  /\ binding = NoBinding /\ binding' = binding
             /\ \A y \in Transient : label[y] = "REF" <=> label'[y] = "REF"
             /\ \A y \in Transient : label[y] = "REF" => arg'[y] = arg[y]
             /\ \A y \in Transient : label[y] # "FREE" => label'[y] # "FREE"
  BY <1>1, <1>7 DEF Allocates, Becomes, TypeOK
<1>8. ASSUME NEW x \in Transient, NEW h \in Transient, ForHole(x, h)
      PROVE  /\ binding = NoBinding /\ binding' = binding
             /\ \A y \in Transient : label[y] = "REF" <=> label'[y] = "REF"
             /\ \A y \in Transient : label[y] = "REF" => arg'[y] = arg[y]
             /\ \A y \in Transient : label[y] # "FREE" => label'[y] # "FREE"
  BY <1>1, <1>8 DEF ForHole, TypeOK
<1> QED
  BY <1>2, <1>4, <1>5, <1>6, <1>7, <1>8 DEF Effect, ForPromise, ForRuntime, ForThread,
     FromPromise, FromRuntime, FromHole, FromThread

(* There are no references at first. *)
LEMMA RefInit == Init => RefInv
<1> SUFFICES ASSUME Init PROVE RefInv
  OBVIOUS
<1>1. \A x \in Transient : ~IsRef(x)
  BY DEF Init, IsRef
<1> QED BY <1>1, ResolverInit DEF RefInv, RefArgs, RefsResolve, GoodBinding, Init, NoBinding

(* Every step preserves that they lead to words. *)
LEMMA RefStep ==
  ASSUME ~CyclicFulfill, RefInv, [Next]_vars
  PROVE  RefInv'
<1>1. ResolverInv /\ ResolverInv'
  BY ResolverStep DEF RefInv
<1>2. /\ RefArgs' /\ RefsResolve'
      /\ GoodBinding'
  BY <1>1, StepEffect, EffectRefs
<1> QED BY <1>1, <1>2 DEF RefInv

(***************************************************************************)
(* Every chain of references ends in a word, so PointerOp::Deref always    *)
(* terminates, in a program that fulfills no promise with the promise's    *)
(* own future: neither Hole::Fill nor BindFutureWorker makes a cycle.      *)
(***************************************************************************)
THEOREM ReferencesEnd == ASSUME ~CyclicFulfill PROVE Spec => []RefsResolve
<1>1. RefInv /\ [Next]_vars => RefInv'
  BY RefStep
<1>2. RefInv => RefsResolve
  BY DEF RefInv
<1> QED BY <1>1, <1>2, RefInit, PTL DEF Spec

-----------------------------------------------------------------------------
(* The transients implement dataflow variables. *)

(* Following f from w as long as the members of R are met leads to u. *)
EndsIn(U, R, f, w, u) ==
  /\ u \in U /\ u \notin R
  /\ \A S \in SUBSET U : w \in S /\ (\A x \in S : x \in R => f[x] \in S) => u \in S

(* A chain has one end. *)
LEMMA OneEnd ==
  ASSUME NEW U, NEW R, NEW f, \A x \in U : x \in R => f[x] \in U,
         NEW w \in U, NEW u, EndsIn(U, R, f, w, u), NEW v, EndsIn(U, R, f, w, v)
  PROVE  u = v
<1> DEFINE Leads(x) ==
             \A S \in SUBSET U : x \in S /\ (\A y \in S : y \in R => f[y] \in S) => u \in S
           T == {x \in U : Leads(x)}
<1>1. w \in T
  BY DEF EndsIn
<1>2. ASSUME NEW x \in T, x \in R PROVE f[x] \in T
  <2>1. ASSUME NEW S \in SUBSET U, f[x] \in S, \A y \in S : y \in R => f[y] \in S
        PROVE  u \in S
    <3>1. S \cup {x} \in SUBSET U
      BY <1>2
    <3>2. \A y \in S \cup {x} : y \in R => f[y] \in S \cup {x}
      BY <2>1
    <3>3. u \in S \cup {x}
      BY <1>2, <3>1, <3>2
    <3> QED BY <1>2, <3>3 DEF EndsIn
  <2> QED BY <1>2, <2>1
<1>3. T \in SUBSET U
  OBVIOUS
<1>4. v \in T
  <2> HIDE DEF T
  <2> QED BY <1>1, <1>2, <1>3 DEF EndsIn
<1>5. Leads(v) /\ {v} \in SUBSET U
  BY <1>4
<1>6. u \in {v}
  BY <1>5 DEF EndsIn
<1> QED BY <1>6

(* The arguments of references are words of the program. *)
LEMMA RefsInside ==
  ASSUME RefArgs, NEW x, IsRef(x)
  PROVE  arg[x] \in Word \cup {NoWord}
  BY DEF RefArgs, IsRef, LiveWord

(* PointerOp::Deref returns the end of the chain. *)
LEMMA DerefEnd ==
  RefArgs => \A w \in Word, v \in Word : Denotes(w, v) => Deref(w) = v
<1> SUFFICES ASSUME RefArgs, NEW w \in Word, NEW v \in Word, Denotes(w, v)
             PROVE  Deref(w) = v
  OBVIOUS
<1> DEFINE U == Word \cup {NoWord}
           R == {x \in Transient : label[x] = "REF"}
<1>1. \A x : x \in R <=> IsRef(x)
  BY DEF IsRef
<1>2. \A x \in U : x \in R => arg[x] \in U
  BY <1>1, RefsInside
<1>3. ASSUME NEW u \in U, Denotes(w, u) PROVE u = v
  <2>1. EndsIn(U, R, arg, w, u) /\ EndsIn(U, R, arg, w, v)
    BY <1>1, <1>3 DEF EndsIn, Denotes
  <2>2. w \in U
    OBVIOUS
  <2> HIDE DEF U, R
  <2> QED BY <1>2, <2>1, <2>2, OneEnd
<1>4. CASE IsRef(w)
  <2> DEFINE d == CHOOSE z \in Word \cup {NoWord} : Denotes(w, z)
  <2>1. \E z \in Word \cup {NoWord} : Denotes(w, z)
    OBVIOUS
  <2>2. d \in Word \cup {NoWord} /\ Denotes(w, d)
    BY <2>1
  <2>3. Deref(w) = d
    BY <1>4, <2>1 DEF Deref
  <2> HIDE DEF d
  <2> QED BY <1>3, <2>2, <2>3
<1>5. CASE ~IsRef(w)
  <2>1. Denotes(w, w)
    BY <1>5 DEF Denotes
  <2> QED BY <1>3, <1>5, <2>1 DEF Deref
<1> QED BY <1>4, <1>5

(* So it does in the next state. *)
LEMMA DerefEndNext ==
  (RefArgs => \A w \in Word, v \in Word : Denotes(w, v) => Deref(w) = v)'
  BY DerefEnd, PTL

(* A variable means a word that is no reference, the end of its chain. *)
LEMMA MeaningEnd ==
  ASSUME RefArgs, RefsResolve, NEW x \in Transient
  PROVE  Deref(x) \in Word /\ Denotes(x, Deref(x))
<1>1. PICK v \in Word : Denotes(x, v)
  <2>1. CASE IsRef(x)
    BY <2>1 DEF RefsResolve
  <2>2. CASE ~IsRef(x)
    <3>1. Denotes(x, x) /\ x \in Word
      BY <2>2 DEF Denotes, Word
    <3> QED BY <3>1
  <2> QED BY <2>1, <2>2
<1>2. Deref(x) = v
  BY <1>1, DerefEnd DEF Word
<1> QED BY <1>1, <1>2

(* Every variable keeps its meaning while the references stay the same. *)
LEMMA SameMeaning ==
  ASSUME RefArgs, RefsResolve, RefArgs',
         \A y : IsRef(y)' <=> IsRef(y),
         \A y : IsRef(y) => arg'[y] = arg[y]
  PROVE  Meaning' = Meaning
<1>1. ASSUME NEW x \in Transient PROVE Deref(x)' = Deref(x)
  <2>1. PICK v : v = Deref(x) /\ v \in Word /\ Denotes(x, v)
    BY MeaningEnd
  <2>2. Denotes(x, v)'
    BY <2>1, SameEnd
  <2>3. Deref(x)' = v
    BY <2>1, <2>2, DerefEndNext DEF Word
  <2> QED BY <2>1, <2>3
<1> QED BY <1>1 DEF Meaning

(* Become with REF: what meant one of the transients means the word. *)
LEMMA BoundMeaning ==
  ASSUME RefArgs, RefsResolve, RefArgs',
         NEW Y, NEW b, Replaces(Y, "REF", b)
  PROVE  Meaning' = [x \in Transient |-> IF Meaning[x] \in Y THEN b ELSE Meaning[x]]
<1>1. /\ \A y : IsRef(y)' <=> y \in Y \/ IsRef(y)
      /\ \A y \in Y : ~IsRef(y) /\ arg'[y] = b
      /\ \A y : IsRef(y) => arg'[y] = arg[y]
  BY ReplacedRefs
<1>2. Y \in SUBSET Transient /\ b \in Word /\ b \notin Y /\ ~IsRef(b)
  BY DEF Replaces, GoodArg, LiveWord
<1>3. ASSUME NEW x \in Transient
      PROVE  Deref(x)' = IF Deref(x) \in Y THEN b ELSE Deref(x)
  <2>1. PICK v : v = Deref(x) /\ v \in Word /\ Denotes(x, v)
    BY MeaningEnd
  <2>2. PICK u : u = IF v \in Y THEN b ELSE v
    OBVIOUS
  <2>3. Denotes(x, IF v \in Y THEN b ELSE v)'
    BY <1>1, <1>2, <2>1, BoundEnd
  <2>4. u \in Word /\ Denotes(x, u)'
    BY <1>2, <2>1, <2>2, <2>3
  <2>5. Deref(x)' = u
    BY <2>4, DerefEndNext DEF Word
  <2> QED BY <2>1, <2>2, <2>5
<1> QED BY <1>3 DEF Meaning

(* A future stands for itself alone, a hole for what Hole::Fill replaces. *)
LEMMA GroupOf ==
  ASSUME NEW x \in Transient
  PROVE  /\ label[x] # "HOLE" => Flow!Group(x) = {x}
         /\ label[x] = "HOLE" => Flow!Group(x) = HoleTargets(x)
<1>1. NoWord \notin Transient
  BY WordAssumption
<1> QED BY <1>1 DEF Flow!Group, HeldFuture, HoleTargets

(* What is being bound is a future, or a hole with its future. *)
BindingGroup ==
  binding # NoBinding => \E x \in Transient :
    /\ binding.targets = Flow!Group(x)
    /\ \A y \in binding.targets : y # x => label[y] = "FUTURE"

(* Every binding starts that way, and goes on that way. *)
LEMMA EffectGroup ==
  ASSUME ResolverInv, BindingGroup, Effect
  PROVE  BindingGroup'
<1>1. CASE Same
  BY <1>1 DEF Same, BindingGroup, Flow!Group, HeldFuture
<1>2. CASE Finishes
  BY <1>2 DEF Finishes, BindingGroup
<1>3. CASE binding' = NoBinding
  BY <1>3 DEF BindingGroup
<1>4. ASSUME NEW x \in Transient, Starts(Flow!Group(x)),
             \A y \in Flow!Group(x) : y # x => label[y] = "FUTURE"
      PROVE  BindingGroup'
  <2>1. Flow!Group(x)' = Flow!Group(x)
    BY <1>4 DEF Starts, Flow!Group, HeldFuture
  <2>2. binding'.targets = Flow!Group(x) /\ label' = label
    BY <1>4 DEF Starts
  <2> QED BY <1>4, <2>1, <2>2 DEF BindingGroup
<1>5. ASSUME NEW x \in Transient, NEW k, NEW y, Claim(k, y, x), k # "binding"
      PROVE  Flow!Group(x) = {x}
  BY <1>5, GroupOf DEF ResolverInv, Settled
<1>6. ASSUME NEW t \in Thread, FromThread(t) PROVE BindingGroup'
  <2>1. binder[t] \in Transient /\ Claim("thread", t, binder[t])
    BY <1>6 DEF FromThread, Claim, ResolverInv, QueueInv, TypeOK
  <2>2. Flow!Group(binder[t]) = {binder[t]}
    BY <1>5, <2>1
  <2> QED BY <1>4, <1>6, <2>1, <2>2 DEF FromThread
<1>7. ASSUME NEW x \in Transient, FromPromise(x) \/ FromRuntime(x) PROVE BindingGroup'
  <2>1. Claim("promise", x, x) \/ Claim("runtime", x, x)
    BY <1>7 DEF FromPromise, FromRuntime, Claim
  <2>2. Flow!Group(x) = {x}
    BY <1>5, <2>1
  <2> QED BY <1>4, <1>7, <2>2 DEF FromPromise, FromRuntime
<1>8. ASSUME NEW h \in Transient, FromHole(h) PROVE BindingGroup'
  <2>1. Flow!Group(h) = HoleTargets(h) /\ binding = NoBinding
    BY <1>8, GroupOf DEF FromHole, Starts
  <2>2. ASSUME NEW y \in Flow!Group(h), y # h PROVE label[y] = "FUTURE"
    <3>1. y \in Transient /\ arg[h] = y
      BY <2>1, <2>2 DEF HoleTargets
    <3>2. Claim("hole", h, y)
      BY <1>8, <2>1, <3>1 DEF FromHole, Claim, NoBinding
    <3> QED BY <3>1, <3>2 DEF ResolverInv, Settled
  <2> QED BY <1>4, <1>8, <2>1, <2>2 DEF FromHole
<1> QED
  BY <1>1, <1>2, <1>3, <1>6, <1>7, <1>8 DEF Effect, Allocates, ForPromise, ForRuntime,
     ForThread, ForHole, Becomes

(* Whose label and argument stay is the same variable. *)
LEMMA SameFlow ==
  ASSUME UNCHANGED <<label, arg>>
  PROVE  UNCHANGED Flow!vars
  BY DEF Flow!vars, Meaning, HeldFuture, Deref, Denotes, IsRef

(* A new transient is a new variable, and a request of a lazy one demands it. *)
LEMMA CreateFlow ==
  ASSUME RefInv, RefArgs', NEW x \in Transient, Allocates(x) \/ Becomes(x)
  PROVE  Flow!Create(x) \/ Flow!Demand(x)
<1>1. TypeOK /\ RefArgs /\ RefsResolve
  BY DEF RefInv, ResolverInv, QueueInv
<1>2. /\ label[x] \in {"FREE", "BYNEED"} /\ label'[x] \in {"BYNEED", "HOLE", "FUTURE"}
      /\ label' = [label EXCEPT ![x] = label'[x]]
      /\ label'[x] = "HOLE" => arg'[x] = NoWord
      /\ \A y \in Transient : y # x => label'[y] = label[y] /\ arg'[y] = arg[y]
      /\ label[x] = "BYNEED" => label'[x] = "FUTURE"
  BY <1>1 DEF Allocates, Becomes, TypeOK
<1>3. /\ \A y : IsRef(y)' <=> IsRef(y)
      /\ \A y : IsRef(y) => arg'[y] = arg[y]
  BY <1>2 DEF IsRef
<1>4. Meaning' = Meaning
  BY <1>1, <1>3, SameMeaning
<1>5. HeldFuture' = HeldFuture
  BY <1>2 DEF HeldFuture
<1> QED BY <1>2, <1>4, <1>5 DEF Flow!Create, Flow!Demand

(* Hole.future takes a future from the hole. *)
LEMMA TakeFlow ==
  ASSUME RefInv, RefArgs', NEW x \in Transient, NEW h \in Transient, ForHole(x, h)
  PROVE  Flow!TakeFuture(h, x)
<1>1. TypeOK /\ RefArgs /\ RefsResolve
  BY DEF RefInv, ResolverInv, QueueInv
<1>2. /\ label[x] = "FREE" /\ label[h] = "HOLE" /\ arg[h] = NoWord
      /\ label' = [label EXCEPT ![x] = "FUTURE"]
      /\ \A y \in Transient : label'[y] = IF y = x THEN "FUTURE" ELSE label[y]
      /\ \A y \in Transient : arg'[y] = IF y = h THEN x ELSE arg[y]
  BY <1>1 DEF ForHole, TypeOK
<1>3. /\ \A y : IsRef(y)' <=> IsRef(y)
      /\ \A y : IsRef(y) => arg'[y] = arg[y]
  BY <1>2 DEF IsRef
<1>4. Meaning' = Meaning
  BY <1>1, <1>3, SameMeaning
<1>5. HeldFuture' = [HeldFuture EXCEPT ![h] = x] /\ HeldFuture[h] = NoWord
  <2>1. \A y \in Transient : (IF label'[y] = "HOLE" THEN arg'[y] ELSE NoWord)
           = IF y = h THEN x ELSE IF label[y] = "HOLE" THEN arg[y] ELSE NoWord
    BY <1>2
  <2>2. HeldFuture' = [y \in Transient |-> IF y = h THEN x ELSE HeldFuture[y]]
    BY <2>1 DEF HeldFuture
  <2> QED BY <1>2, <2>2 DEF HeldFuture
<1> QED BY <1>2, <1>4, <1>5 DEF Flow!TakeFuture

(* No hole is left with a future that another party resolves. *)
LEMMA BoundUnresolved ==
  ASSUME ResolverInv
  PROVE  Flow!Unresolved(binding.targets)
<1>1. TypeOK /\ \A x \in Transient : Settled(x)
  BY DEF ResolverInv, QueueInv
<1>2. \A y \in binding.targets : y \in Transient /\ label[y] \in {"HOLE", "FUTURE"}
  BY <1>1 DEF TypeOK, Settled
<1>3. ASSUME NEW h \in Transient \ binding.targets, HeldFuture[h] \in binding.targets
      PROVE  FALSE
  <2>1. PICK y \in Transient : y = HeldFuture[h] /\ y \in binding.targets
    BY <1>2, <1>3
  <2>2. label[h] = "HOLE" /\ arg[h] = y
    BY <2>1, WordAssumption DEF HeldFuture
  <2>3. Claim("hole", h, y) /\ Claim("binding", y, y)
    BY <1>3, <2>1, <2>2 DEF Claim
  <2>4. label[y] = "FUTURE"
    BY <1>1, <2>3 DEF Settled
  <2>5. Unique(y)
    BY <1>1, <2>4 DEF Settled
  <2>6. "hole" = "binding"
    BY <2>3, <2>5 DEF Unique
  <2> QED BY <2>6
<1> QED BY <1>2, <1>3 DEF Flow!Unresolved

(* The Become is the one step that resolves: a hole and its future together. *)
LEMMA ResolveFlow ==
  ASSUME RefInv, BindingGroup, RefArgs', Finishes
  PROVE  \E x \in Transient : Flow!Fail(x) \/ \E w \in Flow!Known : Flow!Resolve(x, w)
<1>1. TypeOK /\ RefArgs /\ RefsResolve /\ ResolverInv
  BY DEF RefInv, ResolverInv, QueueInv
<1>2. PICK x \in Transient : /\ binding.targets = Flow!Group(x)
                             /\ \A y \in binding.targets : y # x => label[y] = "FUTURE"
  BY DEF BindingGroup, Finishes
<1>3. PICK Y, m, b : /\ Y = Flow!Group(x) /\ m = binding.label /\ b = binding.arg
                     /\ Replaces(Y, m, b)
  BY <1>2, FinishReplaces
<1>4. Flow!Unresolved(Y)
  BY <1>1, <1>2, <1>3, BoundUnresolved
<1>5. label' = [y \in Transient |-> IF y \in Y THEN m ELSE label[y]]
  BY <1>2, <1>3 DEF Finishes, Become
<1>6. HeldFuture' = [HeldFuture EXCEPT ![x] = NoWord]
  <2>1. x \in Y /\ \A y \in Y : y # x => label[y] # "HOLE"
    BY <1>2, <1>3 DEF Flow!Group
  <2>2. m # "HOLE" /\ \A y \in Transient \ Y : label'[y] = label[y] /\ arg'[y] = arg[y]
    BY <1>3 DEF Replaces
  <2>3. \A y \in Y : label'[y] # "HOLE"
    BY <1>3 DEF Replaces
  <2> QED BY <2>1, <2>2, <2>3 DEF HeldFuture
<1>7. CASE m = "REF"
  <2>1. Meaning' = [y \in Transient |-> IF Meaning[y] \in Y THEN b ELSE Meaning[y]]
    BY <1>1, <1>3, <1>7, BoundMeaning
  <2>2. b \in LiveWord /\ b \notin Y /\ ~IsRef(b)
    BY <1>3, <1>7 DEF Replaces, GoodArg
  <2>3. b \in Flow!Known
    BY <2>2 DEF Flow!Known, LiveWord, Word
  <2>4. b \in Transient => Meaning[b] = b
    BY <2>2 DEF Meaning, Deref
  <2>5. Flow!Resolve(x, b)
    BY <1>3, <1>4, <1>5, <1>6, <1>7, <2>1, <2>2, <2>4 DEF Flow!Resolve
  <2> QED BY <2>3, <2>5
<1>8. CASE m = "CANCELLED"
  <2>1. /\ \A y : IsRef(y)' <=> IsRef(y)
        /\ \A y : IsRef(y) => arg'[y] = arg[y]
    BY <1>3, <1>8, ReplacedRefs
  <2>2. Meaning' = Meaning
    BY <1>1, <2>1, SameMeaning
  <2>3. Flow!Fail(x)
    BY <1>3, <1>4, <1>5, <1>6, <1>8, <2>2 DEF Flow!Fail
  <2> QED BY <2>3
<1> QED BY <1>3, <1>7, <1>8 DEF Replaces

(* Every effect is a step of the variables, or invisible. *)
LEMMA EffectFlow ==
  ASSUME RefInv, BindingGroup, RefArgs', Effect
  PROVE  [Flow!Next]_(Flow!vars)
<1>1. CASE UNCHANGED <<label, arg>>
  BY <1>1, SameFlow
<1>2. ASSUME NEW x \in Transient, Allocates(x) \/ Becomes(x) PROVE Flow!Next
  BY <1>2, CreateFlow DEF Flow!Next
<1>3. ASSUME NEW x \in Transient, NEW h \in Transient, ForHole(x, h) PROVE Flow!Next
  BY <1>3, TakeFlow DEF Flow!Next
<1>4. CASE Finishes
  BY <1>4, ResolveFlow DEF Flow!Next
<1> QED
  BY <1>1, <1>2, <1>3, <1>4 DEF Effect, Same, ForPromise, ForRuntime, ForThread,
     FromPromise, FromRuntime, FromHole, FromThread, Starts

(***************************************************************************)
(* Transients.hh, BindFutureWorker and the primitives implement dataflow   *)
(* variables, for any number of threads, variables and values, in a        *)
(* program that fulfills no promise with the promise's own future.  A      *)
(* resolution is one indivisible step, although waiters are woken up one   *)
(* by one before it and the hole and its future are two cells: all         *)
(* aliases, at any distance along the references, change at once, and      *)
(* Deref never shows anything but the variable or the word it was bound to.*)
(***************************************************************************)
THEOREM TransientsImplementDataflow == ASSUME ~CyclicFulfill PROVE Spec => DataflowSpec
<1>1. Init => Flow!Init
  <2> SUFFICES ASSUME Init PROVE Flow!Init
    OBVIOUS
  <2>1. \A x \in Transient : label[x] = "FREE" /\ ~IsRef(x)
    BY DEF Init, IsRef
  <2>2. Meaning = [x \in Transient |-> x]
    BY <2>1 DEF Meaning, Deref
  <2>3. HeldFuture = [x \in Transient |-> NoWord]
    BY <2>1 DEF HeldFuture
  <2> QED BY <2>2, <2>3 DEF Init, Flow!Init
<1>2. Init => RefInv /\ BindingGroup
  BY RefInit DEF Init, BindingGroup
<1>3. RefInv /\ BindingGroup /\ [Next]_vars =>
        (RefInv /\ BindingGroup)' /\ [Flow!Next]_(Flow!vars)
  <2> SUFFICES ASSUME RefInv, BindingGroup, [Next]_vars
               PROVE  (RefInv /\ BindingGroup)' /\ [Flow!Next]_(Flow!vars)
    OBVIOUS
  <2>1. RefInv' /\ RefArgs' /\ ResolverInv /\ Effect
    BY RefStep, StepEffect DEF RefInv
  <2> QED BY <2>1, EffectGroup, EffectFlow
<1> QED BY <1>1, <1>2, <1>3, PTL DEF Spec, DataflowSpec, Flow!Spec
=============================================================================
