---------------------------- MODULE SignalHandler ----------------------------
(***************************************************************************)
(* Asynchronous signals, alarms and the status word                        *)
(* (src/seam/generic/SignalHandler.cc, src/seam/store/StatusWord.hh, the   *)
(* loop of Scheduler::Run).                                                *)
(*                                                                         *)
(* Handlers of the operating system interrupt the virtual machine between  *)
(* any two of its steps and leave bits in the status word; the loop looks  *)
(* at them between two time slices.  The loop clears the whole word after  *)
(* it has handled the signals, when they are unblocked again already, and  *)
(* the virtual machine's own updates of the word are not atomic: a bit can *)
(* get lost.  The interval timer sets it again.                            *)
(*                                                                         *)
(* Which Alice threads there are is left open: after each round the loop   *)
(* finds one to run, or blocks.  Module Scheduler has the threads.         *)
(***************************************************************************)
EXTENDS Naturals, Sequences

CONSTANTS Signal,      \* signals of the table sigHandlers
          Closure,     \* registrations of a handler
          Alarm,       \* alarms
          MaxTime,     \* bound: of the clock
          MaxPending   \* bound: deliveries of a signal that are not handled yet

ASSUME SignalAssumption == MaxTime \in Nat /\ MaxPending \in Nat

VARIABLES
  status,     \* StatusWord::status
  pending,    \* SigHandler::pending
  handlers,   \* SigHandler::handlers: closures, the last one registered first
  installed,  \* the signals for which MySignalHandler is installed
  alarms,     \* alarmHandlers: a list of entries with a time
  blocked,    \* are signals blocked?
  raised,     \* what the system will deliver when they are unblocked
  now,        \* Time::GetElapsedMicroseconds
  pc,         \* where the loop of Scheduler::Run is
  reg,        \* the value that an update of the status word has read
  woken,      \* a signal has interrupted the select call
  started,    \* threads that were created for each closure
  fired       \* the alarms whose futures were bound

sigVars == <<pending, handlers, installed, started>>
timeVars == <<alarms, now, fired>>
vars == <<status, sigVars, timeVars, blocked, raised, pc, reg, woken>>

Entry == [alarm : Alarm, time : 0..MaxTime]

Init == /\ status = {}
        /\ pending = [s \in Signal |-> 0]
        /\ handlers = [s \in Signal |-> <<>>]
        /\ installed = {}
        /\ alarms = <<>>
        /\ blocked = FALSE
        /\ raised = {}
        /\ now = 0
        /\ pc = "top"
        /\ reg = {}
        /\ woken = FALSE
        /\ started = [c \in Closure |-> 0]
        /\ fired = {}

Goes(a, b) == pc = a /\ pc' = b

(* Closure c is in the list of signal s; alarm a is in the list of alarms *)
Registered(c, s) == \E i \in 1..Len(handlers[s]) : handlers[s][i] = c
Pending(a) == \E i \in 1..Len(alarms) : alarms[i].alarm = a

-----------------------------------------------------------------------------
(* The operating system *)

(* Elapsed time; it does not depend on the interval timer *)
TimePasses ==
  /\ now < MaxTime
  /\ now' = now + 1
  /\ UNCHANGED <<status, sigVars, alarms, fired, blocked, raised, pc, reg, woken>>

Interrupts == woken' = (woken \/ pc = "block")

(* Mutants of Tick: Timer::Update sets one bit only, or none *)
TickPreemptOnly ==
  /\ IF blocked
     THEN raised' = raised \cup {"SIGALRM"} /\ UNCHANGED <<status, woken>>
     ELSE status' = status \cup {"preempt"} /\ Interrupts /\ UNCHANGED raised
  /\ UNCHANGED <<sigVars, timeVars, blocked, pc, reg>>

TickCountsOnly ==
  /\ Interrupts
  /\ UNCHANGED <<status, sigVars, timeVars, blocked, raised, pc, reg>>

(* SIGALRM: Timer::Update, at once or when signals are unblocked *)
Tick ==
  /\ IF blocked
     THEN raised' = raised \cup {"SIGALRM"} /\ UNCHANGED <<status, woken>>
     ELSE /\ status' = status \cup {"preempt", "signal"}
          /\ Interrupts
          /\ UNCHANGED raised
  /\ UNCHANGED <<sigVars, timeVars, blocked, pc, reg>>

(* Another signal: MySignalHandler.  The system keeps one of each kind. *)
Deliver(s) ==
  /\ s \in installed
  /\ IF blocked
     THEN raised' = raised \cup {s} /\ UNCHANGED <<status, pending, woken>>
     ELSE /\ pending[s] < MaxPending
          /\ pending' = [pending EXCEPT ![s] = @ + 1]
          /\ status' = status \cup {"signal"}
          /\ Interrupts
          /\ UNCHANGED raised
  /\ UNCHANGED <<handlers, installed, started, timeVars, blocked, pc, reg>>

(* Mutant of UnblockSignals: what was raised meanwhile is forgotten *)
UnblockForgets ==
  /\ blocked' = FALSE
  /\ raised' = {}
  /\ UNCHANGED <<pending, status>>

(* sigprocmask with the empty set delivers what was raised *)
UnblockSignals ==
  /\ blocked' = FALSE
  /\ raised' = {}
  /\ pending' = [s \in Signal |-> IF s \in raised THEN pending[s] + 1 ELSE pending[s]]
  /\ status' = status \cup (IF "SIGALRM" \in raised THEN {"preempt", "signal"} ELSE {})
                      \cup (IF raised \cap Signal # {} THEN {"signal"} ELSE {})

-----------------------------------------------------------------------------
(* A time slice of an Alice thread *)

(* ThreadQueue::Dequeue finds a thread, or none: IOHandler::Block *)
Dequeue ==
  /\ pc = "top"
  /\ pc' \in {"run", "block"}
  /\ woken' = FALSE
  /\ UNCHANGED <<status, sigVars, timeVars, blocked, raised, reg>>

(***************************************************************************)
(* SignalHandler::RegisterSignal.  A signal that arrives while it has them *)
(* blocked is delivered at its end, which is a Deliver after this step.    *)
(***************************************************************************)
RegisterSignal(s, c) ==
  /\ pc = "run"
  /\ started[c] = 0 /\ \A r \in Signal : ~Registered(c, r)
  /\ installed' = IF handlers[s] = <<>> THEN installed \cup {s} ELSE installed
  /\ handlers' = [handlers EXCEPT ![s] = <<c>> \o @]
  /\ UNCHANGED <<status, pending, started, timeVars, blocked, raised, pc, reg, woken>>

(* Mutant of Insert: the list is not sorted *)
InsertLast(e) == Append(alarms, e)

(* Behind the entries at the head of the list that are not later than e *)
Insert(e) ==
  LET k == CHOOSE k \in 0..Len(alarms) :
             /\ \A i \in 1..k : alarms[i].time <= e.time
             /\ k < Len(alarms) => alarms[k + 1].time > e.time
  IN  SubSeq(alarms, 1, k) \o <<e>> \o SubSeq(alarms, k + 1, Len(alarms))

(* SignalHandler::RegisterAlarm, called by Future.alarm' for a delay above 0 *)
RegisterAlarm(a, delay) ==
  /\ pc = "run"
  /\ a \notin fired /\ ~Pending(a)
  /\ now + delay <= MaxTime
  /\ alarms' = Insert([alarm |-> a, time |-> now + delay])
  /\ UNCHANGED <<status, sigVars, now, fired, blocked, raised, pc, reg, woken>>

(* Heap::Enlarge: the heap is full, status |= GCStatus, a load and a store *)
NeedGC ==
  /\ Goes("run", "enlarge")
  /\ reg' = status
  /\ UNCHANGED <<status, sigVars, timeVars, blocked, raised, woken>>

SetStatus ==
  /\ Goes("enlarge", "run")
  /\ status' = reg \cup {"gc"}
  /\ reg' = {}
  /\ UNCHANGED <<sigVars, timeVars, blocked, raised, woken>>

(* A call of a procedure finds a status bit: Worker::PREEMPT *)
Preempt ==
  /\ status # {}
  /\ Goes("run", "collect")
  /\ UNCHANGED <<status, sigVars, timeVars, blocked, raised, reg, woken>>

(* The thread blocks, is suspended or terminates *)
EndSlice ==
  /\ Goes("run", "collect")
  /\ UNCHANGED <<status, sigVars, timeVars, blocked, raised, reg, woken>>

-----------------------------------------------------------------------------
(* The end of a round in Scheduler::Run *)

(* RootSet::DoGarbageCollection ends with status &= ~GCStatus *)
Collect ==
  /\ pc = "collect"
  /\ IF "gc" \in status THEN pc' = "clearGC" /\ reg' = status
                        ELSE pc' = "check" /\ UNCHANGED reg
  /\ UNCHANGED <<status, sigVars, timeVars, blocked, raised, woken>>

ClearGC ==
  /\ Goes("clearGC", "check")
  /\ status' = reg \ {"gc"}
  /\ reg' = {}
  /\ UNCHANGED <<sigVars, timeVars, blocked, raised, woken>>

(* The select call of IOHandler::Block fails with EINTR *)
SelectInterrupted ==
  /\ woken
  /\ Goes("block", "check")
  /\ UNCHANGED <<status, sigVars, timeVars, blocked, raised, reg, woken>>

(* A descriptor is ready, or there is none to wait for *)
SelectReturns ==
  /\ Goes("block", "check")
  /\ UNCHANGED <<status, sigVars, timeVars, blocked, raised, reg, woken>>

(* GetSignalStatus; HandlePendingSignals begins with BlockSignals *)
CheckStatus ==
  /\ pc = "check"
  /\ IF "signal" \in status THEN pc' = "alarms" /\ blocked' = TRUE
                            ELSE pc' = "clear" /\ UNCHANGED blocked
  /\ UNCHANGED <<status, sigVars, timeVars, raised, reg, woken>>

(* CheckAlarms: the first alarm is due; wakes its waiters and binds its future *)
FireAlarm ==
  /\ pc = "alarms"
  /\ alarms # <<>> /\ Head(alarms).time <= now
  /\ fired' = fired \cup {Head(alarms).alarm}
  /\ alarms' = Tail(alarms)
  /\ UNCHANGED <<status, sigVars, now, blocked, raised, pc, reg, woken>>

AlarmsChecked ==
  /\ alarms # <<>> => Head(alarms).time > now
  /\ Goes("alarms", "signals")
  /\ UNCHANGED <<status, sigVars, timeVars, blocked, raised, reg, woken>>

(* Mutant of HandleSignal: handlers are not dropped *)
HandleAgain(s) ==
  /\ pc = "signals"
  /\ pending[s] > 0
  /\ pending' = [pending EXCEPT ![s] = @ - 1]
  /\ started' = [c \in Closure |->
                   IF Registered(c, s) THEN started[c] + 1 ELSE started[c]]
  /\ UNCHANGED <<status, handlers, installed, timeVars, blocked, raised, pc, reg, woken>>

(* One delivery of s: a thread for every handler, all of which are dropped *)
HandleSignal(s) ==
  /\ pc = "signals"
  /\ pending[s] > 0
  /\ pending' = [pending EXCEPT ![s] = @ - 1]
  /\ started' = [c \in Closure |->
                   IF Registered(c, s) THEN started[c] + 1 ELSE started[c]]
  /\ handlers' = [handlers EXCEPT ![s] = <<>>]
  /\ UNCHANGED <<status, installed, timeVars, blocked, raised, pc, reg, woken>>

SignalsHandled ==
  /\ \A s \in Signal : pending[s] = 0
  /\ Goes("signals", "clear")
  /\ UnblockSignals
  /\ UNCHANGED <<handlers, installed, started, timeVars, reg, woken>>

ClearStatus ==
  /\ Goes("clear", "top")
  /\ status' = {}
  /\ UNCHANGED <<sigVars, timeVars, blocked, raised, reg, woken>>

-----------------------------------------------------------------------------
Loop == \/ Dequeue \/ SetStatus \/ Collect \/ ClearGC \/ SelectInterrupted
        \/ CheckStatus \/ FireAlarm \/ AlarmsChecked \/ SignalsHandled \/ ClearStatus
        \/ \E s \in Signal : HandleSignal(s)

Next == \/ Loop \/ Preempt \/ NeedGC \/ EndSlice \/ SelectReturns
        \/ TimePasses \/ Tick
        \/ \E s \in Signal : Deliver(s)
        \/ \E s \in Signal, c \in Closure : RegisterSignal(s, c)
        \/ \E a \in Alarm, delay \in 1..MaxTime : RegisterAlarm(a, delay)

Spec == Init /\ [][Next]_vars

(***************************************************************************)
(* Time passes; the loop goes on; a thread calls procedures and is thus    *)
(* preempted when a bit stays set; the timer is not in step with the loop, *)
(* so that again and again it strikes in a time slice outside the few      *)
(* instructions of an update, and in a select call.                        *)
(***************************************************************************)
Fairness == /\ WF_vars(TimePasses)
            /\ WF_vars(Loop)
            /\ SF_vars(Preempt)
            /\ SF_vars(Tick /\ pc = "run")
            /\ SF_vars(Tick /\ pc = "block")

FairSpec == Spec /\ Fairness

-----------------------------------------------------------------------------
(* The type invariant. *)
TypeOK ==
  /\ status \in SUBSET {"preempt", "signal", "gc"} /\ reg \in SUBSET {"preempt", "signal", "gc"}
  /\ pending \in [Signal -> Nat]
  /\ handlers \in [Signal -> Seq(Closure)]
  /\ installed \in SUBSET Signal
  /\ alarms \in Seq(Entry)
  /\ blocked \in BOOLEAN /\ woken \in BOOLEAN
  /\ raised \in SUBSET (Signal \cup {"SIGALRM"})
  /\ now \in 0..MaxTime
  /\ pc \in {"top", "run", "enlarge", "collect", "clearGC", "block", "check", "alarms",
             "signals", "clear"}
  /\ started \in [Closure -> Nat]
  /\ fired \in SUBSET Alarm

(***************************************************************************)
(* Alarms go off in the order of their times, none before its own: when    *)
(* the future of an alarm is bound, its time has come, and no alarm that   *)
(* is still to come is earlier.  CheckAlarms relies on it when it stops at *)
(* the first entry that is not due.                                        *)
(***************************************************************************)
AlarmsInOrder ==
  [][\A i \in 1..Len(alarms) : alarms[i].alarm \in fired' =>
       /\ alarms[i].time <= now
       /\ \A j \in 1..Len(alarms') : alarms'[j].time >= alarms[i].time]_vars

(***************************************************************************)
(* A registration is good for one thread, however often its signal arrives *)
(* while the handlers are started or while signals are blocked: a closure  *)
(* that was given its thread is in no list any more.                       *)
(***************************************************************************)
HandlersOneShot ==
  \A c \in Closure :
    started[c] <= 1 /\ (started[c] = 1 => \A s \in Signal : ~Registered(c, s))

(***************************************************************************)
(* No alarm is lost: its future is eventually bound, although the bit that *)
(* makes the loop look at the list may be cleared or overwritten.          *)
(***************************************************************************)
AlarmsFire == \A a \in Alarm : Pending(a) ~> a \in fired

(***************************************************************************)
(* No signal is lost: every handler that is registered when its signal has *)
(* arrived gets its thread, also if the signal came while signals were     *)
(* blocked, or between their unblocking and ClearStatus.                   *)
(***************************************************************************)
HandlersStart ==
  \A s \in Signal, c \in Closure :
    Registered(c, s) /\ (pending[s] > 0 \/ s \in raised) ~> started[c] = 1

(***************************************************************************)
(* Every time slice ends: a thread that computes for ever is preempted,    *)
(* although updates of the status word may undo the timer's.  It justifies *)
(* the fairness of Preempt in module Scheduler.                            *)
(***************************************************************************)
SlicesEnd == pc = "run" ~> pc \notin {"run", "enlarge"}
=============================================================================
