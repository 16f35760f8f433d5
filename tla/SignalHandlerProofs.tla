------------------------- MODULE SignalHandlerProofs -------------------------
(***************************************************************************)
(* Proofs about SignalHandler, for any sets of signals, registrations and  *)
(* alarms.                                                                 *)
(***************************************************************************)
EXTENDS SignalHandler, SequenceTheorems, LeastNumber

-----------------------------------------------------------------------------
(* The inductive invariant. *)

(* A closure is in the list of one signal, and has no thread yet. *)
OneList ==
  \A c \in Closure, s \in Signal : Registered(c, s) =>
    started[c] = 0 /\ \A r \in Signal : Registered(c, r) => r = s

StartedOnce == \A c \in Closure : started[c] <= 1

(* What makes the head of the list of alarms the next one to go off *)
AlarmsSorted ==
  \A i, j \in 1..Len(alarms) : i < j => alarms[i].time <= alarms[j].time

(* An alarm is in the list once, and not when it has gone off. *)
AlarmsDistinct ==
  \A i \in 1..Len(alarms) :
    /\ alarms[i].alarm \notin fired
    /\ \A j \in 1..Len(alarms) : alarms[i].alarm = alarms[j].alarm => i = j

SignalInv == TypeOK /\ OneList /\ StartedOnce /\ AlarmsSorted /\ AlarmsDistinct

-----------------------------------------------------------------------------
(* The list of alarms *)

(***************************************************************************)
(* The loop of RegisterAlarm finds its place: the new entry comes after    *)
(* the entries at the head that are not later, before the first that is.   *)
(***************************************************************************)
LEMMA InsertPlace ==
  ASSUME NEW e \in Entry, alarms \in Seq(Entry)
  PROVE  \E k \in 0..Len(alarms) :
           /\ \A i \in 1..k : alarms[i].time <= e.time
           /\ k < Len(alarms) => alarms[k + 1].time > e.time
           /\ Insert(e) \in Seq(Entry)
           /\ Len(Insert(e)) = Len(alarms) + 1
           /\ \A i \in 1..(Len(alarms) + 1) :
                Insert(e)[i] = IF i <= k THEN alarms[i] ELSE IF i = k + 1 THEN e ELSE alarms[i - 1]
<1> DEFINE n == Len(alarms)
           P(k) == /\ \A i \in 1..k : alarms[i].time <= e.time
                   /\ k < n => alarms[k + 1].time > e.time
           k == CHOOSE k \in 0..n : P(k)
<1>1. n \in Nat /\ \A i \in 1..n : alarms[i] \in Entry /\ alarms[i].time \in Nat
  <2>1. n \in Nat /\ \A i \in 1..n : alarms[i] \in Entry
    BY ElementOfSeq
  <2>2. \A x \in Entry : x.time \in 0..MaxTime
    BY DEF Entry
  <2>3. \A x \in Entry : x.time \in Nat
    BY <2>2, SignalAssumption
  <2> QED BY <2>1, <2>3
<1>2. e.time \in Nat
  BY SignalAssumption DEF Entry
<1>3. \E m \in 0..n : P(m)
  <2> DEFINE L == {m \in 0..n : m < n => alarms[m + 1].time > e.time}
  <2>1. n \in L /\ L \in SUBSET Nat
    BY <1>1
  <2>2. PICK m \in L : \A y \in L : m <= y
    BY <2>1, LeastNat
  <2>3. ASSUME NEW i \in 1..m PROVE alarms[i].time <= e.time
    <3>1. i - 1 \in 0..n /\ i - 1 < m /\ i \in 1..n /\ i - 1 < n /\ (i - 1) + 1 = i
      BY <1>1
    <3>2. i - 1 \notin L
      BY <2>2, <3>1
    <3> QED BY <1>1, <1>2, <3>1, <3>2
  <2> QED BY <2>2, <2>3
<1>4. k \in 0..n /\ P(k)
  BY <1>3
<1>5. Insert(e) = SubSeq(alarms, 1, k) \o <<e>> \o SubSeq(alarms, k + 1, n)
  BY DEF Insert
<1> HIDE DEF k
<1>6. /\ SubSeq(alarms, 1, k) \in Seq(Entry) /\ Len(SubSeq(alarms, 1, k)) = k
      /\ \A i \in 1..k : SubSeq(alarms, 1, k)[i] = alarms[i]
  BY <1>1, <1>4
<1>7. /\ SubSeq(alarms, k + 1, n) \in Seq(Entry) /\ Len(SubSeq(alarms, k + 1, n)) = n - k
      /\ \A i \in 1..(n - k) : SubSeq(alarms, k + 1, n)[i] = alarms[k + i]
  BY <1>1, <1>4
<1>8. /\ Insert(e) \in Seq(Entry) /\ Len(Insert(e)) = n + 1
      /\ \A i \in 1..(n + 1) :
           Insert(e)[i] = IF i <= k THEN alarms[i] ELSE IF i = k + 1 THEN e ELSE alarms[i - 1]
  <2> DEFINE a == SubSeq(alarms, 1, k)
             b == SubSeq(alarms, k + 1, n)
  <2>b. a \in Seq(Entry) /\ Len(a) = k /\ (\A i \in 1..k : a[i] = alarms[i])
        /\ b \in Seq(Entry) /\ Len(b) = n - k /\ (\A i \in 1..(n - k) : b[i] = alarms[k + i])
    BY <1>6, <1>7
  <2>a. Insert(e) = a \o <<e>> \o b
    BY <1>5
  <2> HIDE DEF a, b
  <2>1. /\ a \o <<e>> \in Seq(Entry) /\ Len(a \o <<e>>) = k + 1
        /\ \A i \in 1..(k + 1) : (a \o <<e>>)[i] = IF i <= k THEN alarms[i] ELSE e
    <3>1. <<e>> \in Seq(Entry) /\ Len(<<e>>) = 1 /\ <<e>>[1] = e
      OBVIOUS
    <3>2. /\ a \o <<e>> \in Seq(Entry) /\ Len(a \o <<e>>) = Len(a) + Len(<<e>>)
          /\ \A i \in 1..(Len(a) + Len(<<e>>)) :
               (a \o <<e>>)[i] = IF i <= Len(a) THEN a[i] ELSE <<e>>[i - Len(a)]
      BY <3>1, <2>b, ConcatProperties
    <3> QED BY <3>1, <3>2, <2>b, <1>4, <1>1
  <2> DEFINE c == a \o <<e>>
  <2> HIDE DEF c
  <2>2. /\ c \in Seq(Entry) /\ Len(c) = k + 1 /\ Len(c) + Len(b) = n + 1
        /\ \A i \in 1..(k + 1) : c[i] = IF i <= k THEN alarms[i] ELSE e
    <3>1. /\ c \in Seq(Entry) /\ Len(c) = k + 1
          /\ \A i \in 1..(k + 1) : c[i] = IF i <= k THEN alarms[i] ELSE e
      BY <2>1, Zenon DEF c
    <3> QED BY <3>1, <2>b, <1>1, <1>4
  <2>3. /\ c \o b \in Seq(Entry) /\ Len(c \o b) = Len(c) + Len(b)
        /\ \A i \in 1..(Len(c) + Len(b)) : (c \o b)[i] = IF i <= Len(c) THEN c[i] ELSE b[i - Len(c)]
    <3>1. c \in Seq(Entry) /\ b \in Seq(Entry)
      BY <2>b, <2>2
    <3> QED BY ONLY <3>1, ConcatProperties
  <2>4. \A i \in 1..(n + 1) : i > k + 1 => b[i - (k + 1)] = alarms[i - 1]
    BY <2>b, <1>1, <1>4
  <2>5. Insert(e) = c \o b
    BY <2>a DEF c
  <2> QED BY <2>5, <2>2, <2>3, <2>4, <1>4, <1>1
<1> QED BY <1>4, <1>8
-----------------------------------------------------------------------------
(* The initial state satisfies the invariant: nothing is registered. *)
LEMMA InitSignals == Init => SignalInv
<1> SUFFICES ASSUME Init PROVE SignalInv
  OBVIOUS
<1>1. TypeOK
  <2>1. <<>> \in Seq(Entry) /\ <<>> \in Seq(Closure) /\ 0 \in 0..MaxTime
    BY SignalAssumption
  <2>2. /\ pending \in [Signal -> Nat] /\ handlers \in [Signal -> Seq(Closure)]
        /\ started \in [Closure -> Nat] /\ alarms \in Seq(Entry) /\ now \in 0..MaxTime
    BY <2>1 DEF Init
  <2> QED BY <2>2 DEF Init, TypeOK
<1>2. OneList /\ StartedOnce
  BY DEF Init, OneList, StartedOnce, Registered
<1>3. AlarmsSorted /\ AlarmsDistinct
  BY DEF Init, AlarmsSorted, AlarmsDistinct
<1> QED BY <1>1, <1>2, <1>3 DEF SignalInv

(* A step that leaves the lists alone leaves what is said of them alone. *)
LEMMA ListsStay ==
  ASSUME SignalInv, UNCHANGED <<handlers, started, alarms, fired>>
  PROVE  OneList' /\ StartedOnce' /\ AlarmsSorted' /\ AlarmsDistinct'
BY DEF SignalInv, OneList, StartedOnce, AlarmsSorted, AlarmsDistinct, Registered

(***************************************************************************)
(* The actions that touch neither list: the timer, deliveries, updates of  *)
(* the status word and the steps of the loop.                              *)
(***************************************************************************)
Quiet == \/ Dequeue \/ SetStatus \/ Collect \/ ClearGC \/ SelectInterrupted
         \/ CheckStatus \/ AlarmsChecked \/ SignalsHandled \/ ClearStatus
         \/ Preempt \/ NeedGC \/ EndSlice \/ SelectReturns \/ TimePasses \/ Tick
         \/ \E s \in Signal : Deliver(s)

(* The timer and the loop of Scheduler::Run leave registrations and alarms alone. *)
LEMMA QuietKeeps ==
  ASSUME SignalInv, Quiet
  PROVE  SignalInv' /\ UNCHANGED <<handlers, started, alarms, fired>>
<1> USE DEF SignalInv, TypeOK, sigVars, timeVars, Goes
<1>1. UNCHANGED <<handlers, started, alarms, fired>>
  BY DEF Quiet, Dequeue, SetStatus, Collect, ClearGC, SelectInterrupted, CheckStatus,
         AlarmsChecked, SignalsHandled, ClearStatus, Preempt, NeedGC, EndSlice,
         SelectReturns, TimePasses, Tick, Deliver
<1>2. TypeOK'
  <2>1. CASE Dequeue
    BY <2>1 DEF Dequeue
  <2>2. CASE SetStatus
    BY <2>2 DEF SetStatus
  <2>3. CASE Collect
    BY <2>3 DEF Collect
  <2>4. CASE ClearGC
    BY <2>4 DEF ClearGC
  <2>5. CASE SelectInterrupted \/ SelectReturns
    BY <2>5 DEF SelectInterrupted, SelectReturns
  <2>6. CASE CheckStatus
    BY <2>6 DEF CheckStatus
  <2>7. CASE AlarmsChecked \/ ClearStatus
    BY <2>7 DEF AlarmsChecked, ClearStatus
  <2>8. CASE SignalsHandled
    <3>1. pending' \in [Signal -> Nat]
      BY <2>8 DEF SignalsHandled, UnblockSignals
    <3>2. status' \in SUBSET {"preempt", "signal", "gc"}
      BY <2>8, Zenon DEF SignalsHandled, UnblockSignals
    <3>3. raised' = {} /\ blocked' = FALSE
      BY <2>8 DEF SignalsHandled, UnblockSignals
    <3> QED BY <2>8, <3>1, <3>2, <3>3 DEF SignalsHandled
  <2>9. CASE Preempt \/ NeedGC \/ EndSlice
    BY <2>9 DEF Preempt, NeedGC, EndSlice
  <2>10. CASE TimePasses
    BY <2>10, SignalAssumption DEF TimePasses
  <2>11. CASE Tick
    BY <2>11 DEF Tick, Interrupts
  <2>12. CASE \E s \in Signal : Deliver(s)
    <3>1. PICK s \in Signal : Deliver(s)
      BY <2>12
    <3>2. pending' \in [Signal -> Nat]
      <4>1. pending \in [Signal -> Nat]
        OBVIOUS
      <4>2. pending' = pending \/ pending' = [pending EXCEPT ![s] = pending[s] + 1]
        BY <3>1, Zenon DEF Deliver
      <4> HIDE DEF SignalInv, TypeOK
      <4> QED BY <4>1, <4>2
    <3>3. status' \in SUBSET {"preempt", "signal", "gc"} /\ raised' \in SUBSET (Signal \cup {"SIGALRM"})
      BY <3>1 DEF Deliver
    <3>4. woken' \in BOOLEAN
      BY <3>1 DEF Deliver, Interrupts
    <3> QED BY <3>1, <3>2, <3>3, <3>4 DEF Deliver
  <2> QED BY <2>1, <2>2, <2>3, <2>4, <2>5, <2>6, <2>7, <2>8, <2>9, <2>10, <2>11, <2>12
          DEF Quiet
<1> QED BY <1>1, <1>2, ListsStay
-----------------------------------------------------------------------------
(* The actions on the lists *)

(* RegisterSignal: a new closure gets to the head of one list. *)
LEMMA RegisterKeeps ==
  ASSUME SignalInv, NEW s \in Signal, NEW c \in Closure, RegisterSignal(s, c)
  PROVE  SignalInv' /\ UNCHANGED <<alarms, fired>>
<1> DEFINE h == <<c>> \o handlers[s]
<1>1. handlers[s] \in Seq(Closure) /\ <<c>> \in Seq(Closure) /\ Len(<<c>>) = 1 /\ <<c>>[1] = c
  BY DEF SignalInv, TypeOK
<1>2. /\ h \in Seq(Closure) /\ Len(h) = 1 + Len(handlers[s])
      /\ \A i \in 1..(1 + Len(handlers[s])) : h[i] = IF i <= 1 THEN <<c>>[i] ELSE handlers[s][i - 1]
  BY <1>1, ConcatProperties
<1>3. handlers' = [handlers EXCEPT ![s] = h]
  BY DEF RegisterSignal
<1> HIDE DEF h
<1>4. handlers \in [Signal -> Seq(Closure)] /\ handlers' \in [Signal -> Seq(Closure)]
  BY <1>2, <1>3 DEF SignalInv, TypeOK
<1>5. TypeOK' /\ StartedOnce' /\ AlarmsSorted' /\ AlarmsDistinct'
  BY <1>4 DEF SignalInv, TypeOK, StartedOnce, AlarmsSorted, AlarmsDistinct, RegisterSignal, timeVars
<1>6. ASSUME NEW d \in Closure, NEW r \in Signal, Registered(d, r)'
      PROVE  (d = c /\ r = s) \/ (d # c /\ Registered(d, r))
  <2>1. PICK i \in 1..Len(handlers'[r]) : handlers'[r][i] = d
    BY <1>6 DEF Registered
  <2>2. CASE r # s
    <3>1. handlers'[r] = handlers[r]
      BY <1>3, <1>4, <2>2
    <3>2. Registered(d, r)
      BY <2>1, <3>1 DEF Registered
    <3> QED BY <3>2 DEF RegisterSignal
  <2>3. CASE r = s
    <3>1. handlers'[s] = h
      BY <1>3, <1>4
    <3>2. CASE i = 1
      BY <1>1, <1>2, <2>1, <2>3, <3>1, <3>2
    <3>3. CASE i # 1
      <4>1. i - 1 \in 1..Len(handlers[s]) /\ handlers[s][i - 1] = d
        BY <1>1, <1>2, <2>1, <2>3, <3>1, <3>3
      <4>2. Registered(d, s)
        BY <4>1 DEF Registered
      <4> QED BY <4>2, <2>3 DEF RegisterSignal
    <3> QED BY <3>2, <3>3
  <2> QED BY <2>2, <2>3
<1>7. OneList'
  <2>1. started' = started /\ started[c] = 0
    BY DEF RegisterSignal
  <2> QED BY <1>6, <2>1 DEF SignalInv, OneList
<1> QED BY <1>5, <1>7 DEF SignalInv, RegisterSignal, timeVars

(***************************************************************************)
(* One delivery of s: the closures in its list get their thread and are in *)
(* no list any more; the others are in none of the same list.              *)
(***************************************************************************)
LEMMA HandleKeeps ==
  ASSUME SignalInv, NEW s \in Signal, HandleSignal(s)
  PROVE  SignalInv' /\ UNCHANGED <<alarms, fired>>
<1>1. handlers' \in [Signal -> Seq(Closure)] /\ handlers' = [handlers EXCEPT ![s] = <<>>]
      /\ handlers \in [Signal -> Seq(Closure)]
  BY DEF SignalInv, TypeOK, HandleSignal
<1>2. /\ started \in [Closure -> Nat]
      /\ started' = [c \in Closure |-> IF Registered(c, s) THEN started[c] + 1 ELSE started[c]]
  BY DEF SignalInv, TypeOK, HandleSignal
<1>3. started' \in [Closure -> Nat]
  BY <1>2
<1>4. pending' \in [Signal -> Nat]
  BY DEF SignalInv, TypeOK, HandleSignal
<1>5. TypeOK'
  BY <1>1, <1>3, <1>4 DEF SignalInv, TypeOK, HandleSignal, timeVars
<1>6. AlarmsSorted' /\ AlarmsDistinct' /\ UNCHANGED <<alarms, fired>>
  BY DEF SignalInv, AlarmsSorted, AlarmsDistinct, HandleSignal, timeVars
<1>7. ASSUME NEW c \in Closure, NEW r \in Signal, Registered(c, r)'
      PROVE  r # s /\ Registered(c, r)
  <2>1. handlers'[s] = <<>> /\ (r # s => handlers'[r] = handlers[r])
    BY <1>1
  <2> QED BY <1>7, <2>1 DEF Registered
<1>8. StartedOnce'
  BY <1>2 DEF SignalInv, StartedOnce, OneList
<1>9. OneList'
  <2>1. ASSUME NEW c \in Closure, NEW r \in Signal, Registered(c, r)' PROVE started'[c] = 0
    BY <1>2, <1>7, <2>1 DEF SignalInv, OneList
  <2> QED BY <1>7, <2>1 DEF SignalInv, OneList
<1> QED BY <1>5, <1>6, <1>8, <1>9 DEF SignalInv

(* RegisterAlarm puts an alarm that is new at the place its time has. *)
LEMMA RegisterAlarmKeeps ==
  ASSUME SignalInv, NEW a \in Alarm, NEW delay \in 1..MaxTime, RegisterAlarm(a, delay)
  PROVE  SignalInv' /\ UNCHANGED fired
<1> DEFINE e == [alarm |-> a, time |-> now + delay]
<1>1. e \in Entry /\ e.alarm = a /\ e.time \in Nat /\ alarms' = Insert(e) /\ alarms \in Seq(Entry)
  BY SignalAssumption DEF SignalInv, TypeOK, RegisterAlarm, Entry
<1> HIDE DEF e
<1>2. PICK k \in 0..Len(alarms) :
           /\ \A i \in 1..k : alarms[i].time <= e.time
           /\ k < Len(alarms) => alarms[k + 1].time > e.time
           /\ Insert(e) \in Seq(Entry)
           /\ Len(Insert(e)) = Len(alarms) + 1
           /\ \A i \in 1..(Len(alarms) + 1) :
                Insert(e)[i] = IF i <= k THEN alarms[i] ELSE IF i = k + 1 THEN e ELSE alarms[i - 1]
  BY <1>1, InsertPlace
<1>3. Len(alarms) \in Nat /\ \A i \in 1..Len(alarms) : alarms[i].time \in Nat
  <2>1. \A i \in 1..Len(alarms) : alarms[i] \in Entry
    BY <1>1, ElementOfSeq
  <2>2. \A x \in Entry : x.time \in Nat
    BY SignalAssumption DEF Entry
  <2> QED BY <1>1, <2>1, <2>2
<1>4. /\ alarms' \in Seq(Entry)
      /\ Len(alarms') = Len(alarms) + 1
      /\ \A i \in 1..(Len(alarms) + 1) :
            alarms'[i] = IF i <= k THEN alarms[i] ELSE IF i = k + 1 THEN e ELSE alarms[i - 1]
  BY <1>1, <1>2
<1>5. TypeOK'
  BY <1>4 DEF SignalInv, TypeOK, RegisterAlarm, sigVars
<1>6. OneList' /\ StartedOnce'
  BY DEF SignalInv, OneList, StartedOnce, Registered, RegisterAlarm, sigVars
<1>7. AlarmsSorted'
  <2>1. ASSUME NEW i \in 1..(k + 1) PROVE i \in 1..k \/ i = k + 1
    BY <1>3
  <2>2. \A i, j \in 1..Len(alarms) : i < j => alarms[i].time <= alarms[j].time
    BY DEF SignalInv, AlarmsSorted
  <2>3. \A j \in 1..Len(alarms) : j > k => alarms[j].time >= e.time
    BY <1>1, <1>2, <1>3, <2>2
  <2>4. ASSUME NEW i \in 1..Len(alarms'), NEW j \in 1..Len(alarms'), i < j
        PROVE  alarms'[i].time <= alarms'[j].time
    <3>1. CASE j <= k
      BY <1>3, <1>4, <2>2, <2>4, <3>1
    <3>2. CASE j = k + 1
      BY <1>2, <1>3, <1>4, <2>4, <3>2
    <3>3. CASE j > k + 1 /\ i = k + 1
      BY <1>3, <1>4, <2>3, <2>4, <3>3
    <3>4. CASE j > k + 1 /\ i # k + 1
      <4> DEFINE at(m) == IF m <= k THEN m ELSE m - 1
      <4>1. at(i) \in 1..Len(alarms) /\ at(j) \in 1..Len(alarms) /\ at(i) < at(j)
        BY <1>3, <1>4, <2>4, <3>4
      <4>2. alarms'[i] = alarms[at(i)] /\ alarms'[j] = alarms[at(j)]
        BY <1>3, <1>4, <2>4, <3>4
      <4> HIDE DEF at
      <4> QED BY <2>2, <4>1, <4>2
    <3> QED BY <3>1, <3>2, <3>3, <3>4, <1>3
  <2> QED BY <2>4 DEF AlarmsSorted
<1>8. AlarmsDistinct'
  <2>1. a \notin fired /\ fired' = fired /\ \A i \in 1..Len(alarms) : alarms[i].alarm # a
    BY DEF RegisterAlarm, Pending
  <2>2. ASSUME NEW i \in 1..Len(alarms')
        PROVE  \/ i = k + 1 /\ alarms'[i].alarm = a
               \/ /\ i # k + 1
                  /\ (IF i <= k THEN i ELSE i - 1) \in 1..Len(alarms)
                  /\ alarms'[i] = alarms[IF i <= k THEN i ELSE i - 1]
    BY <1>1, <1>3, <1>4
  <2>3. ASSUME NEW i \in 1..Len(alarms') PROVE alarms'[i].alarm \notin fired'
    BY <2>1, <2>2 DEF SignalInv, AlarmsDistinct
  <2>4. ASSUME NEW i \in 1..Len(alarms'), NEW j \in 1..Len(alarms'),
               alarms'[i].alarm = alarms'[j].alarm
        PROVE  i = j
    <3>1. CASE i = k + 1 \/ j = k + 1
      BY <2>1, <2>2, <2>4, <3>1
    <3>2. CASE i # k + 1 /\ j # k + 1
      <4> DEFINE at(m) == IF m <= k THEN m ELSE m - 1
      <4>1. at(i) \in 1..Len(alarms) /\ at(j) \in 1..Len(alarms)
            /\ alarms[at(i)].alarm = alarms[at(j)].alarm
        BY <2>2, <2>4, <3>2, Zenon
      <4>2. at(i) = at(j)
        BY <4>1 DEF SignalInv, AlarmsDistinct
      <4> QED BY <4>2, <3>2, <1>3, <1>4
    <3> QED BY <3>1, <3>2
  <2> QED BY <2>3, <2>4 DEF AlarmsDistinct
<1> QED BY <1>5, <1>6, <1>7, <1>8 DEF SignalInv, RegisterAlarm

(* CheckAlarms takes the head of a sorted list. *)
LEMMA FireKeeps ==
  ASSUME SignalInv, FireAlarm
  PROVE  /\ SignalInv'
         /\ alarms # <<>> /\ fired' = fired \cup {alarms[1].alarm} /\ alarms[1].time <= now
         /\ Len(alarms') = Len(alarms) - 1
         /\ \A i \in 1..Len(alarms') : alarms'[i] = alarms[i + 1]
<1>1. alarms \in Seq(Entry) /\ alarms # <<>> /\ alarms' = Tail(alarms)
  BY DEF SignalInv, TypeOK, FireAlarm
<1>2. /\ alarms' \in Seq(Entry) /\ Len(alarms) \in Nat /\ Len(alarms') = Len(alarms) - 1
      /\ Len(alarms) >= 1
      /\ Head(alarms) = alarms[1]
      /\ \A i \in 1..Len(alarms') : alarms'[i] = alarms[i + 1]
  BY <1>1, HeadTailProperties
<1>3. alarms[1] \in Entry /\ alarms[1].alarm \in Alarm
  <2>1. alarms[1] \in Entry
    BY <1>1, <1>2, ElementOfSeq
  <2>2. \A x \in Entry : x.alarm \in Alarm
    BY DEF Entry
  <2> QED BY <2>1, <2>2
<1>4. TypeOK'
  BY <1>2, <1>3 DEF SignalInv, TypeOK, FireAlarm, sigVars
<1>5. OneList' /\ StartedOnce'
  BY DEF SignalInv, OneList, StartedOnce, Registered, FireAlarm, sigVars
<1>6. AlarmsSorted'
  <2>1. \A i \in 1..Len(alarms') : i + 1 \in 1..Len(alarms)
    BY <1>2
  <2>2. \A i, j \in 1..Len(alarms') : i < j => i + 1 < j + 1
    BY <1>2
  <2> QED BY <1>2, <2>1, <2>2 DEF SignalInv, AlarmsSorted
<1>7. fired' = fired \cup {alarms[1].alarm} /\ alarms[1].time <= now
  BY <1>2 DEF FireAlarm
<1>8. AlarmsDistinct'
  <2>1. \A i \in 1..Len(alarms') : i + 1 \in 1..Len(alarms) /\ i + 1 # 1
    BY <1>2
  <2> QED BY <1>2, <1>7, <2>1 DEF SignalInv, AlarmsDistinct
<1> QED BY <1>1, <1>2, <1>4, <1>5, <1>6, <1>7, <1>8 DEF SignalInv
-----------------------------------------------------------------------------
(* Every step either is quiet or works on one of the lists. *)
LEMMA StepSignals == SignalInv /\ [Next]_vars => SignalInv'
<1> SUFFICES ASSUME SignalInv, [Next]_vars PROVE SignalInv'
  OBVIOUS
<1>1. CASE Quiet
  BY <1>1, QuietKeeps
<1>2. CASE \E s \in Signal, c \in Closure : RegisterSignal(s, c)
  BY <1>2, RegisterKeeps
<1>3. CASE \E s \in Signal : HandleSignal(s)
  BY <1>3, HandleKeeps
<1>4. CASE \E a \in Alarm, delay \in 1..MaxTime : RegisterAlarm(a, delay)
  BY <1>4, RegisterAlarmKeeps
<1>5. CASE FireAlarm
  BY <1>5, FireKeeps
<1>6. CASE UNCHANGED vars
  <2>1. TypeOK'
    BY <1>6 DEF vars, sigVars, timeVars, SignalInv, TypeOK
  <2>2. UNCHANGED <<handlers, started, alarms, fired>>
    BY <1>6 DEF vars, sigVars, timeVars
  <2> QED BY <2>1, <2>2, ListsStay DEF SignalInv
<1> QED BY <1>1, <1>2, <1>3, <1>4, <1>5, <1>6 DEF Next, Loop, Quiet

(* The lists of handlers and of alarms are always in order. *)
THEOREM SignalInvariant == Spec => []SignalInv
BY InitSignals, StepSignals, PTL DEF Spec

(* Type correctness of the loop, the status word and the lists. *)
THEOREM SignalTypes == Spec => []TypeOK
<1>1. SignalInv => TypeOK
  BY DEF SignalInv
<1> QED BY <1>1, SignalInvariant, PTL

(***************************************************************************)
(* HandlePendingSignals: a registration is good for one thread, for any    *)
(* number of deliveries and however they interrupt the loop.               *)
(***************************************************************************)
THEOREM RegistrationsOneShot == Spec => []HandlersOneShot
<1>1. SignalInv => HandlersOneShot
  BY DEF SignalInv, TypeOK, OneList, StartedOnce, HandlersOneShot
<1> QED BY <1>1, SignalInvariant, PTL

(***************************************************************************)
(* CheckAlarms: alarms go off in the order of their times, none early, for *)
(* any number of alarms and whatever order they were registered in.        *)
(***************************************************************************)
THEOREM AlarmOrder == Spec => AlarmsInOrder
<1> DEFINE InOrder == \A i \in 1..Len(alarms) : alarms[i].alarm \in fired' =>
             /\ alarms[i].time <= now
             /\ \A j \in 1..Len(alarms') : alarms'[j].time >= alarms[i].time
<1>1. ASSUME SignalInv, UNCHANGED fired PROVE InOrder
  BY <1>1 DEF SignalInv, AlarmsDistinct
<1>2. ASSUME SignalInv, FireAlarm PROVE InOrder
  <2>1. /\ alarms # <<>> /\ fired' = fired \cup {alarms[1].alarm} /\ alarms[1].time <= now
        /\ Len(alarms') = Len(alarms) - 1
        /\ \A i \in 1..Len(alarms') : alarms'[i] = alarms[i + 1]
    BY <1>2, FireKeeps
  <2>2. Len(alarms) \in Nat /\ Len(alarms) >= 1 /\ \A i \in 1..Len(alarms) : alarms[i].time \in Nat
    <3>1. alarms \in Seq(Entry)
      BY <1>2 DEF SignalInv, TypeOK
    <3>2. \A i \in 1..Len(alarms) : alarms[i] \in Entry
      BY <3>1, ElementOfSeq
    <3>3. \A x \in Entry : x.time \in Nat
      BY SignalAssumption DEF Entry
    <3> QED BY <2>1, <3>1, <3>2, <3>3
  <2>3. SUFFICES ASSUME NEW i \in 1..Len(alarms), alarms[i].alarm \in fired'
                 PROVE  /\ alarms[i].time <= now
                        /\ \A j \in 1..Len(alarms') : alarms'[j].time >= alarms[i].time
    OBVIOUS
  <2>4. i = 1
    BY <1>2, <2>1, <2>2, <2>3 DEF SignalInv, AlarmsDistinct
  <2>5. \A j \in 2..Len(alarms) : alarms[1].time <= alarms[j].time
    BY <1>2, <2>2 DEF SignalInv, AlarmsSorted
  <2>6. \A j \in 1..Len(alarms') : j + 1 \in 2..Len(alarms)
    BY <2>1, <2>2
  <2> QED BY <2>1, <2>2, <2>4, <2>5, <2>6
<1>3. SignalInv /\ [Next]_vars => [InOrder]_vars
  <2> SUFFICES ASSUME SignalInv, Next PROVE InOrder
    OBVIOUS
  <2>1. CASE FireAlarm
    BY <1>2, <2>1
  <2>2. CASE Quiet
    BY <1>1, <2>2, QuietKeeps
  <2>3. CASE \E s \in Signal, c \in Closure : RegisterSignal(s, c)
    BY <1>1, <2>3, RegisterKeeps
  <2>4. CASE \E s \in Signal : HandleSignal(s)
    BY <1>1, <2>4, HandleKeeps
  <2>5. CASE \E a \in Alarm, delay \in 1..MaxTime : RegisterAlarm(a, delay)
    BY <1>1, <2>5, RegisterAlarmKeeps
  <2> QED BY <2>1, <2>2, <2>3, <2>4, <2>5 DEF Next, Loop, Quiet
<1> QED BY <1>3, SignalInvariant, PTL DEF Spec, AlarmsInOrder
=============================================================================
