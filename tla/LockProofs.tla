----------------------------- MODULE LockProofs -----------------------------
(***************************************************************************)
(* Proofs about Lock, for any number of threads, calls and nestings.       *)
(***************************************************************************)
EXTENDS Lock, TLAPS

(* The new lock satisfies the invariant: its only promise is the unit 0. *)
LEMMA InitLock == Init => LockInv
BY LockAssumption, SMTT(30)
DEF Init, LockInv, TypeOK, OwnerExact, Waiting, Holds

(***************************************************************************)
(* Every step of a thread preserves the invariant.  The one argument that  *)
(* is not local is Fulfill: the promise before mine is fulfilled, so that  *)
(* the fulfilled promises stay an initial segment, and no other thread     *)
(* owns mine.                                                              *)
(***************************************************************************)
LEMMA StepLock == LockInv /\ [Next]_vars => LockInv'
<1> SUFFICES ASSUME LockInv, [Next]_vars PROVE LockInv'
  OBVIOUS
<1> USE LockAssumption DEF LockInv, TypeOK, OwnerExact, Waiting, Holds, Goes
<1>1. ASSUME NEW t \in Thread, EnterHeld(t) PROVE LockInv'
  BY <1>1 DEF EnterHeld
<1>2. ASSUME NEW t \in Thread, Enter(t) PROVE LockInv'
  BY <1>2 DEF Enter
<1>3. ASSUME NEW t \in Thread, Exchange(t) PROVE LockInv'
  BY <1>3, SMTT(30) DEF Exchange
<1>4. ASSUME NEW t \in Thread, Await(t) PROVE LockInv'
  BY <1>4 DEF Await
<1>5. ASSUME NEW t \in Thread, Interrupt(t) PROVE LockInv'
  <2>1. mine[t] \in Nat /\ abandoned' = abandoned \cup {mine[t]}
    BY <1>5 DEF Interrupt
  <2>2. abandoned' \in SUBSET Nat
    BY <2>1
  <2> QED BY <1>5, <2>2 DEF Interrupt
<1>6. ASSUME NEW t \in Thread, Acquire(t) PROVE LockInv'
  BY <1>6 DEF Acquire
<1>7. ASSUME NEW t \in Thread, LeaveNested(t) PROVE LockInv'
  BY <1>7 DEF LeaveNested
<1>8. ASSUME NEW t \in Thread, Leave(t) PROVE LockInv'
  BY <1>8 DEF Leave
<1>9. ASSUME NEW t \in Thread, Fulfill(t) PROVE LockInv'
  <2>1. mine[t] - 1 \in fulfilled /\ mine[t] \in 1..signal /\ mine[t] \notin fulfilled
    BY <1>9 DEF Fulfill
  <2>2. \A p \in fulfilled' : p <= signal' /\ \A q \in 0..p : q \in fulfilled'
    <3>1. fulfilled' = fulfilled \cup {mine[t]} /\ signal' = signal
      BY <1>9 DEF Fulfill
    <3>2. \A q \in 0..mine[t] : q \in 0..(mine[t] - 1) \/ q = mine[t]
      BY <2>1
    <3> QED BY <2>1, <3>1, <3>2
  <2>3. TypeOK' /\ OwnerExact'
    <3>1. mine[t] \in Nat /\ fulfilled' = fulfilled \cup {mine[t]}
      BY <1>9 DEF Fulfill
    <3>2. fulfilled' \in SUBSET Nat
      BY <3>1
    <3> QED BY <1>9, <3>2 DEF Fulfill
  <2>4. \A u \in Thread : Waiting(u)' => u # t /\ Waiting(u) /\ mine'[u] = mine[u]
    BY <1>9 DEF Fulfill
  <2>5. \A u \in Thread : Waiting(u)' => mine'[u] \in 1..signal' /\ mine'[u] \notin fulfilled'
    BY <1>9, <2>4 DEF Fulfill
  <2> QED BY <1>9, <2>2, <2>3, <2>4, <2>5 DEF Fulfill
<1>10. CASE UNCHANGED vars
  BY <1>10 DEF vars
<1> QED
  BY <1>1, <1>2, <1>3, <1>4, <1>5, <1>6, <1>7, <1>8, <1>9, <1>10 DEF Next

(***************************************************************************)
(* Of two holders, the one with the later promise has seen the promise     *)
(* before it fulfilled, and with it the promise of the other: but a holder *)
(* has not fulfilled its own.                                              *)
(***************************************************************************)
LEMMA ExclusionFromOrder == LockInv => MutualExclusion
BY DEF LockInv, TypeOK, MutualExclusion, Waiting, Holds

(* The promises of a lock are fulfilled in the order of the exchange. *)
THEOREM LockInvariant == Spec => []LockInv
BY InitLock, StepLock, PTL DEF Spec

(***************************************************************************)
(* Lock.sync never lets two threads evaluate a function under one lock,    *)
(* for any number of threads and calls and whoever is interrupted.         *)
(***************************************************************************)
THEOREM LockExcludes == Spec => []MutualExclusion
BY LockInvariant, ExclusionFromOrder, PTL

(* The reference cell of the owner always names the thread that holds it. *)
THEOREM LockOwner == Spec => []OwnerExact
<1>1. LockInv => OwnerExact
  BY DEF LockInv
<1> QED
  BY <1>1, LockInvariant, PTL
=============================================================================
