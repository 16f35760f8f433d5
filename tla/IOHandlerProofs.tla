--------------------------- MODULE IOHandlerProofs ---------------------------
(***************************************************************************)
(* Proofs about IOHandler, for any threads, descriptors and numbers.       *)
(***************************************************************************)
EXTENDS IOHandler, SequenceTheorems, LeastNumber

-----------------------------------------------------------------------------
(* The queues of entries *)

Vals(q) == {q[i] : i \in 1..Len(q)}

(* No two entries of a queue have the same future or the same number. *)
Distinct(q) == \A i, j \in 1..Len(q) : i # j => q[i].future # q[j].future /\ q[i].fd # q[j].fd

(* r is q without the entries whose numbers are in R. *)
Drops(q, r, R) == /\ r \in Seq(Entry)
                  /\ Vals(r) = {e \in Vals(q) : e.fd \notin R}
                  /\ Distinct(r)

(* Queue::RemoveNthElement leaves the other entries. *)
LEMMA RemoveNth ==
  ASSUME NEW q \in Seq(Entry), NEW i \in 1..Len(q), Distinct(q)
  PROVE  /\ RemoveNthElement(q, i) \in Seq(Entry)
         /\ Len(RemoveNthElement(q, i)) = Len(q) - 1
         /\ \A j \in 1..(Len(q) - 1) : RemoveNthElement(q, i)[j] = IF j < i THEN q[j] ELSE q[j + 1]
         /\ Vals(RemoveNthElement(q, i)) = {e \in Vals(q) : e.fd # q[i].fd}
         /\ Distinct(RemoveNthElement(q, i))
<1> DEFINE r == RemoveNthElement(q, i)
<1>1. Len(q) \in Nat /\ \A j \in 1..Len(q) : q[j] \in Entry
  BY LenProperties
<1>2. r = [j \in 1..(Len(q) - 1) |-> IF j < i THEN q[j] ELSE q[j + 1]]
  BY DEF RemoveNthElement
<1>3. r \in Seq(Entry) /\ Len(r) = Len(q) - 1
  BY <1>1, <1>2
<1>4. \A j \in 1..(Len(q) - 1) : r[j] = IF j < i THEN q[j] ELSE q[j + 1]
  BY <1>2
<1> HIDE DEF r
<1>5. ASSUME NEW e PROVE e \in Vals(r) <=> e \in Vals(q) /\ e.fd # q[i].fd
  <2>1. ASSUME e \in Vals(r) PROVE e \in Vals(q) /\ e.fd # q[i].fd
    <3>1. PICK j \in 1..(Len(q) - 1) : e = r[j]
      BY <2>1, <1>3 DEF Vals
    <3>2. PICK m \in 1..Len(q) : e = q[m] /\ m # i
      BY <3>1, <1>1, <1>4
    <3> QED BY <3>2 DEF Vals, Distinct
  <2>2. ASSUME e \in Vals(q), e.fd # q[i].fd PROVE e \in Vals(r)
    <3>1. PICK m \in 1..Len(q) : e = q[m]
      BY <2>2 DEF Vals
    <3>2. m # i
      BY <3>1, <2>2
    <3>3. PICK j \in 1..(Len(q) - 1) : (j < i /\ j = m) \/ (~(j < i) /\ j + 1 = m)
      <4>1. CASE m < i
        BY <1>1, <4>1
      <4>2. CASE m > i
        <5>1. m - 1 \in 1..(Len(q) - 1) /\ ~(m - 1 < i) /\ (m - 1) + 1 = m
          BY <1>1, <4>2
        <5> QED BY <5>1
      <4> QED BY <3>2, <4>1, <4>2, <1>1
    <3>4. r[j] = e
      BY <3>1, <3>3, <1>4
    <3> QED BY <3>4, <1>3 DEF Vals
  <2> QED BY <2>1, <2>2
<1>6. Distinct(r)
  <2> SUFFICES ASSUME NEW a \in 1..(Len(q) - 1), NEW b \in 1..(Len(q) - 1), a # b
               PROVE  r[a].future # r[b].future /\ r[a].fd # r[b].fd
    BY <1>3 DEF Distinct
  <2>1. PICK m \in 1..Len(q) : r[a] = q[m] /\ (m = IF a < i THEN a ELSE a + 1)
    BY <1>1, <1>4
  <2>2. PICK n \in 1..Len(q) : r[b] = q[n] /\ (n = IF b < i THEN b ELSE b + 1)
    BY <1>1, <1>4
  <2>3. m # n
    BY <2>1, <2>2
  <2> QED BY <2>1, <2>2, <2>3 DEF Distinct
<1> QED BY <1>3, <1>4, <1>5, <1>6 DEF r

(* Set::Remove: no entry of the number is left, the others stay. *)
LEMMA RemoveDrops ==
  ASSUME NEW q \in Seq(Entry), NEW n, Distinct(q)
  PROVE  Drops(q, Remove(q, n), {n})
<1> DEFINE at == {i \in 1..Len(q) : q[i].fd = n}
<1>1. CASE at = {}
  <2>1. Remove(q, n) = q
    BY <1>1 DEF Remove
  <2>2. \A e \in Vals(q) : e.fd # n
    BY <1>1 DEF Vals
  <2> QED BY <2>1, <2>2 DEF Drops
<1>2. CASE at # {}
  <2> DEFINE m == CHOOSE i \in at : \A j \in at : i <= j
  <2>1. Remove(q, n) = RemoveNthElement(q, m)
    BY <1>2 DEF Remove
  <2>2. Len(q) \in Nat /\ at \in SUBSET Nat
    BY LenProperties
  <2>3. \E i \in at : \A j \in at : i <= j
    <3> HIDE DEF at
    <3> QED BY <1>2, <2>2, LeastNat
  <2>4. m \in at
    BY <2>3
  <2>5. m \in 1..Len(q) /\ q[m].fd = n
    BY <2>4
  <2> HIDE DEF m, at
  <2> QED BY <2>1, <2>5, RemoveNth DEF Drops
<1> QED BY <1>1, <1>2

-----------------------------------------------------------------------------
(***************************************************************************)
(* The loop of Set::Schedule.  Its state is the queue and the index; the   *)
(* loop that starts in p ends in e if e is a state in which it stops and   *)
(* lies in every set that holds p and is closed under the loop's body.     *)
(* This gives a function that satisfies the equation of loop, hence says   *)
(* what the function chosen in Schedule computes.                          *)
(***************************************************************************)
Config == Seq(Entry) \X Nat
Stopped(p) == p[2] > Len(p[1])
Body(R, p) == IF p[1][p[2]].fd \in R THEN <<RemoveNthElement(p[1], p[2]), p[2]>>
              ELSE <<p[1], p[2] + 1>>
ClosedUnder(R, S) == \A p \in S : ~Stopped(p) => Body(R, p) \in S
Ends(R, p, e) == /\ e \in Config /\ Stopped(e)
                 /\ \A S \in SUBSET Config : p \in S /\ ClosedUnder(R, S) => e \in S

(* The equation of loop in Schedule *)
IsLoop(R, f) ==
  f = [p \in Seq(Entry) \X Nat |->
         IF p[2] > Len(p[1]) THEN p[1]
         ELSE IF p[1][p[2]].fd \in R THEN f[<<RemoveNthElement(p[1], p[2]), p[2]>>]
         ELSE f[<<p[1], p[2] + 1>>]]

(* The parts of a state of the loop *)
LEMMA ConfigParts ==
  ASSUME NEW p \in Config
  PROVE  p[1] \in Seq(Entry) /\ p[2] \in Nat /\ Len(p[1]) \in Nat /\ p = <<p[1], p[2]>>
  BY LenProperties DEF Config

(* The body of the loop stays among the states. *)
LEMMA BodyConfig ==
  ASSUME NEW R, NEW p \in Config, ~Stopped(p)
  PROVE  Body(R, p) \in Config
<1> DEFINE q == p[1]
           i == p[2]
           r == [j \in 1..(Len(q) - 1) |-> IF j < i THEN q[j] ELSE q[j + 1]]
<1>1. q \in Seq(Entry) /\ i \in Nat /\ Len(q) \in Nat /\ i <= Len(q)
  BY ConfigParts DEF Stopped
<1>2. RemoveNthElement(q, i) = r
  BY DEF RemoveNthElement
<1>3. r \in Seq(Entry)
  <2>1. PICK n \in Nat : 1..n = 1..(Len(q) - 1)
    <3>1. CASE Len(q) = 0
      <4>1. 1..0 = 1..(Len(q) - 1)
        BY <3>1
      <4> QED BY <4>1
    <3>2. CASE Len(q) # 0
      <4>1. Len(q) - 1 \in Nat
        BY <1>1, <3>2
      <4> QED BY <4>1
    <3> QED BY <3>1, <3>2
  <2>2. \A j \in 1..Len(q) : q[j] \in Entry
    BY <1>1, LenProperties
  <2>3. \A j \in 1..(Len(q) - 1) : (IF j < i THEN q[j] ELSE q[j + 1]) \in Entry
    BY <1>1, <2>2
  <2>4. r \in [1..n -> Entry]
    BY <2>1, <2>3
  <2> QED BY <2>4, SeqDef
<1>4. i + 1 \in Nat
  BY <1>1
<1> HIDE DEF q, i, r
<1>5. <<r, i>> \in Config /\ <<q, i + 1>> \in Config
  BY <1>1, <1>3, <1>4 DEF Config
<1> QED BY <1>2, <1>5 DEF Body, q, i

(* The loop ends where it would have ended after one more turn. *)
LEMMA EndsBody ==
  ASSUME NEW R, NEW p \in Config, ~Stopped(p), NEW e
  PROVE  Ends(R, p, e) <=> Ends(R, Body(R, p), e)
<1> DEFINE b == Body(R, p)
<1>1. b \in Config
  BY BodyConfig
<1>2. ASSUME Ends(R, b, e) PROVE Ends(R, p, e)
  BY <1>2 DEF Ends, ClosedUnder
<1>3. ASSUME Ends(R, p, e) PROVE Ends(R, b, e)
  <2>1. e \in Config /\ Stopped(e) /\ e # p
    BY <1>3 DEF Ends
  <2>2. ASSUME NEW S \in SUBSET Config, b \in S, ClosedUnder(R, S) PROVE e \in S
    <3>1. S \cup {p} \in SUBSET Config /\ p \in S \cup {p}
      OBVIOUS
    <3>2. ClosedUnder(R, S \cup {p})
      BY <2>2 DEF ClosedUnder
    <3> QED BY <1>3, <2>1, <3>1, <3>2 DEF Ends
  <2> HIDE DEF b
  <2> QED BY <2>1, <2>2 DEF Ends
<1> QED BY <1>2, <1>3

(* A state in which the loop stops is its own end. *)
LEMMA EndsStopped ==
  ASSUME NEW R, NEW p \in Config, Stopped(p), NEW e
  PROVE  Ends(R, p, e) <=> e = p
<1>1. {p} \in SUBSET Config /\ ClosedUnder(R, {p})
  BY DEF ClosedUnder
<1>2. Ends(R, p, e) => e = p
  BY <1>1 DEF Ends
<1>3. Ends(R, p, p)
  BY DEF Ends
<1> QED BY <1>2, <1>3

(* There is a function that satisfies the equation of the loop. *)
LEMMA LoopExists ==
  ASSUME NEW R
  PROVE  \E f : IsLoop(R, f)
<1> DEFINE end(p) == CHOOSE e : Ends(R, p, e)
           f == [p \in Config |-> end(p)[1]]
<1>1. ASSUME NEW p \in Config
      PROVE  f[p] = IF p[2] > Len(p[1]) THEN p[1]
                    ELSE IF p[1][p[2]].fd \in R THEN f[<<RemoveNthElement(p[1], p[2]), p[2]>>]
                    ELSE f[<<p[1], p[2] + 1>>]
  <2>1. CASE Stopped(p)
    <3>1. end(p) = p
      BY <2>1, EndsStopped
    <3>2. f[p] = end(p)[1]
      BY Zenon
    <3>3. p[2] > Len(p[1])
      BY <2>1 DEF Stopped
    <3> HIDE DEF f, end
    <3> QED BY <3>1, <3>2, <3>3
  <2>2. CASE ~Stopped(p)
    <3>1. Body(R, p) \in Config
      BY <2>2, BodyConfig
    <3>2. \A e : Ends(R, p, e) <=> Ends(R, Body(R, p), e)
      BY <2>2, EndsBody
    <3>3. end(p) = end(Body(R, p))
      BY <3>2
    <3>4. f[p] = end(p)[1]
      BY Zenon
    <3>5. f[Body(R, p)] = end(Body(R, p))[1]
      BY <3>1, Zenon
    <3>6. ~(p[2] > Len(p[1]))
      BY <2>2 DEF Stopped
    <3> HIDE DEF f, end
    <3>7. f[p] = f[Body(R, p)]
      BY <3>3, <3>4, <3>5
    <3> QED BY <3>6, <3>7 DEF Body
  <2> QED BY <2>1, <2>2
<1>2. f = [p \in Config |-> f[p]]
  OBVIOUS
<1> HIDE DEF f
<1>3. IsLoop(R, f)
  BY <1>1, <1>2 DEF IsLoop, Config
<1> QED BY <1>3

(* The result of Schedule is the queue in the state in which the loop ends. *)
LEMMA ScheduleLoop ==
  ASSUME NEW q, NEW R
  PROVE  \E f : IsLoop(R, f) /\ Schedule(q, R) = f[<<q, 1>>]
<1> DEFINE g == CHOOSE f : IsLoop(R, f)
<1>1. IsLoop(R, g)
  BY LoopExists, Zenon
<1>2. Schedule(q, R) = g[<<q, 1>>]
  BY Zenon DEF Schedule, IsLoop
<1> QED BY <1>1, <1>2, Zenon

(* The body of the loop, by the two branches *)
LEMMA BodyParts ==
  ASSUME NEW R, NEW p \in Config, ~Stopped(p), p[2] # 0
  PROVE  /\ p[2] \in 1..Len(p[1])
         /\ p[1][p[2]].fd \in R =>
              Body(R, p)[1] = RemoveNthElement(p[1], p[2]) /\ Body(R, p)[2] = p[2]
         /\ p[1][p[2]].fd \notin R => Body(R, p)[1] = p[1] /\ Body(R, p)[2] = p[2] + 1
<1>1. p[1] \in Seq(Entry) /\ p[2] \in Nat /\ Len(p[1]) \in Nat
  BY ConfigParts
<1>2. p[2] \in 1..Len(p[1])
  BY <1>1 DEF Stopped
<1> QED BY <1>2 DEF Body

(* A turn of the loop leaves one entry less to look at. *)
LEMMA BodyShorter ==
  ASSUME NEW R, NEW p \in Config, ~Stopped(p), p[2] # 0
  PROVE  /\ Body(R, p)[2] # 0
         /\ \A m \in Nat : p[2] + m = Len(p[1]) + 1 =>
              /\ m - 1 \in Nat
              /\ Body(R, p)[2] + (m - 1) = Len(Body(R, p)[1]) + 1
<1>1. p[1] \in Seq(Entry) /\ p[2] \in Nat /\ Len(p[1]) \in Nat
  BY ConfigParts
<1>2. p[2] \in 1..Len(p[1])
  BY BodyParts
<1>3. CASE p[1][p[2]].fd \in R
  <2>1. Body(R, p)[1] = RemoveNthElement(p[1], p[2]) /\ Body(R, p)[2] = p[2]
    BY <1>3, BodyParts
  <2>2. Len(RemoveNthElement(p[1], p[2])) = Len(p[1]) - 1
    <3>1. Len(p[1]) - 1 \in Nat
      BY <1>1, <1>2
    <3> QED BY <3>1 DEF RemoveNthElement
  <2> QED BY <1>1, <1>2, <2>1, <2>2
<1>4. CASE p[1][p[2]].fd \notin R
  <2>1. Body(R, p)[1] = p[1] /\ Body(R, p)[2] = p[2] + 1
    BY <1>4, BodyParts
  <2> QED BY <1>1, <1>2, <2>1
<1> QED BY <1>3, <1>4

(* The loop terminates. *)
LEMMA LoopEnds ==
  ASSUME NEW R, NEW q \in Seq(Entry)
  PROVE  \E e : Ends(R, <<q, 1>>, e)
<1> DEFINE Endless(p, m) == /\ p[2] # 0 /\ p[2] + m = Len(p[1]) + 1
                            /\ ~\E e : Ends(R, p, e)
           T == {m \in Nat : \E p \in Config : Endless(p, m)}
<1>1. T = {}
  <2> SUFFICES ASSUME T # {} PROVE FALSE
    OBVIOUS
  <2>1. T \in SUBSET Nat
    OBVIOUS
  <2>2. PICK m \in T : \A n \in T : m <= n
    <3> HIDE DEF T
    <3> QED BY <2>1, LeastNat
  <2>3. m \in Nat
    BY <2>1, <2>2
  <2>4. PICK p \in Config : Endless(p, m)
    BY <2>2
  <2>5. ~Stopped(p)
    BY <2>4, EndsStopped
  <2>6. /\ Body(R, p) \in Config /\ Body(R, p)[2] # 0 /\ m - 1 \in Nat
        /\ Body(R, p)[2] + (m - 1) = Len(Body(R, p)[1]) + 1
    BY <2>3, <2>4, <2>5, BodyConfig, BodyShorter
  <2>7. ~\E e : Ends(R, Body(R, p), e)
    BY <2>4, <2>5, EndsBody
  <2>8. m - 1 \in T
    BY <2>6, <2>7
  <2> HIDE DEF T
  <2> QED BY <2>2, <2>3, <2>8
<1>2. <<q, 1>> \in Config /\ <<q, 1>>[1] = q /\ <<q, 1>>[2] = 1 /\ Len(q) \in Nat
  BY LenProperties DEF Config
<1>3. ~Endless(<<q, 1>>, Len(q))
  BY <1>1, <1>2
<1>4. 1 + Len(q) = Len(q) + 1
  BY <1>2
<1> QED BY <1>2, <1>3, <1>4

(* What holds in every turn of the loop that starts with queue q *)
LoopInv(q, R, p) ==
  /\ p[2] # 0
  /\ Distinct(p[1])
  /\ Vals(p[1]) \subseteq Vals(q)
  /\ \A v \in Vals(q) : v.fd \notin R => v \in Vals(p[1])
  /\ \A j \in 1..Len(p[1]) : j < p[2] => p[1][j].fd \notin R

(* The body of the loop preserves it. *)
LEMMA BodyInv ==
  ASSUME NEW q, NEW R, NEW p \in Config, ~Stopped(p), LoopInv(q, R, p)
  PROVE  LoopInv(q, R, Body(R, p))
<1> DEFINE s == p[1]
           i == p[2]
<1>1. s \in Seq(Entry) /\ i \in 1..Len(s) /\ Len(s) \in Nat
  BY ConfigParts, BodyParts DEF LoopInv
<1>2. /\ Distinct(s)
      /\ Vals(s) \subseteq Vals(q)
      /\ \A v \in Vals(q) : v.fd \notin R => v \in Vals(s)
      /\ \A j \in 1..Len(s) : j < i => s[j].fd \notin R
  BY DEF LoopInv
<1>3. CASE s[i].fd \in R
  <2> DEFINE r == RemoveNthElement(s, i)
  <2>1. Body(R, p)[1] = r /\ Body(R, p)[2] = i
    BY <1>3, BodyParts DEF LoopInv
  <2> HIDE DEF s, i
  <2>2. /\ Len(r) = Len(s) - 1
        /\ \A j \in 1..(Len(s) - 1) : r[j] = IF j < i THEN s[j] ELSE s[j + 1]
        /\ Vals(r) = {e \in Vals(s) : e.fd # s[i].fd}
        /\ Distinct(r)
    BY <1>1, <1>2, RemoveNth
  <2> HIDE DEF r
  <2>3. Vals(r) \subseteq Vals(q)
    BY <1>2, <2>2
  <2>4. \A v \in Vals(q) : v.fd \notin R => v \in Vals(r)
    BY <1>2, <1>3, <2>2
  <2>5. ASSUME NEW j \in 1..Len(r), j < i PROVE r[j].fd \notin R
    <3>1. j \in 1..(Len(s) - 1) /\ j \in 1..Len(s)
      BY <1>1, <2>2
    <3>2. r[j] = s[j]
      BY <2>2, <2>5, <3>1
    <3> QED BY <1>2, <2>5, <3>1, <3>2
  <2>6. i # 0
    BY <1>1
  <2> QED BY <2>1, <2>2, <2>3, <2>4, <2>5, <2>6 DEF LoopInv
<1>4. CASE s[i].fd \notin R
  <2>1. Body(R, p)[1] = s /\ Body(R, p)[2] = i + 1
    BY <1>4, BodyParts DEF LoopInv
  <2> HIDE DEF s, i
  <2>2. ASSUME NEW j \in 1..Len(s), j < i + 1 PROVE s[j].fd \notin R
    <3>1. j < i \/ j = i
      BY <1>1, <2>2
    <3> QED BY <1>2, <1>4, <3>1
  <2>3. i + 1 # 0
    BY <1>1
  <2> QED BY <1>2, <2>1, <2>2, <2>3 DEF LoopInv
<1> QED BY <1>3, <1>4

(***************************************************************************)
(* Set::Schedule drops exactly the entries whose numbers select reported,  *)
(* and keeps the others, once each.                                        *)
(***************************************************************************)
LEMMA ScheduleDrops ==
  ASSUME NEW q \in Seq(Entry), NEW R, Distinct(q)
  PROVE  Drops(q, Schedule(q, R), R)
<1> DEFINE s == <<q, 1>>
<1>1. s \in Config /\ s[1] = q /\ s[2] = 1
  BY DEF Config
<1>2. PICK f : IsLoop(R, f) /\ Schedule(q, R) = f[s]
  BY ScheduleLoop
<1>3. PICK e : Ends(R, s, e)
  BY LoopEnds
<1> HIDE DEF s
<1>4. e \in Config /\ Stopped(e)
  BY <1>3 DEF Ends
<1>5. ASSUME NEW p \in Config
      PROVE  /\ Stopped(p) => f[p] = p[1]
             /\ ~Stopped(p) => f[p] = f[Body(R, p)]
  BY <1>2 DEF IsLoop, Stopped, Body, Config
<1>6. f[e] = f[s]
  <2> DEFINE S == {p \in Config : f[p] = f[s]}
  <2>1. S \in SUBSET Config /\ s \in S
    BY <1>1
  <2>2. ClosedUnder(R, S)
    BY <1>5, BodyConfig DEF ClosedUnder
  <2>3. e \in S
    <3> HIDE DEF S
    <3> QED BY <1>3, <2>1, <2>2 DEF Ends
  <2> QED BY <2>3
<1>7. Schedule(q, R) = e[1]
  BY <1>2, <1>4, <1>5, <1>6
<1>8. LoopInv(q, R, e)
  <2> DEFINE S == {p \in Config : LoopInv(q, R, p)}
  <2>1. S \in SUBSET Config
    OBVIOUS
  <2>2. LoopInv(q, R, s)
    BY <1>1 DEF LoopInv
  <2>3. ClosedUnder(R, S)
    BY BodyConfig, BodyInv DEF ClosedUnder
  <2>4. e \in S
    <3>1. s \in S
      BY <1>1, <2>2
    <3> HIDE DEF S
    <3> QED BY <1>3, <2>1, <2>3, <3>1 DEF Ends
  <2> QED BY <2>4
<1>9. e[1] \in Seq(Entry) /\ \A j \in 1..Len(e[1]) : j < e[2]
  BY <1>4, ConfigParts DEF Stopped
<1>10. \A v \in Vals(e[1]) : v.fd \notin R
  BY <1>8, <1>9 DEF LoopInv, Vals
<1>11. Vals(e[1]) = {v \in Vals(q) : v.fd \notin R}
  BY <1>8, <1>10 DEF LoopInv
<1> QED BY <1>7, <1>8, <1>9, <1>11 DEF Drops, LoopInv

-----------------------------------------------------------------------------
(* The inductive invariant *)

IOTypes ==
  /\ type \in [Desc -> {"NEW", "FD", "CLOSED", "LEAKED"}]
  /\ fd \in [Desc -> Fd \cup {0}]
  /\ file \in [Fd -> Desc \cup {NoDesc}]
  /\ ready \in [Desc -> SUBSET {"r", "w"}]
  /\ sets \in [SetName -> Seq(Entry)]
  /\ pending \in SUBSET Future
  /\ current \in Thread \cup {NoThread}
  /\ pc \in [Thread -> {"idle", "call", "wait", "blocked"}]
  /\ call \in [Thread -> [op : Ops \cup {"none"}, d : Desc \cup {NoDesc}]]
  /\ blockedOn \in [Thread -> Future \cup {NoFuture}]
  /\ \A t \in Thread : blockedOn[t] # NoFuture <=> pc[t] = "blocked"
  /\ \A t \in Thread : current = t => pc[t] \in {"call", "wait"}
  /\ misled \in SUBSET Desc
  /\ failed \in {"no", "select", "REQUEST"}

(* A descriptor that was opened and not closed has its number for itself. *)
Open(d) == type[d] \in {"FD", "LEAKED"}
Numbers == /\ \A d \in Desc : type[d] # "NEW" => fd[d] \in Fd
           /\ \A d \in Desc : Open(d) => file[fd[d]] = d
           /\ \A d \in IODesc : type[d] # "LEAKED"

(***************************************************************************)
(* A primitive works on a descriptor that was opened.  The socket of a     *)
(* client stays open while its thread waits.  Between its two system calls *)
(* a primitive is not interrupted, so its descriptor stays usable.         *)
(***************************************************************************)
CallOK(t) ==
  /\ pc[t] = "idle" => call[t] = NoCall
  /\ pc[t] # "idle" => call[t] = Lost \/ (call[t].d \in Desc /\ type[call[t].d] # "NEW")
  /\ call[t].op = "client" => pc[t] = "blocked" /\ call[t].d \in Socket /\ Open(call[t].d)
  /\ pc[t] = "wait" => current = t /\ call[t] # Lost /\ Usable(call[t])

(* The entries have different futures, which are not bound. *)
SetsLive ==
  /\ \A k \in SetName : Distinct(sets[k])
  /\ \A k \in SetName : \A e \in Vals(sets[k]) : e.future \in pending
  /\ \A k, l \in SetName : k # l =>
       \A e \in Vals(sets[k]) : \A g \in Vals(sets[l]) : e.future # g.future

(* The numbers of the entries stand for something. *)
FilesLive == \A k \in SetName : \A e \in Vals(sets[k]) : file[e.fd] # NoDesc

(* Thread t waits for an entry that will be reported. *)
Waits(t) ==
  pc[t] = "blocked" =>
    \E k \in SetName : \E e \in Vals(sets[k]) :
      /\ e.future = blockedOn[t]
      /\ call[t] # Lost => k = SetOf(call[t]) /\ e.fd = fd[call[t].d]
      /\ call[t].d \in IODesc => file[e.fd] = call[t].d

IOInv == /\ IOTypes
         /\ Numbers
         /\ \A t \in Thread : CallOK(t)
         /\ SetsLive
         /\ FilesLive
         /\ \A t \in Thread : Waits(t)
         /\ RightStream
         /\ failed # "select"

-----------------------------------------------------------------------------
(* Effects of the operations *)

(* The system gives out a number that stands for nothing. *)
LEMMA LowestFree ==
  ASSUME FreeFd # {}
  PROVE  LowestFd \in Fd /\ file[LowestFd] = NoDesc
<1>1. FreeFd \in SUBSET Nat
  BY IOAssumption DEF FreeFd
<1>2. \E m \in FreeFd : \A k \in FreeFd : m <= k
  BY <1>1, LeastNat
<1>3. LowestFd \in FreeFd
  BY <1>2 DEF LowestFd
<1> QED BY <1>3 DEF FreeFd

(* open, socket, accept *)
LEMMA OpensEffect ==
  ASSUME IOTypes, Numbers, NEW d \in Desc, Opens(d)
  PROVE  \E n \in Fd :
           /\ file[n] = NoDesc /\ type[d] = "NEW"
           /\ type'[d] = "FD" /\ fd'[d] = n /\ file'[n] = d
           /\ \A c \in Desc \ {d} : type'[c] = type[c] /\ fd'[c] = fd[c]
           /\ \A m \in Fd \ {n} : file'[m] = file[m]
           /\ type' \in [Desc -> {"NEW", "FD", "CLOSED", "LEAKED"}]
           /\ fd' \in [Desc -> Fd \cup {0}]
           /\ file' \in [Fd -> Desc \cup {NoDesc}]
<1>1. PICK n \in Fd : n = LowestFd /\ file[n] = NoDesc
  BY LowestFree DEF Opens
<1>2. /\ type[d] = "NEW"
      /\ type' = [type EXCEPT ![d] = "FD"]
      /\ fd' = [fd EXCEPT ![d] = n]
      /\ file' = [file EXCEPT ![n] = d]
  BY <1>1 DEF Opens
<1> QED BY <1>1, <1>2 DEF IOTypes

(* An open descriptor keeps its number for itself. *)
LEMMA OpensNumbers ==
  ASSUME IOTypes, Numbers, NEW d \in Desc, Opens(d)
  PROVE  Numbers'
<1>1. PICK n \in Fd :
           /\ file[n] = NoDesc /\ type[d] = "NEW"
           /\ type'[d] = "FD" /\ fd'[d] = n /\ file'[n] = d
           /\ \A c \in Desc \ {d} : type'[c] = type[c] /\ fd'[c] = fd[c]
           /\ \A m \in Fd \ {n} : file'[m] = file[m]
  BY OpensEffect
<1>2. \A c \in Desc : type'[c] # "NEW" => fd'[c] \in Fd
  BY <1>1 DEF Numbers
<1>3. ASSUME NEW c \in Desc, Open(c)' PROVE file'[fd'[c]] = c
  <2>1. CASE c = d
    BY <1>1, <2>1
  <2>2. CASE c # d
    <3>1. file[fd[c]] = c /\ fd[c] \in Fd /\ fd'[c] = fd[c]
      BY <1>1, <1>3, <2>2 DEF Numbers, Open
    <3>2. c # NoDesc
      BY IOAssumption
    <3> QED BY <1>1, <3>1, <3>2
  <2> QED BY <2>1, <2>2
<1>4. \A c \in IODesc : type'[c] # "LEAKED"
  BY <1>1 DEF Numbers, Desc
<1> QED BY <1>2, <1>3, <1>4 DEF Numbers

(* Set::Add: the entry of the number, or a new one with a new future *)
LEMMA AddEffect ==
  ASSUME IOTypes, SetsLive, NEW k \in SetName, NEW n \in Fd, Add(k, n)
  PROVE  \E f \in Future :
           /\ AddedFuture(k, n) = f
           /\ [fd |-> n, future |-> f] \in Vals(sets'[k])
           /\ \A l \in SetName : Vals(sets[l]) \subseteq Vals(sets'[l])
           /\ \A l \in SetName : \A e \in Vals(sets'[l]) :
                e \in Vals(sets[l]) \/ e.fd = n
           /\ \A l \in SetName : Len(sets[l]) <= Len(sets'[l])
           /\ sets' \in [SetName -> Seq(Entry)]
           /\ pending' \in SUBSET Future
           /\ SetsLive'
<1>1. Entries(k) = Vals(sets[k])
  BY DEF Entries, Vals
<1>2. \A l \in SetName : sets[l] \in Seq(Entry) /\ Len(sets[l]) \in Nat /\ Vals(sets[l]) \subseteq Entry
  BY LenProperties DEF IOTypes, Vals
<1>3. CASE Found(k, n) # {}
  <2>1. UNCHANGED <<sets, pending>>
    BY <1>3 DEF Add
  <2>2. PICK e : e = CHOOSE g \in Found(k, n) : TRUE
    OBVIOUS
  <2>3. e \in Vals(sets[k]) /\ e.fd = n /\ e \in Entry
    BY <1>1, <1>2, <1>3, <2>2 DEF Found
  <2>4. AddedFuture(k, n) = e.future
    BY <1>3, <2>2 DEF AddedFuture
  <2>5. e = [fd |-> n, future |-> e.future] /\ e.future \in Future
    BY <2>3 DEF Entry
  <2>6. SetsLive'
    BY <2>1 DEF SetsLive, Distinct, Vals
  <2>7. [fd |-> n, future |-> e.future] \in Vals(sets'[k])
    BY <2>1, <2>3, <2>5
  <2> QED BY <1>2, <2>1, <2>4, <2>5, <2>6, <2>7 DEF IOTypes
<1>4. CASE Found(k, n) = {}
  <2>1. PICK f : f = NewFuture
    OBVIOUS
  <2>2. f \in Future /\ f \notin pending
    BY <1>4, <2>1 DEF Add, NewFuture, FreeFuture
  <2>3. PICK e : e = [fd |-> n, future |-> f]
    OBVIOUS
  <2>4. e \in Entry /\ e.fd = n /\ e.future = f
    BY <2>2, <2>3 DEF Entry
  <2>5. sets' = [sets EXCEPT ![k] = Append(@, e)] /\ pending' = pending \cup {f}
    BY <1>4, <2>1, <2>3 DEF Add
  <2>6. /\ sets'[k] = Append(sets[k], e)
        /\ \A l \in SetName \ {k} : sets'[l] = sets[l]
        /\ sets' \in [SetName -> Seq(Entry)]
    BY <1>2, <2>4, <2>5 DEF IOTypes
  <2>7. /\ Vals(Append(sets[k], e)) = Vals(sets[k]) \cup {e}
        /\ Len(Append(sets[k], e)) = Len(sets[k]) + 1
    BY <1>2, <2>4 DEF Vals
  <2>8. \A g \in Vals(sets[k]) : g.fd # n /\ g.future # f
    BY <1>1, <1>4, <2>2 DEF Found, SetsLive
  <2>9. Distinct(Append(sets[k], e))
    <3>1. PICK q : q = sets[k]
      OBVIOUS
    <3>2. /\ q \in Seq(Entry) /\ Distinct(q)
          /\ \A i \in 1..Len(q) : q[i].fd # e.fd /\ q[i].future # e.future
      BY <1>2, <2>4, <2>8, <3>1 DEF SetsLive, Vals
    <3>3. Distinct(Append(q, e))
      BY <2>4, <3>2 DEF Distinct
    <3> QED BY <3>1, <3>3
  <2>10. SetsLive'
    <3>1. \A l \in SetName : Distinct(sets'[l])
      BY <2>6, <2>9 DEF SetsLive
    <3>2. ASSUME NEW l \in SetName, NEW g \in Vals(sets'[l])
          PROVE  g \in Vals(sets[l]) \/ (l = k /\ g = e)
      BY <2>6, <2>7, <3>2
    <3>3. \A l \in SetName : \A g \in Vals(sets'[l]) : g.future \in pending'
      BY <2>4, <2>5, <3>2 DEF SetsLive
    <3>4. ASSUME NEW l \in SetName, NEW m \in SetName, l # m,
                 NEW g \in Vals(sets'[l]), NEW h \in Vals(sets'[m])
          PROVE  g.future # h.future
      <4>1. g \in Vals(sets[l]) \/ (l = k /\ g = e)
        BY <3>2
      <4>2. h \in Vals(sets[m]) \/ (m = k /\ h = e)
        BY <3>2
      <4>3. \A i \in SetName : \A v \in Vals(sets[i]) : v.future # f
        BY <2>2 DEF SetsLive
      <4> QED BY <2>4, <3>4, <4>1, <4>2, <4>3 DEF SetsLive
    <3> QED BY <3>1, <3>3, <3>4 DEF SetsLive
  <2>11. AddedFuture(k, n) = f
    BY <1>4, <2>1 DEF AddedFuture
  <2>12. \A l \in SetName : /\ Vals(sets[l]) \subseteq Vals(sets'[l])
                            /\ Len(sets[l]) <= Len(sets'[l])
    <3>1. \A a \in Nat : a <= a /\ a <= a + 1
      OBVIOUS
    <3>2. Len(sets[k]) <= Len(sets'[k])
      BY <1>2, <2>6, <2>7, <3>1
    <3>3. \A l \in SetName \ {k} : Len(sets[l]) <= Len(sets'[l])
      BY <1>2, <2>6, <3>1
    <3> QED BY <2>6, <2>7, <3>2, <3>3
  <2>13. \A l \in SetName : \A g \in Vals(sets'[l]) : g \in Vals(sets[l]) \/ g.fd = n
    BY <2>4, <2>6, <2>7
  <2>14. [fd |-> n, future |-> f] \in Vals(sets'[k])
    BY <2>3, <2>6, <2>7
  <2>15. pending' \in SUBSET Future
    BY <2>2, <2>5 DEF IOTypes
  <2> QED BY <2>2, <2>6, <2>10, <2>11, <2>12, <2>13, <2>14, <2>15
<1> QED BY <1>3, <1>4

(***************************************************************************)
(* IOHandler::Close and Select: entries are dropped, and exactly the       *)
(* threads that wait for their futures are woken.                          *)
(***************************************************************************)
LEMMA UpdateEffect ==
  ASSUME IOTypes, SetsLive, NEW new \in [SetName -> Seq(Entry)], NEW R,
         \A k \in SetName : Drops(sets[k], new[k], R[k]),
         Update(new)
  PROVE  /\ sets' = new
         /\ pending' \in SUBSET Future
         /\ SetsLive'
         /\ \A t \in Thread :
              \/ /\ pc'[t] = pc[t] /\ call'[t] = call[t] /\ blockedOn'[t] = blockedOn[t]
                 /\ pc[t] = "blocked" =>
                      \A k \in SetName : \A e \in Vals(sets[k]) :
                        e.future = blockedOn[t] => e \in Vals(sets'[k])
              \/ /\ pc[t] = "blocked" /\ blockedOn'[t] = NoFuture
                 /\ \/ call[t].op = "client" /\ pc'[t] = "idle" /\ call'[t] = NoCall
                    \/ call[t].op # "client" /\ pc'[t] = "call" /\ call'[t] = call[t]
         /\ pc' \in [Thread -> {"idle", "call", "wait", "blocked"}]
         /\ call' \in [Thread -> [op : Ops \cup {"none"}, d : Desc \cup {NoDesc}]]
         /\ blockedOn' \in [Thread -> Future \cup {NoFuture}]
<1> DEFINE F == UNION {Futures(sets[k]) \ Futures(new[k]) : k \in SetName}
<1>1. \A q : \A f : f \in Futures(q) <=> \E e \in Vals(q) : f = e.future
  BY DEF Futures, Vals
<1>2. \A k \in SetName : /\ Vals(sets[k]) \subseteq Entry
                         /\ Vals(new[k]) \subseteq Vals(sets[k])
                         /\ Distinct(sets[k]) /\ Distinct(new[k])
  <2>1. \A k \in SetName : Vals(sets[k]) \subseteq Entry
    BY LenProperties DEF IOTypes, Vals
  <2> QED BY <2>1 DEF Drops, SetsLive
<1>3. \A k \in SetName : \A e, g \in Vals(sets[k]) : e.future = g.future => e = g
  BY <1>2 DEF Distinct, Vals
<1>4. F \subseteq Future
  BY <1>1, <1>2 DEF Entry
<1>5. ASSUME NEW k \in SetName, NEW e \in Vals(sets[k])
      PROVE  e.future \in F <=> e \notin Vals(new[k])
  <2>1. ASSUME e \notin Vals(new[k]) PROVE e.future \in F
    <3>1. e.future \in Futures(sets[k])
      BY <1>1
    <3>2. e.future \notin Futures(new[k])
      BY <1>1, <1>2, <1>3, <2>1
    <3> QED BY <3>1, <3>2
  <2>2. ASSUME e.future \in F PROVE e \notin Vals(new[k])
    <3>1. PICK l \in SetName : e.future \in Futures(sets[l]) /\ e.future \notin Futures(new[l])
      BY <2>2
    <3>2. PICK g \in Vals(sets[l]) : g.future = e.future
      BY <1>1, <3>1
    <3>3. l = k
      BY <3>2 DEF SetsLive
    <3> QED BY <1>1, <3>1, <3>3
  <2> QED BY <2>1, <2>2
<1>6. sets' = new /\ Bind(F)
  BY DEF Update
<1>7. NoFuture \notin F
  BY <1>4, IOAssumption
<1> HIDE DEF F
<1>8. pending' = pending \ F
  BY <1>6 DEF Bind
<1>9. SetsLive'
  <2>1. \A k \in SetName : Distinct(sets'[k])
    BY <1>2, <1>6
  <2>2. \A k \in SetName : \A e \in Vals(sets'[k]) : e.future \in pending'
    BY <1>2, <1>5, <1>6, <1>8 DEF SetsLive
  <2>3. \A k, l \in SetName : k # l =>
          \A e \in Vals(sets'[k]) : \A g \in Vals(sets'[l]) : e.future # g.future
    BY <1>2, <1>6 DEF SetsLive
  <2> QED BY <2>1, <2>2, <2>3 DEF SetsLive
<1>10. ASSUME NEW t \in Thread
       PROVE  /\ blockedOn'[t] = IF blockedOn[t] \in F THEN NoFuture ELSE blockedOn[t]
              /\ pc'[t] = IF blockedOn[t] \in F /\ call[t].op = "client" THEN "idle"
                          ELSE IF blockedOn[t] \in F THEN "call" ELSE pc[t]
              /\ call'[t] = IF blockedOn[t] \in F /\ call[t].op = "client" THEN NoCall
                            ELSE call[t]
  BY <1>6 DEF Bind
<1>11. ASSUME NEW t \in Thread
       PROVE \/ /\ pc'[t] = pc[t] /\ call'[t] = call[t] /\ blockedOn'[t] = blockedOn[t]
                /\ pc[t] = "blocked" =>
                      \A k \in SetName : \A e \in Vals(sets[k]) :
                        e.future = blockedOn[t] => e \in Vals(sets'[k])
             \/ /\ pc[t] = "blocked" /\ blockedOn'[t] = NoFuture
                /\ \/ call[t].op = "client" /\ pc'[t] = "idle" /\ call'[t] = NoCall
                   \/ call[t].op # "client" /\ pc'[t] = "call" /\ call'[t] = call[t]
  <2>1. CASE blockedOn[t] \in F
    <3>1. pc[t] = "blocked"
      BY <1>7, <2>1 DEF IOTypes
    <3> QED BY <1>10, <2>1, <3>1
  <2>2. CASE blockedOn[t] \notin F
    BY <1>5, <1>6, <1>10, <2>2
  <2> QED BY <2>1, <2>2
<1>12. NoCall \in [op : Ops \cup {"none"}, d : Desc \cup {NoDesc}]
  BY DEF NoCall, Call
<1>13. /\ pc' \in [Thread -> {"idle", "call", "wait", "blocked"}]
       /\ call' \in [Thread -> [op : Ops \cup {"none"}, d : Desc \cup {NoDesc}]]
       /\ blockedOn' \in [Thread -> Future \cup {NoFuture}]
  <2>1. \A t \in Thread : /\ pc'[t] \in {"idle", "call", "wait", "blocked"}
                          /\ call'[t] \in [op : Ops \cup {"none"}, d : Desc \cup {NoDesc}]
                          /\ blockedOn'[t] \in Future \cup {NoFuture}
    BY <1>10, <1>12 DEF IOTypes
  <2>2. /\ pc' = [t \in Thread |-> pc'[t]]
        /\ call' = [t \in Thread |-> call'[t]]
        /\ blockedOn' = [t \in Thread |-> blockedOn'[t]]
    BY <1>6 DEF Bind
  <2> QED BY <2>1, <2>2
<1>14. pending' \in SUBSET Future
  BY <1>8 DEF IOTypes
<1> QED BY <1>6, <1>9, <1>11, <1>13, <1>14

-----------------------------------------------------------------------------
(* Steps that close no descriptor and drop no entry *)

DescTypes == /\ type \in [Desc -> {"NEW", "FD", "CLOSED", "LEAKED"}]
             /\ fd \in [Desc -> Fd \cup {0}]
             /\ file \in [Fd -> Desc \cup {NoDesc}]
             /\ ready \in [Desc -> SUBSET {"r", "w"}]

SetTypes == sets \in [SetName -> Seq(Entry)] /\ pending \in SUBSET Future

ObsOK == /\ misled \in SUBSET Desc /\ failed \in {"no", "REQUEST"}
         /\ RightStream

(* Descriptors that were opened keep their numbers. *)
DescStep ==
  /\ DescTypes' /\ Numbers'
  /\ \A d \in Desc : type[d] # "NEW" =>
       type'[d] # "NEW" /\ fd'[d] = fd[d] /\ (Open(d) => Open(d)')
  /\ \A n \in Fd : file[n] # NoDesc => file'[n] = file[n]

(* Entries that were added stay. *)
SetStep ==
  /\ SetTypes' /\ SetsLive' /\ FilesLive'
  /\ \A k \in SetName : Vals(sets[k]) \subseteq Vals(sets'[k])

(* No descriptor is touched, except that data arrives or leaves. *)
LEMMA DescSame ==
  ASSUME IOInv, UNCHANGED <<type, fd, file>>, ready' \in [Desc -> SUBSET {"r", "w"}]
  PROVE  DescStep
<1>1. DescTypes'
  BY DEF IOInv, IOTypes, DescTypes
<1>2. Numbers'
  BY DEF IOInv, Numbers, Open
<1> QED BY <1>1, <1>2 DEF DescStep, Open

(* A descriptor is opened. *)
LEMMA DescOpens ==
  ASSUME IOInv, NEW d \in Desc, Opens(d), ready' \in [Desc -> SUBSET {"r", "w"}]
  PROVE  DescStep
<1>1. IOTypes /\ Numbers
  BY DEF IOInv
<1>2. PICK n \in Fd :
           /\ file[n] = NoDesc /\ type[d] = "NEW"
           /\ type'[d] = "FD" /\ fd'[d] = n /\ file'[n] = d
           /\ \A c \in Desc \ {d} : type'[c] = type[c] /\ fd'[c] = fd[c]
           /\ \A m \in Fd \ {n} : file'[m] = file[m]
           /\ type' \in [Desc -> {"NEW", "FD", "CLOSED", "LEAKED"}]
           /\ fd' \in [Desc -> Fd \cup {0}]
           /\ file' \in [Fd -> Desc \cup {NoDesc}]
  BY <1>1, OpensEffect
<1>3. Numbers'
  BY <1>1, OpensNumbers
<1>4. DescTypes'
  BY <1>2 DEF DescTypes
<1> QED BY <1>2, <1>3, <1>4 DEF DescStep, Open

(* The sets stay as they are. *)
LEMMA SetSame ==
  ASSUME IOInv, DescStep, UNCHANGED <<sets, pending>>
  PROVE  SetStep
<1>1. SetTypes'
  BY DEF IOInv, IOTypes, SetTypes
<1>2. SetsLive'
  BY DEF IOInv, SetsLive
<1>3. \A k \in SetName : Vals(sets[k]) \subseteq Entry
  BY LenProperties DEF IOInv, IOTypes, Vals
<1>4. FilesLive'
  BY <1>3 DEF IOInv, FilesLive, DescStep, Entry
<1> QED BY <1>1, <1>2, <1>4 DEF SetStep

(* An entry is added for a number that stands for something. *)
LEMMA SetAdd ==
  ASSUME IOInv, DescStep, NEW k \in SetName, NEW n \in Fd, Add(k, n), file'[n] # NoDesc
  PROVE  SetStep /\ \E f \in Future : /\ AddedFuture(k, n) = f
                                      /\ [fd |-> n, future |-> f] \in Vals(sets'[k])
<1>1. IOTypes /\ SetsLive
  BY DEF IOInv
<1>2. PICK f \in Future :
           /\ AddedFuture(k, n) = f
           /\ [fd |-> n, future |-> f] \in Vals(sets'[k])
           /\ \A l \in SetName : Vals(sets[l]) \subseteq Vals(sets'[l])
           /\ \A l \in SetName : \A e \in Vals(sets'[l]) :
                e \in Vals(sets[l]) \/ e.fd = n
           /\ sets' \in [SetName -> Seq(Entry)]
           /\ pending' \in SUBSET Future
           /\ SetsLive'
  BY <1>1, AddEffect
<1>3. \A l \in SetName : Vals(sets[l]) \subseteq Entry
  BY LenProperties DEF IOInv, IOTypes, Vals
<1>4. ASSUME NEW l \in SetName, NEW e \in Vals(sets'[l]) PROVE file'[e.fd] # NoDesc
  <2>1. CASE e \in Vals(sets[l])
    BY <1>3, <2>1 DEF IOInv, FilesLive, DescStep, Entry
  <2>2. CASE e.fd = n
    BY <2>2
  <2> QED BY <1>2, <2>1, <2>2
<1> QED BY <1>2, <1>4 DEF SetStep, SetTypes, FilesLive

(* Only the thread that is inside a primitive can be between two system calls. *)
LEMMA NoOtherWaits ==
  ASSUME IOInv, NEW t, current \in {NoThread, t}, NEW u \in Thread, u # t
  PROVE  pc[u] # "wait"
  BY IOAssumption DEF IOInv, CallOK

(* A thread that does not move keeps what it works on and what it waits for. *)
LEMMA OthersKeep ==
  ASSUME IOInv, DescStep, SetStep, NEW u \in Thread, pc[u] # "wait",
         pc'[u] = pc[u], call'[u] = call[u], blockedOn'[u] = blockedOn[u]
  PROVE  CallOK(u)' /\ Waits(u)'
<1>1. CallOK(u) /\ Waits(u) /\ call[u] \in [op : Ops \cup {"none"}, d : Desc \cup {NoDesc}]
  BY DEF IOInv, IOTypes
<1>2. CallOK(u)'
  <2>1. Socket \subseteq Desc
    BY DEF Desc
  <2>2. call[u].op = "client" => Open(call[u].d)'
    BY <1>1, <2>1 DEF CallOK, DescStep, Open
  <2>3. pc[u] # "idle" =>
          call[u] = Lost \/ (call[u].d \in Desc /\ type'[call[u].d] # "NEW")
    BY <1>1 DEF CallOK, DescStep
  <2> QED BY <1>1, <2>2, <2>3 DEF CallOK, Open
<1>3. Waits(u)'
  <2> SUFFICES ASSUME pc[u] = "blocked" PROVE Waits(u)'
    BY DEF Waits
  <2>0. PICK k \in SetName : \E e \in Vals(sets[k]) :
      /\ e.future = blockedOn[u]
      /\ call[u] # Lost => k = SetOf(call[u]) /\ e.fd = fd[call[u].d]
      /\ call[u].d \in IODesc => file[e.fd] = call[u].d
    BY <1>1 DEF Waits
  <2>1. PICK e \in Vals(sets[k]) :
      /\ e.future = blockedOn[u]
      /\ call[u] # Lost => k = SetOf(call[u]) /\ e.fd = fd[call[u].d]
      /\ call[u].d \in IODesc => file[e.fd] = call[u].d
    BY <2>0
  <2>2. e \in Entry
    BY LenProperties DEF IOInv, IOTypes, Vals
  <2>3. file'[e.fd] = file[e.fd]
    BY <2>2 DEF IOInv, FilesLive, DescStep, Entry
  <2>4. call[u] # Lost => fd'[call[u].d] = fd[call[u].d]
    BY <1>1 DEF CallOK, DescStep
  <2>5. e \in Vals(sets'[k])
    BY DEF SetStep
  <2>6. SetOf(call[u]) = SetOf(call'[u])
    OBVIOUS
  <2> QED BY <2>1, <2>3, <2>4, <2>5, <2>6 DEF Waits
<1> QED BY <1>2, <1>3

(* No thread moves. *)
LEMMA Still ==
  ASSUME IOInv, current = NoThread, UNCHANGED <<threadVars, current>>,
         DescStep, SetStep, ObsOK'
  PROVE  IOInv'
<1>1. IOTypes'
  BY DEF IOInv, IOTypes, DescStep, DescTypes, SetStep, SetTypes, ObsOK, threadVars
<1>2. \A u \in Thread : CallOK(u)' /\ Waits(u)'
  <2> TAKE u \in Thread
  <2>1. pc[u] # "wait"
    BY NoOtherWaits, IOAssumption
  <2> QED BY <2>1, OthersKeep DEF threadVars
<1> QED BY <1>1, <1>2 DEF IOInv, DescStep, SetStep, ObsOK

(* Thread t goes to a, with primitive c and future f. *)
Moves(t, a, c, f) ==
  /\ pc' = [pc EXCEPT ![t] = a]
  /\ call' = [call EXCEPT ![t] = c]
  /\ blockedOn' = [blockedOn EXCEPT ![t] = f]
  /\ current' \in {NoThread, t}
  /\ current' = t => a \in {"call", "wait"}
  /\ a \in {"idle", "call", "wait", "blocked"}
  /\ c \in [op : Ops \cup {"none"}, d : Desc \cup {NoDesc}]
  /\ f \in Future \cup {NoFuture}
  /\ f # NoFuture <=> a = "blocked"

(* One thread moves. *)
LEMMA Moving ==
  ASSUME IOInv, NEW t \in Thread, current \in {NoThread, t},
         NEW a, NEW c, NEW f, Moves(t, a, c, f),
         DescStep, SetStep, ObsOK', CallOK(t)', Waits(t)'
  PROVE  IOInv'
<1>1. /\ pc'[t] = a /\ call'[t] = c /\ blockedOn'[t] = f
      /\ \A u \in Thread \ {t} : pc'[u] = pc[u] /\ call'[u] = call[u] /\ blockedOn'[u] = blockedOn[u]
      /\ pc' \in [Thread -> {"idle", "call", "wait", "blocked"}]
      /\ call' \in [Thread -> [op : Ops \cup {"none"}, d : Desc \cup {NoDesc}]]
      /\ blockedOn' \in [Thread -> Future \cup {NoFuture}]
  BY DEF Moves, IOInv, IOTypes
<1>2. \A u \in Thread : blockedOn'[u] # NoFuture <=> pc'[u] = "blocked"
  BY <1>1 DEF Moves, IOInv, IOTypes
<1>3. /\ current' \in Thread \cup {NoThread}
      /\ \A u \in Thread : current' = u => pc'[u] \in {"call", "wait"}
  BY <1>1, IOAssumption DEF Moves
<1>4. IOTypes'
  BY <1>1, <1>2, <1>3 DEF IOTypes, DescStep, DescTypes, SetStep, SetTypes, ObsOK
<1>5. ASSUME NEW u \in Thread, u # t PROVE CallOK(u)' /\ Waits(u)'
  <2>1. pc[u] # "wait"
    BY <1>5, NoOtherWaits
  <2> QED BY <1>1, <1>5, <2>1, OthersKeep
<1> QED BY <1>4, <1>5 DEF IOInv, DescStep, SetStep, ObsOK

-----------------------------------------------------------------------------
(* The steps of the specification preserve the invariant. *)

(* What is open at the beginning *)
LEMMA IOInit ==
  Init => IOInv
<1> SUFFICES ASSUME Init PROVE IOInv
  OBVIOUS
<1>1. \A k \in SetName : sets[k] = <<>> /\ Len(sets[k]) = 0 /\ Vals(sets[k]) = {}
  BY DEF Init, Vals
<1>2. NoCall \in [op : Ops \cup {"none"}, d : Desc \cup {NoDesc}] /\ NoCall.op = "none"
  BY DEF NoCall, Call
<1>3. sets \in [SetName -> Seq(Entry)]
  BY DEF Init
<1>4. IOTypes
  BY <1>2, <1>3, IOAssumption DEF Init, IOTypes
<1>5. Numbers
  BY DEF Init, Numbers, Open, Desc
<1>6. \A t \in Thread : CallOK(t) /\ Waits(t)
  BY <1>2 DEF Init, CallOK, Waits
<1>7. SetsLive /\ FilesLive
  <2>1. \A k \in SetName : Distinct(sets[k])
    BY <1>1 DEF Distinct
  <2>2. \A k \in SetName : \A e \in Vals(sets[k]) : FALSE
    BY <1>1
  <2> QED BY <2>1, <2>2 DEF SetsLive, FilesLive
<1>8. RightStream /\ failed # "select"
  BY DEF Init, RightStream
<1> QED BY <1>4, <1>5, <1>6, <1>7, <1>8 DEF IOInv

(* A peer acts, perhaps between two system calls of a primitive. *)
LEMMA PeerKeeps ==
  ASSUME IOInv, NEW d \in Desc, Peer(d)
  PROVE  IOInv'
<1>1. /\ ready' \in [Desc -> SUBSET {"r", "w"}]
      /\ UNCHANGED <<type, fd, file, sets, pending, current, call, pc, blockedOn, misled, failed>>
  BY DEF Peer, IOInv, IOTypes, descVars, threadVars, obsVars
<1>2. IOTypes'
  BY <1>1 DEF IOInv, IOTypes
<1>3. \A t \in Thread : CallOK(t)'
  BY <1>1 DEF IOInv, CallOK, Open, Usable, Target
<1>4. \A t \in Thread : Waits(t)'
  BY <1>1 DEF IOInv, Waits
<1>5. Numbers' /\ SetsLive' /\ FilesLive' /\ RightStream'
  BY <1>1 DEF IOInv, Numbers, Open, SetsLive, FilesLive, RightStream
<1> QED BY <1>1, <1>2, <1>3, <1>4, <1>5 DEF IOInv

(* The observers stay as they are. *)
LEMMA ObsSame ==
  ASSUME IOInv, UNCHANGED obsVars
  PROVE  ObsOK'
  BY DEF IOInv, IOTypes, ObsOK, RightStream, obsVars

(* IODesc::NewFromFD, UnsafeSocket_server, and a client that does not wait *)
LEMMA OpensKeeps ==
  ASSUME IOInv, current = NoThread, NEW d \in Desc, Opens(d),
         UNCHANGED <<ready, sets, pending, current, threadVars, obsVars>>
  PROVE  IOInv'
<1>1. ready' \in [Desc -> SUBSET {"r", "w"}]
  BY DEF IOInv, IOTypes
<1>2. DescStep
  BY <1>1, DescOpens
<1>3. SetStep
  BY <1>2, SetSame
<1> QED BY <1>2, <1>3, Still, ObsSame

(* UnsafeSocket_client *)
LEMMA ClientKeeps ==
  ASSUME IOInv, NEW t \in Thread, NEW s \in Socket, Client(t, s)
  PROVE  IOInv'
<1>1. s \in Desc /\ current = NoThread /\ Opens(s) /\ UNCHANGED <<ready, obsVars>>
      /\ "client" \in Ops
  BY DEF Client, Calls, Desc
<1>2. CASE UNCHANGED <<sets, pending, current, threadVars>>
  BY <1>1, <1>2, OpensKeeps
<1>3. CASE /\ Add("Connected", fd'[s])
           /\ Requests(t, AddedFuture("Connected", fd'[s]), Call("client", s))
  <2> DEFINE c == Call("client", s)
  <2>1. ready' \in [Desc -> SUBSET {"r", "w"}]
    BY <1>1 DEF IOInv, IOTypes
  <2>2. DescStep /\ ObsOK'
    BY <1>1, <2>1, DescOpens, ObsSame
  <2>3. PICK n \in Fd : fd'[s] = n /\ file'[n] = s /\ type'[s] = "FD"
    BY <1>1, OpensEffect DEF IOInv
  <2>4. s # NoDesc /\ s \notin IODesc
    BY <1>1, IOAssumption
  <2>5. Add("Connected", n) /\ "Connected" \in SetName
    BY <1>3, <2>3 DEF SetName
  <2>6. SetStep /\ \E f \in Future :
          /\ AddedFuture("Connected", n) = f
          /\ [fd |-> n, future |-> f] \in Vals(sets'["Connected"])
    BY <2>2, <2>3, <2>4, <2>5, SetAdd
  <2>7. PICK f \in Future : /\ AddedFuture("Connected", n) = f
                            /\ [fd |-> n, future |-> f] \in Vals(sets'["Connected"])
    BY <2>6
  <2>8. Requests(t, f, c)
    BY <1>3, <2>3, <2>7
  <2>9. /\ c \in [op : Ops \cup {"none"}, d : Desc \cup {NoDesc}]
        /\ c.op = "client" /\ c.d = s /\ c # Lost
    BY <1>1, <2>4 DEF Call, Lost
  <2> HIDE DEF c
  <2>10. Moves(t, "blocked", c, f)
    BY <2>8, <2>9, IOAssumption DEF Requests, Moves
  <2>11. pc'[t] = "blocked" /\ call'[t] = c /\ blockedOn'[t] = f
    BY <2>10 DEF Moves, IOInv, IOTypes
  <2>12. CallOK(t)'
    BY <1>1, <2>3, <2>9, <2>11 DEF CallOK, Open
  <2>13. Waits(t)'
    <3>1. SetOf(call'[t]) = "Connected"
      BY <2>9, <2>11 DEF SetOf
    <3> DEFINE e == [fd |-> n, future |-> f]
    <3>2. e.fd = n /\ e.future = f /\ e \in Vals(sets'["Connected"])
      BY <2>7
    <3> HIDE DEF e
    <3> QED BY <2>3, <2>4, <2>5, <2>9, <2>11, <3>1, <3>2 DEF Waits
  <2> QED BY <1>1, <2>2, <2>6, <2>10, <2>12, <2>13, Moving
<1> QED BY <1>2, <1>3 DEF Client

(* The program calls a primitive. *)
LEMMA StartKeeps ==
  ASSUME IOInv, NEW t \in Thread, NEW op \in Ops, NEW d \in Desc, Start(t, op, d)
  PROVE  IOInv'
<1>1. /\ current = NoThread /\ pc[t] = "idle"
      /\ type[d] # "NEW" /\ op # "client"
      /\ pc' = [pc EXCEPT ![t] = "call"]
      /\ call' = [call EXCEPT ![t] = Call(op, d)]
      /\ current' = t
      /\ UNCHANGED <<file, ready, type, fd, sets, pending, blockedOn, obsVars>>
  BY DEF Start, Calls, sysVars, descVars
<1>2. DescStep /\ ObsOK'
  BY <1>1, DescSame, ObsSame DEF IOInv, IOTypes
<1>3. SetStep
  BY <1>1, <1>2, SetSame
<1>4. /\ Call(op, d) \in [op : Ops \cup {"none"}, d : Desc \cup {NoDesc}]
      /\ Call(op, d).op = op /\ Call(op, d).d = d
  BY DEF Call
<1>5. blockedOn[t] = NoFuture
  BY <1>1 DEF IOInv, IOTypes
<1>6. Moves(t, "call", Call(op, d), NoFuture)
  BY <1>1, <1>4, <1>5 DEF Moves, IOInv, IOTypes
<1>7. pc'[t] = "call" /\ call'[t] = Call(op, d)
  BY <1>6 DEF Moves, IOInv, IOTypes
<1>8. CallOK(t)'
  BY <1>1, <1>4, <1>7 DEF CallOK
<1>9. Waits(t)'
  BY <1>7 DEF Waits
<1> QED BY <1>1, <1>2, <1>3, <1>6, <1>8, <1>9, Moving

(* A primitive returns or raises. *)
LEMMA ReturnsKeeps ==
  ASSUME IOInv, NEW t \in Thread, current \in {NoThread, t}, pc[t] # "blocked", Returns(t),
         DescStep, SetStep, ObsOK'
  PROVE  IOInv'
<1>1. blockedOn[t] = NoFuture
  BY DEF IOInv, IOTypes
<1>2. NoCall \in [op : Ops \cup {"none"}, d : Desc \cup {NoDesc}] /\ NoCall.op = "none"
  BY DEF NoCall, Call
<1>3. Moves(t, "idle", NoCall, NoFuture)
  BY <1>1, <1>2, IOAssumption DEF Moves, Returns, IOInv, IOTypes
<1>4. pc'[t] = "idle" /\ call'[t] = NoCall
  BY <1>3 DEF Moves, IOInv, IOTypes
<1>5. CallOK(t)' /\ Waits(t)'
  BY <1>2, <1>4 DEF CallOK, Waits
<1> QED BY <1>3, <1>5, Moving

(* A system call fails. *)
LEMMA FailsKeeps ==
  ASSUME IOInv, NEW t \in Thread, Fails(t)
  PROVE  IOInv'
<1>1. DescStep /\ ObsOK'
  BY DescSame, ObsSame DEF Fails, sysVars, descVars, IOInv, IOTypes
<1>2. SetStep
  BY <1>1, SetSame DEF Fails
<1> QED BY <1>1, <1>2, ReturnsKeeps DEF Fails, Executes

(* A primitive that is being executed and has not lost its argument *)
LEMMA InCall ==
  ASSUME IOInv, NEW t \in Thread, pc[t] \in {"call", "wait"}, call[t] # Lost
  PROVE  /\ call[t] \in [op : Ops \cup {"none"}, d : Desc \cup {NoDesc}]
         /\ call[t].d \in Desc /\ call[t].d # NoDesc
         /\ type[call[t].d] # "NEW" /\ fd[call[t].d] \in Fd
         /\ call[t].op # "client"
         /\ SetOf(call[t]) \in SetName
<1>1. /\ call[t] \in [op : Ops \cup {"none"}, d : Desc \cup {NoDesc}]
      /\ call[t].d \in Desc /\ type[call[t].d] # "NEW"
      /\ call[t].op # "client"
  BY DEF IOInv, IOTypes, CallOK
<1>2. SetOf(call[t]) \in SetName
  BY DEF SetOf, SetName
<1> QED BY <1>1, <1>2, IOAssumption DEF IOInv, Numbers

(* An open IODesc is what its number stands for. *)
LEMMA OpenIODesc ==
  ASSUME IOInv, NEW c, c.d \in IODesc, type[c.d] # "NEW", Usable(c)
  PROVE  Target(c) = c.d
<1>1. type[c.d] = "FD"
  BY DEF IOInv, IOTypes, Numbers, Usable, Desc
<1> QED BY <1>1 DEF IOInv, Numbers, Open, Target, Desc

(* A usable argument has a number that stands for something. *)
LEMMA UsableTarget ==
  ASSUME NEW c, Usable(c)
  PROVE  Target(c) # NoDesc
  BY IOAssumption DEF Usable, Desc

(* Data is transferred; accept opens a socket. *)
LEMMA TransferKeeps ==
  ASSUME IOInv, NEW t \in Thread, Transfer(t)
  PROVE  IOInv'
<1> DEFINE c == call[t]
<1>1. /\ pc[t] = "call" /\ current \in {NoThread, t}
      /\ c.op # "DoBlock" /\ Usable(c)
      /\ misled' = IF Target(c) = c.d THEN misled ELSE misled \cup {c.d}
      /\ ready' \in {ready, [ready EXCEPT ![Target(c)] = @ \ {Dir(c)}]}
      /\ Returns(t)
      /\ UNCHANGED <<sets, pending, failed>>
      /\ \/ \E s \in Socket : Opens(s)
         \/ UNCHANGED <<type, fd, file>>
  BY DEF Transfer, Executes, descVars
<1>2. c # Lost
  BY <1>1 DEF Lost, Call
<1>3. c.d \in Desc /\ type[c.d] # "NEW"
  BY <1>1, <1>2, InCall
<1>4. ready' \in [Desc -> SUBSET {"r", "w"}]
  <2>1. ready \in [Desc -> SUBSET {"r", "w"}]
    BY DEF IOInv, IOTypes
  <2> QED BY <1>1, <2>1
<1>5. DescStep
  <2>1. Socket \subseteq Desc
    BY DEF Desc
  <2> QED BY <1>1, <1>4, <2>1, DescSame, DescOpens
<1>6. SetStep
  BY <1>1, <1>5, SetSame
<1>7. ObsOK'
  <2>1. c.d \in IODesc => Target(c) = c.d
    BY <1>1, <1>3, OpenIODesc
  <2>2. misled' \in SUBSET Desc
    BY <1>1, <1>3 DEF IOInv, IOTypes
  <2>3. RightStream'
    BY <1>1, <2>1 DEF IOInv, RightStream
  <2> QED BY <1>1, <2>2, <2>3 DEF ObsOK, IOInv, IOTypes
<1> QED BY <1>1, <1>5, <1>6, <1>7, ReturnsKeeps

(* The first system call returns EWOULDBLOCK. *)
LEMMA BlocksKeeps ==
  ASSUME IOInv, NEW t \in Thread, Blocks(t)
  PROVE  IOInv'
<1>1. /\ pc[t] = "call" /\ current \in {NoThread, t}
      /\ call[t].op # "DoBlock" /\ Usable(call[t])
      /\ pc' = [pc EXCEPT ![t] = "wait"] /\ current' = t
      /\ UNCHANGED <<file, ready, type, fd, sets, pending, call, blockedOn, obsVars>>
  BY DEF Blocks, Executes, sysVars, descVars
<1>2. call[t] # Lost
  BY <1>1 DEF Lost, Call
<1>3. /\ call[t] \in [op : Ops \cup {"none"}, d : Desc \cup {NoDesc}]
      /\ call[t].d \in Desc /\ type[call[t].d] # "NEW" /\ call[t].op # "client"
  BY <1>1, <1>2, InCall
<1>4. DescStep /\ ObsOK'
  BY <1>1, DescSame, ObsSame DEF IOInv, IOTypes
<1>5. SetStep
  BY <1>1, <1>4, SetSame
<1>6. blockedOn[t] = NoFuture
  BY <1>1 DEF IOInv, IOTypes
<1>7. Moves(t, "wait", call[t], NoFuture)
  BY <1>1, <1>3, <1>6 DEF Moves, IOInv, IOTypes
<1>8. pc'[t] = "wait" /\ call'[t] = call[t]
  BY <1>1 DEF IOInv, IOTypes
<1>9. Usable(call[t])'
  BY <1>1 DEF Usable, Target
<1>10. CallOK(t)'
  BY <1>1, <1>2, <1>3, <1>8, <1>9 DEF CallOK
<1>11. Waits(t)'
  BY <1>8 DEF Waits
<1> QED BY <1>1, <1>4, <1>5, <1>7, <1>10, <1>11, Moving

(***************************************************************************)
(* Thread t requests the future of the entry of its descriptor, in order   *)
(* to execute r again: WaitReadable, WaitWritable, DoBlock.                *)
(***************************************************************************)
LEMMA RequestKeeps ==
  ASSUME IOInv, NEW t \in Thread, current \in {NoThread, t},
         pc[t] \in {"call", "wait"}, call[t] # Lost, Usable(call[t]),
         NEW r, r = call[t] \/ (r = Lost /\ call[t].op = "DoBlock"),
         Add(SetOf(call[t]), fd[call[t].d]),
         Requests(t, AddedFuture(SetOf(call[t]), fd[call[t].d]), r),
         UNCHANGED <<file, ready, type, fd, obsVars>>
  PROVE  IOInv'
<1>1. /\ call[t] \in [op : Ops \cup {"none"}, d : Desc \cup {NoDesc}]
      /\ call[t].d \in Desc /\ type[call[t].d] # "NEW"
      /\ fd[call[t].d] \in Fd
      /\ call[t].op # "client"
      /\ SetOf(call[t]) \in SetName
  BY InCall
<1>2. PICK k \in SetName, n \in Fd : k = SetOf(call[t]) /\ n = fd[call[t].d]
  BY <1>1
<1>3. DescStep /\ ObsOK'
  BY DescSame, ObsSame DEF IOInv, IOTypes
<1>4. file[n] # NoDesc /\ file'[n] = file[n]
  BY <1>2, UsableTarget DEF Target
<1>5. Add(k, n)
  BY <1>2
<1>6. SetStep /\ \E f \in Future : /\ AddedFuture(k, n) = f
                                   /\ [fd |-> n, future |-> f] \in Vals(sets'[k])
  BY <1>3, <1>4, <1>5, SetAdd
<1>7. PICK f \in Future : /\ AddedFuture(k, n) = f
                          /\ [fd |-> n, future |-> f] \in Vals(sets'[k])
  BY <1>6
<1>8. Requests(t, f, r)
  BY <1>2, <1>7
<1>9. r \in [op : Ops \cup {"none"}, d : Desc \cup {NoDesc}] /\ r.op # "client"
  BY <1>1 DEF Lost, Call
<1>10. Moves(t, "blocked", r, f)
  BY <1>8, <1>9, IOAssumption DEF Requests, Moves
<1>11. pc'[t] = "blocked" /\ call'[t] = r /\ blockedOn'[t] = f
  BY <1>10 DEF Moves, IOInv, IOTypes
<1>12. CallOK(t)'
  BY <1>1, <1>9, <1>11 DEF CallOK
<1>13. Waits(t)'
  <2> DEFINE e == [fd |-> n, future |-> f]
  <2>1. e.fd = n /\ e.future = f /\ e \in Vals(sets'[k])
    BY <1>7
  <2>2. r # Lost => k = SetOf(r) /\ n = fd'[r.d]
    BY <1>2
  <2>3. r.d \in IODesc => file'[n] = r.d
    <3>1. CASE r = call[t]
      BY <1>1, <1>2, <3>1, OpenIODesc DEF Target
    <3>2. CASE r = Lost
      BY <3>2, IOAssumption DEF Lost, Call, Desc
    <3> QED BY <3>1, <3>2
  <2> HIDE DEF e
  <2>4. SetOf(call'[t]) = SetOf(r)
    BY <1>11
  <2> QED BY <1>11, <2>1, <2>2, <2>3, <2>4 DEF Waits
<1> QED BY <1>3, <1>6, <1>10, <1>12, <1>13, Moving

(* WaitReadable, WaitWritable: the second system call *)
LEMMA WaitKeeps ==
  ASSUME IOInv, NEW t \in Thread, Wait(t)
  PROVE  IOInv'
<1>1. /\ pc[t] = "wait" /\ current \in {NoThread, t}
      /\ UNCHANGED <<file, ready, type, fd, obsVars>>
  BY DEF Wait, Executes, sysVars, descVars
<1>2. call[t] # Lost /\ Usable(call[t]) /\ current = t
  BY <1>1 DEF IOInv, CallOK
<1>3. CASE WouldBlock(call[t])
  <2>1. /\ Add(SetOf(call[t]), fd[call[t].d])
        /\ Requests(t, AddedFuture(SetOf(call[t]), fd[call[t].d]), call[t])
    BY <1>3 DEF Wait
  <2> QED BY <1>1, <1>2, <2>1, RequestKeeps
<1>4. CASE ~WouldBlock(call[t])
  <2>1. pc' = [pc EXCEPT ![t] = "call"] /\ UNCHANGED <<sets, pending, current, call, blockedOn>>
    BY <1>4 DEF Wait
  <2>2. DescStep /\ ObsOK'
    BY <1>1, DescSame, ObsSame DEF IOInv, IOTypes
  <2>3. SetStep
    BY <2>1, <2>2, SetSame
  <2>4. /\ call[t] \in [op : Ops \cup {"none"}, d : Desc \cup {NoDesc}]
        /\ call[t].d \in Desc /\ type[call[t].d] # "NEW" /\ call[t].op # "client"
    BY <1>1, <1>2, InCall
  <2>5. blockedOn[t] = NoFuture
    BY <1>1 DEF IOInv, IOTypes
  <2>6. Moves(t, "call", call[t], NoFuture)
    BY <1>2, <2>1, <2>4, <2>5 DEF Moves, IOInv, IOTypes
  <2>7. pc'[t] = "call" /\ call'[t] = call[t]
    BY <2>1 DEF IOInv, IOTypes
  <2>8. CallOK(t)' /\ Waits(t)'
    BY <1>1, <1>2, <2>4, <2>7 DEF CallOK, Waits
  <2> QED BY <1>1, <2>2, <2>3, <2>6, <2>8, Moving
<1> QED BY <1>3, <1>4

(* IODesc::DoBlock, which loses its argument when it blocks *)
LEMMA DoBlockKeeps ==
  ASSUME IOInv, NEW t \in Thread, DoBlock(t)
  PROVE  IOInv'
<1>1. /\ pc[t] = "call" /\ current \in {NoThread, t} /\ call[t].op = "DoBlock"
      /\ UNCHANGED <<file, ready, type, fd, misled>>
  BY DEF DoBlock, Executes, sysVars, descVars
<1>2. CASE call[t] = Lost
  <2>1. /\ failed' = "REQUEST"
        /\ UNCHANGED <<call, pc, blockedOn, current, sets, pending>>
    BY <1>2 DEF DoBlock, threadVars
  <2>2. IOTypes'
    BY <1>1, <2>1 DEF IOInv, IOTypes
  <2>3. \A u \in Thread : CallOK(u)' /\ Waits(u)'
    BY <1>1, <2>1 DEF IOInv, CallOK, Open, Usable, Target, Waits
  <2>4. Numbers' /\ SetsLive' /\ FilesLive' /\ RightStream'
    BY <1>1, <2>1 DEF IOInv, Numbers, Open, SetsLive, FilesLive, RightStream
  <2> QED BY <2>1, <2>2, <2>3, <2>4 DEF IOInv
<1>3. CASE call[t] # Lost
  <2>1. Usable(call[t]) /\ UNCHANGED failed
    BY <1>3 DEF DoBlock
  <2>2. CASE WouldBlock(call[t])
    <3>1. /\ Add(SetOf(call[t]), fd[call[t].d])
          /\ Requests(t, AddedFuture(SetOf(call[t]), fd[call[t].d]), Lost)
      BY <1>3, <2>2 DEF DoBlock
    <3> QED BY <1>1, <1>3, <2>1, <3>1, RequestKeeps DEF obsVars
  <2>3. CASE ~WouldBlock(call[t])
    <3>1. Returns(t) /\ UNCHANGED <<sets, pending>>
      BY <1>3, <2>3 DEF DoBlock
    <3>2. DescStep /\ ObsOK'
      BY <1>1, <2>1, DescSame, ObsSame DEF IOInv, IOTypes, obsVars
    <3>3. SetStep
      BY <3>1, <3>2, SetSame
    <3> QED BY <1>1, <3>1, <3>2, <3>3, ReturnsKeeps
  <2> QED BY <2>2, <2>3
<1> QED BY <1>2, <1>3

(* Thread.raiseIn: the socket of a client that waits is left open *)
LEMMA InterruptKeeps ==
  ASSUME IOInv, NEW t \in Thread, Interrupt(t)
  PROVE  IOInv'
<1>1. /\ current = NoThread /\ pc[t] = "blocked"
      /\ pc' = [pc EXCEPT ![t] = "idle"]
      /\ call' = [call EXCEPT ![t] = NoCall]
      /\ blockedOn' = [blockedOn EXCEPT ![t] = NoFuture]
      /\ type' = IF call[t].op = "client" THEN [type EXCEPT ![call[t].d] = "LEAKED"] ELSE type
      /\ UNCHANGED <<file, ready, fd, sets, pending, current, obsVars>>
  BY DEF Interrupt, sysVars
<1>2. PICK d : d = call[t].d
  OBVIOUS
<1>3. call[t].op = "client" => d \in Socket /\ d \in Desc /\ d \notin IODesc /\ Open(d)
  BY <1>2, IOAssumption DEF IOInv, CallOK, Desc
<1>4. /\ type' \in [Desc -> {"NEW", "FD", "CLOSED", "LEAKED"}]
      /\ \A c \in Desc : (type'[c] = "NEW" <=> type[c] = "NEW") /\ (Open(c) <=> Open(c)')
      /\ \A c \in IODesc : type'[c] # "LEAKED"
  <2>1. CASE call[t].op = "client"
    <3>1. type' = [type EXCEPT ![d] = "LEAKED"]
      BY <1>1, <1>2, <2>1
    <3> QED BY <1>3, <2>1, <3>1 DEF IOInv, IOTypes, Numbers, Open, Desc
  <2>2. CASE call[t].op # "client"
    BY <1>1, <2>2 DEF IOInv, IOTypes, Numbers, Open
  <2> QED BY <2>1, <2>2
<1>5. DescStep
  <2>1. DescTypes'
    BY <1>1, <1>4 DEF IOInv, IOTypes, DescTypes
  <2>2. Numbers'
    BY <1>1, <1>4 DEF IOInv, Numbers
  <2> QED BY <1>1, <1>4, <2>1, <2>2 DEF DescStep
<1>6. SetStep /\ ObsOK'
  BY <1>1, <1>5, SetSame, ObsSame
<1>7. NoCall \in [op : Ops \cup {"none"}, d : Desc \cup {NoDesc}] /\ NoCall.op = "none"
  BY DEF NoCall, Call
<1>8. Moves(t, "idle", NoCall, NoFuture)
  BY <1>1, <1>7, IOAssumption DEF Moves
<1>9. pc'[t] = "idle" /\ call'[t] = NoCall
  BY <1>8 DEF Moves, IOInv, IOTypes
<1>10. CallOK(t)' /\ Waits(t)'
  BY <1>7, <1>9 DEF CallOK, Waits
<1> QED BY <1>1, <1>5, <1>6, <1>8, <1>10, Moving

(***************************************************************************)
(* Entries are dropped and their threads woken.  The numbers of the        *)
(* entries that are left stand for what they stood for before.             *)
(***************************************************************************)
LEMMA UpdateKeeps ==
  ASSUME IOInv, current = NoThread, UNCHANGED <<current, fd>>,
         NEW new \in [SetName -> Seq(Entry)], NEW R,
         \A k \in SetName : Drops(sets[k], new[k], R[k]),
         Update(new),
         DescTypes', Numbers', ObsOK',
         \A c \in Desc : type[c] # "NEW" => type'[c] # "NEW",
         \A u \in Thread : call[u].op = "client" => type'[call[u].d] \in {"FD", "LEAKED"},
         \A k \in SetName : \A e \in Vals(new[k]) : file'[e.fd] = file[e.fd]
  PROVE  IOInv'
<1>1. IOTypes /\ SetsLive
  BY DEF IOInv
<1>2. /\ sets' = new
      /\ pending' \in SUBSET Future
      /\ SetsLive'
      /\ \A t \in Thread :
           \/ /\ pc'[t] = pc[t] /\ call'[t] = call[t] /\ blockedOn'[t] = blockedOn[t]
              /\ pc[t] = "blocked" =>
                   \A k \in SetName : \A e \in Vals(sets[k]) :
                     e.future = blockedOn[t] => e \in Vals(sets'[k])
           \/ /\ pc[t] = "blocked" /\ blockedOn'[t] = NoFuture
              /\ \/ call[t].op = "client" /\ pc'[t] = "idle" /\ call'[t] = NoCall
                 \/ call[t].op # "client" /\ pc'[t] = "call" /\ call'[t] = call[t]
      /\ pc' \in [Thread -> {"idle", "call", "wait", "blocked"}]
      /\ call' \in [Thread -> [op : Ops \cup {"none"}, d : Desc \cup {NoDesc}]]
      /\ blockedOn' \in [Thread -> Future \cup {NoFuture}]
  BY <1>1, UpdateEffect
<1>3. IOTypes'
  <2>1. \A t \in Thread : blockedOn'[t] # NoFuture <=> pc'[t] = "blocked"
    BY <1>1, <1>2 DEF IOTypes
  <2>2. current' = NoThread /\ \A t \in Thread : current' # t
    BY IOAssumption
  <2> QED BY <1>2, <2>1, <2>2 DEF IOTypes, DescTypes, ObsOK
<1>4. ASSUME NEW u \in Thread PROVE CallOK(u)'
  <2>1. CallOK(u) /\ pc[u] # "wait"
    BY IOAssumption DEF IOInv, CallOK
  <2>2. NoCall.op = "none"
    BY DEF NoCall, Call
  <2>3. CASE pc'[u] = pc[u] /\ call'[u] = call[u]
    BY <2>1, <2>3 DEF CallOK, Open
  <2>4. CASE pc'[u] = "idle" /\ call'[u] = NoCall
    BY <2>2, <2>4 DEF CallOK
  <2>5. CASE pc[u] = "blocked" /\ call[u].op # "client" /\ pc'[u] = "call" /\ call'[u] = call[u]
    BY <2>1, <2>5 DEF CallOK
  <2> QED BY <1>2, <2>3, <2>4, <2>5
<1>5. FilesLive'
  <2>1. \A k \in SetName : Vals(new[k]) \subseteq Vals(sets[k])
    BY DEF Drops
  <2> QED BY <1>2, <2>1 DEF IOInv, FilesLive
<1>6. ASSUME NEW u \in Thread PROVE Waits(u)'
  <2> SUFFICES ASSUME pc'[u] = "blocked" PROVE Waits(u)'
    BY DEF Waits
  <2>1. /\ pc[u] = "blocked" /\ call'[u] = call[u] /\ blockedOn'[u] = blockedOn[u]
        /\ \A k \in SetName : \A e \in Vals(sets[k]) :
             e.future = blockedOn[u] => e \in Vals(sets'[k])
    BY <1>2
  <2>2. PICK k \in SetName : \E e \in Vals(sets[k]) :
          /\ e.future = blockedOn[u]
          /\ call[u] # Lost => k = SetOf(call[u]) /\ e.fd = fd[call[u].d]
          /\ call[u].d \in IODesc => file[e.fd] = call[u].d
    BY <2>1 DEF IOInv, Waits
  <2>3. PICK e \in Vals(sets[k]) :
          /\ e.future = blockedOn[u]
          /\ call[u] # Lost => k = SetOf(call[u]) /\ e.fd = fd[call[u].d]
          /\ call[u].d \in IODesc => file[e.fd] = call[u].d
    BY <2>2
  <2>4. e \in Vals(sets'[k]) /\ file'[e.fd] = file[e.fd]
    BY <1>2, <2>1, <2>3
  <2>5. SetOf(call'[u]) = SetOf(call[u])
    BY <2>1
  <2> QED BY <2>1, <2>3, <2>4, <2>5 DEF Waits
<1> QED BY <1>2, <1>3, <1>4, <1>5, <1>6 DEF IOInv, ObsOK

(* What a call of select reports for set k *)
Reported(k) == IF k = "Readable" THEN ReadyFds(Registered("Readable"), "r")
               ELSE ReadyFds(Registered("Writable") \cup Registered("Connected"), "w")

(* IOHandler::Select never meets a bad number, and serves what is reported. *)
LEMMA SelectEffect ==
  ASSUME IOInv, Select
  PROVE  /\ current = NoThread
         /\ UNCHANGED <<file, ready, type, fd, current, misled, failed>>
         /\ Update([k \in SetName |-> Schedule(sets[k], Reported(k))])
         /\ \A k \in SetName : Drops(sets[k], Schedule(sets[k], Reported(k)), Reported(k))
<1>1. ~BadFd
  <2>1. \A k \in SetName : Registered(k) = {e.fd : e \in Vals(sets[k])}
    BY DEF Registered, Entries, Vals
  <2> QED BY <2>1 DEF BadFd, IOInv, FilesLive
<1>2. current = NoThread /\ UNCHANGED <<file, ready, type, fd, current, misled, failed>>
  BY <1>1 DEF Select, sysVars, descVars
<1>3. Update([k \in SetName |-> Schedule(sets[k],
                IF k = "Readable" THEN ReadyFds(Registered("Readable"), "r")
                ELSE ReadyFds(Registered("Writable") \cup Registered("Connected"), "w"))])
  BY <1>1 DEF Select
<1>4. Update([k \in SetName |-> Schedule(sets[k], Reported(k))])
  BY <1>3 DEF Reported
<1>5. ASSUME NEW k \in SetName
      PROVE  Drops(sets[k], Schedule(sets[k], Reported(k)), Reported(k))
  <2>1. sets[k] \in Seq(Entry) /\ Distinct(sets[k])
    BY DEF IOInv, IOTypes, SetsLive
  <2> QED BY <2>1, ScheduleDrops
<1> QED BY <1>2, <1>4, <1>5

(* IOHandler::Select *)
LEMMA SelectKeeps ==
  ASSUME IOInv, Select
  PROVE  IOInv'
<1> DEFINE new == [k \in SetName |-> Schedule(sets[k], Reported(k))]
           R == [k \in SetName |-> Reported(k)]
<1>1. /\ current = NoThread
      /\ UNCHANGED <<file, ready, type, fd, current, misled, failed>>
      /\ Update(new)
      /\ \A k \in SetName : Drops(sets[k], Schedule(sets[k], Reported(k)), Reported(k))
  BY SelectEffect
<1>2. \A k \in SetName : Drops(sets[k], new[k], R[k])
  BY <1>1
<1>3. new \in [SetName -> Seq(Entry)]
  BY <1>1 DEF Drops
<1> HIDE DEF new, R
<1>4. DescTypes' /\ ObsOK'
  BY <1>1, ObsSame DEF IOInv, IOTypes, DescTypes, obsVars
<1>5. Numbers'
  BY <1>1 DEF IOInv, Numbers, Open
<1>6. \A u \in Thread : call[u].op = "client" => type'[call[u].d] \in {"FD", "LEAKED"}
  BY <1>1 DEF IOInv, CallOK, Open
<1> QED BY <1>1, <1>2, <1>3, <1>4, <1>5, <1>6, UpdateKeeps

(* IODesc::Close, UnsafeSocket_close *)
LEMMA CloseKeeps ==
  ASSUME IOInv, NEW t \in Thread, NEW op \in Ops, NEW d \in Desc, Close(t, op, d)
  PROVE  IOInv'
<1>1. PICK n : n = fd[d]
  OBVIOUS
<1> DEFINE new == [k \in SetName |-> Remove(sets[k], n)]
           R == [k \in SetName |-> {n}]
<1>2. /\ current = NoThread /\ type[d] = "FD"
      /\ \A u \in Thread : call[u] # Call("client", d)
      /\ Update(new)
      /\ file' = [file EXCEPT ![n] = NoDesc]
      /\ ready' = [ready EXCEPT ![d] = {}]
      /\ type' = [type EXCEPT ![d] = "CLOSED"]
      /\ UNCHANGED <<fd, current, obsVars>>
  BY <1>1 DEF Close, Calls, IOHandlerClose
<1>3. \A k \in SetName : Drops(sets[k], Remove(sets[k], n), {n})
  <2> TAKE k \in SetName
  <2>1. sets[k] \in Seq(Entry) /\ Distinct(sets[k])
    BY DEF IOInv, IOTypes, SetsLive
  <2> QED BY <2>1, RemoveDrops
<1>4. \A k \in SetName : Drops(sets[k], new[k], R[k])
  BY <1>3
<1>5. new \in [SetName -> Seq(Entry)]
  BY <1>3 DEF Drops
<1>6. \A k \in SetName : \A e \in Vals(new[k]) : e.fd # n
  BY <1>3 DEF Drops
<1> HIDE DEF new, R
<1>7. IOTypes /\ Numbers
  BY DEF IOInv
<1>8. n \in Fd /\ file[n] = d
  BY <1>1, <1>2, <1>7 DEF Numbers, Open
<1>9. DescTypes' /\ ObsOK'
  BY <1>2, <1>7, <1>8, ObsSame DEF IOTypes, DescTypes
<1>10. Numbers'
  <2>1. \A c \in Desc : type'[c] = IF c = d THEN "CLOSED" ELSE type[c]
    BY <1>2, <1>7 DEF IOTypes
  <2>2. \A c \in Desc : type'[c] # "NEW" => fd'[c] \in Fd
    BY <1>2, <2>1, <1>7 DEF Numbers
  <2>3. ASSUME NEW c \in Desc, Open(c)' PROVE file'[fd'[c]] = c
    <3>1. c # d /\ Open(c)
      BY <2>1, <2>3 DEF Open
    <3>2. file[fd[c]] = c /\ fd[c] \in Fd
      BY <1>7, <3>1 DEF Numbers, Open
    <3>3. fd[c] # n
      BY <1>8, <3>1, <3>2
    <3> QED BY <1>2, <1>7, <3>2, <3>3 DEF IOTypes
  <2>4. \A c \in IODesc : type'[c] # "LEAKED"
    BY <2>1, <1>7 DEF Numbers, Desc
  <2> QED BY <2>2, <2>3, <2>4 DEF Numbers
<1>11. \A c \in Desc : type[c] # "NEW" => type'[c] # "NEW"
  BY <1>2, <1>7 DEF IOTypes
<1>12. ASSUME NEW u \in Thread, call[u].op = "client" PROVE type'[call[u].d] \in {"FD", "LEAKED"}
  <2>1. call[u] \in [op : Ops \cup {"none"}, d : Desc \cup {NoDesc}]
    BY <1>7 DEF IOTypes
  <2>2. call[u].d # d
    BY <1>2, <1>12, <2>1 DEF Call
  <2>3. Open(call[u].d) /\ call[u].d \in Desc
    BY <1>12 DEF IOInv, CallOK, Desc
  <2> QED BY <1>2, <1>7, <2>2, <2>3 DEF Open, IOTypes
<1>13. \A k \in SetName : \A e \in Vals(new[k]) : file'[e.fd] = file[e.fd]
  BY <1>2, <1>6
<1> QED BY <1>2, <1>4, <1>5, <1>9, <1>10, <1>11, <1>12, <1>13, UpdateKeeps

(* Every step keeps the invariant. *)
LEMMA IOStep ==
  IOInv /\ [Next]_vars => IOInv'
<1> SUFFICES ASSUME IOInv, [Next]_vars PROVE IOInv'
  OBVIOUS
<1>1. CASE Select
  BY <1>1, SelectKeeps
<1>2. CASE \E t \in Thread : \E op \in Ops, d \in Desc : Start(t, op, d) \/ Close(t, op, d)
  BY <1>2, StartKeeps, CloseKeeps
<1>3. CASE \E t \in Thread : Fails(t) \/ Transfer(t) \/ Blocks(t) \/ Wait(t) \/ DoBlock(t)
                             \/ Interrupt(t)
  BY <1>3, FailsKeeps, TransferKeeps, BlocksKeeps, WaitKeeps, DoBlockKeeps, InterruptKeeps
<1>4. CASE \E t \in Thread : \E s \in Socket : Client(t, s)
  BY <1>4, ClientKeeps
<1>5. CASE \E t \in Thread : \E s \in Listener : Server(t, s)
  <2>1. Listener \subseteq Desc
    BY DEF Desc
  <2> QED BY <1>5, <2>1, OpensKeeps DEF Server, Calls
<1>6. CASE \E d \in Desc : NewFromFD(d)
  BY <1>6, OpensKeeps DEF NewFromFD
<1>7. CASE \E d \in Desc : Peer(d)
  BY <1>7, PeerKeeps
<1>8. CASE UNCHANGED vars
  <2>1. UNCHANGED <<file, ready, type, fd, sets, pending, current, call, pc, blockedOn,
                    misled, failed>>
    BY <1>8 DEF vars, sysVars, descVars, threadVars, obsVars
  <2>2. IOTypes' /\ Numbers'
    BY <2>1 DEF IOInv, IOTypes, Numbers, Open
  <2>3. \A t \in Thread : CallOK(t)' /\ Waits(t)'
    BY <2>1 DEF IOInv, CallOK, Open, Usable, Target, Waits
  <2>4. SetsLive' /\ FilesLive' /\ RightStream'
    BY <2>1 DEF IOInv, SetsLive, FilesLive, RightStream
  <2> QED BY <2>1, <2>2, <2>3, <2>4 DEF IOInv
<1> QED BY <1>1, <1>2, <1>3, <1>4, <1>5, <1>6, <1>7, <1>8 DEF Next

-----------------------------------------------------------------------------
(* What holds in every run *)

(* The facts about descriptors, entries and threads hold in every state. *)
THEOREM IOInvariant == Spec => []IOInv
<1> QED BY IOInit, IOStep, PTL DEF Spec

(* The variables of IOHandler keep the types of the fields they stand for. *)
THEOREM IOTypeCorrect == Spec => []TypeOK
<1>1. IOInv => TypeOK
  <2> SUFFICES ASSUME IOInv PROVE TypeOK
    OBVIOUS
  <2>1. IOTypes
    BY DEF IOInv
  <2>2. \A k \in SetName : Entries(k) \subseteq Entry
    BY <2>1, LenProperties DEF IOTypes, Entries
  <2>3. DOMAIN sets = SetName
    BY <2>1 DEF IOTypes
  <2>4. \A t \in Thread : call[t].op \in Ops \cup {"none"} /\ call[t].d \in Desc \cup {NoDesc}
    BY <2>1 DEF IOTypes
  <2> QED BY <2>1, <2>2, <2>3, <2>4 DEF TypeOK, IOTypes
<1> QED BY <1>1, IOInvariant, PTL

(***************************************************************************)
(* Whoever waits for I/O waits for an entry with its number and direction, *)
(* however many threads share entries, close descriptors and are           *)
(* interrupted (Set::Add, Remove, Schedule).                               *)
(***************************************************************************)
THEOREM WaitersAreRegistered == Spec => []WaitersRegistered
<1>1. IOInv => WaitersRegistered
  BY DEF IOInv, Waits, WaitersRegistered, Entries, Vals
<1> QED BY <1>1, IOInvariant, PTL

(***************************************************************************)
(* select never meets a closed number, and no two entries share a future,  *)
(* for any number of descriptors and threads (Set::Add, IOHandler::Close). *)
(***************************************************************************)
THEOREM EntriesStayLive == Spec => []EntriesLive
<1>1. IOInv => EntriesLive
  <2> SUFFICES ASSUME IOInv PROVE EntriesLive
    OBVIOUS
  <2>1. \A k \in SetName : \A i \in 1..Len(sets[k]) : sets[k][i] \in Vals(sets[k])
    BY DEF Vals
  <2>2. ASSUME NEW k \in SetName, NEW i \in 1..Len(sets[k])
        PROVE  file[sets[k][i].fd] # NoDesc /\ sets[k][i].future \in pending
    BY <2>1 DEF IOInv, SetsLive, FilesLive
  <2>3. ASSUME NEW k \in SetName, NEW i \in 1..Len(sets[k]),
               NEW l \in SetName, NEW j \in 1..Len(sets[l]), <<k, i>> # <<l, j>>
        PROVE  /\ sets[k][i].future # sets[l][j].future
               /\ k = l => sets[k][i].fd # sets[l][j].fd
    <3>1. CASE k = l
      <4>1. i # j /\ Distinct(sets[k]) /\ j \in 1..Len(sets[k])
        BY <2>3, <3>1 DEF IOInv, SetsLive
      <4> QED BY <3>1, <4>1 DEF Distinct
    <3>2. CASE k # l
      BY <2>1, <3>2 DEF IOInv, SetsLive
    <3> QED BY <3>1, <3>2
  <2> QED BY <2>2, <2>3 DEF EntriesLive, IOInv
<1> QED BY <1>1, IOInvariant, PTL

(***************************************************************************)
(* Data read or written through an IODesc goes to the descriptor it was    *)
(* made for, although numbers are used again after Close.                  *)
(***************************************************************************)
THEOREM DataGoesRight == Spec => []RightStream
<1>1. IOInv => RightStream
  BY DEF IOInv
<1> QED BY <1>1, IOInvariant, PTL

(* Set::Add and the steps that leave the sets alone drop no entry. *)
LEMMA OnlyAdds ==
  ASSUME IOInv, NEW k \in SetName, NEW n \in Fd, Add(k, n)
  PROVE  \A l \in SetName : ~(Len(sets'[l]) < Len(sets[l]))
<1>1. IOTypes /\ SetsLive
  BY DEF IOInv
<1>2. /\ \A l \in SetName : Len(sets[l]) <= Len(sets'[l])
      /\ sets' \in [SetName -> Seq(Entry)]
  BY <1>1, AddEffect
<1>3. \A l \in SetName : Len(sets[l]) \in Nat /\ Len(sets'[l]) \in Nat
  BY <1>1, <1>2, LenProperties DEF IOTypes
<1>4. \A x, y \in Nat : x <= y => ~(y < x)
  OBVIOUS
<1> QED BY <1>2, <1>3, <1>4

(* Steps of threads other than Close drop no entry. *)
LEMMA ThreadsOnlyAdd ==
  ASSUME IOInv, NEW t \in Thread,
         \/ UNCHANGED sets
         \/ Wait(t) \/ DoBlock(t)
         \/ \E s \in Socket : Client(t, s)
  PROVE  \A l \in SetName : ~(Len(sets'[l]) < Len(sets[l]))
<1>1. CASE UNCHANGED sets
  <2>1. \A l \in SetName : Len(sets[l]) \in Nat
    BY LenProperties DEF IOInv, IOTypes
  <2>2. \A x \in Nat : ~(x < x)
    OBVIOUS
  <2> QED BY <1>1, <2>1, <2>2
<1>2. CASE (Wait(t) \/ DoBlock(t)) /\ ~UNCHANGED sets
  <2>1. /\ pc[t] \in {"call", "wait"} /\ call[t] # Lost
        /\ Add(SetOf(call[t]), fd[call[t].d])
    <3>1. CASE Wait(t)
      <4>1. pc[t] = "wait" /\ Add(SetOf(call[t]), fd[call[t].d])
        BY <1>2, <3>1 DEF Wait, Executes
      <4> QED BY <4>1 DEF IOInv, CallOK
    <3>2. CASE DoBlock(t)
      BY <1>2, <3>2 DEF DoBlock, Executes
    <3> QED BY <1>2, <3>1, <3>2
  <2>2. SetOf(call[t]) \in SetName /\ fd[call[t].d] \in Fd
    BY <2>1, InCall
  <2> QED BY <2>1, <2>2, OnlyAdds
<1>3. CASE (\E s \in Socket : Client(t, s)) /\ ~UNCHANGED sets
  <2>1. PICK s \in Socket : Client(t, s)
    BY <1>3
  <2>2. s \in Desc /\ Opens(s) /\ Add("Connected", fd'[s])
    BY <1>3, <2>1 DEF Client, Desc
  <2>3. PICK n \in Fd : n = fd'[s]
    BY <2>2, OpensEffect DEF IOInv
  <2>4. Add("Connected", n) /\ "Connected" \in SetName
    BY <2>2, <2>3 DEF SetName
  <2> QED BY <2>4, OnlyAdds
<1> QED BY <1>1, <1>2, <1>3

(* IOHandler::Close leaves the number standing for nothing. *)
LEMMA CloseChangesFile ==
  ASSUME IOInv, NEW t \in Thread, NEW op \in Ops, NEW d \in Desc, Close(t, op, d)
  PROVE  file' # file
<1>1. type[d] = "FD" /\ file' = [file EXCEPT ![fd[d]] = NoDesc]
  BY DEF Close
<1>2. fd[d] \in Fd /\ file[fd[d]] = d /\ d # NoDesc
  BY <1>1, IOAssumption DEF IOInv, Numbers, Open
<1>3. file'[fd[d]] = NoDesc
  BY <1>1, <1>2 DEF IOInv, IOTypes
<1> QED BY <1>2, <1>3

(* After a call of select no entry is left that it reported. *)
LEMMA SelectServes ==
  ASSUME IOInv, Select
  PROVE  \A k \in SetName : \A i \in 1..Len(sets'[k]) : ~ReadyEntry(k, sets'[k][i])
<1> SUFFICES ASSUME NEW k \in SetName, NEW i \in 1..Len(sets'[k])
             PROVE  ~ReadyEntry(k, sets'[k][i])
  OBVIOUS
<1>1. /\ sets' = [l \in SetName |-> Schedule(sets[l], Reported(l))]
      /\ Drops(sets[k], Schedule(sets[k], Reported(k)), Reported(k))
  BY SelectEffect DEF Update
<1>2. PICK e : e = sets'[k][i]
  OBVIOUS
<1>3. e \in Vals(sets'[k])
  BY <1>2 DEF Vals
<1>4. e \in Vals(sets[k]) /\ e.fd \notin Reported(k)
  BY <1>1, <1>3 DEF Drops
<1>5. e.fd \in Registered(k)
  BY <1>4 DEF Registered, Entries, Vals
<1>6. ~ReadyEntry(k, e)
  BY <1>4, <1>5 DEF Reported, ReadyFds, ReadyEntry, SetName
<1> QED BY <1>2, <1>6

(***************************************************************************)
(* One call of select serves every entry that it reports: the loop of      *)
(* Set::Schedule skips none when the queue closes up under it.             *)
(***************************************************************************)
THEOREM SelectSkipsNone == Spec => SelectServesAll
<1> DEFINE P == file' = file /\ (\E k \in SetName : Len(sets'[k]) < Len(sets[k]))
                => \A k \in SetName : \A i \in 1..Len(sets'[k]) : ~ReadyEntry(k, sets'[k][i])
<1>1. IOInv /\ [Next]_vars => [P]_vars
  <2> SUFFICES ASSUME IOInv, Next PROVE P
    OBVIOUS
  <2>1. CASE Select
    BY <2>1, SelectServes
  <2>2. CASE \E t \in Thread : \E op \in Ops, d \in Desc : Close(t, op, d)
    BY <2>2, CloseChangesFile
  <2>3. CASE \E t \in Thread : \/ UNCHANGED sets
                               \/ Wait(t) \/ DoBlock(t)
                               \/ \E s \in Socket : Client(t, s)
    <3>1. \A l \in SetName : ~(Len(sets'[l]) < Len(sets[l]))
      BY <2>3, ThreadsOnlyAdd
    <3> QED BY <3>1
  <2>4. CASE \E d \in Desc : NewFromFD(d) \/ Peer(d)
    <3>1. UNCHANGED sets
      BY <2>4 DEF NewFromFD, Peer
    <3>2. \A l \in SetName : ~(Len(sets[l]) < Len(sets[l]))
      <4>1. \A l \in SetName : Len(sets[l]) \in Nat
        BY LenProperties DEF IOInv, IOTypes
      <4>2. \A x \in Nat : ~(x < x)
        OBVIOUS
      <4> QED BY <4>1, <4>2
    <3> QED BY <3>1, <3>2
  <2> HIDE DEF P
  <2>5. \A t \in Thread : \A op \in Ops, d \in Desc : Start(t, op, d) => UNCHANGED sets
    BY DEF Start
  <2>6. \A t \in Thread : Fails(t) \/ Transfer(t) \/ Blocks(t) \/ Interrupt(t) => UNCHANGED sets
    BY DEF Fails, Transfer, Blocks, Interrupt
  <2>7. \A t \in Thread : \A s \in Listener : Server(t, s) => UNCHANGED sets
    BY DEF Server
  <2> QED BY <2>1, <2>2, <2>3, <2>4, <2>5, <2>6, <2>7 DEF Next
<1> HIDE DEF P
<1> QED BY <1>1, IOInvariant, PTL DEF Spec, SelectServesAll, P
=============================================================================
