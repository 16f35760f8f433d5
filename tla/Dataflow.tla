------------------------------- MODULE Dataflow -------------------------------
(***************************************************************************)
(* What a program relies on when it uses holes, promises, futures and lazy *)
(* futures: a store of variables that are resolved at most once.  There    *)
(* are no references, wait queues or threads here.  A variable means       *)
(* itself until it is resolved; resolving it with a word makes everything  *)
(* that meant the variable mean that word, in one step; and a hole and the *)
(* future that was taken from it are resolved together.                    *)
(***************************************************************************)
CONSTANTS Variable, Value, Nothing

VARIABLES status,  \* FREE, HOLE, BYNEED (lazy), FUTURE, CANCELLED, REF (bound)
          means,   \* the word that a variable stands for
          future   \* the future of a hole, Nothing without one

vars == <<status, means, future>>

Init == /\ status = [x \in Variable |-> "FREE"]
        /\ means = [x \in Variable |-> x]
        /\ future = [x \in Variable |-> Nothing]

(* What can be known to a program *)
Known == Value \cup {x \in Variable : status[x] # "FREE"}

(* x and, if it is a hole from which a future was taken, that future *)
Group(x) == {x} \cup ({future[x]} \cap Variable)

(* No member is resolved, and no hole is left behind by its future. *)
Unresolved(X) == /\ \A y \in X : status[y] \in {"HOLE", "FUTURE"}
                 /\ \A h \in Variable \ X : future[h] \notin X

-----------------------------------------------------------------------------
Create(x) ==
  /\ status[x] = "FREE"
  /\ \E s \in {"HOLE", "BYNEED", "FUTURE"} : status' = [status EXCEPT ![x] = s]
  /\ UNCHANGED <<means, future>>

(* The first access to a lazy future starts its computation. *)
Demand(x) ==
  /\ status[x] = "BYNEED"
  /\ status' = [status EXCEPT ![x] = "FUTURE"]
  /\ UNCHANGED <<means, future>>

(* A future is taken from hole h. *)
TakeFuture(h, x) ==
  /\ status[h] = "HOLE"
  /\ future[h] = Nothing
  /\ status[x] = "FREE"
  /\ status' = [status EXCEPT ![x] = "FUTURE"]
  /\ future' = [future EXCEPT ![h] = x]
  /\ UNCHANGED means

(* x, with its future, is bound to w, which is neither of the two. *)
Resolve(x, w) ==
  /\ Unresolved(Group(x))
  /\ w \notin Group(x)
  /\ w \in Variable => means[w] = w
  /\ status' = [y \in Variable |-> IF y \in Group(x) THEN "REF" ELSE status[y]]
  /\ means' = [y \in Variable |-> IF means[y] \in Group(x) THEN w ELSE means[y]]
  /\ future' = [future EXCEPT ![x] = Nothing]

(* x, with its future, fails: whoever means one of them sees the exception. *)
Fail(x) ==
  /\ Unresolved(Group(x))
  /\ status' = [y \in Variable |-> IF y \in Group(x) THEN "CANCELLED" ELSE status[y]]
  /\ future' = [future EXCEPT ![x] = Nothing]
  /\ UNCHANGED means

Next == \/ \E x \in Variable : Create(x) \/ Demand(x) \/ Fail(x)
        \/ \E h \in Variable, x \in Variable : TakeFuture(h, x)
        \/ \E x \in Variable, w \in Known : Resolve(x, w)

Spec == Init /\ [][Next]_vars
=============================================================================
