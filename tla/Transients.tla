----------------------------- MODULE Transients -----------------------------
(***************************************************************************)
(* Transients of the SEAM store: holes, futures, by-need suspensions,      *)
(* cancelled futures and references (src/seam/store/Value.hh,              *)
(* PointerOp.hh, src/seam/generic/Transients.hh).                          *)
(*                                                                         *)
(* A word is a determined value or a pointer to a transient.  A transient  *)
(* has a label, which changes during its life, and one argument:           *)
(*    HOLE       its associated future, NoWord if none was created         *)
(*    FUTURE     its wait queue (the variable waiters of Scheduler)        *)
(*    CANCELLED  the exception package (not told apart)                    *)
(*    BYNEED     the closure (not told apart)                              *)
(*    REF        the word it was replaced by                               *)
(* FREE marks a transient that has not been allocated yet.                 *)
(***************************************************************************)
EXTENDS Naturals, Sequences

CONSTANTS Transient,  \* the transients that may be allocated
          Value,      \* determined values (an exception is one too)
          NoWord      \* the content of an argument that holds no word

ASSUME WordAssumption == /\ Transient \cap Value = {}
                         /\ NoWord \notin Transient \cup Value

VARIABLES label, arg

Word == Transient \cup Value

Label == {"FREE", "HOLE", "FUTURE", "BYNEED", "CANCELLED", "REF"}

IsRef(w) == w \in Transient /\ label[w] = "REF"

(***************************************************************************)
(* v ends the chain of references that starts at w: it is not a reference, *)
(* and it lies in every set that holds w and is closed under following a   *)
(* reference.                                                              *)
(***************************************************************************)
Denotes(w, v) ==
  /\ ~IsRef(v)
  /\ \A S \in SUBSET (Word \cup {NoWord}) :
        (w \in S /\ \A x \in S : IsRef(x) => arg[x] \in S) => v \in S

(***************************************************************************)
(* PointerOp::Deref: a loop that follows references.  On a cyclic chain    *)
(* the loop never ends; the result is then a reference, for which no       *)
(* operation below has a step.                                             *)
(***************************************************************************)
Deref(w) == IF IsRef(w) /\ \E v \in Word \cup {NoWord} : Denotes(w, v)
            THEN CHOOSE v \in Word \cup {NoWord} : Denotes(w, v)
            ELSE w

(* Store::WordToTransient(w) # INVALID_POINTER *)
IsTransient(w) == Deref(w) \in Transient

(* Store::AllocTransient and InitArg *)
Alloc(x, l, a) == /\ label[x] = "FREE"
                  /\ label' = [label EXCEPT ![x] = l]
                  /\ arg' = [arg EXCEPT ![x] = a]

(***************************************************************************)
(* The word that x->Become (REF_LABEL, w) stores.  The label is written    *)
(* before w is dereferenced: if w leads to x itself, Deref goes on to the  *)
(* argument that x had, its wait queue, which is no word of the program.   *)
(***************************************************************************)
Stored(x, w) == IF Deref(w) = x THEN NoWord ELSE Deref(w)

(* Transient::Become, for every transient of X (a hole and its future) *)
Become(X, l, a) == /\ label' = [x \in Transient |-> IF x \in X THEN l ELSE label[x]]
                   /\ arg' = [x \in Transient |-> IF x \in X THEN a ELSE arg[x]]
=============================================================================
