------------------------------ MODULE FifoQueue ------------------------------
(***************************************************************************)
(* What the users of the SEAM queue (run queue, wait queues, sets of       *)
(* descriptors) rely on: a sequence of words, first in first out, from     *)
(* which one element may be taken out without disturbing the order of the  *)
(* others.                                                                 *)
(***************************************************************************)
EXTENDS Naturals, Sequences

CONSTANT Elem

VARIABLE items

Init == items = <<>>

Drop(i) == [j \in 1..(Len(items) - 1) |-> IF j < i THEN items[j] ELSE items[j + 1]]

Enqueue(w) == items' = Append(items, w)

Dequeue == items # <<>> /\ items' = Tail(items)

(* The element that was queued first goes; nothing happens without one. *)
Remove(w) == \E i \in 1..Len(items) : /\ items[i] = w
                                      /\ \A j \in 1..(i - 1) : items[j] # w
                                      /\ items' = Drop(i)

RemoveNth(n) == n \in 1..Len(items) /\ items' = Drop(n)

Next == \/ \E w \in Elem : Enqueue(w) \/ Remove(w)
        \/ Dequeue
        \/ \E n \in 1..Len(items) : RemoveNth(n)

Spec == Init /\ [][Next]_items
=============================================================================
