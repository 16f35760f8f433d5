---- MODULE MCScheduler ----
(* Instances of Scheduler for TLC. *)
EXTENDS Scheduler, TLC

Symmetric == Permutations(Thread) \cup Permutations(Transient)
====
