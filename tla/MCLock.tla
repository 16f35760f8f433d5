---- MODULE MCLock ----
(* Instances of Lock for TLC. *)
EXTENDS Lock
====
