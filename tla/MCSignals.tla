---- MODULE MCSignals ----
(* Instances of SignalHandler for TLC. *)
EXTENDS SignalHandler
====
