----------------------------- MODULE MCHandlers -----------------------------
(* Small instances of HandlerStack *)
EXTENDS HandlerStack
=============================================================================
