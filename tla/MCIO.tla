-------------------------------- MODULE MCIO --------------------------------
(* A small instance of IOHandler *)
EXTENDS IOHandler
=============================================================================
