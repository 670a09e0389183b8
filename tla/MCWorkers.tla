----------------------------- MODULE MCWorkers ------------------------------
(* Workers and sockets as model values.                                     *)
EXTENDS Workers
=============================================================================
