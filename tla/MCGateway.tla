------------------------------ MODULE MCGateway ------------------------------
(* Small instances of Gateway for TLC. *)
EXTENDS Gateway
CONSTANTS r1, r2, t1, t2, closed, open
=============================================================================
