------------------------------ MODULE MCServer ------------------------------
(* A small instance of Server.                                              *)
EXTENDS ServerInv, TLC
=============================================================================
