------------------------- MODULE MCCollectorPasses -------------------------
(* A small instance of CollectorPasses.                                     *)
EXTENDS MCFileStore, CollectorPasses
=============================================================================
