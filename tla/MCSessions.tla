----------------------------- MODULE MCSessions -----------------------------
(* A small instance of Sessions.                                            *)
EXTENDS SessionsInv, TLC

MCSymmetry == Permutations(Request) \cup Permutations(Token)
                \cup Permutations(Device) \cup Permutations(User)
=============================================================================
