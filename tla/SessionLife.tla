---------------------------- MODULE SessionLife -----------------------------
(***************************************************************************)
(* What a session is to its user.  A login (or a registration) opens a      *)
(* session on a device of its own; the session can be renewed for as long   *)
(* as it is open; and once it has ended, by a logout, an expiry, a          *)
(* revocation, a change of password or the deletion of the account, it is   *)
(* never renewed again: the device has to log in and becomes a new one.     *)
(***************************************************************************)
CONSTANT Device   \* the devices that will ever log in

VARIABLE phase

LifeInit == phase = [d \in Device |-> "new"]

Open(d) ==
  /\ phase[d] = "new"
  /\ phase' = [phase EXCEPT ![d] = "open"]

\* Revoking all devices, or deleting a user, ends many sessions at once.
Close(S) ==
  /\ \A d \in S : phase[d] = "open"
  /\ phase' = [d \in Device |-> IF d \in S THEN "closed" ELSE phase[d]]

LifeNext == (\E d \in Device : Open(d)) \/ (\E S \in SUBSET Device : Close(S))

LifeSpec == LifeInit /\ [][LifeNext]_phase
=============================================================================
