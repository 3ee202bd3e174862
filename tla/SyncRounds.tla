----------------------------- MODULE SyncRounds -----------------------------
(***************************************************************************)
(* Sync with a history variable that says which paths nobody disturbed:     *)
(* what a round of a device, from the list it sends to the cursor it        *)
(* stores, has achieved when it is over.  The steps are those of Sync.      *)
(***************************************************************************)
EXTENDS Sync

VARIABLE steady  \* history: for each device, the paths undisturbed since its
                 \*   last round began, none after a round that broke off

roundVars == <<vars, steady>>

\* p changes on d, and not because d follows an instruction.
Touched(d, p) == local'[d][p] # local[d][p] /\ sess' = sess

\* The row of p changes when d has its instructions already, and not by an
\* upload of d that is answered.
Overtaken(d, p) ==
  /\ sess[d].pc # "delta"
  /\ row'[p] # row[p]
  /\ sess'[d].plan[p] = sess[d].plan[p]

RoundInit == Init /\ steady = [d \in Device |-> Path]

RoundNext ==
  /\ Next
  /\ steady' = [d \in Device |->
       IF SyncStart(d) THEN Path
       ELSE IF SessionLost(d) THEN {}
       ELSE {p \in steady[d] : ~Touched(d, p) /\ ~Overtaken(d, p)}]

RoundSpec == RoundInit /\ [][RoundNext]_roundVars

FairRoundSpec == RoundSpec /\ Fairness

-----------------------------------------------------------------------------
(* Properties.                                                              *)

\* What is left to do for an undisturbed path is what it takes to agree.
OnTheWay(d, p) ==
  LET do == sess[d].plan[p].do IN
  /\ do = "none" => Agree(d, p)
  /\ do = "upload" => local[d][p].hash # None
  /\ do = "sent" => \E u \in uploads : /\ u.held /\ u.dev = d /\ u.path = p
                                       /\ u.hash = local[d][p].hash
  /\ do \in {"download", "conflict"} => row[p].status = "live"
  /\ do = "delete" => row[p].status # "live"

\* Where the round of d stands with p.
Settling(d, p) ==
  /\ sess[d].pc = "idle" => Agree(d, p)
  /\ sess[d].pc = "delta" => sess[d].manifest[p] = local[d][p]
  /\ sess[d].pc \in {"apply", "complete"} => OnTheWay(d, p)

\* The inductive invariant of rounds: beside SyncInv, the list a device has
\* sent is still what it holds, and the instructions it is left with ask for
\* just what is missing (compute_delta).
RoundInv ==
  /\ SyncInv
  /\ steady \in [Device -> SUBSET Path]
  /\ \A d \in Device : \A p \in steady[d] : Settling(d, p)

\* A round that has not broken off leaves the device with exactly what the
\* server holds of every path that was not disturbed since it began: one round
\* is enough, whatever the two had before, and whatever the other devices, late
\* uploads and the panel did to other paths (compute_delta, the transfers,
\* complete).
RoundsAgree ==
  \A d \in Device : sess[d].pc = "idle" =>
    \A p \in steady[d] : Agree(d, p)
=============================================================================
