------------------------------- MODULE Server -------------------------------
(***************************************************************************)
(* The process: it starts (Migrations), and while it listens it serves      *)
(* (Notify).  The channels and the requests in flight live in its memory    *)
(* and end with it; the database and what the devices have read remain.     *)
(***************************************************************************)
EXTENDS Migrations, Notify

vars == <<start, notify>>

Init == StartInit /\ NotifyInit

\* What a process that ends takes with it.
Forget ==
  /\ handler' = [h \in Handler |-> 0]
  /\ channel' = <<>>
  /\ client' = [d \in Device |-> [Offline EXCEPT !.seen = client[d].seen]]
  /\ unsaid' = unsaid \cup {handler[h] : h \in {x \in Handler : handler[x] # 0}}
  /\ UNCHANGED changes

Starting == ~Ready /\ BootStep /\ UNCHANGED notify
Serving == Ready /\ NotifyStep /\ UNCHANGED start
Crash == Kill /\ Forget

Next == Starting \/ Serving \/ Crash

Spec == Init /\ [][Next]_vars

\* The supervisor starts a process that has ended, and a start is a plain
\* sequence of statements.
Fairness == WF_vars(Starting)

FairSpec == Spec /\ Fairness

\* Once the process is no longer killed, and the column an index is on can be
\* added, it listens and goes on listening, or it is stuck (run_migrations,
\* run_vault_migration).
EventuallyListens ==
  <>[]("files.vault_id" \notin warned) => <>[](Ready \/ Stuck)
=============================================================================
