------------------------------ MODULE ServerInv ------------------------------
(***************************************************************************)
(* The inductive invariant of Server.                                       *)
(***************************************************************************)
EXTENDS Server

(* The start.                                                               *)

\* The statements of the migration m, and its record.
Statements == [m \in Names |->
  {i \in DOMAIN Program : \E a, b \in DOMAIN Program :
     /\ Program[a] = [do |-> "check", of |-> m] /\ a < i
     /\ Program[b] = [do |-> "record", of |-> m] /\ i <= b}]

\* The object o is there, or a former release dropped it.
Has(o) == o \in db \cup lost \/ (o = "files" /\ "files_new" \in db)

\* What the step i is for has been reached.
Done(i) ==
  /\ Program[i].do \in {"create", "alter"} => Has(Program[i].of)
  /\ Program[i].do = "column" => Has(Program[i].of) \/ Program[i].of \in warned
  /\ Program[i].do = "record" => Program[i].of \in recorded
  /\ Program[i].do = "recover" => Program[i].of \in db

\* A process has done what is behind it, and a recorded migration is complete.
DoneBefore == \A i \in DOMAIN Program : i < step => Done(i)
RecordedDone == \A m \in recorded : \A i \in Statements[m] : Done(i)

\* A recorded migration is not run; and where files_new was left, the first one
\* was recorded.
NotRepeated ==
  /\ \A m \in recorded : step \notin Statements[m]
  /\ "files_new" \in db => "001" \in recorded

\* StuckOnlyByCrash while the process runs.
StuckAtRecord == crashes = 0 /\ Stuck => AtStep("record", "003")

StartInv == StartTypeOK /\ DoneBefore /\ RecordedDone /\ NotRepeated /\ StuckAtRecord

\* The index is never there without its column.
IndexHasColumn == "idx_files_vault" \in db => "files.vault_id" \in db

-----------------------------------------------------------------------------
(* Notifications.                                                           *)

\* A change is announced at most once, and not while its handler is pending;
\* two handlers announce different changes.
AnnouncedOnce ==
  /\ \A h \in Handler : handler[h] <= Len(changes)
  /\ \A h, k \in Handler : handler[h] # 0 /\ handler[h] = handler[k] => h = k
  /\ \A i \in 1..Len(channel) :
       /\ channel[i] <= Len(changes)
       /\ \A h \in Handler : handler[h] # channel[i]
       /\ \A j \in 1..Len(channel) : channel[i] = channel[j] => i = j

\* A receiver is not ahead of the channel.
PositionsFit ==
  \A d \in Device : client[d].pos <= Len(channel) + 1 /\ client[d].seen <= Len(changes)

\* The change c is known to the device d, or will be by a message, or it never
\* will.
Accounted(d, c) ==
  \/ c <= client[d].seen
  \/ changes[c] = d
  \/ c \in unsaid
  \/ \E h \in Handler : handler[h] = c
  \/ \E i \in client[d].pos..Len(channel) : channel[i] = c

\* A message of another device is still to come.
WillBeTold(d) ==
  \E i \in client[d].pos..Len(channel) : i >= Oldest /\ Source(i) # d

\* NothingUnheard before everything is received.
Heard ==
  \A d \in Device : client[d].on /\ client[d].synced /\ ~client[d].told =>
    \/ \A c \in 1..Len(changes) : Accounted(d, c)
    \/ WillBeTold(d)
    \/ OnlyOwnLeft(d)

NotifyInv == NotifyTypeOK /\ AnnouncedOnce /\ PositionsFit /\ Heard

\* The inductive invariant behind the safety properties of Server: a process
\* that starts relies on what it has done and on the migrations that are
\* recorded, a device on what it will still receive (init_pool, ws_upgrade,
\* notify_sync_update).
ServerInv == StartInv /\ IndexHasColumn /\ NotifyInv
=============================================================================
