--------------------------- MODULE VersionHistory ---------------------------
(***************************************************************************)
(* VersionStore with a history variable that remembers every version ever   *)
(* written: what a version number stands for over time.  The steps are      *)
(* those of VersionStore.                                                   *)
(***************************************************************************)
EXTENDS VersionStoreInv

VARIABLE issued  \* history: every row file_versions has ever had

historyVars == <<vars, issued>>

HistoryInit == Init /\ issued = {}

HistoryNext == Next /\ issued' = issued \cup rows'

HistorySpec == HistoryInit /\ [][HistoryNext]_historyVars

-----------------------------------------------------------------------------
(* Properties.                                                              *)

\* A version number, once it has stood for some content of a file, never stands
\* for another, although numbers are chosen outside the transactions that use
\* them, the history is pruned, and rollbacks and uploads overlap: what a device
\* has read as version n is what version n will ever be (upsert_file_record,
\* rollback).  A rollback that works from a stale number is the exception.
NumbersFinal ==
  \A x, y \in issued :
    x.file \notin regressed /\ x.file = y.file /\ x.version = y.version => x = y

\* No number that was ever in use is above the current one, and none is claimed
\* by a rollback that has yet to insert it.
NumbersBehind ==
  \A x \in issued :
    /\ Drawn(x.file)
    /\ x.file \notin regressed => x.version <= files[x.file].cur
    /\ \A r \in Requests :
         At(r, "rb_insert") /\ req[r].file = x.file /\ Sound(x.file)
           => req[r].cur + 1 # x.version

\* The inductive invariant behind NumbersFinal.
HistoryInv ==
  /\ IndInv
  /\ rows \subseteq issued /\ issued \subseteq Row
  /\ NumbersBehind
  /\ NumbersFinal
=============================================================================
