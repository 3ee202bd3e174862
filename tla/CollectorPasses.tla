-------------------------- MODULE CollectorPasses --------------------------
(***************************************************************************)
(* FileStore with a history variable that follows one pass of the garbage   *)
(* collector: what a pass that comes to its end has achieved.  The steps    *)
(* are those of FileStore.                                                  *)
(***************************************************************************)
EXTENDS FileStore

VARIABLE orphans  \* history: the blobs that nothing has named since the last
                  \*   pass of the collector began

collectVars == <<allvars, orphans>>

\* No version and no request names b, and no write of it that has outlived its
\* request has yet to open the file.
Orphan(b) ==
  /\ b \notin Referenced
  /\ \A r \in Requests : req[r].blob # b
  /\ queued[b] = 0

CollectInit == FSInit /\ orphans = {}

CollectNext ==
  /\ FSNext
  /\ orphans' = {b \in IF GcStart THEN Blob ELSE orphans : Orphan(b)'}

CollectSpec == CollectInit /\ [][CollectNext]_collectVars

FairCollectSpec == CollectSpec /\ PruneFairness /\ FSFairness

-----------------------------------------------------------------------------
(* Properties.                                                              *)

\* The inductive invariant of a pass: an orphan the collector has been to is off
\* the disk, and no write is at work that could bring it back.
CollectInv ==
  /\ FSTypeOK
  /\ orphans \subseteq Blob
  /\ \A b \in orphans : Orphan(b) /\ (gc.pc = "run" /\ b \notin gc.todo =>
                                        disk[b] = "absent" /\ writer[b] = None)

\* A pass that comes to its end has cleared the disk of every blob that nothing
\* named while it ran, also of one that an upload which has gone away was still
\* writing when the pass came to it (garbage_collect_blobs, store).  Only a write
\* left in the queue of the blocking pool can bring one back behind the pass.
PassCollects ==
  gc.pc = "run" /\ gc.todo = {} => \A b \in orphans : disk[b] = "absent"
=============================================================================
