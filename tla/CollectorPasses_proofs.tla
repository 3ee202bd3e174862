------------------------ MODULE CollectorPasses_proofs ------------------------
(* Proofs about CollectorPasses.                                            *)
EXTENDS CollectorPasses, FileStore_proofs

\* A place that the running collector has been to and found, or left, empty.
Cleared(b) == disk[b] = "absent" /\ writer[b] = None

\* Nobody works on the file of an orphan but writers that have lost it, so that
\* once cleared it stays off the disk.
LEMMA ClearedStays ==
  ASSUME FSTypeOK, FSNext, NEW b \in Blob, Orphan(b), Cleared(b)
  PROVE  Cleared(b)'
  <1> USE WritersAssumption DEF FSTypeOK, Cleared
  <1>1. CASE OtherStep
    BY <1>1 DEF OtherStep, fsvars
  <1>2. ASSUME NEW r \in Requests, StoreStep(r) PROVE Cleared(b)'
    <2>0. req[r].blob # b
      BY DEF Orphan
    <2>1. CASE StoreExists(r) \/ StoreMissing(r)
      BY <2>1 DEF StoreExists, StoreMissing, fsvars
    <2>2. CASE StoreOpen(r)
      BY <2>0, <2>2 DEF StoreOpen
    <2>3. CASE StoreWritten(r)
      BY <2>0, <2>3 DEF StoreWritten, Written
    <2>4. CASE StopNotWriting(r)
      BY <2>4 DEF StopNotWriting
    <2>5. CASE StoreFails(r)
      BY <2>0, <2>5 DEF StoreFails, WriteFails
    <2>6. CASE StoreDetached(r)
      BY <2>0, <2>6 DEF StoreDetached
    <2>7. CASE StoreAbandoned(r)
      BY <2>7 DEF StoreAbandoned
    <2> QED
      BY <1>2, <2>1, <2>2, <2>3, <2>4, <2>5, <2>6, <2>7 DEF StoreStep
  <1>3. ASSUME NEW c \in Blob, QueuedStep(c) PROVE Cleared(b)'
    <2>1. c # b
      BY <1>3 DEF QueuedStep, QueuedOpens, QueuedLost, Orphan
    <2> QED
      BY <1>3, <2>1 DEF QueuedStep, QueuedOpens, QueuedLost
  <1>5. ASSUME NEW c \in Blob, DetachedEnds(c) PROVE Cleared(b)'
    <2>1. c # b
      BY <1>5 DEF DetachedEnds, Detached, None
    <2> QED
      BY <1>5, <2>1 DEF DetachedEnds, Written, WriteFails
  <1>4. CASE GcStep
    BY <1>4 DEF GcStep, GcStart, GcVisit, GcEnd, GcAbort
  <1> QED
    BY <1>1, <1>2, <1>3, <1>4, <1>5 DEF FSNext

\* The collector crosses a place off its list only when it has cleared it.
LEMMA ListShrinks ==
  ASSUME FSTypeOK, FSNext, ~GcStart, NEW b \in Blob, gc'.pc = "run", b \notin gc'.todo
  PROVE  gc.pc = "run" /\ (b \notin gc.todo \/ Cleared(b)')
  <1> USE DEF FSTypeOK, Cleared
  <1>1. CASE GcStep
    <2>1. ASSUME NEW c \in Blob, GcVisit(c)
          PROVE  gc.pc = "run" /\ (b \notin gc.todo \/ Cleared(b)')
      BY <2>1 DEF GcVisit
    <2>2. CASE GcEnd \/ GcAbort
      BY <2>2 DEF GcEnd, GcAbort, IdleGc
    <2> QED
      BY <1>1, <2>1, <2>2 DEF GcStep
  <1>2. CASE gc' = gc
    BY <1>2
  <1> QED
    BY <1>1, <1>2
       DEF FSNext, OtherStep, StoreStep, StoreExists, StoreMissing, StoreOpen,
           StoreWritten, StopNotWriting, StoreFails, StoreAbandoned,
           StoreDetached, QueuedStep, QueuedOpens, QueuedLost, DetachedEnds,
           fsvars

LEMMA CollectInvNext ==
  ASSUME IndInv, CollectInv, CollectNext
  PROVE  CollectInv'
  <1>1. FSTypeOK /\ FSTypeOK' /\ FSNext
    BY DiskTypeStep DEF IndInv, RollbackInv, CollectInv, CollectNext
  <1>2. orphans' \subseteq Blob /\ \A b \in orphans' : Orphan(b)'
    BY DEF CollectInv, CollectNext
  <1>3. ASSUME NEW b \in orphans', gc'.pc = "run", b \notin gc'.todo
        PROVE  Cleared(b)'
    <2>1. b \in Blob /\ b \notin Referenced'
      BY <1>2 DEF Orphan
    <2>2. CASE GcStart
      BY <1>3, <2>1, <2>2 DEF GcStart, Unreferenced, Referenced, vars
    <2>3. CASE ~GcStart
      <3>1. b \in orphans /\ Orphan(b)
        BY <2>3 DEF CollectInv, CollectNext
      <3>2. gc.pc = "run" /\ (b \notin gc.todo \/ Cleared(b)')
        BY <1>1, <1>3, <2>1, <2>3, ListShrinks
      <3>3. b \notin gc.todo => Cleared(b)
        BY <3>1, <3>2 DEF CollectInv, Cleared
      <3> QED
        BY <1>1, <2>1, <3>1, <3>2, <3>3, ClearedStays
    <2> QED
      BY <2>2, <2>3
  <1> QED
    BY <1>1, <1>2, <1>3 DEF CollectInv, Cleared

LEMMA CollectInvStutter ==
  ASSUME CollectInv, UNCHANGED collectVars
  PROVE  CollectInv'
  BY DEF CollectInv, collectVars, allvars, vars, FSTypeOK, Orphan, Referenced

-----------------------------------------------------------------------------

\* The history variable only watches: what holds of FSSpec holds of CollectSpec.
LEMMA CollectionsAreRuns == CollectSpec => FSSpec
  <1>1. CollectInit => FSInit
    BY DEF CollectInit
  <1>2. [CollectNext]_collectVars => [FSNext]_allvars
    BY DEF CollectNext, collectVars
  <1> QED
    BY <1>1, <1>2, PTL DEF CollectSpec, FSSpec

\* CollectInv: the running collector's list covers every orphan that is still on
\* disk or being written.
THEOREM CollectInvariant == CollectSpec => []CollectInv
  <1>1. CollectInit => CollectInv
    BY DiskTypeInit DEF CollectInit, CollectInv
  <1>2. IndInv /\ CollectInv /\ [CollectNext]_collectVars => CollectInv'
    BY CollectInvNext, CollectInvStutter
  <1> QED
    BY <1>1, <1>2, CollectionsAreRuns, TablesHere, PTL DEF CollectSpec

\* PassCollects: when a pass comes to its end, no blob is on disk that nothing
\* named while it ran, neither the tables nor a request nor a write waiting in the
\* blocking pool (garbage_collect_blobs, store).
THEOREM PassesCollect == CollectSpec => []PassCollects
  <1>1. CollectInv => PassCollects
    BY DEF CollectInv, PassCollects
  <1> QED
    BY <1>1, CollectInvariant, PTL
=============================================================================
