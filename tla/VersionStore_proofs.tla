------------------------- MODULE VersionStore_proofs -------------------------
(* Proofs about VersionStore.                                               *)
EXTENDS VersionStoreInv, TLAPS, FiniteSetTheorems

\* Initially nothing is stored and nobody holds anything.
LEMMA InitInv == Init => IndInv
  <1> SUFFICES ASSUME Init PROVE IndInv
    OBVIOUS
  <1> USE DEF Init, Idle, NoPrune, None
  <1>1. TypeOK
    BY BoundsAssumption DEF TypeOK, FileRecord, Status, Request, PC
  <1>2. TableInv
    BY DEF TableInv, RowsHaveFile, KeysUnique, CurrentIsNewest,
           CurrentRowPresent, HashMatchesCurrent, CurrentRows, RowsOf, Existing
  <1>3. RollbackInv
    BY DEF RollbackInv, RequestShape, RollbackReadInv, RollbackHashInv,
           RollbackClaimsDiffer, RollbackWillInsert, At
  <1>4. PruneInv
    BY BoundsAssumption DEF PruneInv, PruneListInv, PruneDoomedInv
  <1> QED
    BY <1>1, <1>2, <1>3, <1>4 DEF IndInv

\* The record of a request that has ended, or not begun.
LEMMA IdleType == Idle \in Request
  BY BoundsAssumption DEF Idle, Request, PC

\* The changes that the handlers make to what they hold keep it a request.
LEMMA RequestChange ==
  ASSUME NEW q \in Request
  PROVE  /\ \A p \in Path, h \in Hash, b \in Blob :
              [q EXCEPT !.pc = "store", !.path = p, !.hash = h, !.blob = b]
                \in Request
         /\ \A f \in FileId, v \in 0..MaxVersion :
              [q EXCEPT !.pc = "rb_target", !.file = f, !.cur = v] \in Request
         /\ \A h \in Hash, b \in Blob :
              [q EXCEPT !.pc = "rb_update", !.hash = h, !.blob = b] \in Request
         /\ \A f \in FileId : [q EXCEPT !.pc = "restore", !.file = f] \in Request
         /\ \A s \in SUBSET FileId :
              [q EXCEPT !.pc = "purge_versions", !.todo = s] \in Request
         /\ \A f \in FileId :
              [q EXCEPT !.pc = "purge_file", !.file = f] \in Request
  BY DEF Request, PC

\* The UPDATE of an upload or a rollback writes a record of files.
LEMMA NewHeadType ==
  ASSUME NEW f \in FileId, files[f] \in FileRecord,
         NEW v \in 0..MaxVersion, NEW h \in Hash
  PROVE  NewHead(f, v, h) \in FileRecord
  BY DEF NewHead, FileRecord, Status

\* Every step keeps the types.
LEMMA TypeStep ==
  ASSUME TypeOK, RequestShape, Next
  PROVE  TypeOK'
  <1> USE BoundsAssumption DEF TypeOK, RequestShape, dbvars, ghosts, At
  <1>0. ASSUME NEW r \in Requests, Finish(r) PROVE req' \in [Requests -> Request]
    BY <1>0, IdleType DEF Finish
  <1>1. ASSUME NEW r \in Requests, UploadStep(r) PROVE TypeOK'
    <2>1. ASSUME NEW p \in Path, NEW d \in Payload, UploadStart(r, p, d)
          PROVE  TypeOK'
      <3>1. d.hash \in Hash /\ d.blob \in Blob
        BY PayloadAssumption
      <3>2. [Idle EXCEPT !.pc = "store", !.path = p, !.hash = d.hash,
                         !.blob = d.blob] \in Request
        BY <3>1, IdleType, RequestChange
      <3> QED
        BY <2>1, <3>2 DEF UploadStart
    <2>2. ASSUME NEW f \in FileId, UpsertNew(r, f) PROVE TypeOK'
      BY <1>0, <2>2 DEF UpsertNew, FirstVersion, NewRow, Row, Request, FileRecord, Status
    <2>3. CASE UpsertSame(r)
      BY <1>0, <2>3 DEF UpsertSame, Named, Request, FileRecord, Status
    <2>4. CASE UpsertChanged(r)
      <3>1. PICK f \in Named(req[r].path) :
              /\ files[f].cur < MaxVersion
              /\ files' = [files EXCEPT ![f] = NewHead(f, NextVersion(f), req[r].hash)]
              /\ rows' = rows \cup {NewRow(f, NextVersion(f), req[r].hash, req[r].blob)}
              /\ headless' = headless \ {f}
              /\ fixed' = fixed \ {f}
        BY <2>4 DEF UpsertChanged
      <3>2. /\ f \in FileId
            /\ NextVersion(f) \in 1..MaxVersion
            /\ req[r].hash \in Hash /\ req[r].blob \in Blob
        BY <2>4, <3>1 DEF UpsertChanged, Named, NextVersion, FileRecord
      <3>3. NewHead(f, NextVersion(f), req[r].hash) \in FileRecord
        BY <3>2, NewHeadType
      <3>4. NewRow(f, NextVersion(f), req[r].hash, req[r].blob) \in Row
        BY <3>2 DEF NewRow, Row
      <3> QED
        BY <1>0, <2>4, <3>1, <3>2, <3>3, <3>4 DEF UpsertChanged
    <2>5. CASE UpsertRejected(r)
      BY <1>0, <2>5 DEF UpsertRejected
    <2> QED
      BY <1>1, <2>1, <2>2, <2>3, <2>4, <2>5 DEF UploadStep
  <1>2. ASSUME NEW r \in Requests, RollbackStep(r) PROVE TypeOK'
    <2>1. ASSUME NEW f \in FileId, RollbackStart(r, f) PROVE TypeOK'
      <3>1. [Idle EXCEPT !.pc = "rb_target", !.file = f, !.cur = files[f].cur]
              \in Request
        BY IdleType, RequestChange DEF FileRecord
      <3> QED
        BY <2>1, <3>1 DEF RollbackStart
    <2>2. CASE RollbackTarget(r)
      <3>1. PICK x \in RowsOf(req[r].file) :
              req' = [req EXCEPT ![r] = [@ EXCEPT !.pc = "rb_update",
                                          !.hash = x.hash, !.blob = x.blob]]
        BY <2>2 DEF RollbackTarget
      <3>2. x.hash \in Hash /\ x.blob \in Blob
        BY DEF RowsOf, Row
      <3>3. [req[r] EXCEPT !.pc = "rb_update", !.hash = x.hash, !.blob = x.blob]
              \in Request
        BY <3>2, RequestChange
      <3> QED
        BY <2>2, <3>1, <3>3 DEF RollbackTarget
    <2>3. CASE RollbackUpdate(r)
      <3>1. req[r].file \in FileId /\ req[r].hash \in Hash
            /\ req[r].cur + 1 \in 0..MaxVersion
        BY <2>3 DEF RollbackUpdate, Drawn, Request
      <3>2. NewHead(req[r].file, req[r].cur + 1, req[r].hash) \in FileRecord
        BY <3>1, NewHeadType
      <3>3. req' \in [Requests -> Request]
        BY <2>3 DEF RollbackUpdate, Request, PC
      <3> QED
        BY <2>3, <3>1, <3>2, <3>3 DEF RollbackUpdate
    <2>4. CASE RollbackInsert(r)
      <3> DEFINE f == req[r].file
                 v == req[r].cur + 1
      <3>1. NewRow(f, v, req[r].hash, req[r].blob) \in Row
        BY <2>4 DEF RollbackInsert, NewRow, Row, Request, Drawn
      <3>2. rows' \subseteq Row /\ headless' \subseteq FileId
        BY <2>4, <3>1 DEF RollbackInsert
      <3> QED
        BY <1>0, <2>4, <3>2 DEF RollbackInsert
    <2> QED
      BY <1>2, <2>1, <2>2, <2>3, <2>4 DEF RollbackStep
  <1>3. ASSUME NEW r \in Requests, ArchiveStep(r) PROVE TypeOK'
    <2>1. ASSUME NEW f \in FileId, RestoreStart(r, f) PROVE TypeOK'
      <3>1. [Idle EXCEPT !.pc = "restore", !.file = f] \in Request
        BY IdleType, RequestChange
      <3> QED
        BY <2>1, <3>1 DEF RestoreStart
    <2>2. ASSUME NEW chosen \in SUBSET FileId, Purge(r, chosen) PROVE TypeOK'
      <3>1. [Idle EXCEPT !.pc = "purge_versions", !.todo = chosen] \in Request
        BY IdleType, RequestChange
      <3> QED
        BY <2>2, <3>1 DEF Purge
    <2>3. CASE RestoreUpdate(r)
      BY <1>0, <2>3 DEF RestoreUpdate, Restored, FileRecord, Status, Drawn
    <2>4. CASE PurgeVersions(r)
      <3>1. PICK f \in req[r].todo :
              /\ rows' = rows \ RowsOf(f)
              /\ req' = [req EXCEPT ![r] = [@ EXCEPT !.pc = "purge_file", !.file = f]]
        BY <2>4 DEF PurgeVersions
      <3>2. f \in FileId
        BY DEF Request
      <3>3. [req[r] EXCEPT !.pc = "purge_file", !.file = f] \in Request
        BY <3>2, RequestChange
      <3> QED
        BY <2>4, <3>1, <3>3 DEF PurgeVersions
    <2>5. CASE PurgeFile(r)
      <3>1. [Idle EXCEPT !.pc = "purge_versions",
                         !.todo = req[r].todo \ {req[r].file}] \in Request
        <4>1. req[r].todo \ {req[r].file} \in SUBSET FileId
          BY DEF Request
        <4> QED
          BY <4>1, IdleType, RequestChange
      <3> QED
        BY <2>5, <3>1, IdleType DEF PurgeFile, Cascade, RowsOf, FileRecord, Status
    <2> QED
      BY <1>3, <2>1, <2>2, <2>3, <2>4, <2>5
         DEF ArchiveStep, DeletePermanentStart, WipeStart, Archived
  <1>4. ASSUME NEW f \in FileId, Archive(f) PROVE TypeOK'
    BY <1>4 DEF Archive, FileRecord, Status
  <1>5. ASSUME NEW f \in FileId, NEW h \in Hash, FixHash(f, h) PROVE TypeOK'
    BY <1>5 DEF FixHash, FileRecord
  <1>6. CASE RestoreAll
    BY <1>6 DEF RestoreAll, FileRecord, Status
  <1>7. CASE PruneStep
    <2>1. ASSUME NEW l \in Limits, PruneStart(l) PROVE TypeOK'
      BY <2>1, LimitsAssumption DEF PruneStart, FileRecord
    <2>2. CASE PruneScan
      BY <2>2 DEF PruneScan, Doomed, RowsOf
    <2>3. CASE PruneDelete
      BY <2>3 DEF PruneDelete
    <2>4. CASE PruneEnd \/ PruneAbort
      BY <2>4 DEF PruneEnd, PruneAbort, NoPrune
    <2> QED
      BY <1>7, <2>1, <2>2, <2>3, <2>4 DEF PruneStep
  <1>8. CASE Tick
    BY <1>8 DEF Tick
  <1>9. ASSUME NEW r \in Requests, StoreBlob(r) PROVE TypeOK'
    BY <1>9 DEF StoreBlob, Request, PC
  <1>10. ASSUME NEW r \in Requests, Abort(r) PROVE TypeOK'
    BY <1>0, <1>10 DEF Abort
  <1> QED
    BY <1>1, <1>2, <1>3, <1>4, <1>5, <1>6, <1>7, <1>8, <1>9, <1>10
       DEF Next, TableStep

-----------------------------------------------------------------------------
(* Uploads keep the invariant.                                              *)

\* An upload takes its path, hash and blob from what the client sent.
LEMMA UploadStartShape ==
  ASSUME IndInv, NEW r \in Requests, NEW p \in Path, NEW d \in Payload,
         UploadStart(r, p, d)
  PROVE  RequestShape'
  <1>1. d.hash \in Hash /\ d.blob \in Blob
    BY PayloadAssumption
  <1> QED
    BY <1>1 DEF IndInv, TypeOK, Request, RollbackInv, RequestShape, UploadStart,
                Idle, Drawn, At, dbvars

\* A new file has its first version; the other files keep theirs.
LEMMA UpsertNewCurrentRow ==
  ASSUME IndInv, NEW r \in Requests, NEW f \in FileId, UpsertNew(r, f)
  PROVE  CurrentRowPresent'
  <1> USE BoundsAssumption DEF ghosts, At, TypeOK, FileRecord, Row, Request, Status
  <1>0. TypeOK /\ TableInv /\ RollbackInv
    BY DEF IndInv
  <1>1. CurrentRows(f)' # {}
    <2>1. NewRow(f, FirstVersion, req[r].hash, req[r].blob) \in CurrentRows(f)'
      BY <1>0 DEF CurrentRows, RowsOf, UpsertNew, NewRow, FirstVersion
    <2> QED
      BY <2>1
  <1>2. ASSUME NEW g \in FileId, g # f
        PROVE  /\ CurrentRows(g)' = CurrentRows(g)
               /\ Existing(g)' <=> Existing(g)
               /\ files'[g] = files[g]
    BY <1>0, <1>2 DEF CurrentRows, RowsOf, UpsertNew, NewRow, Existing
  <1>3. ASSUME NEW g \in FileId, g # f, NEW s \in Requests, InWindow(s, g)
        PROVE  s = r \/ InWindow(s, g)'
    BY <1>0, <1>2, <1>3 DEF InWindow, UpsertNew, Finish
  <1>4. ASSUME NEW g \in FileId PROVE ~InWindow(r, g)
    BY DEF InWindow, UpsertNew
  <1> QED
    BY <1>0, <1>1, <1>2, <1>3, <1>4 DEF CurrentRowPresent, TableInv, UpsertNew

\* The transaction of an upload moves the number and inserts its row.
LEMMA UpsertChangedCurrentRow ==
  ASSUME IndInv, NEW r \in Requests, UpsertChanged(r)
  PROVE  CurrentRowPresent'
  <1> USE DEF At, TypeOK, FileRecord
  <1>0. TypeOK /\ TableInv /\ RollbackInv
    BY DEF IndInv
  <1>1. PICK f \in Named(req[r].path) :
          /\ files' = [files EXCEPT ![f] = NewHead(f, NextVersion(f), req[r].hash)]
          /\ rows' = rows \cup {NewRow(f, NextVersion(f), req[r].hash, req[r].blob)}
          /\ headless' = headless \ {f}
    BY DEF UpsertChanged
  <1>2. f \in FileId
    BY DEF Named
  <1>3. files'[f].cur = NextVersion(f)
    BY <1>0, <1>1, <1>2 DEF NewHead
  <1>4. CurrentRows(f)' # {}
    <2>1. NewRow(f, NextVersion(f), req[r].hash, req[r].blob) \in CurrentRows(f)'
      BY <1>1, <1>3 DEF CurrentRows, RowsOf, NewRow
    <2> QED
      BY <2>1
  <1>5. ASSUME NEW g \in FileId, g # f
        PROVE  /\ CurrentRows(g)' = CurrentRows(g)
               /\ Existing(g)' <=> Existing(g)
               /\ files'[g] = files[g]
    BY <1>0, <1>1, <1>2, <1>5 DEF CurrentRows, RowsOf, NewRow, Existing
  <1>6. ASSUME NEW g \in FileId, g # f, NEW s \in Requests, InWindow(s, g)
        PROVE  InWindow(s, g)'
    BY <1>0, <1>5, <1>6 DEF InWindow, UpsertChanged, Finish
  <1> QED
    BY <1>0, <1>1, <1>2, <1>4, <1>5, <1>6
       DEF CurrentRowPresent, TableInv, UpsertChanged

\* No step of an upload breaks the invariant.
LEMMA UploadKeeps ==
  ASSUME IndInv, TypeOK', NEW r \in Requests, UploadStep(r)
  PROVE  TableInv' /\ RollbackInv' /\ PruneInv'
  <1>0. TypeOK /\ TableInv /\ RollbackInv /\ PruneInv
    BY DEF IndInv
  <1>1. ASSUME NEW p \in Path, NEW d \in Payload, UploadStart(r, p, d)
        PROVE  TableInv' /\ RollbackInv' /\ PruneInv'
    <2>1. TableInv'
      BY <1>0, <1>1
         DEF RowsHaveFile, Existing, KeysUnique, CurrentIsNewest,
             CurrentRowPresent, CurrentRows, RowsOf, InWindow,
             HashMatchesCurrent, UploadStart, dbvars, ghosts, At, TableInv
    <2>2. RollbackInv'
      <3>1. /\ RollbackReadInv'
             /\ RollbackHashInv'
             /\ RollbackClaimsDiffer'
             /\ RollbackWillInsert'
        BY <1>0, <1>1
           DEF RollbackReadInv, Sound, Existing, RollbackHashInv,
               RollbackClaimsDiffer, RollbackWillInsert, KeyFree, UploadStart,
               dbvars, ghosts, At, RollbackInv
      <3>2. RequestShape'
        BY <1>1, UploadStartShape
      <3> QED
        BY <3>1, <3>2 DEF RollbackInv
    <2>3. PruneInv'
      BY <1>0, <1>1
         DEF PruneListInv, Sound, Existing, RowsOf, Drawn, PruneDoomedInv,
             UploadStart, dbvars, ghosts, PruneInv
    <2> QED
      BY <2>1, <2>2, <2>3
  <1>2. ASSUME NEW f \in FileId, UpsertNew(r, f)
        PROVE  TableInv' /\ RollbackInv' /\ PruneInv'
    <2>1. TableInv'
      <3>1. /\ RowsHaveFile'
             /\ KeysUnique'
             /\ CurrentIsNewest'
             /\ HashMatchesCurrent'
        BY <1>0, <1>2
           DEF RowsHaveFile, Existing, KeysUnique, CurrentIsNewest,
               HashMatchesCurrent, CurrentRows, RowsOf, UpsertNew,
               FirstVersion, NewRow, ghosts, TypeOK, TableInv
      <3>2. CurrentRowPresent'
        BY <1>2, UpsertNewCurrentRow
      <3> QED
        BY <3>1, <3>2 DEF TableInv
    <2>2. RollbackInv'
      BY <1>0, <1>2
         DEF RequestShape, Drawn, Existing, RollbackReadInv, Sound,
             RollbackHashInv, RollbackClaimsDiffer, RollbackWillInsert,
             KeyFree, UpsertNew, NewRow, Finish, ghosts, At, Idle, RollbackInv
    <2>3. PruneInv'
      BY <1>0, <1>2
         DEF PruneListInv, Sound, Existing, RowsOf, Drawn, PruneDoomedInv,
             UpsertNew, NewRow, ghosts, PruneInv
    <2> QED
      BY <2>1, <2>2, <2>3
  <1>3. ASSUME UpsertSame(r)
        PROVE  TableInv' /\ RollbackInv' /\ PruneInv'
    <2>1. TableInv'
      BY <1>0, <1>3
         DEF RowsHaveFile, Existing, KeysUnique, CurrentIsNewest,
             CurrentRowPresent, CurrentRows, RowsOf, InWindow,
             HashMatchesCurrent, UpsertSame, Named, Finish, ghosts, At,
             TableInv
    <2>2. RollbackInv'
      BY <1>0, <1>3
         DEF RequestShape, Drawn, Existing, RollbackReadInv, Sound,
             RollbackHashInv, RollbackClaimsDiffer, RollbackWillInsert,
             KeyFree, UpsertSame, Named, Finish, ghosts, At, Idle, RollbackInv
    <2>3. PruneInv'
      BY <1>0, <1>3
         DEF PruneListInv, Sound, Existing, RowsOf, Drawn, PruneDoomedInv,
             UpsertSame, Named, ghosts, PruneInv
    <2> QED
      BY <2>1, <2>2, <2>3
  <1>4. ASSUME UpsertChanged(r)
        PROVE  TableInv' /\ RollbackInv' /\ PruneInv'
    <2>1. TableInv'
      <3>1. /\ RowsHaveFile'
             /\ KeysUnique'
             /\ CurrentIsNewest'
             /\ HashMatchesCurrent'
        BY <1>0, <1>4
           DEF RowsHaveFile, Existing, KeysUnique, CurrentIsNewest,
               HashMatchesCurrent, CurrentRows, RowsOf, UpsertChanged,
               NextVersion, NewHead, NewRow, KeyFree, TypeOK, FileRecord, Row,
               TableInv
      <3>2. CurrentRowPresent'
        BY <1>4, UpsertChangedCurrentRow
      <3> QED
        BY <3>1, <3>2 DEF TableInv
    <2>2. RollbackInv'
      BY <1>0, <1>4
         DEF RequestShape, Drawn, Existing, RollbackReadInv, Sound,
             RollbackHashInv, RollbackClaimsDiffer, RollbackWillInsert,
             KeyFree, UpsertChanged, Named, NextVersion, NewHead, NewRow,
             Finish, At, TypeOK, FileRecord, Request, Idle, RollbackInv
    <2>3. PruneInv'
      BY <1>0, <1>4
         DEF PruneListInv, Sound, Existing, RowsOf, Drawn, PruneDoomedInv,
             UpsertChanged, Named, NextVersion, NewHead, NewRow, TypeOK,
             FileRecord, Row, PruneInv
    <2> QED
      BY <2>1, <2>2, <2>3
  <1>5. ASSUME UpsertRejected(r)
        PROVE  TableInv' /\ RollbackInv' /\ PruneInv'
    <2>1. TableInv'
      BY <1>0, <1>5
         DEF RowsHaveFile, Existing, KeysUnique, CurrentIsNewest,
             CurrentRowPresent, CurrentRows, RowsOf, InWindow,
             HashMatchesCurrent, UpsertRejected, Finish, dbvars, ghosts, At,
             TableInv
    <2>2. RollbackInv'
      BY <1>0, <1>5
         DEF RequestShape, Drawn, Existing, RollbackReadInv, Sound,
             RollbackHashInv, RollbackClaimsDiffer, RollbackWillInsert,
             KeyFree, UpsertRejected, Finish, dbvars, ghosts, At, Idle,
             RollbackInv
    <2>3. PruneInv'
      BY <1>0, <1>5
         DEF PruneListInv, Sound, Existing, RowsOf, Drawn, PruneDoomedInv,
             UpsertRejected, dbvars, ghosts, PruneInv
    <2> QED
      BY <2>1, <2>2, <2>3
  <1> QED
    BY <1>1, <1>2, <1>3, <1>4, <1>5 DEF UploadStep

-----------------------------------------------------------------------------
(* Rollbacks keep the invariant.                                            *)

\* The UPDATE of a rollback: the step that can take a number back.  Either the
\* number is the one it read, or the file is regressed from now on.
LEMMA RollbackUpdateKeeps ==
  ASSUME IndInv, NEW r \in Requests, RollbackUpdate(r)
  PROVE  TableInv' /\ RollbackInv' /\ PruneInv'
  <1> USE DEF At, TypeOK
  <1>0. TypeOK /\ TableInv /\ RollbackInv /\ PruneInv
    BY DEF IndInv
  <1>1. PICK f \in FileId : /\ req[r].file = f
                            /\ files[f].status # "unused"
                            /\ req[r].cur \in Nat
    BY <1>0, BoundsAssumption
       DEF RollbackUpdate, RollbackInv, RequestShape, Drawn, Request
  <1>2. /\ req'[r].pc = "rb_insert"
        /\ req'[r].file = f /\ req'[r].cur = req[r].cur
        /\ req'[r].hash = req[r].hash /\ req'[r].blob = req[r].blob
        /\ req'[r].todo = req[r].todo
        /\ \A s \in Requests \ {r} : req'[s] = req[s]
    BY <1>0, <1>1 DEF RollbackUpdate, Request
  <1>3. /\ \A g \in FileId \ {f} : files'[g] = files[g]
        /\ \A g \in FileId : /\ Existing(g)' <=> Existing(g)
                             /\ Drawn(g)' <=> Drawn(g)
        /\ Existing(f) => /\ files'[f].cur = req[r].cur + 1
                          /\ files'[f].hash = req[r].hash
        /\ regressed \subseteq regressed'
        /\ ~Existing(f) => files' = files
        /\ \A g \in FileId \ {f} : g \in fixed' <=> g \in fixed
    <2>1. CASE Existing(f)
      <3>1. files' = [files EXCEPT ![f] = NewHead(f, req[r].cur + 1, req[r].hash)]
        BY <1>1, <2>1 DEF RollbackUpdate
      <3>2. /\ files'[f].status = "active"
            /\ files'[f].cur = req[r].cur + 1
            /\ files'[f].hash = req[r].hash
        BY <1>0, <1>1, <3>1 DEF NewHead, FileRecord
      <3> QED
        BY <1>0, <1>1, <2>1, <3>1, <3>2 DEF RollbackUpdate, Existing, Drawn
    <2>2. CASE ~Existing(f)
      BY <1>1, <2>2 DEF RollbackUpdate, Existing, Drawn
    <2> QED
      BY <2>1, <2>2
  <1>4. Sound(f)' => Sound(f) /\ files[f].cur = req[r].cur
    BY <1>1, <1>3 DEF RollbackUpdate, Sound
  <1>5. \A g \in FileId \ {f} : Sound(g)' <=> Sound(g)
    BY <1>1, <1>3 DEF RollbackUpdate, Sound
  <1>6. /\ rows' = rows /\ prune' = prune /\ epoch' = epoch /\ headless' = headless
        /\ files \in [FileId -> FileRecord]
        /\ \A x \in rows : x.file \in FileId /\ x.version \in Nat
        /\ \A g \in FileId : files[g].cur \in Nat
    BY <1>0, BoundsAssumption DEF RollbackUpdate, FileRecord, Row
  <1>7. RowsHaveFile' /\ KeysUnique'
    BY <1>0, <1>3, <1>6 DEF TableInv, RowsHaveFile, KeysUnique
  <1>8. CurrentIsNewest'
    BY <1>0, <1>3, <1>4, <1>6, <1>7 DEF TableInv, CurrentIsNewest, Sound, RowsHaveFile
  <1>9. CurrentRowPresent'
    <2>1. ASSUME Existing(f) PROVE InWindow(r, f)'
      BY <1>2, <1>3, <2>1 DEF InWindow
    <2>2. ASSUME NEW g \in FileId \ {f}
          PROVE  /\ CurrentRows(g)' = CurrentRows(g)
                 /\ \A s \in Requests : InWindow(s, g)' <=> InWindow(s, g)
      BY <1>1, <1>2, <1>3, <1>6, <2>2 DEF InWindow, CurrentRows, RowsOf
    <2> QED
      BY <1>0, <1>3, <1>6, <2>1, <2>2 DEF TableInv, CurrentRowPresent
  <1>10. HashMatchesCurrent'
    BY <1>0, <1>3, <1>4, <1>6, <1>7
       DEF TableInv, HashMatchesCurrent, CurrentIsNewest, CurrentRows, RowsOf,
           Sound, RowsHaveFile
  <1>11. RequestShape'
    BY <1>0, <1>2, <1>3 DEF RollbackUpdate, RollbackInv, RequestShape, Drawn
  <1>12. RollbackReadInv'
    BY <1>0, <1>1, <1>2, <1>3, <1>4, <1>5, <1>6, BoundsAssumption
       DEF RollbackInv, RequestShape, RollbackReadInv, Request, Sound, Drawn
  <1>13. RollbackHashInv'
    BY <1>0, <1>1, <1>2, <1>3, <1>4, <1>5, <1>6, BoundsAssumption
       DEF RollbackInv, RequestShape, RollbackReadInv, RollbackHashInv, Request,
           Sound, Drawn
  <1>14. RollbackClaimsDiffer'
    BY <1>0, <1>1, <1>2, <1>3, <1>4, <1>5, <1>6, BoundsAssumption
       DEF RollbackInv, RequestShape, RollbackReadInv, RollbackClaimsDiffer,
           Request, Sound, Drawn
  <1>15. RollbackWillInsert'
    BY <1>0, <1>1, <1>2, <1>3, <1>4, <1>5, <1>6, BoundsAssumption
       DEF RollbackInv, RequestShape, RollbackWillInsert, Request, Sound, Drawn,
           KeyFree, TableInv, CurrentIsNewest
  <1>16. PruneListInv'
    BY <1>0, <1>1, <1>3, <1>4, <1>5, <1>6
       DEF PruneInv, PruneListInv, Sound, Drawn, RowsOf
  <1>17. PruneDoomedInv'
    BY <1>0, <1>1, <1>3, <1>4, <1>5, <1>6
       DEF PruneInv, PruneDoomedInv, Sound, Drawn, Row
  <1> QED
    BY <1>7, <1>8, <1>9, <1>10, <1>11, <1>12, <1>13, <1>14, <1>15, <1>16, <1>17
       DEF TableInv, RollbackInv, PruneInv

\* The INSERT of a rollback closes the window in which its file has no head; if
\* another request has taken the number, the file was regressed already.
LEMMA RollbackInsertCurrentRow ==
  ASSUME IndInv, NEW r \in Requests, RollbackInsert(r)
  PROVE  CurrentRowPresent'
  <1> USE DEF At
  <1>0. TypeOK /\ TableInv /\ RollbackInv
    BY DEF IndInv
  <1>1. PICK f \in FileId : req[r].file = f
    BY <1>0 DEF RollbackInsert, RollbackInv, RequestShape, Drawn
  <1>2. /\ files' = files /\ regressed' = regressed
        /\ \A s \in Requests \ {r} : req'[s] = req[s]
    BY <1>0 DEF TypeOK, RollbackInsert, Finish
  <1>3. /\ \A g \in FileId : CurrentRows(g) \subseteq CurrentRows(g)'
        /\ headless' \subseteq headless
        /\ \A g \in FileId \ {f} : g \in headless' <=> g \in headless
    BY <1>1 DEF RollbackInsert, CurrentRows, RowsOf
  <1>4. ASSUME NEW g \in FileId, Existing(g), g \notin regressed \cup headless',
               \A s \in Requests : ~InWindow(s, g)'
        PROVE  CurrentRows(g)' # {}
    <2>1. CASE Insertable(f, req[r].cur + 1) /\ g = f /\ files[f].cur = req[r].cur + 1
      <3>1. NewRow(f, files[f].cur, req[r].hash, req[r].blob) \in CurrentRows(f)'
        BY <1>1, <1>2, <2>1 DEF RollbackInsert, CurrentRows, RowsOf, NewRow
      <3> QED
        BY <2>1, <3>1
    <2>2. CASE ~(g = f /\ files[f].cur = req[r].cur + 1)
      <3>1. \A s \in Requests : ~InWindow(s, g)
        BY <1>1, <1>2, <1>4, <2>2 DEF InWindow, RollbackInsert
      <3>2. g \notin headless
        BY <1>1, <1>2, <1>3, <1>4, <2>2 DEF RollbackInsert
      <3> QED
        BY <1>0, <1>3, <1>4, <3>1, <3>2 DEF TableInv, CurrentRowPresent
    <2>3. CASE ~Insertable(f, req[r].cur + 1) /\ g = f
      BY <1>0, <1>1, <1>4, <2>3
         DEF RollbackInv, RollbackWillInsert, RollbackInsert, Insertable
    <2> QED
      BY <2>1, <2>2, <2>3
  <1> QED
    BY <1>2, <1>4 DEF CurrentRowPresent, Existing

\* The other rollbacks in flight keep their claims: a row with the number of
\* this one cannot have theirs.
LEMMA RollbackInsertRollback ==
  ASSUME IndInv, NEW r \in Requests, RollbackInsert(r)
  PROVE  RollbackInv'
  <1> USE DEF At
  <1>0. TypeOK /\ RollbackInv
    BY DEF IndInv
  <1>1. /\ req[r].pc = "rb_insert" /\ req'[r] = Idle
        /\ \A s \in Requests \ {r} : req'[s] = req[s]
        /\ files' = files /\ regressed' = regressed /\ fixed' = fixed
        /\ rows' = rows \/ rows' = rows \cup {NewRow(req[r].file, req[r].cur + 1,
                                                 req[r].hash, req[r].blob)}
    BY <1>0 DEF TypeOK, RollbackInsert, Finish
  <1>2. RequestShape' /\ RollbackReadInv' /\ RollbackHashInv'
    BY <1>0, <1>1 DEF RollbackInv, RequestShape, RollbackReadInv,
                      RollbackHashInv, Sound, Existing, Drawn, Idle
  <1>3. RollbackClaimsDiffer'
    BY <1>0, <1>1 DEF RollbackInv, RollbackClaimsDiffer, Sound, Existing, Idle
  <1>4. RollbackWillInsert'
    <2> SUFFICES ASSUME NEW s \in Requests, At(s, "rb_insert")',
                        Existing(req[s].file), req[s].file \notin regressed
                 PROVE  KeyFree(req[s].file, req[s].cur + 1)'
      BY <1>1 DEF RollbackWillInsert, Existing, Idle
    <2>1. s # r /\ req'[s] = req[s]
      BY <1>1 DEF Idle
    <2>2. KeyFree(req[s].file, req[s].cur + 1)
      BY <1>0, <2>1 DEF RollbackInv, RollbackWillInsert
    <2>3. req[r].file # req[s].file \/ req[r].cur # req[s].cur
      BY <1>0, <1>1, <2>1 DEF RollbackInv, RollbackClaimsDiffer, Sound
    <2>4. req[r].cur \in Int /\ req[s].cur \in Int
      BY <1>0, BoundsAssumption DEF TypeOK, Request
    <2> QED
      BY <1>1, <2>1, <2>2, <2>3, <2>4 DEF KeyFree, NewRow
  <1> QED
    BY <1>2, <1>3, <1>4 DEF RollbackInv

\* No step of a rollback breaks the invariant.
LEMMA RollbackKeeps ==
  ASSUME IndInv, TypeOK', NEW r \in Requests, RollbackStep(r)
  PROVE  TableInv' /\ RollbackInv' /\ PruneInv'
  <1>0. TypeOK /\ TableInv /\ RollbackInv /\ PruneInv
    BY DEF IndInv
  <1>1. ASSUME NEW f \in FileId, RollbackStart(r, f)
        PROVE  TableInv' /\ RollbackInv' /\ PruneInv'
    <2>1. TableInv'
      BY <1>0, <1>1
         DEF RowsHaveFile, Existing, KeysUnique, CurrentIsNewest,
             CurrentRowPresent, CurrentRows, RowsOf, InWindow,
             HashMatchesCurrent, RollbackStart, dbvars, ghosts, At, TableInv
    <2>2. RollbackInv'
      BY <1>0, <1>1
         DEF RequestShape, Drawn, Existing, RollbackReadInv, Sound,
             RollbackHashInv, RollbackClaimsDiffer, RollbackWillInsert,
             KeyFree, RollbackStart, dbvars, ghosts, At, TypeOK, FileRecord,
             Idle, RollbackInv
    <2>3. PruneInv'
      BY <1>0, <1>1
         DEF PruneListInv, Sound, Existing, RowsOf, Drawn, PruneDoomedInv,
             RollbackStart, dbvars, ghosts, PruneInv
    <2> QED
      BY <2>1, <2>2, <2>3
  <1>2. ASSUME RollbackTarget(r)
        PROVE  TableInv' /\ RollbackInv' /\ PruneInv'
    <2>1. TableInv'
      BY <1>0, <1>2
         DEF RowsHaveFile, Existing, KeysUnique, CurrentIsNewest,
             CurrentRowPresent, CurrentRows, RowsOf, InWindow,
             HashMatchesCurrent, RollbackTarget, dbvars, ghosts, At, TypeOK,
             TableInv
    <2>2. RollbackInv'
      BY <1>0, <1>2
         DEF RequestShape, Drawn, Existing, RowsOf, RollbackReadInv, Sound,
             RollbackHashInv, RollbackClaimsDiffer, RollbackWillInsert,
             KeyFree, RollbackTarget, dbvars, ghosts, At, TypeOK, Row,
             RollbackInv
    <2>3. PruneInv'
      BY <1>0, <1>2
         DEF PruneListInv, Sound, Existing, RowsOf, Drawn, PruneDoomedInv,
             RollbackTarget, dbvars, ghosts, PruneInv
    <2> QED
      BY <2>1, <2>2, <2>3
  <1>3. ASSUME RollbackUpdate(r)
        PROVE  TableInv' /\ RollbackInv' /\ PruneInv'
    BY <1>3, RollbackUpdateKeeps
  <1>4. ASSUME RollbackInsert(r)
        PROVE  TableInv' /\ RollbackInv' /\ PruneInv'
    <2>1. TableInv'
      <3>1. /\ RowsHaveFile'
             /\ KeysUnique'
             /\ CurrentIsNewest'
             /\ HashMatchesCurrent'
        BY <1>0, <1>4
           DEF RowsHaveFile, Existing, KeysUnique, CurrentIsNewest,
               RollbackReadInv, Sound, HashMatchesCurrent, CurrentRows, RowsOf,
               RollbackHashInv, RollbackInsert, Insertable, NewRow, KeyFree,
               TypeOK, FileRecord, Row, Request, TableInv, RollbackInv
      <3>2. CurrentRowPresent'
        BY <1>4, RollbackInsertCurrentRow
      <3> QED
        BY <3>1, <3>2 DEF TableInv
    <2>2. RollbackInv'
      BY <1>4, RollbackInsertRollback
    <2>3. PruneInv'
      BY <1>0, <1>4
         DEF PruneListInv, Sound, Existing, RowsOf, Drawn, PruneDoomedInv,
             RollbackInsert, NewRow, PruneInv
    <2> QED
      BY <2>1, <2>2, <2>3
  <1> QED
    BY <1>1, <1>2, <1>3, <1>4 DEF RollbackStep

-----------------------------------------------------------------------------
(* The archive keeps the invariant.                                         *)

\* A restore leaves numbers and hashes alone, and brings no purged file back.
LEMMA RestoreUpdateKeeps ==
  ASSUME IndInv, NEW r \in Requests, RestoreUpdate(r)
  PROVE  TableInv' /\ RollbackInv' /\ PruneInv'
  <1> USE DEF At
  <1>0. TypeOK /\ TableInv /\ RollbackInv /\ PruneInv
    BY DEF IndInv
  <1>1. req[r].file \in FileId
    BY <1>0 DEF RestoreUpdate, RollbackInv, RequestShape, Drawn
  <1>2. \A g \in FileId : /\ files'[g].cur = files[g].cur
                          /\ files'[g].hash = files[g].hash
                          /\ Existing(g)' <=> Existing(g)
                          /\ Drawn(g)' <=> Drawn(g)
    BY <1>0, <1>1 DEF TypeOK, RestoreUpdate, Restored, Existing, Drawn, FileRecord
  <1>3. /\ \A s \in Requests \ {r} : req'[s] = req[s]
        /\ req[r].pc = "restore" /\ req'[r] = Idle
        /\ rows' = rows /\ prune' = prune /\ epoch' = epoch
        /\ regressed' = regressed /\ headless' = headless /\ fixed' = fixed
    BY <1>0 DEF TypeOK, RestoreUpdate, Finish, ghosts
  <1>4. TableInv'
    <2>1. \A x \in rows : x.file \in FileId
      BY <1>0 DEF TypeOK, Row
    <2>2. RowsHaveFile' /\ KeysUnique' /\ CurrentIsNewest'
      BY <1>0, <1>2, <1>3, <2>1
         DEF TableInv, RowsHaveFile, KeysUnique, CurrentIsNewest
    <2>3. \A g \in FileId : CurrentRows(g)' = CurrentRows(g)
      BY <1>2, <1>3 DEF CurrentRows, RowsOf
    <2>4. \A g \in FileId, s \in Requests : InWindow(s, g) => InWindow(s, g)'
      BY <1>2, <1>3 DEF InWindow
    <2>5. CurrentRowPresent'
      BY <1>0, <1>2, <1>3, <2>3, <2>4 DEF TableInv, CurrentRowPresent
    <2>6. HashMatchesCurrent'
      BY <1>0, <1>2, <1>3, <2>3 DEF TableInv, HashMatchesCurrent
    <2> QED
      BY <2>2, <2>5, <2>6 DEF TableInv
  <1>5. RollbackInv'
    BY <1>0, <1>1, <1>2, <1>3
       DEF RollbackInv, RequestShape, RollbackReadInv, RollbackHashInv,
           RollbackClaimsDiffer, RollbackWillInsert, Sound, Drawn, KeyFree, Idle
  <1>6. PruneInv'
    BY <1>0, <1>2, <1>3
       DEF PruneInv, PruneListInv, PruneDoomedInv, Sound, Drawn, RowsOf
  <1> QED
    BY <1>4, <1>5, <1>6

\* The first DELETE of a permanent deletion opens the window in which the file
\* has no versions; the other files keep theirs.
LEMMA PurgeVersionsTable ==
  ASSUME IndInv, NEW r \in Requests, PurgeVersions(r)
  PROVE  TableInv'
  <1> USE DEF At
  <1>0. TypeOK /\ TableInv
    BY DEF IndInv
  <1>1. PICK f \in req[r].todo :
          /\ rows' = rows \ RowsOf(f)
          /\ req' = [req EXCEPT ![r].pc = "purge_file", ![r].file = f]
    BY DEF PurgeVersions
  <1>2. /\ files' = files /\ UNCHANGED ghosts
        /\ req[r].pc = "purge_versions"
        /\ req'[r].pc = "purge_file" /\ req'[r].file = f
        /\ \A s \in Requests \ {r} : req'[s] = req[s]
    BY <1>0, <1>1 DEF TypeOK, Request, PurgeVersions
  <1>3. RowsHaveFile' /\ KeysUnique' /\ CurrentIsNewest'
    BY <1>0, <1>1, <1>2
       DEF TableInv, RowsHaveFile, KeysUnique, CurrentIsNewest, Existing, ghosts
  <1>4. \A g \in FileId \ {f} : CurrentRows(g)' = CurrentRows(g)
    BY <1>1, <1>2 DEF CurrentRows, RowsOf
  <1>5. /\ InWindow(r, f)'
        /\ \A g \in FileId, s \in Requests : InWindow(s, g) => InWindow(s, g)'
    BY <1>2 DEF InWindow
  <1>6. CurrentRowPresent'
    BY <1>0, <1>2, <1>4, <1>5 DEF TableInv, CurrentRowPresent, Existing, ghosts
  <1>7. HashMatchesCurrent'
    <2>1. \A g \in FileId : CurrentRows(g)' \subseteq CurrentRows(g)
      BY <1>1, <1>2 DEF CurrentRows, RowsOf
    <2> QED
      BY <1>0, <1>2, <2>1 DEF TableInv, HashMatchesCurrent, ghosts
  <1> QED
    BY <1>3, <1>6, <1>7 DEF TableInv

\* No step of a restore or a permanent deletion breaks the invariant.
LEMMA ArchiveKeeps ==
  ASSUME IndInv, TypeOK', NEW r \in Requests, ArchiveStep(r)
  PROVE  TableInv' /\ RollbackInv' /\ PruneInv'
  <1>0. TypeOK /\ TableInv /\ RollbackInv /\ PruneInv
    BY DEF IndInv
  <1>1. ASSUME NEW f \in FileId, RestoreStart(r, f)
        PROVE  TableInv' /\ RollbackInv' /\ PruneInv'
    <2>1. TableInv'
      BY <1>0, <1>1
         DEF RowsHaveFile, Existing, KeysUnique, CurrentIsNewest,
             CurrentRowPresent, CurrentRows, RowsOf, InWindow,
             HashMatchesCurrent, RestoreStart, dbvars, ghosts, At, TableInv
    <2>2. RollbackInv'
      BY <1>0, <1>1
         DEF RequestShape, Drawn, Existing, RollbackReadInv, Sound,
             RollbackHashInv, RollbackClaimsDiffer, RollbackWillInsert,
             KeyFree, RestoreStart, dbvars, ghosts, At, Idle, RollbackInv
    <2>3. PruneInv'
      BY <1>0, <1>1
         DEF PruneListInv, Sound, Existing, RowsOf, Drawn, PruneDoomedInv,
             RestoreStart, dbvars, ghosts, PruneInv
    <2> QED
      BY <2>1, <2>2, <2>3
  <1>2. ASSUME RestoreUpdate(r)
        PROVE  TableInv' /\ RollbackInv' /\ PruneInv'
    BY <1>2, RestoreUpdateKeeps
  <1>3. ASSUME NEW s \in SUBSET Archived, Purge(r, s)
        PROVE  TableInv' /\ RollbackInv' /\ PruneInv'
    <2>1. TableInv'
      BY <1>0, <1>3
         DEF RowsHaveFile, Existing, KeysUnique, CurrentIsNewest,
             CurrentRowPresent, CurrentRows, RowsOf, InWindow,
             HashMatchesCurrent, Purge, dbvars, ghosts, At, TableInv
    <2>2. RollbackInv'
      BY <1>0, <1>3
         DEF RequestShape, Drawn, Existing, RollbackReadInv, Sound,
             RollbackHashInv, RollbackClaimsDiffer, RollbackWillInsert,
             KeyFree, Purge, Archived, dbvars, ghosts, At, RollbackInv
    <2>3. PruneInv'
      BY <1>0, <1>3
         DEF PruneListInv, Sound, Existing, RowsOf, Drawn, PruneDoomedInv,
             Purge, dbvars, ghosts, PruneInv
    <2> QED
      BY <2>1, <2>2, <2>3
  <1>4. ASSUME PurgeVersions(r)
        PROVE  TableInv' /\ RollbackInv' /\ PruneInv'
    <2>1. TableInv'
      BY <1>4, PurgeVersionsTable
    <2>2. RollbackInv'
      BY <1>0, <1>4
         DEF RequestShape, Drawn, Existing, RollbackReadInv, Sound,
             RollbackHashInv, RollbackClaimsDiffer, RollbackWillInsert,
             KeyFree, PurgeVersions, ghosts, At, TypeOK, RollbackInv
    <2>3. PruneInv'
      BY <1>0, <1>4
         DEF PruneListInv, Sound, Existing, RowsOf, Drawn, PruneDoomedInv,
             PurgeVersions, ghosts, PruneInv
    <2> QED
      BY <2>1, <2>2, <2>3
  <1>5. ASSUME PurgeFile(r)
        PROVE  TableInv' /\ RollbackInv' /\ PruneInv'
    <2>1. TableInv'
      BY <1>0, <1>5
         DEF RowsHaveFile, Existing, KeysUnique, CurrentIsNewest,
             CurrentRowPresent, CurrentRows, RowsOf, InWindow,
             HashMatchesCurrent, PurgeFile, Cascade, ghosts, At, TypeOK,
             TableInv
    <2>2. RollbackInv'
      BY <1>0, <1>5
         DEF RequestShape, Drawn, Existing, RollbackReadInv, Sound,
             RollbackHashInv, RollbackClaimsDiffer, RollbackWillInsert,
             KeyFree, PurgeFile, Cascade, ghosts, At, Idle, RollbackInv
    <2>3. PruneInv'
      BY <1>0, <1>5
         DEF PruneListInv, Sound, Existing, RowsOf, Drawn, PruneDoomedInv,
             PurgeFile, Cascade, ghosts, PruneInv
    <2> QED
      BY <2>1, <2>2, <2>3
  <1> QED
    BY <1>1, <1>2, <1>3, <1>4, <1>5
       DEF ArchiveStep, DeletePermanentStart, WipeStart

\* Neither do the handlers of one statement, the clock, and a handler that
\* stores a blob or stops.
LEMMA OthersKeep ==
  ASSUME IndInv, TypeOK',
         \/ \E f \in FileId : Archive(f) \/ (\E h \in Hash : FixHash(f, h))
         \/ RestoreAll
         \/ Tick
         \/ \E r \in Requests : StoreBlob(r) \/ Abort(r)
  PROVE  TableInv' /\ RollbackInv' /\ PruneInv'
  <1>0. TypeOK /\ TableInv /\ RollbackInv /\ PruneInv
    BY DEF IndInv
  <1>1. ASSUME NEW f \in FileId, Archive(f)
        PROVE  TableInv' /\ RollbackInv' /\ PruneInv'
    <2>1. TableInv'
      BY <1>0, <1>1
         DEF RowsHaveFile, Existing, KeysUnique, CurrentIsNewest,
             CurrentRowPresent, CurrentRows, RowsOf, InWindow,
             HashMatchesCurrent, Archive, ghosts, At, TableInv
    <2>2. RollbackInv'
      BY <1>0, <1>1
         DEF RequestShape, Drawn, Existing, RollbackReadInv, Sound,
             RollbackHashInv, RollbackClaimsDiffer, RollbackWillInsert,
             KeyFree, Archive, ghosts, At, RollbackInv
    <2>3. PruneInv'
      BY <1>0, <1>1
         DEF PruneListInv, Sound, Existing, RowsOf, Drawn, PruneDoomedInv,
             Archive, ghosts, PruneInv
    <2> QED
      BY <2>1, <2>2, <2>3
  <1>2. ASSUME NEW f \in FileId, NEW h \in Hash, FixHash(f, h)
        PROVE  TableInv' /\ RollbackInv' /\ PruneInv'
    <2>1. TableInv'
      BY <1>0, <1>2
         DEF RowsHaveFile, Existing, KeysUnique, CurrentIsNewest,
             CurrentRowPresent, CurrentRows, RowsOf, InWindow,
             HashMatchesCurrent, FixHash, At, TableInv
    <2>2. RollbackInv'
      BY <1>0, <1>2
         DEF RequestShape, Drawn, Existing, RollbackReadInv, Sound,
             RollbackHashInv, RollbackClaimsDiffer, RollbackWillInsert,
             KeyFree, FixHash, At, RollbackInv
    <2>3. PruneInv'
      BY <1>0, <1>2 DEF PruneListInv, Sound, Existing, RowsOf, Drawn,
                        PruneDoomedInv, FixHash, PruneInv
    <2> QED
      BY <2>1, <2>2, <2>3
  <1>3. ASSUME RestoreAll
        PROVE  TableInv' /\ RollbackInv' /\ PruneInv'
    <2>1. TableInv'
      BY <1>0, <1>3
         DEF RowsHaveFile, Existing, KeysUnique, CurrentIsNewest,
             CurrentRowPresent, CurrentRows, RowsOf, InWindow,
             HashMatchesCurrent, RestoreAll, Archived, ghosts, At, TypeOK, Row,
             TableInv
    <2>2. RollbackInv'
      BY <1>0, <1>3
         DEF RequestShape, Drawn, Existing, RollbackReadInv, Sound,
             RollbackHashInv, RollbackClaimsDiffer, RollbackWillInsert,
             KeyFree, RestoreAll, Archived, ghosts, At, RollbackInv
    <2>3. PruneInv'
      BY <1>0, <1>3
         DEF PruneListInv, Sound, Existing, RowsOf, Drawn, PruneDoomedInv,
             RestoreAll, Archived, ghosts, PruneInv
    <2> QED
      BY <2>1, <2>2, <2>3
  <1>4. ASSUME Tick
        PROVE  TableInv' /\ RollbackInv' /\ PruneInv'
    <2>1. TableInv'
      BY <1>0, <1>4
         DEF RowsHaveFile, Existing, KeysUnique, CurrentIsNewest,
             CurrentRowPresent, CurrentRows, RowsOf, InWindow,
             HashMatchesCurrent, Tick, dbvars, ghosts, At, TableInv
    <2>2. RollbackInv'
      BY <1>0, <1>4
         DEF RequestShape, Drawn, RollbackReadInv, RollbackHashInv,
             RollbackClaimsDiffer, RollbackWillInsert, Tick, dbvars, At,
             RollbackInv
    <2>3. PruneInv'
      BY <1>0, <1>4
         DEF PruneListInv, Sound, Existing, RowsOf, Drawn, PruneDoomedInv,
             Tick, dbvars, ghosts, TypeOK, PruneInv
    <2> QED
      BY <2>1, <2>2, <2>3
  <1>5. ASSUME NEW r \in Requests, StoreBlob(r)
        PROVE  TableInv' /\ RollbackInv' /\ PruneInv'
    <2>1. TableInv'
      BY <1>0, <1>5, BoundsAssumption
         DEF RowsHaveFile, Existing, KeysUnique, CurrentIsNewest,
             CurrentRowPresent, CurrentRows, RowsOf, InWindow,
             HashMatchesCurrent, StoreBlob, dbvars, ghosts, At, TableInv
    <2>2. RollbackInv'
      BY <1>0, <1>5
         DEF RequestShape, Drawn, Existing, RollbackReadInv, Sound,
             RollbackHashInv, RollbackClaimsDiffer, RollbackWillInsert,
             KeyFree, StoreBlob, dbvars, ghosts, At, RollbackInv
    <2>3. PruneInv'
      BY <1>0, <1>5
         DEF PruneListInv, Sound, Existing, RowsOf, Drawn, PruneDoomedInv,
             StoreBlob, dbvars, ghosts, PruneInv
    <2> QED
      BY <2>1, <2>2, <2>3
  <1>6. ASSUME NEW r \in Requests, Abort(r)
        PROVE  TableInv' /\ RollbackInv' /\ PruneInv'
    <2>1. TableInv'
      BY <1>0, <1>6
         DEF RowsHaveFile, Existing, KeysUnique, CurrentIsNewest,
             CurrentRowPresent, CurrentRows, RowsOf, InWindow,
             HashMatchesCurrent, Abort, Finish, dbvars, At, TableInv
    <2>2. RollbackInv'
      BY <1>0, <1>6
         DEF RequestShape, Drawn, Existing, RollbackReadInv, Sound,
             RollbackHashInv, RollbackClaimsDiffer, RollbackWillInsert,
             KeyFree, Abort, Finish, dbvars, At, Idle, RollbackInv
    <2>3. PruneInv'
      BY <1>0, <1>6
         DEF PruneListInv, Sound, Existing, RowsOf, Drawn, PruneDoomedInv,
             Abort, dbvars, PruneInv
    <2> QED
      BY <2>1, <2>2, <2>3
  <1> QED
    BY <1>1, <1>2, <1>3, <1>4, <1>5, <1>6

-----------------------------------------------------------------------------
(* The pruning job keeps the invariant.                                     *)

\* The list of files may be old by now; but a row that has become the current
\* one meanwhile is the newest of its file and younger than the cutoff.
LEMMA PruneScanKeeps ==
  ASSUME IndInv, PruneScan
  PROVE  TableInv' /\ RollbackInv' /\ PruneInv'
  <1> USE DEF At, TypeOK, ghosts, dbvars
  <1>0. TypeOK /\ TableInv /\ RollbackInv /\ PruneInv
    BY DEF IndInv
  <1>1. PICK t \in prune.todo :
          prune' = [prune EXCEPT !.todo = @ \ {t}, !.doomed = Doomed(t)]
    BY DEF PruneScan
  <1>2. /\ files' = files /\ rows' = rows /\ req' = req /\ epoch' = epoch
        /\ regressed' = regressed /\ headless' = headless /\ fixed' = fixed
    BY DEF PruneScan
  <1>3. /\ prune'.todo \subseteq prune.todo
        /\ prune'.cutoff = prune.cutoff
        /\ prune'.doomed = Doomed(t)
    BY <1>0, <1>1
  <1>4. TableInv'
    BY <1>0, <1>2 DEF TableInv, RowsHaveFile, KeysUnique, CurrentIsNewest,
       CurrentRowPresent, HashMatchesCurrent, Existing, CurrentRows, RowsOf, InWindow
  <1>5. RollbackInv'
    BY <1>0, <1>2 DEF RollbackInv, RequestShape, RollbackReadInv, RollbackHashInv,
       RollbackClaimsDiffer, RollbackWillInsert, Sound, Existing, Drawn, KeyFree
  <1>6. PruneListInv'
    BY <1>0, <1>2, <1>3 DEF PruneInv, PruneListInv, Sound, Existing, Drawn, RowsOf
  <1>7. ASSUME NEW x \in Doomed(t), Sound(x.file)
        PROVE  x.version < files[x.file].cur
    <2>1. /\ x \in rows /\ x.file = t.file /\ x.version # t.cur
          /\ Rank(x) >= prune.keep \/ x.created < prune.cutoff
      BY DEF Doomed, RowsOf
    <2>2. /\ x.file \in FileId /\ x.version \in Nat /\ x.created \in Nat
          /\ t.cur \in Nat /\ prune.keep \in Nat \ {0} /\ prune.cutoff \in Nat
          /\ files[x.file].cur \in Nat
      BY <1>0, <2>1, BoundsAssumption DEF Row, FileRecord
    <2>3. x.version <= files[x.file].cur
      BY <1>0, <1>7, <2>1 DEF TableInv, CurrentIsNewest, Sound
    <2>4. ASSUME x.version = files[x.file].cur PROVE FALSE
      <3>1. x.created >= prune.cutoff
        BY <1>0, <1>7, <2>1, <2>2, <2>4 DEF PruneInv, PruneListInv, RowsOf
      <3>2. {y \in rows : y.file = x.file /\ y.version > x.version} = {}
        BY <1>0, <1>7, <2>1, <2>2, <2>4, BoundsAssumption
           DEF TableInv, CurrentIsNewest, Sound, Row
      <3>3. Rank(x) = 0
        BY <3>2, FS_EmptySet DEF Rank
      <3> QED
        BY <2>1, <2>2, <3>1, <3>3
    <2> QED
      BY <2>2, <2>3, <2>4
  <1>8. PruneDoomedInv'
    BY <1>0, <1>2, <1>3, <1>7
       DEF PruneInv, PruneListInv, PruneDoomedInv, Doomed, RowsOf, Drawn, Sound, Existing
  <1> QED
    BY <1>4, <1>5, <1>6, <1>8 DEF PruneInv

\* No step of the pruning job breaks the invariant.
LEMMA PruneKeeps ==
  ASSUME IndInv, TypeOK', PruneStep
  PROVE  TableInv' /\ RollbackInv' /\ PruneInv'
  <1>0. TypeOK /\ TableInv /\ RollbackInv /\ PruneInv
    BY DEF IndInv
  <1>1. ASSUME NEW l \in Limits, PruneStart(l)
        PROVE  TableInv' /\ RollbackInv' /\ PruneInv'
    <2>1. TableInv'
      BY <1>0, <1>1
         DEF RowsHaveFile, Existing, KeysUnique, CurrentIsNewest,
             CurrentRowPresent, CurrentRows, RowsOf, InWindow,
             HashMatchesCurrent, PruneStart, dbvars, ghosts, At, TableInv
    <2>2. RollbackInv'
      BY <1>0, <1>1
         DEF RequestShape, Drawn, Existing, RollbackReadInv, Sound,
             RollbackHashInv, RollbackClaimsDiffer, RollbackWillInsert,
             KeyFree, PruneStart, dbvars, ghosts, At, RollbackInv
    <2>3. PruneInv'
      BY <1>0, <1>1
         DEF PruneListInv, Sound, Existing, RowsOf, Drawn, CurrentIsNewest,
             PruneDoomedInv, PruneStart, dbvars, ghosts, TypeOK, Row, TableInv,
             PruneInv
    <2> QED
      BY <2>1, <2>2, <2>3
  <1>2. ASSUME PruneScan
        PROVE  TableInv' /\ RollbackInv' /\ PruneInv'
    BY <1>2, PruneScanKeeps
  <1>3. ASSUME PruneDelete
        PROVE  TableInv' /\ RollbackInv' /\ PruneInv'
    <2>1. TableInv'
      BY <1>0, <1>3
         DEF RowsHaveFile, Existing, KeysUnique, CurrentIsNewest, Sound,
             CurrentRowPresent, CurrentRows, RowsOf, InWindow, PruneDoomedInv,
             HashMatchesCurrent, PruneDelete, ghosts, At, TypeOK, Row,
             TableInv, PruneInv
    <2>2. RollbackInv'
      BY <1>0, <1>3
         DEF RequestShape, Drawn, Existing, RollbackReadInv, Sound,
             RollbackHashInv, RollbackClaimsDiffer, RollbackWillInsert,
             KeyFree, PruneDelete, ghosts, At, RollbackInv
    <2>3. PruneInv'
      BY <1>0, <1>3
         DEF PruneListInv, Sound, Existing, RowsOf, Drawn, PruneDoomedInv,
             PruneDelete, ghosts, PruneInv
    <2> QED
      BY <2>1, <2>2, <2>3
  <1>4. ASSUME PruneEnd \/ PruneAbort
        PROVE  TableInv' /\ RollbackInv' /\ PruneInv'
    <2>1. TableInv'
      BY <1>0, <1>4
         DEF RowsHaveFile, Existing, KeysUnique, CurrentIsNewest,
             CurrentRowPresent, CurrentRows, RowsOf, InWindow,
             HashMatchesCurrent, PruneEnd, PruneAbort, dbvars, ghosts, At,
             TableInv
    <2>2. RollbackInv'
      BY <1>0, <1>4
         DEF RequestShape, Drawn, Existing, RollbackReadInv, Sound,
             RollbackHashInv, RollbackClaimsDiffer, RollbackWillInsert,
             KeyFree, PruneEnd, PruneAbort, dbvars, ghosts, At, RollbackInv
    <2>3. PruneInv'
      BY <1>0, <1>4 DEF PruneListInv, PruneDoomedInv, PruneEnd, PruneAbort,
                        NoPrune, TypeOK, PruneInv
    <2> QED
      BY <2>1, <2>2, <2>3
  <1> QED
    BY <1>1, <1>2, <1>3, <1>4 DEF PruneStep

-----------------------------------------------------------------------------
(* The theorems.                                                            *)

\* Every step keeps the inductive invariant.
LEMMA InvStep ==
  ASSUME IndInv, [Next]_vars
  PROVE  IndInv'
  <1>1. CASE Next
    <2>1. TypeOK'
      BY <1>1, TypeStep DEF IndInv, RollbackInv
    <2>2. TableInv' /\ RollbackInv' /\ PruneInv'
      BY <1>1, <2>1, UploadKeeps, RollbackKeeps, ArchiveKeeps, PruneKeeps,
         OthersKeep DEF Next, TableStep
    <2> QED
      BY <2>1, <2>2 DEF IndInv
  <1>2. CASE UNCHANGED vars
    BY <1>2 DEF vars, IndInv, TypeOK, TableInv, RollbackInv, PruneInv,
       RowsHaveFile, KeysUnique, CurrentIsNewest, CurrentRowPresent,
       HashMatchesCurrent, RequestShape, RollbackReadInv, RollbackHashInv,
       RollbackClaimsDiffer, RollbackWillInsert, PruneListInv, PruneDoomedInv,
       Existing, RowsOf, KeyFree, CurrentRows, InWindow, Drawn, Sound, At
  <1> QED
    BY <1>1, <1>2

\* IndInv holds throughout: the tables keep their promises, and what handlers
\* and the pruning job have read stays good enough for what they do next.
THEOREM Invariant == Spec => []IndInv
  BY InitInv, InvStep, PTL DEF Spec

\* TypeOK: every version number, row and request keeps its type.
THEOREM TypeCorrect == Spec => []TypeOK
  <1>1. IndInv => TypeOK
    BY DEF IndInv
  <1> QED
    BY <1>1, Invariant, PTL

\* CurrentIsNewest: no row is newer than the current version of its file unless
\* a rollback worked from a number that had changed since it read it.
THEOREM CurrentNewest == Spec => []CurrentIsNewest
  <1>1. IndInv => CurrentIsNewest
    BY DEF IndInv, TableInv
  <1> QED
    BY <1>1, Invariant, PTL

\* CurrentRowPresent: the current version of a file can be downloaded whatever
\* uploads, rollbacks and the pruning job do at the same time.
THEOREM CurrentDownloadable == Spec => []CurrentRowPresent
  <1>1. IndInv => CurrentRowPresent
    BY DEF IndInv, TableInv
  <1> QED
    BY <1>1, Invariant, PTL

\* HashMatchesCurrent: the hash sync compares is that of the current content.
THEOREM HashCorrect == Spec => []HashMatchesCurrent
  <1>1. IndInv => HashMatchesCurrent
    BY DEF IndInv, TableInv
  <1> QED
    BY <1>1, Invariant, PTL

\* RollbackWillInsert: nobody takes the number a rollback has claimed.
THEOREM ClaimHolds == Spec => []RollbackWillInsert
  <1>1. IndInv => RollbackWillInsert
    BY DEF IndInv, RollbackInv
  <1> QED
    BY <1>1, Invariant, PTL

\* PruneKeepsCurrent: the pruning job never deletes the row of a current
\* version, although the list it works from may be old.
THEOREM PruneSafe == Spec => PruneKeepsCurrent
  <1>1. IndInv /\ [Next]_vars
        => [PruneStep => \A f \in FileId \ regressed :
                           CurrentRows(f) \subseteq rows']_vars
    <2> SUFFICES ASSUME IndInv, PruneStep, NEW f \in FileId \ regressed,
                        NEW x \in CurrentRows(f)
                 PROVE  x \in rows'
      OBVIOUS
    <2>0. /\ x \in rows /\ x.file = f /\ x.version = files[f].cur
          /\ files[f].cur \in Int
          /\ Existing(f)
      BY BoundsAssumption DEF CurrentRows, RowsOf, IndInv, TypeOK, FileRecord,
                              TableInv, RowsHaveFile
    <2>1. CASE PruneDelete
      <3>1. PICK y \in prune.doomed : rows' = rows \ {y}
        BY <2>1 DEF PruneDelete
      <3>2. y # x
        BY <2>0 DEF IndInv, PruneInv, PruneDoomedInv, Sound
      <3> QED
        BY <2>0, <3>1, <3>2
    <2>2. CASE (\E l \in Limits : PruneStart(l)) \/ PruneScan \/ PruneEnd \/ PruneAbort
      BY <2>0, <2>2 DEF PruneStart, PruneScan, PruneEnd, PruneAbort, dbvars
    <2> QED
      BY <2>1, <2>2 DEF PruneStep
  <1> QED
    BY <1>1, Invariant, PTL DEF Spec, PruneKeepsCurrent

\* A permanently deleted file has no way back.
LEMMA PurgedStep ==
  ASSUME IndInv, Next, NEW f \in FileId, files[f].status = "purged"
  PROVE  files'[f].status = "purged"
  <1> USE DEF IndInv, TypeOK, FileRecord, dbvars
  <1>1. ASSUME NEW r \in Requests, UploadStep(r) PROVE files'[f].status = "purged"
    BY <1>1 DEF UploadStep, UploadStart, UpsertNew, UpsertSame, UpsertChanged,
                UpsertRejected, Named, Existing
  <1>2. ASSUME NEW r \in Requests, RollbackStep(r) PROVE files'[f].status = "purged"
    BY <1>2 DEF RollbackStep, RollbackStart, RollbackTarget, RollbackUpdate,
                RollbackInsert, Existing
  <1>3. ASSUME NEW r \in Requests, ArchiveStep(r) PROVE files'[f].status = "purged"
    <2>1. CASE RestoreUpdate(r)
      <3>1. files' = [files EXCEPT ![req[r].file].status = Restored(req[r].file)]
        BY <2>1 DEF RestoreUpdate
      <3>2. files[req[r].file].status = "purged"
              => Restored(req[r].file) = "purged"
        BY DEF Restored, Existing
      <3> QED
        BY <3>1, <3>2
    <2>2. CASE (\E g \in FileId : RestoreStart(r, g)) \/ (\E s : Purge(r, s))
      BY <2>2 DEF RestoreStart, Purge
    <2>3. CASE PurgeVersions(r) \/ PurgeFile(r)
      BY <2>3 DEF PurgeVersions, PurgeFile
    <2> QED
      BY <1>3, <2>1, <2>2, <2>3 DEF ArchiveStep, DeletePermanentStart, WipeStart
  <1>4. CASE \/ \E g \in FileId : Archive(g) \/ (\E h \in Hash : FixHash(g, h))
             \/ RestoreAll
             \/ PruneStep
             \/ Tick
             \/ \E r \in Requests : StoreBlob(r) \/ Abort(r)
    BY <1>4 DEF Archive, FixHash, Existing, RestoreAll, Archived, PruneStep,
                PruneStart, PruneScan, PruneDelete, PruneEnd, PruneAbort, Tick,
                StoreBlob, Abort
  <1> QED
    BY <1>1, <1>2, <1>3, <1>4 DEF Next, TableStep

\* PurgedStaysPurged: a restore or rollback that goes on after the file was
\* deleted permanently does not bring it back.
THEOREM PurgeFinal == Spec => PurgedStaysPurged
  <1>1. IndInv /\ [Next]_vars
        => [\A f \in FileId : files[f].status = "purged" =>
                                files'[f].status = "purged"]_vars
    BY PurgedStep
  <1> QED
    BY <1>1, Invariant, PTL DEF Spec, PurgedStaysPurged

\* No two files have the same path.
PathsDiffer ==
  \A f, g \in FileId :
    Existing(f) /\ Existing(g) /\ files[f].path = files[g].path => f = g

\* A file comes into being in UpsertNew only, and none is renamed.
LEMMA OnlyUpsertNewCreates ==
  ASSUME IndInv, Next,
         ~(\E r \in Requests, f \in FileId : UpsertNew(r, f)),
         NEW f \in FileId
  PROVE  files'[f].path = files[f].path /\ (Existing(f)' => Existing(f))
  <1> USE DEF IndInv, TypeOK, FileRecord, dbvars, Existing
  <1>0. \A g, v, h : NewHead(g, v, h).path = files[g].path
    BY DEF NewHead
  <1>1. ASSUME NEW r \in Requests, UploadStep(r)
        PROVE  files'[f].path = files[f].path /\ (Existing(f)' => Existing(f))
    <2>1. CASE UpsertSame(r)
      BY <2>1 DEF UpsertSame, Named
    <2>2. CASE UpsertChanged(r)
      <3>1. PICK g \in Named(req[r].path) :
              files' = [files EXCEPT ![g] = NewHead(g, NextVersion(g), req[r].hash)]
        BY <2>2 DEF UpsertChanged
      <3>2. g \in FileId /\ Existing(g)
        BY <3>1 DEF Named
      <3>3. f = g => files'[f] = NewHead(f, NextVersion(f), req[r].hash)
        BY <3>1
      <3>4. f = g => files'[f].path = files[f].path
        BY <1>0, <3>3
      <3>5. f # g => files'[f] = files[f]
        BY <3>1
      <3> QED
        BY <3>2, <3>4, <3>5
    <2>3. CASE (\E p \in Path, d \in Payload : UploadStart(r, p, d))
                 \/ UpsertRejected(r)
      BY <2>3 DEF UploadStart, UpsertRejected
    <2> QED
      BY <1>1, <2>1, <2>2, <2>3 DEF UploadStep
  <1>2. ASSUME NEW r \in Requests, RollbackStep(r)
        PROVE  files'[f].path = files[f].path /\ (Existing(f)' => Existing(f))
    <2>1. CASE RollbackUpdate(r)
      <3>1. CASE Existing(req[r].file)
        <4>1. files' = [files EXCEPT ![req[r].file] =
                          NewHead(req[r].file, req[r].cur + 1, req[r].hash)]
          BY <2>1, <3>1 DEF RollbackUpdate
        <4>2. f = req[r].file =>
                files'[f] = NewHead(f, req[r].cur + 1, req[r].hash)
          BY <4>1
        <4>3. f = req[r].file => files'[f].path = files[f].path
          BY <1>0, <4>2
        <4>4. f # req[r].file => files'[f] = files[f]
          BY <4>1
        <4> QED
          BY <3>1, <4>3, <4>4
      <3>2. CASE ~Existing(req[r].file)
        BY <2>1, <3>2 DEF RollbackUpdate
      <3> QED
        BY <3>1, <3>2
    <2>2. CASE (\E g \in FileId : RollbackStart(r, g)) \/ RollbackTarget(r)
                 \/ RollbackInsert(r)
      BY <2>2 DEF RollbackStart, RollbackTarget, RollbackInsert
    <2> QED
      BY <1>2, <2>1, <2>2 DEF RollbackStep
  <1>3. ASSUME NEW r \in Requests, ArchiveStep(r)
        PROVE  files'[f].path = files[f].path /\ (Existing(f)' => Existing(f))
    <2>1. CASE RestoreUpdate(r)
      <3>1. files' = [files EXCEPT ![req[r].file].status = Restored(req[r].file)]
        BY <2>1 DEF RestoreUpdate
      <3>2. ~Existing(req[r].file) =>
              Restored(req[r].file) = files[req[r].file].status
        BY DEF Restored
      <3> QED
        BY <3>1, <3>2
    <2>2. CASE (\E g \in FileId : RestoreStart(r, g)) \/ (\E s : Purge(r, s))
      BY <2>2 DEF RestoreStart, Purge
    <2>3. CASE PurgeVersions(r) \/ PurgeFile(r)
      BY <2>3 DEF PurgeVersions, PurgeFile
    <2> QED
      BY <1>3, <2>1, <2>2, <2>3 DEF ArchiveStep, DeletePermanentStart, WipeStart
  <1>4. CASE \E g \in FileId : Archive(g)
    BY <1>4 DEF Archive
  <1>5. CASE \E g \in FileId, h \in Hash : FixHash(g, h)
    BY <1>5 DEF FixHash
  <1>6. CASE RestoreAll
    BY <1>6 DEF RestoreAll, Archived
  <1>7. CASE PruneStep \/ Tick \/ (\E r \in Requests : StoreBlob(r) \/ Abort(r))
    BY <1>7 DEF PruneStep, PruneStart, PruneScan, PruneDelete, PruneEnd,
                PruneAbort, Tick, StoreBlob, Abort
  <1> QED
    BY <1>1, <1>2, <1>3, <1>4, <1>5, <1>6, <1>7 DEF Next, TableStep

\* The lookup inside the transaction keeps the paths apart.
LEMMA PathsStep ==
  ASSUME IndInv, PathsDiffer, Next
  PROVE  PathsDiffer'
  <1>1. ASSUME NEW r \in Requests, NEW h \in FileId, UpsertNew(r, h)
        PROVE  PathsDiffer'
    <2>1. \A g \in FileId \ {h} : files'[g] = files[g]
      BY <1>1 DEF UpsertNew, IndInv, TypeOK
    <2>2. files'[h].path = req[r].path
      BY <1>1 DEF UpsertNew, IndInv, TypeOK
    <2>3. \A g \in FileId : Existing(g) => files[g].path # req[r].path
      BY <1>1 DEF UpsertNew, PathFree, Named
    <2> QED
      BY <2>1, <2>2, <2>3 DEF PathsDiffer, Existing
  <1>2. CASE ~(\E r \in Requests, h \in FileId : UpsertNew(r, h))
    BY <1>2, OnlyUpsertNewCreates DEF PathsDiffer
  <1> QED
    BY <1>1, <1>2

\* OneFilePerPath: uploads of a new path at the same time create one file.
THEOREM PathsUnique == Spec => []OneFilePerPath
  <1>1. Init => PathsDiffer
    BY DEF Init, PathsDiffer, Existing
  <1>2. IndInv /\ PathsDiffer /\ [Next]_vars => PathsDiffer'
    <2> SUFFICES ASSUME IndInv, PathsDiffer, [Next]_vars PROVE PathsDiffer'
      OBVIOUS
    <2>1. CASE UNCHANGED vars
      BY <2>1 DEF vars, PathsDiffer, Existing
    <2> QED
      BY <2>1, PathsStep
  <1>3. PathsDiffer => OneFilePerPath
    <2> SUFFICES ASSUME PathsDiffer, NEW p \in Path
                 PROVE  Cardinality(Named(p)) <= 1
      BY DEF OneFilePerPath
    <2>1. CASE Named(p) = {}
      BY <2>1, FS_EmptySet
    <2>2. ASSUME NEW f \in Named(p) PROVE Cardinality(Named(p)) <= 1
      <3>1. Named(p) = {f}
        BY <2>2 DEF PathsDiffer, Named
      <3>2. Cardinality({f}) = 1
        BY FS_Singleton
      <3> QED
        BY <3>1, <3>2
    <2> QED
      BY <2>1, <2>2
  <1> QED
    BY <1>1, <1>2, <1>3, Invariant, PTL DEF Spec
=============================================================================
