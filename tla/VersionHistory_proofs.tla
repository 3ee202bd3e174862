------------------------ MODULE VersionHistory_proofs ------------------------
(* Proofs about VersionHistory and PrunePasses.                             *)
EXTENDS PrunePasses, VersionStore_proofs

-----------------------------------------------------------------------------
(* Version numbers.                                                         *)

\* Only uploads and rollbacks give out numbers, and only a rollback claims one
\* before it uses it.
LEMMA NothingIssued ==
  ASSUME IndInv, Next,
         ~(\E r \in Requests : \/ \E f \in FileId : UpsertNew(r, f)
                               \/ UpsertChanged(r)
                               \/ RollbackUpdate(r)
                               \/ RollbackInsert(r))
  PROVE  /\ rows' \subseteq rows
         /\ regressed' = regressed
         /\ \A f \in FileId : /\ files'[f].cur = files[f].cur
                              /\ Drawn(f) => Drawn(f)'
                              /\ Existing(f)' => Existing(f)
         /\ \A r \in Requests : At(r, "rb_insert")' => req'[r] = req[r]
  <1> DEFINE Tables == /\ rows' \subseteq rows
                       /\ regressed' = regressed
                       /\ \A f \in FileId : /\ files'[f].cur = files[f].cur
                                            /\ Drawn(f) => Drawn(f)'
             Claims == \A r \in Requests : At(r, "rb_insert")' => req'[r] = req[r]
  <1> USE DEF IndInv, TypeOK, FileRecord, dbvars, ghosts, Drawn, At
  <1>0. Idle.pc = "idle"
    BY DEF Idle
  <1>1. ASSUME NEW r \in Requests, UploadStep(r) PROVE Tables /\ Claims
    <2>1. CASE \E p \in Path, d \in Payload : UploadStart(r, p, d)
      BY <2>1 DEF UploadStart, Idle
    <2>2. CASE UpsertSame(r)
      BY <1>0, <2>2 DEF UpsertSame, Finish, Named
    <2>3. CASE UpsertRejected(r)
      BY <1>0, <2>3 DEF UpsertRejected, Finish
    <2> QED
      BY <1>1, <2>1, <2>2, <2>3 DEF UploadStep
  <1>2. ASSUME NEW r \in Requests, RollbackStep(r) PROVE Tables /\ Claims
    <2>1. CASE \E f \in FileId : RollbackStart(r, f)
      BY <2>1 DEF RollbackStart, Idle
    <2>2. CASE RollbackTarget(r)
      BY <2>2 DEF RollbackTarget, Request
    <2> QED
      BY <1>2, <2>1, <2>2 DEF RollbackStep
  <1>3. ASSUME NEW r \in Requests, ArchiveStep(r) PROVE Tables /\ Claims
    <2>1. CASE RestoreUpdate(r)
      <3>1. files' = [files EXCEPT ![req[r].file].status = Restored(req[r].file)]
        BY <2>1 DEF RestoreUpdate
      <3>2. files[req[r].file].status # "unused" => Restored(req[r].file) # "unused"
        BY DEF Restored, Existing
      <3>3. Tables
        BY <2>1, <3>1, <3>2 DEF RestoreUpdate
      <3> QED
        BY <1>0, <2>1, <3>3 DEF RestoreUpdate, Finish
    <2>2. CASE (\E g \in FileId : RestoreStart(r, g)) \/ (\E s : Purge(r, s))
      BY <2>2 DEF RestoreStart, Purge, Idle
    <2>3. CASE PurgeVersions(r)
      BY <2>3 DEF PurgeVersions, Request
    <2>4. CASE PurgeFile(r)
      BY <1>0, <2>4 DEF PurgeFile, Cascade, RowsOf, Idle
    <2> QED
      BY <1>3, <2>1, <2>2, <2>3, <2>4 DEF ArchiveStep, DeletePermanentStart, WipeStart
  <1>4. ASSUME NEW f \in FileId, Archive(f) PROVE Tables /\ Claims
    BY <1>4 DEF Archive
  <1>5. ASSUME NEW f \in FileId, NEW h \in Hash, FixHash(f, h) PROVE Tables /\ Claims
    BY <1>5 DEF FixHash
  <1>6. ASSUME RestoreAll PROVE Tables /\ Claims
    BY <1>6 DEF RestoreAll, Archived
  <1>7. ASSUME PruneStep PROVE Tables /\ Claims
    BY <1>7 DEF PruneStep, PruneStart, PruneScan, PruneDelete, PruneEnd, PruneAbort
  <1>8. ASSUME Tick PROVE Tables /\ Claims
    BY <1>8 DEF Tick
  <1>9. ASSUME NEW r \in Requests, StoreBlob(r) \/ Abort(r) PROVE Tables /\ Claims
    BY <1>0, <1>9 DEF StoreBlob, Abort, Finish, Request
  <1>10. Tables /\ Claims
    BY <1>1, <1>2, <1>3, <1>4, <1>5, <1>6, <1>7, <1>8, <1>9 DEF Next, TableStep
  <1>11. \A f \in FileId : Existing(f)' => Existing(f)
    BY OnlyUpsertNewCreates
  <1> QED
    BY <1>10, <1>11

\* What the steps that give out numbers have in common.
LEMMA NumbersKept ==
  ASSUME HistoryInv, issued' = issued \cup rows', IndInv', NumbersBehind', NumbersFinal'
  PROVE  HistoryInv'
  BY DEF HistoryInv, IndInv, TypeOK

LEMMA QuietHistory ==
  ASSUME HistoryInv, issued' = issued \cup rows', Next,
         ~(\E r \in Requests : \/ \E f \in FileId : UpsertNew(r, f)
                               \/ UpsertChanged(r)
                               \/ RollbackUpdate(r)
                               \/ RollbackInsert(r))
  PROVE  NumbersBehind' /\ NumbersFinal'
  <1>1. IndInv /\ rows \subseteq issued /\ NumbersBehind /\ NumbersFinal
    BY DEF HistoryInv
  <1>2. /\ rows' \subseteq rows
        /\ regressed' = regressed
        /\ \A f \in FileId : /\ files'[f].cur = files[f].cur
                             /\ Drawn(f) => Drawn(f)'
                             /\ Existing(f)' => Existing(f)
        /\ \A r \in Requests : At(r, "rb_insert")' => req'[r] = req[r]
    BY <1>1, NothingIssued
  <1>3. issued' = issued
    BY <1>1, <1>2
  <1>4. ASSUME NEW x \in issued
        PROVE  /\ Drawn(x.file)'
               /\ x.file \notin regressed' => x.version <= files'[x.file].cur
               /\ \A r \in Requests :
                    At(r, "rb_insert")' /\ req'[r].file = x.file /\ Sound(x.file)'
                      => req'[r].cur + 1 # x.version
    <2>1. x.file \in FileId /\ Drawn(x.file)
      BY <1>1 DEF NumbersBehind, Drawn
    <2>2. Sound(x.file)' => Sound(x.file)
      BY <1>2, <2>1 DEF Sound
    <2> QED
      BY <1>1, <1>2, <2>1, <2>2 DEF NumbersBehind, At
  <1>5. NumbersBehind'
    BY <1>3, <1>4 DEF NumbersBehind
  <1>6. NumbersFinal'
    BY <1>1, <1>2, <1>3 DEF NumbersFinal
  <1> QED
    BY <1>5, <1>6

\* A version y is inserted, which nobody has had or claims.
LEMMA FreshNumber ==
  ASSUME HistoryInv, NEW y, rows' = rows \cup {y}, issued' = issued \cup rows',
         regressed' = regressed,
         \A x \in issued \cup {y} :
           /\ Drawn(x.file)'
           /\ x.file \notin regressed => x.version <= files'[x.file].cur
           /\ \A s \in Requests :
                At(s, "rb_insert")' /\ req'[s].file = x.file /\ Sound(x.file)'
                  => req'[s].cur + 1 # x.version,
         \A x \in issued :
           x.file \notin regressed /\ x.file = y.file => x.version # y.version
  PROVE  NumbersBehind' /\ NumbersFinal'
  <1>1. issued' = issued \cup {y}
    BY DEF HistoryInv
  <1>2. NumbersBehind'
    BY <1>1 DEF NumbersBehind
  <1>3. NumbersFinal'
    BY <1>1 DEF HistoryInv, NumbersFinal
  <1> QED
    BY <1>2, <1>3

\* What the numbers are compared with.
LEMMA NumberTypes ==
  ASSUME HistoryInv
  PROVE  /\ IndInv /\ NumbersBehind /\ NumbersFinal /\ rows \subseteq issued
         /\ files \in [FileId -> FileRecord] /\ req \in [Requests -> Request]
         /\ \A f \in FileId : files[f].cur \in Nat
         /\ \A r \in Requests : req[r].cur \in Nat
         /\ \A x \in issued : x.file \in FileId /\ x.version \in Nat
  BY BoundsAssumption DEF HistoryInv, IndInv, TypeOK, FileRecord, Request, Row

\* A new file has its first version.
LEMMA UpsertNewHistory ==
  ASSUME HistoryInv, issued' = issued \cup rows',
         NEW r \in Requests, NEW f \in FileId, UpsertNew(r, f)
  PROVE  NumbersBehind' /\ NumbersFinal'
  <1>0. PICK y : y = NewRow(f, FirstVersion, req[r].hash, req[r].blob)
    OBVIOUS
  <1>1. IndInv /\ NumbersBehind /\ req \in [Requests -> Request]
        /\ files \in [FileId -> FileRecord]
    BY NumberTypes
  <1>2. /\ rows' = rows \cup {y} /\ regressed' = regressed
        /\ files'[f].status = "active" /\ files'[f].cur = 1
        /\ \A g \in FileId \ {f} : files'[g] = files[g]
        /\ ~Drawn(f) /\ Drawn(f)'
    BY <1>0, <1>1 DEF UpsertNew, ghosts, FirstVersion, Drawn
  <1>3. y.file = f /\ y.version = 1
    BY <1>0 DEF NewRow, FirstVersion
  <1>4. req'[r].pc # "rb_insert" /\ \A s \in Requests \ {r} : req'[s] = req[s]
    BY <1>1 DEF UpsertNew, Finish, Idle
  <1>5. \A s \in Requests : At(s, "rb_insert") => Drawn(req[s].file)
    BY <1>1 DEF IndInv, RollbackInv, RequestShape, At
  <1>6. \A x \in issued : x.file \in FileId \ {f} /\ Drawn(x.file)
    BY <1>1, <1>2 DEF NumbersBehind, Drawn
  <1>7. ASSUME NEW x \in issued
        PROVE  /\ Drawn(x.file)'
               /\ x.file \notin regressed => x.version <= files'[x.file].cur
               /\ \A s \in Requests :
                    At(s, "rb_insert")' /\ req'[s].file = x.file /\ Sound(x.file)'
                      => req'[s].cur + 1 # x.version
    <2>1. files'[x.file] = files[x.file] /\ Drawn(x.file) /\ x.file \in FileId
      BY <1>2, <1>6
    <2>2. Drawn(x.file)' /\ (Sound(x.file)' => Sound(x.file))
      BY <1>2, <2>1 DEF Drawn, Sound, Existing
    <2> QED
      BY <1>1, <1>4, <2>1, <2>2 DEF NumbersBehind, At
  <1>8. \A s \in Requests : At(s, "rb_insert")' => req'[s].file # y.file
    BY <1>2, <1>3, <1>4, <1>5 DEF At
  <1> QED
    BY <1>2, <1>3, <1>6, <1>7, <1>8, FreshNumber

\* An upload goes one above the current number.
LEMMA UpsertChangedHistory ==
  ASSUME HistoryInv, issued' = issued \cup rows',
         NEW r \in Requests, UpsertChanged(r)
  PROVE  NumbersBehind' /\ NumbersFinal'
  <1>1. PICK f \in Named(req[r].path) :
          /\ files' = [files EXCEPT ![f] = NewHead(f, NextVersion(f), req[r].hash)]
          /\ rows' = rows \cup {NewRow(f, NextVersion(f), req[r].hash, req[r].blob)}
    BY DEF UpsertChanged
  <1>0. PICK y : y = NewRow(f, NextVersion(f), req[r].hash, req[r].blob)
    OBVIOUS
  <1>2. /\ IndInv /\ NumbersBehind /\ req \in [Requests -> Request]
        /\ files \in [FileId -> FileRecord]
        /\ \A g \in FileId : files[g].cur \in Nat
        /\ \A s \in Requests : req[s].cur \in Nat
        /\ \A x \in issued : x.file \in FileId /\ x.version \in Nat
    BY NumberTypes
  <1>3. f \in FileId /\ Existing(f)
    BY DEF Named
  <1>4. files'[f] = NewHead(f, NextVersion(f), req[r].hash)
        /\ \A g \in FileId \ {f} : files'[g] = files[g]
    BY <1>1, <1>2, <1>3
  <1>5. files'[f].cur = files[f].cur + 1 /\ files'[f].status = "active"
    BY <1>2, <1>3, <1>4 DEF NewHead, NextVersion, FileRecord
  <1>6. y.file = f /\ y.version = files[f].cur + 1
    BY <1>0 DEF NewRow, NextVersion
  <1>7. req'[r].pc # "rb_insert" /\ \A s \in Requests \ {r} : req'[s] = req[s]
    BY <1>2 DEF UpsertChanged, Finish, Idle
  <1>8. regressed' = regressed /\ rows' = rows \cup {y}
    BY <1>0, <1>1 DEF UpsertChanged
  <1>9. ASSUME NEW x \in issued
        PROVE  /\ Drawn(x.file)'
               /\ x.file \notin regressed => x.version <= files'[x.file].cur
               /\ \A s \in Requests :
                    At(s, "rb_insert")' /\ req'[s].file = x.file /\ Sound(x.file)'
                      => req'[s].cur + 1 # x.version
    <2>1. /\ x.file \in FileId /\ Drawn(x.file)
          /\ x.file \notin regressed => x.version <= files[x.file].cur
      BY <1>2 DEF NumbersBehind
    <2>2. Drawn(x.file)' /\ (Sound(x.file)' => Sound(x.file))
      BY <1>3, <1>4, <1>5, <1>8, <2>1 DEF Drawn, Sound, Existing
    <2>3. x.file \notin regressed => x.version <= files'[x.file].cur
      BY <1>2, <1>4, <1>5, <2>1
    <2> QED
      BY <1>2, <1>7, <2>2, <2>3 DEF NumbersBehind, At
  <1>10. ASSUME NEW s \in Requests, At(s, "rb_insert")', req'[s].file = y.file,
                Sound(y.file)'
         PROVE  req'[s].cur + 1 # y.version
    <2>1. At(s, "rb_insert") /\ req'[s] = req[s] /\ Sound(f)
      BY <1>3, <1>6, <1>7, <1>8, <1>10 DEF At, Sound
    <2>2. req[s].cur < files[f].cur
      BY <1>2, <1>6, <1>10, <2>1 DEF IndInv, RollbackInv, RollbackReadInv
    <2> QED
      BY <1>2, <1>3, <1>6, <2>1, <2>2
  <1>11. ASSUME NEW x \in issued, x.file \notin regressed, x.file = y.file
         PROVE  x.version # y.version
    BY <1>2, <1>3, <1>6, <1>11 DEF NumbersBehind
  <1>12. Drawn(y.file)' /\ y.version <= files'[y.file].cur
    BY <1>2, <1>3, <1>5, <1>6 DEF Drawn
  <1> QED
    BY <1>8, <1>9, <1>10, <1>11, <1>12, FreshNumber

\* A rollback claims the number above the one it has read.
LEMMA RollbackUpdateHistory ==
  ASSUME HistoryInv, issued' = issued \cup rows',
         NEW r \in Requests, RollbackUpdate(r)
  PROVE  NumbersBehind' /\ NumbersFinal'
  <1>0. PICK f : f = req[r].file
    OBVIOUS
  <1>1. /\ IndInv /\ NumbersBehind /\ NumbersFinal /\ rows \subseteq issued
        /\ files \in [FileId -> FileRecord] /\ req \in [Requests -> Request]
        /\ \A g \in FileId : files[g].cur \in Nat
        /\ \A s \in Requests : req[s].cur \in Nat
        /\ \A x \in issued : x.file \in FileId /\ x.version \in Nat
    BY NumberTypes
  <1>2. issued' = issued
    BY <1>1 DEF RollbackUpdate
  <1>3. f \in FileId
    BY <1>0, <1>1 DEF RollbackUpdate, IndInv, RollbackInv, RequestShape, Drawn, At
  <1>4. /\ req'[r].file = f /\ req'[r].cur = req[r].cur
        /\ \A s \in Requests \ {r} : req'[s] = req[s]
    BY <1>0, <1>1 DEF RollbackUpdate, Request
  <1>5. /\ \A g \in FileId \ {f} : files'[g] = files[g]
        /\ \A g \in FileId : /\ Existing(g)' <=> Existing(g)
                             /\ Drawn(g) => Drawn(g)'
        /\ regressed \subseteq regressed'
    BY <1>0, <1>1, <1>3 DEF RollbackUpdate, NewHead, Existing, Drawn, FileRecord
  <1>6. CASE Existing(f)
    <2>1. files'[f].cur = req[r].cur + 1
      <3>1. files'[f] = NewHead(f, req[r].cur + 1, req[r].hash)
        BY <1>0, <1>1, <1>3, <1>6 DEF RollbackUpdate
      <3>2. files[f] \in FileRecord
        BY <1>1, <1>3
      <3> QED
        BY <3>1, <3>2 DEF NewHead, FileRecord
    <2>2. f \notin regressed' => files[f].cur = req[r].cur
      BY <1>0, <1>6 DEF RollbackUpdate
    <2>3. ASSUME NEW x \in issued
          PROVE  /\ Drawn(x.file)'
                 /\ x.file \notin regressed' => x.version <= files'[x.file].cur
                 /\ \A s \in Requests :
                      At(s, "rb_insert")' /\ req'[s].file = x.file /\ Sound(x.file)'
                        => req'[s].cur + 1 # x.version
      <3>1. /\ Drawn(x.file) /\ x.file \in FileId
            /\ x.file \notin regressed => x.version <= files[x.file].cur
        BY <1>1 DEF NumbersBehind
      <3>2. x.file \notin regressed' => x.version <= files'[x.file].cur
        BY <1>1, <1>3, <1>5, <2>1, <2>2, <3>1
      <3>3. Sound(x.file)' => Sound(x.file)
        BY <1>5, <3>1 DEF Sound
      <3>4. ASSUME NEW s \in Requests, At(s, "rb_insert")', req'[s].file = x.file,
                   Sound(x.file)'
            PROVE  req'[s].cur + 1 # x.version
        <4>1. CASE s = r
          <5>1. x.file = f /\ f \notin regressed'
            BY <1>4, <3>4, <4>1 DEF Sound
          <5>2. x.version <= req[r].cur
            BY <1>5, <2>2, <3>1, <5>1
          <5> QED
            BY <1>1, <1>4, <4>1, <5>2
        <4>2. CASE s # r
          <5>1. At(s, "rb_insert") /\ req'[s] = req[s]
            BY <1>4, <3>4, <4>2 DEF At
          <5> QED
            BY <1>1, <3>3, <3>4, <5>1 DEF NumbersBehind
        <4> QED
          BY <4>1, <4>2
      <3> QED
        BY <1>5, <3>1, <3>2, <3>4
    <2>4. NumbersBehind'
      BY <1>2, <2>3 DEF NumbersBehind
    <2> QED
      BY <1>1, <1>2, <1>5, <2>4 DEF NumbersFinal
  <1>7. CASE ~Existing(f)
    <2>1. files' = files /\ regressed' = regressed
      BY <1>0, <1>7 DEF RollbackUpdate
    <2>2. \A g \in FileId : Sound(g)' => g # f /\ Sound(g)
      BY <1>5, <1>7, <2>1 DEF Sound
    <2>3. \A s \in Requests, g \in FileId :
            At(s, "rb_insert")' /\ req'[s].file = g /\ Sound(g)'
              => At(s, "rb_insert") /\ req'[s] = req[s] /\ Sound(g)
      BY <1>4, <2>2 DEF At
    <2>4. NumbersBehind'
      BY <1>1, <1>2, <1>5, <2>1, <2>3 DEF NumbersBehind
    <2> QED
      BY <1>1, <1>2, <2>1, <2>4 DEF NumbersFinal
  <1> QED
    BY <1>6, <1>7

\* A rollback inserts the version it has claimed.
LEMMA RollbackInsertHistory ==
  ASSUME HistoryInv, issued' = issued \cup rows',
         NEW r \in Requests, RollbackInsert(r)
  PROVE  NumbersBehind' /\ NumbersFinal'
  <1>0. PICK f : f = req[r].file
    OBVIOUS
  <1>1. PICK y : y = NewRow(f, req[r].cur + 1, req[r].hash, req[r].blob)
    OBVIOUS
  <1>2. /\ IndInv /\ NumbersBehind /\ NumbersFinal /\ rows \subseteq issued
        /\ files \in [FileId -> FileRecord] /\ req \in [Requests -> Request]
        /\ \A g \in FileId : files[g].cur \in Nat
        /\ \A s \in Requests : req[s].cur \in Nat
        /\ \A x \in issued : x.file \in FileId /\ x.version \in Nat
    BY NumberTypes
  <1>3. files' = files /\ regressed' = regressed
    BY DEF RollbackInsert
  <1>4. req'[r].pc # "rb_insert" /\ \A s \in Requests \ {r} : req'[s] = req[s]
    BY <1>2 DEF RollbackInsert, Finish, Idle
  <1>5. Drawn(f) /\ f \in FileId
    BY <1>0, <1>2 DEF RollbackInsert, IndInv, RollbackInv, RequestShape, Drawn, At
  <1>6. \A g \in FileId : /\ Sound(g)' <=> Sound(g)
                         /\ Drawn(g)' <=> Drawn(g)
    BY <1>3 DEF Sound, Drawn, Existing
  <1>7. \A s \in Requests :
          At(s, "rb_insert")' => At(s, "rb_insert") /\ req'[s] = req[s] /\ s # r
    BY <1>4 DEF At
  <1>8. ASSUME NEW x \in issued
        PROVE  /\ Drawn(x.file)'
               /\ x.file \notin regressed => x.version <= files'[x.file].cur
               /\ \A s \in Requests :
                    At(s, "rb_insert")' /\ req'[s].file = x.file /\ Sound(x.file)'
                      => req'[s].cur + 1 # x.version
    BY <1>2, <1>3, <1>6, <1>7 DEF NumbersBehind
  <1>9. CASE Insertable(f, req[r].cur + 1)
    <2>1. /\ rows' = rows \cup {y}
          /\ y.file = f /\ y.version = req[r].cur + 1
      BY <1>0, <1>1, <1>9 DEF RollbackInsert, NewRow
    <2>2. At(r, "rb_insert") /\ Existing(f)
      BY <1>9 DEF RollbackInsert, Insertable
    <2>3. f \notin regressed => y.version <= files[f].cur
      BY <1>0, <1>2, <1>5, <2>1, <2>2
         DEF IndInv, RollbackInv, RollbackReadInv, Sound
    <2>4. ASSUME NEW s \in Requests, At(s, "rb_insert")', req'[s].file = f,
                 Sound(f)'
          PROVE  req'[s].cur + 1 # y.version
      <3>1. At(s, "rb_insert") /\ req'[s] = req[s] /\ s # r /\ Sound(f)
        BY <1>5, <1>6, <1>7, <2>4
      <3>2. req[s].cur # req[r].cur
        BY <1>0, <1>2, <2>2, <2>4, <3>1 DEF IndInv, RollbackInv, RollbackClaimsDiffer
      <3> QED
        BY <1>2, <2>1, <3>1, <3>2
    <2>5. ASSUME NEW x \in issued, x.file \notin regressed, x.file = y.file
          PROVE  x.version # y.version
      BY <1>0, <1>2, <2>1, <2>2, <2>5 DEF NumbersBehind, Sound
    <2> QED
      BY <1>3, <1>5, <1>6, <1>8, <2>1, <2>3, <2>4, <2>5, FreshNumber
  <1>10. CASE ~Insertable(f, req[r].cur + 1)
    <2>1. issued' = issued
      BY <1>0, <1>2, <1>10 DEF RollbackInsert
    <2>2. NumbersBehind'
      BY <1>3, <1>8, <2>1 DEF NumbersBehind
    <2> QED
      BY <1>2, <1>3, <2>1, <2>2 DEF NumbersFinal
  <1> QED
    BY <1>9, <1>10

LEMMA HistoryInvInit ==
  ASSUME HistoryInit PROVE HistoryInv
  <1>1. IndInv
    BY InitInv DEF HistoryInit
  <1> QED
    BY <1>1 DEF HistoryInit, Init, HistoryInv, NumbersBehind, NumbersFinal

LEMMA HistoryInvNext ==
  ASSUME HistoryInv, HistoryNext PROVE HistoryInv'
  <1>1. IndInv'
    BY InvStep DEF HistoryInv, HistoryNext
  <1>2. Next /\ issued' = issued \cup rows'
    BY DEF HistoryNext
  <1>3. NumbersBehind' /\ NumbersFinal'
    BY <1>2, QuietHistory, UpsertNewHistory, UpsertChangedHistory,
       RollbackUpdateHistory, RollbackInsertHistory
  <1> QED
    BY <1>1, <1>2, <1>3, NumbersKept

LEMMA HistoryInvStutter ==
  ASSUME HistoryInv, UNCHANGED historyVars PROVE HistoryInv'
  <1>1. IndInv'
    BY InvStep DEF HistoryInv, historyVars
  <1> QED
    BY <1>1 DEF HistoryInv, historyVars, vars, NumbersBehind, NumbersFinal, Drawn,
       Sound, Existing, At, Row

\* The history variable only watches: what holds of Spec holds of HistorySpec.
LEMMA HistoriesAreRuns == HistorySpec => Spec
  <1>1. HistoryInit => Init
    BY DEF HistoryInit
  <1>2. [HistoryNext]_historyVars => [Next]_vars
    BY DEF HistoryNext, historyVars
  <1> QED
    BY <1>1, <1>2, PTL DEF HistorySpec, Spec

\* HistoryInv is an invariant, for every number of requests and any bounds.
THEOREM HistoryInvariant == HistorySpec => []HistoryInv
  <1>1. HistoryInit => HistoryInv
    BY HistoryInvInit
  <1>2. HistoryInv /\ [HistoryNext]_historyVars => HistoryInv'
    BY HistoryInvNext, HistoryInvStutter
  <1> QED
    BY <1>1, <1>2, PTL DEF HistorySpec

\* No number that was ever in use is ahead of the file's counter, or claimed
\* (upsert_file_record, rollback).
THEOREM NumbersStayBehind == HistorySpec => []NumbersBehind
  <1>1. HistoryInv => NumbersBehind
    BY DEF HistoryInv
  <1> QED
    BY <1>1, HistoryInvariant, PTL

\* A version number of a file never stands for two contents, over all time
\* (upsert_file_record, rollback, prune_versions).
THEOREM NumbersAreFinal == HistorySpec => []NumbersFinal
  <1>1. HistoryInv => NumbersFinal
    BY DEF HistoryInv
  <1> QED
    BY <1>1, HistoryInvariant, PTL

-----------------------------------------------------------------------------
(* Passes of the pruning job.                                               *)

\* A set mapped one to one to the numbers below n has at most n members.
LEMMA CountBelow ==
  ASSUME NEW S, NEW n \in Nat, NEW m \in [S -> 0..(n - 1)],
         \A x, y \in S : m[x] = m[y] => x = y
  PROVE  IsFiniteSet(S) /\ Cardinality(S) <= n
  <1>1. IsFiniteSet(0..(n - 1)) /\ Cardinality(0..(n - 1)) = n
    BY FS_Interval
  <1>2. m \in Injection(S, 0..(n - 1))
    BY DEF Injection, IsInjective
  <1> QED
    BY <1>1, <1>2, FS_Injection

\* A file has finitely many versions, and different ones at different places of
\* the list.
LEMMA FileRows ==
  ASSUME TypeOK, KeysUnique, NEW f
  PROVE  /\ IsFiniteSet(RowsOf(f))
         /\ \A x \in RowsOf(f) : Rank(x) \in Nat
         /\ \A x, z \in RowsOf(f) : x.version < z.version => Rank(z) < Rank(x)
  <1> DEFINE Above(x) == {y \in rows : y.file = x.file /\ y.version > x.version}
  <1>1. \A x \in RowsOf(f) : x.version \in 1..MaxVersion
    BY DEF TypeOK, RowsOf, Row
  <1>2. IsFiniteSet(RowsOf(f))
    <2> DEFINE m == [x \in RowsOf(f) |-> x.version - 1]
    <2>1. m \in [RowsOf(f) -> 0..(MaxVersion - 1)]
      BY <1>1, BoundsAssumption
    <2>2. \A x, y \in RowsOf(f) : m[x] = m[y] => x = y
      BY <1>1, BoundsAssumption DEF KeysUnique, RowsOf
    <2> HIDE DEF m
    <2> QED
      BY <2>1, <2>2, BoundsAssumption, CountBelow
  <1>3. ASSUME NEW x \in RowsOf(f)
        PROVE  /\ IsFiniteSet(Above(x)) /\ Rank(x) = Cardinality(Above(x))
               /\ Rank(x) \in Nat
    <2>1. Above(x) \in SUBSET RowsOf(f)
      BY DEF RowsOf
    <2>2. IsFiniteSet(Above(x))
      BY <1>2, <2>1, FS_Subset
    <2>3. Rank(x) = Cardinality(Above(x))
      BY DEF Rank
    <2> QED
      BY <2>2, <2>3, FS_CardinalityType
  <1>4. ASSUME NEW x \in RowsOf(f), NEW z \in RowsOf(f), x.version < z.version
        PROVE  Rank(z) < Rank(x)
    <2>1. Above(z) \subseteq Above(x)
      <3> SUFFICES ASSUME NEW y \in Above(z) PROVE y \in Above(x)
        OBVIOUS
      <3>1. y \in RowsOf(f)
        BY DEF RowsOf
      <3> QED
        BY <1>1, <1>4, <3>1 DEF RowsOf
    <2>2. z \in Above(x) /\ z \notin Above(z)
      BY <1>1, <1>4 DEF RowsOf
    <2>3. Above(x) # Above(z)
      BY <2>2
    <2> HIDE DEF Above
    <2>4. Cardinality(Above(z)) <= Cardinality(Above(x))
          /\ Cardinality(Above(z)) # Cardinality(Above(x))
      BY <1>3, <2>1, <2>3, FS_Subset
    <2> QED
      BY <1>3, <2>4
  <1> QED
    BY <1>2, <1>3, <1>4

\* The first n places of the list hold at most n versions.
LEMMA FewRanked ==
  ASSUME TypeOK, KeysUnique, NEW f, NEW n \in Nat
  PROVE  LET First == {x \in RowsOf(f) : Rank(x) < n}
         IN  IsFiniteSet(First) /\ Cardinality(First) <= n
  <1> DEFINE First == {x \in RowsOf(f) : Rank(x) < n}
             m == [x \in First |-> Rank(x)]
  <1>1. m \in [First -> 0..(n - 1)]
    BY FileRows
  <1>2. ASSUME NEW x \in First, NEW y \in First, Rank(x) = Rank(y)
        PROVE  x = y
    <2>1. x.version \in Int /\ y.version \in Int
      BY DEF TypeOK, RowsOf, Row
    <2>2. ~(x.version < y.version) /\ ~(y.version < x.version)
      BY <1>2, FileRows
    <2>3. x.version = y.version
      BY <2>1, <2>2
    <2> QED
      BY <2>3 DEF KeysUnique, RowsOf
  <1>3. \A x, y \in First : m[x] = m[y] => x = y
    BY <1>2
  <1> HIDE DEF m, First
  <1>4. IsFiniteSet(First) /\ Cardinality(First) <= n
    BY <1>1, <1>3, CountBelow
  <1> QED
    BY <1>4 DEF First

\* What PruneScan spares is within the limits of the pass.
LEMMA ScanTrims ==
  ASSUME PassInv, NEW t \in prune.todo, t.file \in listed
  PROVE  WithinLimits(t.file, RowsOf(t.file) \ Doomed(t))
  <1> DEFINE f == t.file
             Kept == RowsOf(f) \ Doomed(t)
             First == {x \in RowsOf(f) : Rank(x) < prune.keep}
             Head == {x \in RowsOf(f) : x.version = t.cur}
  <1>1. TypeOK /\ KeysUnique
    BY DEF PassInv, PassSettles, IndInv, TableInv
  <1>2. /\ prune.keep \in Nat \ {0} /\ prune.cutoff \in Int /\ t.cur \in Int
        /\ \A x \in RowsOf(f) : x.version \in Int /\ x.created \in Int
    BY <1>1, BoundsAssumption DEF TypeOK, RowsOf, Row
  <1>3. /\ IsFiniteSet(RowsOf(f))
        /\ \A x \in RowsOf(f) : Rank(x) \in Nat
        /\ \A x, z \in RowsOf(f) : x.version < z.version => Rank(z) < Rank(x)
    BY <1>1, FileRows
  <1>4. IsFiniteSet(First) /\ Cardinality(First) <= prune.keep
    BY <1>1, <1>2, FewRanked
  <1>5. Cardinality(First) \in Nat
    BY <1>4, FS_CardinalityType
  <1>6. \A x \in Kept : \/ x.version = t.cur
                        \/ Rank(x) < prune.keep /\ x.created >= prune.cutoff
    BY <1>2, <1>3 DEF Doomed
  <1>7. Kept \subseteq First \cup Head
    BY <1>6
  <1>8. f \notin regressed => \A y \in RowsOf(f) : y.version <= t.cur
    BY DEF PassInv, PassSettles, PassTodo
  <1>9. f \notin regressed =>
          \A x \in Kept : x.created < prune.cutoff =>
            \A y \in RowsOf(f) : y.version <= x.version
    BY <1>2, <1>6, <1>8
  <1>10. CASE f \notin regressed
    <2>1. Head \subseteq First
      <3> SUFFICES ASSUME NEW x \in Head PROVE Rank(x) = 0
        BY <1>2
      <3>1. {y \in rows : y.file = x.file /\ y.version > x.version} = {}
        BY <1>2, <1>8, <1>10 DEF RowsOf
      <3> QED
        BY <3>1, FS_EmptySet DEF Rank
    <2>2. Kept \in SUBSET First
      BY <1>7, <2>1
    <2> HIDE DEF Kept, First
    <2>3. Cardinality(Kept) <= Cardinality(First) /\ Cardinality(Kept) \in Nat
      BY <1>4, <2>2, FS_Subset, FS_CardinalityType
    <2>4. Cardinality(Kept) <= Allowed(f)
      BY <1>2, <1>4, <1>5, <1>10, <2>3 DEF Allowed
    <2> QED
      BY <1>9, <2>4 DEF WithinLimits, Kept
  <1>11. CASE f \in regressed
    <2>1. \A x, y \in Head : x = y
      BY <1>1 DEF KeysUnique, RowsOf
    <2>2. \E c : Head \subseteq {c}
      BY <2>1
    <2>3. PICK c : Head \subseteq {c}
      BY <2>2
    <2>4. Kept \in SUBSET (First \cup {c})
      BY <1>7, <2>3
    <2> HIDE DEF Kept, First
    <2>5. /\ IsFiniteSet(First \cup {c})
          /\ Cardinality(First \cup {c}) <= Cardinality(First) + 1
          /\ Cardinality(First \cup {c}) \in Nat
      <3>1. /\ IsFiniteSet(First \cup {c})
            /\ Cardinality(First \cup {c})
                 = IF c \in First THEN Cardinality(First) ELSE Cardinality(First) + 1
        BY <1>4, FS_AddElement
      <3> QED
        BY <1>5, <3>1
    <2>6. Cardinality(Kept) <= Cardinality(First \cup {c}) /\ Cardinality(Kept) \in Nat
      BY <2>4, <2>5, FS_Subset, FS_CardinalityType
    <2>7. Cardinality(Kept) <= Allowed(f)
      BY <1>2, <1>4, <1>5, <1>11, <2>5, <2>6 DEF Allowed
    <2> QED
      BY <1>11, <2>7 DEF WithinLimits, Kept
  <1> QED
    BY <1>10, <1>11

\* Within the limits once, a file stays within them while no version is added.
LEMMA LimitsKept ==
  ASSUME PassInv, NEW f, NEW S, S \subseteq RowsOf(f), WithinLimits(f, S),
         NEW T, T \subseteq S, RowsOf(f)' \subseteq RowsOf(f),
         regressed \subseteq regressed',
         prune'.keep = prune.keep, prune'.cutoff = prune.cutoff
  PROVE  \A g : g = f => WithinLimits(g, T)'
  <1> SUFFICES /\ Cardinality(T) <= Allowed(f)'
               /\ f \notin regressed' =>
                    \A x \in T : x.created < prune'.cutoff =>
                      \A y \in RowsOf(f)' : y.version <= x.version
    BY DEF WithinLimits
  <1>1. TypeOK /\ KeysUnique
    BY DEF PassInv, PassSettles, IndInv, TableInv
  <1>2. prune.keep \in Nat
    BY <1>1 DEF TypeOK
  <1>3. Allowed(f) <= Allowed(f)' /\ Allowed(f) \in Nat /\ Allowed(f)' \in Nat
    BY <1>2 DEF Allowed
  <1>4. IsFiniteSet(S)
    BY <1>1, FileRows, FS_Subset
  <1>5. Cardinality(T) <= Cardinality(S) /\ Cardinality(T) \in Nat
        /\ Cardinality(S) \in Nat
    BY <1>4, FS_Subset, FS_CardinalityType
  <1>6. Cardinality(T) <= Allowed(f)'
    BY <1>3, <1>5 DEF WithinLimits
  <1> QED
    BY <1>6 DEF WithinLimits

\* All steps but those of the job leave it alone, and no stale rollback is
\* forgotten.
LEMMA OutsideJob ==
  ASSUME TypeOK, Next
  PROVE  /\ PruneStep \/ prune' = prune
         /\ regressed \subseteq regressed'
  <1> USE DEF ghosts
  <1>1. ASSUME NEW r \in Requests, UploadStep(r)
        PROVE  prune' = prune /\ regressed' = regressed
    BY <1>1 DEF UploadStep, UploadStart, UpsertNew, UpsertSame, UpsertChanged,
                UpsertRejected
  <1>2. ASSUME NEW r \in Requests, RollbackStep(r)
        PROVE  prune' = prune /\ regressed \subseteq regressed'
    BY <1>2 DEF RollbackStep, RollbackStart, RollbackTarget, RollbackUpdate,
                RollbackInsert
  <1>3. ASSUME NEW r \in Requests, ArchiveStep(r)
        PROVE  prune' = prune /\ regressed' = regressed
    BY <1>3 DEF ArchiveStep, RestoreStart, DeletePermanentStart, RestoreUpdate,
                WipeStart, Purge, PurgeVersions, PurgeFile
  <1>4. CASE PruneStep
    BY <1>4 DEF PruneStep, PruneStart, PruneScan, PruneDelete, PruneEnd, PruneAbort
  <1>5. ASSUME \/ \E f \in FileId : Archive(f) \/ (\E h \in Hash : FixHash(f, h))
               \/ RestoreAll \/ Tick
               \/ \E r \in Requests : StoreBlob(r) \/ Abort(r)
        PROVE  prune' = prune /\ regressed' = regressed
    BY <1>5 DEF Archive, FixHash, RestoreAll, Tick, StoreBlob, Abort
  <1> QED
    BY <1>1, <1>2, <1>3, <1>4, <1>5 DEF Next, TableStep

\* Once listed, a file is done as soon as it is no longer in the list.
LEMMA JobUndisturbed ==
  ASSUME PassInv, Next, prune' = prune,
         listed' = {f \in listed : RowsOf(f)' \subseteq RowsOf(f)}
  PROVE  PassTodo' /\ PassDone'
  <1>1. regressed \subseteq regressed'
    BY OutsideJob DEF PassInv, PassSettles, IndInv
  <1>2. ASSUME NEW t \in prune.todo, t.file \in listed', t.file \notin regressed',
               NEW x \in RowsOf(t.file)'
        PROVE  x.version <= t.cur
    <2>1. x \in RowsOf(t.file) /\ t.file \in listed /\ t.file \notin regressed
      BY <1>1, <1>2
    <2> QED
      BY <2>1 DEF PassInv, PassSettles, PassTodo
  <1>3. PassTodo'
    BY <1>2 DEF PassTodo
  <1>4. ASSUME NEW f \in listed', prune.pc = "run",
               ~(\E t \in prune.todo : t.file = f)
        PROVE  WithinLimits(f, RowsOf(f) \ prune.doomed)'
    <2>1. f \in listed /\ RowsOf(f)' \subseteq RowsOf(f)
      BY <1>4
    <2>2. WithinLimits(f, RowsOf(f) \ prune.doomed)
      BY <1>4, <2>1 DEF PassInv, PassSettles, PassDone
    <2>3. \A T : T \subseteq RowsOf(f) \ prune.doomed => WithinLimits(f, T)'
      BY <1>1, <2>1, <2>2, LimitsKept
    <2> QED
      BY <2>1, <2>3
  <1>5. PassDone'
    BY <1>4 DEF PassDone
  <1> QED
    BY <1>3, <1>5

\* Where a pass begins.
LEMMA PassStarts ==
  ASSUME PassInv, NEW l \in Limits, PruneStart(l),
         listed' = {t.file : t \in prune'.todo}
  PROVE  listed' \subseteq FileId /\ PassTodo' /\ PassDone'
  <1>1. TypeOK /\ CurrentIsNewest
    BY DEF PassInv, PassSettles, IndInv, TableInv
  <1>2. prune'.todo = {[file |-> f, cur |-> files[f].cur] : f \in
                         {g \in FileId : /\ Existing(g)
                                         /\ l.keepArchive => g \notin Archived}}
    BY DEF PruneStart
  <1>3. \A t \in prune'.todo : t.file \in FileId /\ t.cur = files[t.file].cur
    BY <1>2
  <1>4. rows' = rows /\ regressed' = regressed
    BY DEF PruneStart, dbvars, ghosts
  <1>5. PassTodo'
    BY <1>1, <1>3, <1>4 DEF PassTodo, CurrentIsNewest, RowsOf
  <1>6. PassDone'
    BY DEF PassDone
  <1> QED
    BY <1>3, <1>5, <1>6

\* The next file is scanned.
LEMMA PassScans ==
  ASSUME PassInv, PruneScan, listed' = {f \in listed : RowsOf(f)' \subseteq RowsOf(f)}
  PROVE  PassTodo' /\ PassDone'
  <1>1. PICK t \in prune.todo :
          prune' = [prune EXCEPT !.todo = @ \ {t}, !.doomed = Doomed(t)]
    BY DEF PruneScan
  <1>2. rows' = rows /\ regressed' = regressed /\ prune.doomed = {}
        /\ prune.pc = "run"
    BY DEF PruneScan, dbvars, ghosts
  <1>3. /\ prune'.todo = prune.todo \ {t} /\ prune'.doomed = Doomed(t)
        /\ prune'.keep = prune.keep /\ prune'.cutoff = prune.cutoff
    BY <1>1 DEF PassInv, PassSettles, IndInv, TypeOK
  <1>4. \A f : RowsOf(f)' = RowsOf(f)
    BY <1>2 DEF RowsOf
  <1>5. listed' = listed
    BY <1>4
  <1>6. PassTodo'
    BY <1>2, <1>3, <1>4, <1>5 DEF PassInv, PassSettles, PassTodo
  <1>7. ASSUME NEW f \in listed, ~(\E u \in prune.todo \ {t} : u.file = f)
        PROVE  WithinLimits(f, RowsOf(f) \ prune.doomed)'
    <2>1. PICK D : D = Doomed(t)
      OBVIOUS
    <2>2. WithinLimits(f, RowsOf(f) \ D)
      <3>1. CASE t.file = f
        BY <1>7, <2>1, <3>1, ScanTrims
      <3>2. CASE t.file # f
        <4>1. WithinLimits(f, RowsOf(f))
          BY <1>2, <1>7, <3>2 DEF PassInv, PassSettles, PassDone
        <4>2. RowsOf(f) \ D = RowsOf(f)
          BY <2>1, <3>2 DEF Doomed, RowsOf
        <4> QED
          BY <4>1, <4>2
      <3> QED
        BY <3>1, <3>2
    <2>3. \A T : T \subseteq RowsOf(f) \ D => WithinLimits(f, T)'
      BY <1>2, <1>3, <1>4, <2>2, LimitsKept
    <2>4. RowsOf(f)' \ prune'.doomed \subseteq RowsOf(f) \ D
      BY <1>3, <1>4, <2>1
    <2> QED
      BY <2>3, <2>4
  <1>8. PassDone'
    BY <1>3, <1>5, <1>7 DEF PassDone
  <1> QED
    BY <1>6, <1>8

\* A doomed row is deleted.
LEMMA PassDeletes ==
  ASSUME PassInv, PruneDelete, listed' = {f \in listed : RowsOf(f)' \subseteq RowsOf(f)}
  PROVE  PassTodo' /\ PassDone'
  <1>1. PICK y \in prune.doomed :
          rows' = rows \ {y} /\ prune' = [prune EXCEPT !.doomed = @ \ {y}]
    BY DEF PruneDelete
  <1>2. regressed' = regressed /\ prune.pc = "run"
    BY DEF PruneDelete, ghosts
  <1>3. /\ prune'.todo = prune.todo /\ prune'.doomed = prune.doomed \ {y}
        /\ prune'.keep = prune.keep /\ prune'.cutoff = prune.cutoff
    BY <1>1 DEF PassInv, PassSettles, IndInv, TypeOK
  <1>4. \A f : RowsOf(f)' = RowsOf(f) \ {y}
    BY <1>1 DEF RowsOf
  <1>5. listed' = listed
    BY <1>4
  <1>6. PassTodo'
    BY <1>2, <1>3, <1>4, <1>5 DEF PassInv, PassSettles, PassTodo
  <1>7. ASSUME NEW f \in listed, ~(\E u \in prune.todo : u.file = f)
        PROVE  WithinLimits(f, RowsOf(f) \ prune.doomed)'
    <2>1. WithinLimits(f, RowsOf(f) \ prune.doomed)
      BY <1>2, <1>7 DEF PassInv, PassSettles, PassDone
    <2>2. \A T : T \subseteq RowsOf(f) \ prune.doomed => WithinLimits(f, T)'
      BY <1>2, <1>3, <1>4, <2>1, LimitsKept
    <2>3. RowsOf(f)' \ prune'.doomed \subseteq RowsOf(f) \ prune.doomed
      BY <1>3, <1>4
    <2> QED
      BY <2>2, <2>3
  <1>8. PassDone'
    BY <1>3, <1>5, <1>7 DEF PassDone
  <1> QED
    BY <1>6, <1>8

LEMMA PassInvInit ==
  ASSUME PassInit PROVE PassInv
  <1>1. IndInv
    BY InitInv DEF PassInit, HistoryInit
  <1> QED
    BY <1>1 DEF PassInit, HistoryInit, Init, NoPrune, PassInv, PassSettles, PassTodo, PassDone

LEMMA PassInvNext ==
  ASSUME PassInv, PassNext PROVE PassInv'
  <1>1. IndInv'
    BY InvStep DEF PassInv, PassSettles, PassNext, HistoryNext
  <1> SUFFICES listed' \subseteq FileId /\ PassTodo' /\ PassDone'
    BY <1>1 DEF PassInv, PassSettles
  <1> DEFINE Shrink == listed' = {f \in listed : RowsOf(f)' \subseteq RowsOf(f)}
  <1>2. Shrink => listed' \subseteq FileId
    BY DEF PassInv, PassSettles
  <1>3. CASE \E l \in Limits : PruneStart(l)
    <2>1. listed' = {t.file : t \in prune'.todo}
      BY <1>3 DEF PassNext, PruneStart
    <2> QED
      BY <1>3, <2>1, PassStarts
  <1>4. CASE PruneScan
    <2>1. Shrink
      BY <1>4 DEF PassNext, PruneScan
    <2> QED
      BY <1>2, <1>4, <2>1, PassScans
  <1>5. CASE PruneDelete
    <2>1. Shrink
      BY <1>5 DEF PassNext, PruneDelete
    <2> QED
      BY <1>2, <1>5, <2>1, PassDeletes
  <1>6. CASE PruneEnd \/ PruneAbort
    <2>1. listed' = {} /\ prune'.pc = "idle" /\ prune'.todo = {}
      BY <1>6 DEF PassNext, PruneEnd, PruneAbort, NoPrune
    <2> QED
      BY <2>1 DEF PassTodo, PassDone
  <1>7. CASE prune' = prune
    <2>1. CASE prune.pc = "idle"
      <3>1. listed' = {} /\ prune'.todo = prune.todo /\ prune'.pc = "idle"
        BY <1>7, <2>1 DEF PassNext
      <3> QED
        BY <3>1 DEF PassTodo, PassDone
    <2>2. CASE prune.pc # "idle"
      <3>1. Next /\ Shrink
        BY <1>7, <2>2 DEF PassNext, HistoryNext
      <3> QED
        BY <1>2, <1>7, <3>1, JobUndisturbed
    <2> QED
      BY <2>1, <2>2
  <1>8. PruneStep \/ prune' = prune
    BY OutsideJob DEF PassInv, PassSettles, IndInv, PassNext, HistoryNext
  <1> QED
    BY <1>3, <1>4, <1>5, <1>6, <1>7, <1>8 DEF PruneStep

LEMMA PassInvStutter ==
  ASSUME PassInv, UNCHANGED passVars PROVE PassInv'
  <1>1. IndInv'
    BY InvStep DEF PassInv, PassSettles, passVars, historyVars
  <1> QED
    BY <1>1 DEF PassInv, PassSettles, passVars, historyVars, vars, PassTodo,
       PassDone, WithinLimits, Allowed, RowsOf

\* What holds of HistorySpec, and so of Spec, holds of PassSpec: listed only watches.
LEMMA PassesAreRuns == PassSpec => HistorySpec
  <1>1. PassInit => HistoryInit
    BY DEF PassInit
  <1>2. [PassNext]_passVars => [HistoryNext]_historyVars
    BY DEF PassNext, passVars
  <1> QED
    BY <1>1, <1>2, PTL DEF PassSpec, HistorySpec

\* PassInv holds throughout a pass, for every list and any settings.
THEOREM PassInvariant == PassSpec => []PassInv
  <1>1. PassInit => PassInv
    BY PassInvInit
  <1>2. PassInv /\ [PassNext]_passVars => PassInv'
    BY PassInvNext, PassInvStutter
  <1> QED
    BY <1>1, <1>2, PTL DEF PassSpec

\* A listed file is, throughout the pass, still to be scanned or as good as
\* trimmed (prune_versions).
THEOREM PassesSettle == PassSpec => []PassSettles
  <1>1. PassInv => PassSettles
    BY DEF PassInv
  <1> QED
    BY <1>1, PassInvariant, PTL

\* A pass that comes to its end has trimmed every listed file that gained no
\* version meanwhile (prune_versions).
THEOREM PassesTrim == PassSpec => []PassTrims
  <1>1. PassInv => PassTrims
    <2> SUFFICES ASSUME PassInv, prune.pc = "run", prune.todo = {}, prune.doomed = {},
                        NEW f \in listed
                 PROVE  WithinLimits(f, RowsOf(f))
      BY DEF PassTrims
    <2>1. WithinLimits(f, RowsOf(f) \ {})
      BY DEF PassInv, PassSettles, PassDone
    <2>2. RowsOf(f) \ {} = RowsOf(f)
      OBVIOUS
    <2> QED
      BY <2>1, <2>2
  <1> QED
    BY <1>1, PassInvariant, PTL

=============================================================================
