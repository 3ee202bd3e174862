-------------------------- MODULE SyncRounds_proofs --------------------------
(* Proofs about SyncRounds.                                                 *)
EXTENDS SyncRounds, Sync_proofs

-----------------------------------------------------------------------------
(* What a step that has to do with another path, or another device, keeps.  *)

\* Everything Settling(d, p) reads is as before, but for the row while a delta
\* is on its way, and for uploads nobody waits for.
LEMMA SettlingKept ==
  ASSUME NEW d \in Device, NEW p \in Path, Settling(d, p),
         sess'[d].pc = sess[d].pc, sess'[d].plan[p] = sess[d].plan[p],
         sess'[d].manifest = sess[d].manifest, local'[d][p] = local[d][p],
         sess[d].pc = "delta" \/ row'[p] = row[p],
         \A u \in uploads : u.held /\ u.dev = d /\ u.path = p => u \in uploads'
  PROVE  Settling(d, p)'
  <1>1. ASSUME sess[d].pc = "idle" PROVE Agree(d, p)'
    BY <1>1 DEF Settling, Agree
  <1>2. ASSUME sess[d].pc = "delta" PROVE (sess[d].manifest[p] = local[d][p])'
    BY <1>2 DEF Settling
  <1>3. ASSUME sess[d].pc \in {"apply", "complete"} PROVE OnTheWay(d, p)'
    <2>1. OnTheWay(d, p) /\ row'[p] = row[p]
      BY <1>3 DEF Settling
    <2>2. ASSUME sess[d].plan[p].do = "sent"
          PROVE  \E u \in uploads' : /\ u.held /\ u.dev = d /\ u.path = p
                                     /\ u.hash = local'[d][p].hash
      BY <2>1, <2>2 DEF OnTheWay
    <2>3. sess'[d].plan[p].do = "none" => Agree(d, p)'
      BY <2>1 DEF OnTheWay, Agree
    <2> QED
      BY <2>1, <2>2, <2>3 DEF OnTheWay
  <1> QED
    BY <1>1, <1>2, <1>3 DEF Settling

\* When an instruction has been followed, only agreement counts.
LEMMA SettlingDone ==
  ASSUME NEW d \in Device, NEW p \in Path,
         sess'[d].pc \in {"apply", "complete"},
         sess'[d].plan[p] = NoInstruction, Agree(d, p)'
  PROVE  Settling(d, p)'
  <1>1. sess'[d].plan[p].do = "none"
    BY DEF NoInstruction
  <1>2. OnTheWay(d, p)'
    BY <1>1 DEF OnTheWay
  <1> QED
    BY <1>2 DEF Settling

-----------------------------------------------------------------------------
(* One lemma for each kind of step.  The device d is in a round it began     *)
(* before the step, and p is undisturbed by the step.                        *)

Undisturbed(d, p) ==
  /\ Settling(d, p) /\ ~Touched(d, p) /\ ~Overtaken(d, p) /\ ~SessionLost(d)

\* A step that leaves sessions and uploads alone leaves d with what it had.
LEMMA QuietStep ==
  ASSUME NEW d \in Device, NEW p \in Path, Undisturbed(d, p),
         UNCHANGED <<sess, uploads>>
  PROVE  Settling(d, p)'
  <1>1. local'[d][p] = local[d][p]
    BY DEF Undisturbed, Touched
  <1>2. sess[d].pc = "delta" \/ row'[p] = row[p]
    BY DEF Undisturbed, Overtaken
  <1> QED
    BY <1>1, <1>2, SettlingKept DEF Undisturbed

\* A step of another device that ends none of d's uploads.
LEMMA OtherDevice ==
  ASSUME NEW d \in Device, NEW p \in Path, Undisturbed(d, p),
         sess'[d] = sess[d], local'[d][p] = local[d][p],
         \A u \in uploads : u.held /\ u.dev = d /\ u.path = p => u \in uploads'
  PROVE  Settling(d, p)'
  <1>1. sess[d].pc = "delta" \/ row'[p] = row[p]
    BY DEF Undisturbed, Overtaken
  <1> QED
    BY <1>1, SettlingKept DEF Undisturbed

\* The list a device sends is what it holds.
LEMMA StartSettles ==
  ASSUME TypeOK, NEW d \in Device, NEW p \in Path, SyncStart(d)
  PROVE  Settling(d, p)'
  <1>1. sess'[d].pc = "delta" /\ sess'[d].manifest = local[d]
    BY StartEffect
  <1>2. local' = local
    BY DEF SyncStart
  <1> QED
    BY <1>1, <1>2 DEF Settling

\* The delta engine asks for what is missing, and says nothing only where the
\* list and the row agree already.
LEMMA InstructSettles ==
  ASSUME NEW e \in Entry, NEW r \in Row, NEW do, do = Instruct(e, r).do
  PROVE  /\ do = "none" => e.hash = IF r.status = "live" THEN r.hash ELSE None
         /\ do = "upload" => e.hash # None
         /\ do # "sent"
         /\ do \in {"download", "conflict"} => r.status = "live"
         /\ do = "delete" => r.status # "live"
  <1>1. do = IF e.hash = None THEN MissingHere(r) ELSE ActionFor(e, r)
    BY DEF Instruct
  <1>2. r.status \in {"none", "live", "deleted"}
    BY DEF Row
  <1>3. CASE e.hash = None
    BY <1>1, <1>2, <1>3 DEF MissingHere
  <1>4. CASE e.hash # None /\ r.status = "none"
    BY <1>1, <1>4 DEF ActionFor
  <1>5. CASE e.hash # None /\ r.status = "deleted"
    BY <1>1, <1>5 DEF ActionFor
  <1>6. CASE e.hash # None /\ r.status = "live"
    BY <1>1, <1>6 DEF ActionFor
  <1> QED
    BY <1>2, <1>3, <1>4, <1>5, <1>6

LEMMA LoadSettles ==
  ASSUME TypeOK, NEW d \in Device, NEW p \in Path, Undisturbed(d, p),
         DeltaLoad(d)
  PROVE  Settling(d, p)'
  <1> DEFINE do == sess'[d].plan[p].do
  <1>1. sess'[d].pc = "apply" /\ do = Instruct(sess[d].manifest[p], row[p]).do
    BY LoadEffect
  <1>2. sess[d].manifest[p] = local[d][p]
    BY DEF DeltaLoad, Undisturbed, Settling
  <1>3. row' = row /\ local' = local /\ uploads' = uploads
    BY DEF DeltaLoad, server
  <1>4. local[d][p] \in Entry /\ row[p] \in Row
    BY DEF TypeOK
  <1>5. /\ do = "none" =>
             local[d][p].hash = IF row[p].status = "live" THEN row[p].hash ELSE None
        /\ do = "upload" => local[d][p].hash # None
        /\ do # "sent"
        /\ do \in {"download", "conflict"} => row[p].status = "live"
        /\ do = "delete" => row[p].status # "live"
    <2> HIDE DEF do
    <2> QED
      BY <1>1, <1>2, <1>4, InstructSettles
  <1>6. OnTheWay(d, p)'
    BY <1>3, <1>5 DEF OnTheWay, Agree
  <1> QED
    BY <1>1, <1>6 DEF Settling

\* Deleting a row on behalf of d, or of another device.
LEMMA DeleteSettles ==
  ASSUME TypeOK, NEW d \in Device, NEW p \in Path, Undisturbed(d, p),
         NEW e \in Device, NEW q \in Path, DeltaDelete(e, q)
  PROVE  Settling(d, p)'
  <1>1. /\ sess'[d].pc = sess[d].pc
        /\ sess'[d].manifest = sess[d].manifest
        /\ sess'[d].plan = sess[d].plan
    BY TodoEffect
  <1>2. local' = local /\ uploads' = uploads
    BY DEF DeltaDelete
  <1>3. sess[d].pc = "delta" \/ row'[p] = row[p]
    BY <1>1 DEF Undisturbed, Overtaken
  <1> QED
    BY <1>1, <1>2, <1>3, SettlingKept DEF Undisturbed

\* A step that follows an instruction for another path, or of another device.
LEMMA OthersFollowed ==
  ASSUME TypeOK, NEW d \in Device, NEW p \in Path, Undisturbed(d, p),
         NEW e \in Device, NEW q \in Path, e # d \/ q # p, Done(e, q),
         local'[d][p] = local[d][p], uploads' = uploads, row' = row
  PROVE  Settling(d, p)'
  <1>1. /\ sess'[d].pc = sess[d].pc
        /\ sess'[d].manifest = sess[d].manifest
        /\ sess'[d].plan[p] = sess[d].plan[p]
    BY DoneEffect DEF TypeOK
  <1> QED
    BY <1>1, SettlingKept DEF Undisturbed

\* What a device received, it holds, and no other path or device is touched.
LEMMA ReceiveSettles ==
  ASSUME TypeOK, NEW d \in Device, NEW p \in Path, Undisturbed(d, p),
         NEW e \in Device, NEW q \in Path, NEW x \in Entry, Receive(e, q, x),
         sess[e].pc = "apply",
         e = d /\ q = p =>
           x.hash = IF row[p].status = "live" THEN row[p].hash ELSE None
  PROVE  Settling(d, p)'
  <1>1. Done(e, q) /\ uploads' = uploads /\ row' = row
    BY DEF Receive, server
  <1>2. local' = [local EXCEPT ![e][q] = x]
    BY DEF Receive
  <1>3. CASE e = d /\ q = p
    <2>1. sess'[d].pc = "apply" /\ sess'[d].plan[p] = NoInstruction
      BY <1>1, <1>3, DoneEffect DEF TypeOK
    <2>2. local'[d][p] = x
      BY <1>2, <1>3 DEF TypeOK
    <2>3. Agree(d, p)'
      BY <1>1, <1>3, <2>2 DEF Agree
    <2> QED
      BY <2>1, <2>3, SettlingDone
  <1>4. CASE e # d \/ q # p
    <2>1. local'[d][p] = local[d][p]
      BY <1>2, <1>4 DEF TypeOK
    <2> QED
      BY <1>1, <1>4, <2>1, OthersFollowed
  <1> QED
    BY <1>3, <1>4

LEMMA TransfersSettle ==
  ASSUME TypeOK, NEW d \in Device, NEW p \in Path, Undisturbed(d, p),
         NEW e \in Device, NEW q \in Path,
         Download(e, q) \/ DownloadFails(e, q) \/ DeleteLocal(e, q)
  PROVE  Settling(d, p)'
  <1>1. sess[e].pc = "apply"
    BY DEF Download, DownloadFails, DeleteLocal, Ordered
  <1>2. e = d /\ q = p => OnTheWay(d, p)
    BY <1>1 DEF Undisturbed, Settling
  <1>3. CASE Download(e, q)
    <2> DEFINE x == [hash |-> row[q].hash, at |-> sess[e].plan[q].at]
    <2>1. Receive(e, q, x)
      BY <1>3 DEF Download
    <2>2. row[q].hash \in Content \cup {None} /\ sess[e].plan[q].at \in Nat
      BY SyncBoundsAssumption DEF TypeOK, Row, Session, Instruction, Time
    <2>3. x \in Entry /\ x.hash = row[q].hash
      BY <2>2 DEF Entry
    <2>4. e = d /\ q = p => row[p].status = "live"
      BY <1>2, <1>3 DEF Download, Ordered, OnTheWay
    <2> HIDE DEF x
    <2> QED
      BY <1>1, <2>1, <2>3, <2>4, ReceiveSettles
  <1>4. CASE DownloadFails(e, q)
    <2>1. e # d \/ q # p
      BY <1>2, <1>4 DEF DownloadFails, Ordered, OnTheWay
    <2>2. Done(e, q) /\ uploads' = uploads /\ row' = row /\ local' = local
      BY <1>4 DEF DownloadFails, server
    <2> QED
      BY <2>1, <2>2, OthersFollowed
  <1>5. CASE DeleteLocal(e, q)
    <2>1. Receive(e, q, Absent) /\ Absent \in Entry /\ Absent.hash = None
      BY <1>5, NoSessionType DEF DeleteLocal, Absent
    <2>2. e = d /\ q = p => row[p].status # "live"
      BY <1>2, <1>5 DEF DeleteLocal, Ordered, OnTheWay
    <2> QED
      BY <1>1, <2>1, <2>2, ReceiveSettles
  <1> QED
    BY <1>3, <1>4, <1>5

\* An upload that is sent carries what the device holds.
LEMMA SendSettles ==
  ASSUME TypeOK, NEW d \in Device, NEW p \in Path, Undisturbed(d, p),
         NEW e \in Device, NEW q \in Path, UploadSend(e, q)
  PROVE  Settling(d, p)'
  <1>1. sess[e].pc = "apply" /\ sess[e].plan[q].do = "upload"
    BY DEF UploadSend, Ordered
  <1>2. row' = row /\ local' = local
    BY DEF UploadSend, server
  <1>3. CASE local[e][q].hash = None
    <2>1. Done(e, q) /\ uploads' = uploads
      BY <1>3 DEF UploadSend
    <2>2. e # d \/ q # p
      BY <1>1, <1>3 DEF Undisturbed, Settling, OnTheWay
    <2> QED
      BY <1>2, <2>1, <2>2, OthersFollowed
  <1>4. CASE local[e][q].hash # None
    <2> DEFINE v == [dev |-> e, path |-> q, hash |-> local[e][q].hash,
                     at |-> local[e][q].at, since |-> clock, held |-> TRUE]
    <2>1. /\ sess' = [sess EXCEPT ![e].plan[q].do = "sent"]
          /\ uploads' = uploads \cup {v}
      BY <1>4 DEF UploadSend
    <2> HIDE DEF v
    <2>2. /\ sess'[d].pc = sess[d].pc
          /\ sess'[d].manifest = sess[d].manifest
          /\ sess'[e].plan[q].do = "sent"
          /\ e # d \/ q # p => sess'[d].plan[p] = sess[d].plan[p]
      <3>1. sess \in [Device -> Session]
        BY DEF TypeOK
      <3>2. sess' = [sess EXCEPT ![e].plan[q].do = "sent"]
        BY <2>1
      <3>3. /\ sess'[d].pc = sess[d].pc
            /\ sess'[d].manifest = sess[d].manifest
            /\ sess'[e].plan[q].do = "sent"
        BY <3>1, <3>2, SentEffect
      <3>4. e # d => sess'[d] = sess[d]
        BY <3>1, <3>2, SentEffect
      <3>5. q # p => sess'[e].plan[p] = sess[e].plan[p]
        BY <3>1, <3>2, SentEffect
      <3> QED
        BY <3>3, <3>4, <3>5
    <2>3. CASE e # d \/ q # p
      BY <1>2, <2>1, <2>2, <2>3, SettlingKept DEF Undisturbed
    <2>4. CASE e = d /\ q = p
      <3>1. v \in uploads' /\ v.held /\ v.dev = d /\ v.path = p
            /\ v.hash = local'[d][p].hash
        BY <1>2, <2>1, <2>4 DEF v
      <3>2. OnTheWay(d, p)'
        BY <2>2, <2>4, <3>1 DEF OnTheWay
      <3> QED
        BY <1>1, <2>2, <2>4, <3>2 DEF Settling
    <2> QED
      BY <2>3, <2>4
  <1> QED
    BY <1>3, <1>4

\* A session that asks for its cursor has followed all its instructions.
LEMMA CompleteSettles ==
  ASSUME TypeOK, NEW d \in Device, NEW p \in Path, Undisturbed(d, p),
         NEW e \in Device, CompleteSend(e)
  PROVE  Settling(d, p)'
  <1>1. row' = row /\ local' = local /\ uploads' = uploads
        /\ sess' = [sess EXCEPT ![e] = [NoSession EXCEPT !.pc = "complete"]]
    BY DEF CompleteSend, server
  <1>2. /\ sess'[e].pc = "complete" /\ sess'[e].plan[p] = NoInstruction
        /\ e # d => sess'[d] = sess[d]
    BY <1>1, CompletingEffect
  <1>3. CASE e = d
    <2>1. OnTheWay(d, p) /\ sess[d].plan[p].do = "none"
      BY <1>3 DEF CompleteSend, Undisturbed, Settling
    <2>2. Agree(d, p)'
      BY <1>1, <2>1 DEF OnTheWay, Agree
    <2> QED
      BY <1>2, <1>3, <2>2, SettlingDone
  <1>4. CASE e # d
    BY <1>1, <1>2, <1>4, OtherDevice
  <1> QED
    BY <1>3, <1>4

\* The session whose complete is answered had nothing left to do.
LEMMA StoreSettles ==
  ASSUME TypeOK, SessionsFit, CompletesFit,
         NEW d \in Device, NEW p \in Path, Undisturbed(d, p),
         NEW c \in completes, CompleteStore(c)
  PROVE  Settling(d, p)'
  <1>1. row' = row /\ local' = local /\ uploads' = uploads
    BY DEF CompleteStore, server
  <1>2. CASE ~c.held
    <2>1. sess' = sess
      BY <1>2 DEF CompleteStore
    <2> QED
      BY <1>1, <2>1, QuietStep
  <1>3. CASE c.held
    <2>1. c.dev \in Device /\ sess[c.dev].pc = "complete"
      BY <1>3 DEF TypeOK, Completion, CompletesFit
    <2>2. sess' = [sess EXCEPT ![c.dev] = NoSession]
      BY <1>3 DEF CompleteStore
    <2>3. sess'[c.dev].pc = "idle" /\ (c.dev # d => sess'[d] = sess[d])
      BY <2>1, <2>2, EndEffect
    <2>4. CASE c.dev = d
      <3>1. OnTheWay(d, p) /\ sess[d].plan[p] = NoInstruction
        BY <2>1, <2>4 DEF Undisturbed, Settling, SessionsFit
      <3>2. Agree(d, p)'
        BY <1>1, <3>1 DEF OnTheWay, Agree, NoInstruction
      <3> QED
        BY <2>3, <2>4, <3>2 DEF Settling
    <2>5. CASE c.dev # d
      BY <1>1, <2>3, <2>5, OtherDevice
    <2> QED
      BY <2>4, <2>5
  <1> QED
    BY <1>2, <1>3

\* A session of another device breaks off: its uploads go on, d's are as they were.
LEMMA LostSettles ==
  ASSUME TypeOK, NEW d \in Device, NEW p \in Path, Undisturbed(d, p),
         NEW e \in Device, SessionLost(e)
  PROVE  Settling(d, p)'
  <1>1. e # d
    BY DEF Undisturbed
  <1>2. sess' = [sess EXCEPT ![e] = NoSession] /\ local' = local
        /\ uploads' = {IF u.dev = e THEN [u EXCEPT !.held = FALSE] ELSE u : u \in uploads}
    BY DEF SessionLost
  <1>3. sess'[d] = sess[d]
    BY <1>1, <1>2, EndEffect
  <1>4. ASSUME NEW u \in uploads, u.dev = d PROVE u \in uploads'
    BY <1>1, <1>2, <1>4
  <1> QED
    BY <1>2, <1>3, <1>4, OtherDevice

\* A row after an upload holds what was uploaded.
LEMMA UploadedHolds ==
  ASSUME TypeOK, NEW u \in Upload, NEW t \in Time
  PROVE  Uploaded(u, t).status = "live" /\ Uploaded(u, t).hash = u.hash
  <1>1. row[u.path] \in Row
    BY DEF TypeOK, Upload
  <1>2. CASE row[u.path].hash = u.hash
    <2>1. Uploaded(u, t) = [row[u.path] EXCEPT !.status = "live"]
      BY <1>2 DEF Uploaded
    <2> QED
      BY <1>1, <1>2, <2>1 DEF Row
  <1>3. CASE row[u.path].hash # u.hash
    BY <1>3 DEF Uploaded
  <1> QED
    BY <1>2, <1>3

\* The upload a device waits for makes the server hold what the device holds;
\* any other upload disturbs the path or changes nothing.
LEMMA CommitSettles ==
  ASSUME TypeOK, SessionsFit, NEW d \in Device, NEW p \in Path, Undisturbed(d, p),
         NEW u \in uploads, NEW t \in Time, UploadCommit(u, t)
  PROVE  Settling(d, p)'
  <1>1. u \in Upload /\ u.dev \in Device /\ u.path \in Path
    BY DEF TypeOK, Upload
  <1>2. /\ local' = local
        /\ uploads' = uploads \ {u}
        /\ SetRow(u.path, Uploaded(u, t), history[u.path] \cup {u.hash})
    BY DEF UploadCommit
  <1>3. CASE u.held /\ u.dev = d /\ u.path = p
    <2>1. Done(d, p)
      BY <1>3 DEF UploadCommit, Done
    <2>2. sess[d].plan[p].do = "sent" /\ sess[d].pc = "apply"
      <3>1. sess[d].plan[p].do = "sent"
        BY <1>3 DEF SessionsFit
      <3>2. sess[d].pc # "apply" => sess[d].plan[p] = NoInstruction
        BY DEF SessionsFit
      <3> QED
        BY <3>1, <3>2 DEF NoInstruction
    <2>3. PICK v \in uploads : /\ v.held /\ v.dev = d /\ v.path = p
                               /\ v.hash = local[d][p].hash
      BY <2>2 DEF Undisturbed, Settling, OnTheWay
    <2>4. v = u
      BY <1>3, <2>3 DEF SessionsFit
    <2>5. row'[p] = Uploaded(u, t)
      BY <1>1, <1>2, <1>3 DEF SetRow, TypeOK
    <2>6. row'[p].status = "live" /\ row'[p].hash = u.hash
      BY <1>1, <2>5, UploadedHolds
    <2>7. Agree(d, p)'
      BY <1>2, <2>3, <2>4, <2>6 DEF Agree
    <2>8. sess'[d].pc = "apply" /\ sess'[d].plan[p] = NoInstruction
      BY <2>1, <2>2, DoneEffect DEF TypeOK
    <2> QED
      BY <2>7, <2>8, SettlingDone
  <1>4. CASE ~(u.held /\ u.dev = d /\ u.path = p)
    <2>1. u.held => Done(u.dev, u.path)
      BY DEF UploadCommit, Done
    <2>2. ~u.held => sess' = sess
      BY DEF UploadCommit
    <2>3. /\ sess'[d].pc = sess[d].pc
          /\ sess'[d].manifest = sess[d].manifest
          /\ sess'[d].plan[p] = sess[d].plan[p]
      BY <1>1, <1>4, <2>1, <2>2, DoneEffect DEF TypeOK
    <2>4. sess[d].pc = "delta" \/ row'[p] = row[p]
      BY <2>3 DEF Undisturbed, Overtaken
    <2>5. \A v \in uploads : v.held /\ v.dev = d /\ v.path = p => v \in uploads'
      BY <1>2, <1>4
    <2> QED
      BY <1>2, <2>3, <2>4, <2>5, SettlingKept DEF Undisturbed
  <1> QED
    BY <1>3, <1>4

-----------------------------------------------------------------------------
(* All steps.                                                               *)

LEMMA UndisturbedSettles ==
  ASSUME TypeOK, SessionsFit, CompletesFit, [Next]_vars,
         NEW d \in Device, NEW p \in Path, Undisturbed(d, p), ~SyncStart(d)
  PROVE  Settling(d, p)'
  <1>1. CASE UNCHANGED vars
    BY <1>1, QuietStep DEF vars
  <1>2. CASE UserStep \/ Tick
    <2>1. sess' = sess /\ uploads' = uploads
      BY <1>2 DEF UserStep, Tick, Remove, Edit, PanelDelete, PanelRestore,
                  PanelPurge, PanelRollback, PanelRestoreAll, Panel
    <2> QED
      BY <2>1, QuietStep
  <1>3. ASSUME NEW e \in Device, DeviceStep(e) PROVE Settling(d, p)'
    <2>1. CASE SyncStart(e)
      <3>1. e # d
        BY <2>1
      <3>2. sess'[d] = sess[d]
        BY <2>1, <3>1, StartEffect
      <3>3. local' = local /\ uploads' = uploads
        BY <2>1 DEF SyncStart
      <3> QED
        BY <3>2, <3>3, OtherDevice
    <2>2. CASE DeltaLoad(e)
      <3>1. CASE e = d
        BY <2>2, <3>1, LoadSettles
      <3>2. CASE e # d
        <4>1. sess'[d] = sess[d]
          BY <2>2, <3>2, LoadEffect
        <4>2. local' = local /\ uploads' = uploads
          BY <2>2 DEF DeltaLoad
        <4> QED
          BY <4>1, <4>2, OtherDevice
      <3> QED
        BY <3>1, <3>2
    <2>3. CASE CompleteSend(e)
      BY <2>3, CompleteSettles
    <2>4. ASSUME NEW q \in Path,
                 \/ DeltaDelete(e, q) \/ UploadSend(e, q) \/ DeleteLocal(e, q)
                 \/ Download(e, q) \/ DownloadFails(e, q)
          PROVE  Settling(d, p)'
      BY <2>4, DeleteSettles, SendSettles, TransfersSettle
    <2> QED
      BY <1>3, <2>1, <2>2, <2>3, <2>4 DEF DeviceStep
  <1>4. ASSUME NEW e \in Device, SessionLost(e) PROVE Settling(d, p)'
    BY <1>4, LostSettles
  <1>5. ASSUME NEW u \in uploads, CommitStep(u) PROVE Settling(d, p)'
    BY <1>5, CommitSettles DEF CommitStep
  <1>6. ASSUME NEW u \in uploads, UploadDies(u) PROVE Settling(d, p)'
    <2>1. ~u.held /\ uploads' = uploads \ {u} /\ sess' = sess /\ local' = local
      BY <1>6 DEF UploadDies
    <2> QED
      BY <2>1, OtherDevice
  <1>7. ASSUME NEW c \in completes, CompleteStep(c) \/ CompleteDies(c)
        PROVE  Settling(d, p)'
    <2>1. CASE CompleteStore(c)
      BY <2>1, StoreSettles
    <2>2. CASE ~CompleteStore(c)
      <3>1. sess' = sess /\ uploads' = uploads
        BY <1>7, <2>2 DEF CompleteStep, CompleteRead, CompleteDies
      <3> QED
        BY <3>1, QuietStep
    <2> QED
      BY <2>1, <2>2
  <1> QED
    BY <1>1, <1>2, <1>3, <1>4, <1>5, <1>6, <1>7 DEF Next

LEMMA RoundInvNext ==
  ASSUME RoundInv, [RoundNext]_roundVars
  PROVE  RoundInv'
  <1>1. TypeOK /\ SessionsFit /\ CompletesFit /\ [Next]_vars
    BY DEF RoundInv, SyncInv, RoundNext, roundVars
  <1>0. SyncInv'
    BY <1>1, InvNext, InvStutter DEF RoundInv
  <1>2. CASE UNCHANGED roundVars
    BY <1>0, <1>2 DEF roundVars, vars, RoundInv, Settling, OnTheWay, Agree
  <1>3. CASE RoundNext
    <2>1. /\ steady' \in [Device -> SUBSET Path]
          /\ \A d \in Device : \A p \in steady'[d] :
               \/ SyncStart(d)
               \/ /\ p \in steady[d] /\ ~SessionLost(d)
                  /\ ~Touched(d, p) /\ ~Overtaken(d, p)
      BY <1>3 DEF RoundNext, RoundInv
    <2>2. ASSUME NEW d \in Device, NEW p \in steady'[d] PROVE Settling(d, p)'
      <3>1. p \in Path
        BY <2>1
      <3>2. CASE SyncStart(d)
        BY <1>1, <3>1, <3>2, StartSettles
      <3>3. CASE ~SyncStart(d)
        <4>1. Undisturbed(d, p)
          BY <2>1, <3>3 DEF Undisturbed, RoundInv
        <4> QED
          BY <1>1, <3>1, <3>3, <4>1, UndisturbedSettles
      <3> QED
        BY <3>2, <3>3
    <2> QED
      BY <1>0, <2>1, <2>2 DEF RoundInv
  <1> QED
    BY <1>2, <1>3

\* The history variable watches Sync and does not interfere with it.
LEMMA RoundsAreSyncs == RoundSpec => Spec
  <1>1. RoundInit => Init
    BY DEF RoundInit
  <1>2. [RoundNext]_roundVars => [Next]_vars
    BY DEF RoundNext, roundVars
  <1> QED
    BY <1>1, <1>2, PTL DEF RoundSpec, Spec

\* Whatever happens, the list a device has sent is what it holds of a path, and
\* what it still has to do is what it takes to agree, as long as the path is
\* undisturbed (compute_delta, upload, download).
THEOREM RoundInvariant == RoundSpec => []RoundInv
  <1>1. RoundInit => RoundInv
    <2>1. RoundInit => SyncInv
      BY InitInv DEF RoundInit
    <2> QED
      BY <2>1 DEF RoundInit, RoundInv, Settling, Init, Agree, Absent, NoRow, NoSession
  <1>2. RoundInv /\ [RoundNext]_roundVars => RoundInv'
    BY RoundInvNext
  <1> QED
    BY <1>1, <1>2, PTL DEF RoundSpec

\* One complete round brings a device to agree with the server on every path
\* that nobody disturbed during the round (compute_delta, complete).
THEOREM OneRoundIsEnough == RoundSpec => []RoundsAgree
  <1>1. RoundInv => RoundsAgree
    BY DEF RoundInv, RoundsAgree, Settling
  <1> QED
    BY <1>1, RoundInvariant, PTL

=============================================================================
