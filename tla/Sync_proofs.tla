----------------------------- MODULE Sync_proofs -----------------------------
(* Proofs about Sync.                                                       *)
EXTENDS Sync, TLAPS

-----------------------------------------------------------------------------
(* What the steps do to a session.                                          *)

\* A session that has not begun.
LEMMA NoSessionType ==
  /\ NoSession \in Session
  /\ Absent \in Entry
  /\ NoInstruction \in Instruction
  BY NoneAssumption, SyncBoundsAssumption
     DEF NoSession, Session, Absent, Entry, NoInstruction, Instruction,
         SyncAction, Time

\* Removing an instruction changes nothing else.
LEMMA DoneEffect ==
  ASSUME sess \in [Device -> Session], NEW d \in Device, NEW p \in Path, Done(d, p)
  PROVE  /\ sess' \in [Device -> Session]
         /\ \A e \in Device :
              /\ sess'[e].now = sess[e].now
              /\ sess'[e].pc = sess[e].pc
              /\ sess'[e].manifest = sess[e].manifest
              /\ e # d => sess'[e] = sess[e]
         /\ \A q \in Path : sess'[d].plan[q] =
              IF q = p THEN NoInstruction ELSE sess[d].plan[q]
  <1> DEFINE s == [sess[d] EXCEPT !.plan[p] = NoInstruction]
  <1>1. sess' = [sess EXCEPT ![d] = s]
    BY DEF Done
  <1>2. s \in Session
    BY NoSessionType DEF Session
  <1>3. /\ s.now = sess[d].now /\ s.pc = sess[d].pc
        /\ s.manifest = sess[d].manifest
        /\ \A q \in Path : s.plan[q] =
             IF q = p THEN NoInstruction ELSE sess[d].plan[q]
    BY DEF Session
  <1> HIDE DEF s
  <1> QED
    BY <1>1, <1>2, <1>3

\* Marking an upload as sent changes nothing else.
LEMMA SentEffect ==
  ASSUME sess \in [Device -> Session], NEW d \in Device, NEW p \in Path,
         sess' = [sess EXCEPT ![d].plan[p].do = "sent"]
  PROVE  /\ sess' \in [Device -> Session]
         /\ \A e \in Device :
              /\ sess'[e].now = sess[e].now
              /\ sess'[e].pc = sess[e].pc
              /\ sess'[e].manifest = sess[e].manifest
              /\ e # d => sess'[e] = sess[e]
         /\ \A q \in Path : q # p => sess'[d].plan[q] = sess[d].plan[q]
         /\ sess'[d].plan[p].do = "sent"
         /\ sess'[d].plan[p].at = sess[d].plan[p].at
  <1> DEFINE i == [sess[d].plan[p] EXCEPT !.do = "sent"]
             f == [sess[d].plan EXCEPT ![p] = i]
             s == [sess[d] EXCEPT !.plan = f]
  <1>1. sess' = [sess EXCEPT ![d] = s]
    OBVIOUS
  <1>2. i \in Instruction /\ i.do = "sent" /\ i.at = sess[d].plan[p].at
    <2>1. sess[d].plan[p] \in Instruction
      BY DEF Session
    <2>2. \A j \in Instruction :
            /\ [j EXCEPT !.do = "sent"] \in Instruction
            /\ [j EXCEPT !.do = "sent"].do = "sent"
            /\ [j EXCEPT !.do = "sent"].at = j.at
      BY DEF Instruction, SyncAction
    <2> QED
      BY <2>1, <2>2
  <1> HIDE DEF i
  <1>3. /\ f \in [Path -> Instruction]
        /\ f[p] = i
        /\ \A q \in Path : q # p => f[q] = sess[d].plan[q]
    BY <1>2 DEF Session
  <1> HIDE DEF f
  <1>4. /\ s \in Session /\ s.now = sess[d].now /\ s.pc = sess[d].pc
        /\ s.manifest = sess[d].manifest /\ s.plan = f
    BY <1>3 DEF Session
  <1> HIDE DEF s
  <1> QED
    BY <1>1, <1>2, <1>3, <1>4

\* The start of a session, and its deletions.
LEMMA StartEffect ==
  ASSUME TypeOK, NEW d \in Device, SyncStart(d)
  PROVE  /\ sess' \in [Device -> Session]
         /\ sess'[d].now \in {0, clock}
         /\ sess'[d].pc = "delta"
         /\ sess'[d].manifest = local[d]
         /\ \A q \in Path : sess'[d].plan[q] = NoInstruction
         /\ \A e \in Device : e # d => sess'[e] = sess[e]
  <1> DEFINE n == IF gone[d] = {} THEN 0 ELSE clock
             s == [NoSession EXCEPT
                     !.pc = "delta", !.now = n, !.todo = gone[d],
                     !.listed = gone[d], !.manifest = local[d]]
  <1>1. sess' = [sess EXCEPT ![d] = s]
    BY DEF SyncStart
  <1>0. n \in {0, clock} /\ n \in Time
    BY SyncBoundsAssumption DEF TypeOK, Time
  <1> HIDE DEF n
  <1>2. /\ s \in Session /\ s.now = n /\ s.pc = "delta"
        /\ s.manifest = local[d]
        /\ \A q \in Path : s.plan[q] = NoInstruction
    BY <1>0, NoSessionType DEF TypeOK, NoSession, Session
  <1> HIDE DEF s
  <1> QED
    BY <1>0, <1>1, <1>2 DEF TypeOK

LEMMA TodoEffect ==
  ASSUME TypeOK, NEW d \in Device, NEW p \in Path, DeltaDelete(d, p)
  PROVE  /\ sess' \in [Device -> Session]
         /\ \A e \in Device :
              /\ sess'[e].now = sess[e].now
              /\ sess'[e].pc = sess[e].pc
              /\ sess'[e].manifest = sess[e].manifest
              /\ sess'[e].plan = sess[e].plan
  <1> DEFINE s == [sess[d] EXCEPT !.todo = @ \ {p}]
  <1>1. sess' = [sess EXCEPT ![d] = s]
    BY DEF DeltaDelete
  <1>2. /\ s \in Session /\ s.now = sess[d].now /\ s.pc = sess[d].pc
        /\ s.manifest = sess[d].manifest /\ s.plan = sess[d].plan
    <2>1. sess[d] \in Session
      BY DEF TypeOK
    <2> QED
      BY <2>1 DEF Session
  <1> HIDE DEF s
  <1> QED
    BY <1>1, <1>2 DEF TypeOK

\* An instruction carries the date of the row it is made from, or none.
LEMMA InstructType ==
  ASSUME NEW e \in Entry, NEW r \in Row
  PROVE  /\ Instruct(e, r) \in Instruction
         /\ Instruct(e, r).at = r.at \/ Instruct(e, r).at = 0
         /\ Instruct(e, r).do = "upload" =>
              r.status = "none" \/ ClientNewer(e, r)
         /\ Instruct(e, r).do # "sent"
  <1> DEFINE a == IF e.hash = None THEN MissingHere(r) ELSE ActionFor(e, r)
  <1>1. a \in SyncAction /\ a # "sent"
    BY DEF MissingHere, ActionFor, Row, SyncAction
  <1>2. a = "upload" => r.status = "none" \/ ClientNewer(e, r)
    BY DEF MissingHere, ActionFor, Row, SyncAction
  <1> DEFINE t == IF a \in {"download", "conflict"} THEN r.at ELSE 0
  <1>3. Instruct(e, r) = [do |-> a, at |-> t]
    BY DEF Instruct
  <1> HIDE DEF a
  <1>4. t \in Time /\ t \in {r.at, 0}
    BY SyncBoundsAssumption DEF Row, Time
  <1> HIDE DEF t
  <1> QED
    BY <1>1, <1>2, <1>3, <1>4 DEF Instruction

\* The answer of a delta.
LEMMA LoadEffect ==
  ASSUME TypeOK, NEW d \in Device, DeltaLoad(d)
  PROVE  /\ sess' \in [Device -> Session]
         /\ sess'[d].now = 0
         /\ sess'[d].pc = "apply"
         /\ \A q \in Path :
              /\ sess'[d].manifest[q] = Absent
              /\ sess'[d].plan[q] = Instruct(sess[d].manifest[q], row[q])
         /\ \A e \in Device : e # d => sess'[e] = sess[e]
  <1> DEFINE f == [p \in Path |-> Instruct(sess[d].manifest[p], row[p])]
             s == [NoSession EXCEPT !.pc = "apply", !.plan = f]
  <1>1. sess' = [sess EXCEPT ![d] = s]
    BY DEF DeltaLoad
  <1>2. ASSUME NEW q \in Path PROVE f[q] \in Instruction
    BY InstructType DEF TypeOK, Session
  <1>3. f \in [Path -> Instruction]
    BY <1>2
  <1>4. \A q \in Path : f[q] = Instruct(sess[d].manifest[q], row[q])
    OBVIOUS
  <1> HIDE DEF f
  <1>5. /\ s \in Session /\ s.now = 0 /\ s.pc = "apply" /\ s.plan = f
        /\ \A q \in Path : s.manifest[q] = Absent
    BY <1>3, NoSessionType DEF NoSession, Session
  <1> HIDE DEF s
  <1> QED
    BY <1>1, <1>4, <1>5 DEF TypeOK

\* A session that waits for its complete.
LEMMA CompletingEffect ==
  ASSUME TypeOK, NEW d \in Device,
         sess' = [sess EXCEPT ![d] = [NoSession EXCEPT !.pc = "complete"]]
  PROVE  /\ sess' \in [Device -> Session]
         /\ sess'[d].now = 0
         /\ sess'[d].pc = "complete"
         /\ \A q \in Path : /\ sess'[d].manifest[q] = Absent
                            /\ sess'[d].plan[q] = NoInstruction
         /\ \A e \in Device : e # d => sess'[e] = sess[e]
  <1> DEFINE s == [NoSession EXCEPT !.pc = "complete"]
  <1>1. /\ s \in Session /\ s.now = 0 /\ s.pc = "complete"
        /\ \A q \in Path : s.manifest[q] = Absent /\ s.plan[q] = NoInstruction
    BY NoSessionType DEF NoSession, Session
  <1>2. sess' = [sess EXCEPT ![d] = s]
    OBVIOUS
  <1> HIDE DEF s
  <1> QED
    BY <1>1, <1>2 DEF TypeOK

\* The end of a session.
LEMMA EndEffect ==
  ASSUME TypeOK, NEW d \in Device, sess' = [sess EXCEPT ![d] = NoSession]
  PROVE  /\ sess' \in [Device -> Session]
         /\ sess'[d].now = 0
         /\ sess'[d].pc = "idle"
         /\ \A q \in Path : /\ sess'[d].manifest[q] = Absent
                            /\ sess'[d].plan[q] = NoInstruction
         /\ \A e \in Device : e # d => sess'[e] = sess[e]
  <1>1. /\ NoSession.now = 0 /\ NoSession.pc = "idle"
        /\ \A q \in Path : /\ NoSession.manifest[q] = Absent
                           /\ NoSession.plan[q] = NoInstruction
    BY DEF NoSession
  <1> QED
    BY <1>1, NoSessionType DEF TypeOK

-----------------------------------------------------------------------------
(* The tables.                                                              *)

\* Writing a row keeps its path's highest date up to date.
LEMMA SetRowEffect ==
  ASSUME TypeOK, NEW p \in Path, NEW r \in Row, NEW h \in SUBSET Content,
         SetRow(p, r, h)
  PROVE  /\ row' \in [Path -> Row]
         /\ history' \in [Path -> SUBSET Content]
         /\ high' \in [Path -> Time]
         /\ \A q \in Path : /\ row'[q] = IF q = p THEN r ELSE row[q]
                            /\ high[q] <= high'[q]
                            /\ high'[q] = high[q] \/ high'[q] = r.at
         /\ r.at <= high'[p]
  <1>1. r.at \in Time /\ high[p] \in Time
    BY DEF TypeOK, Row
  <1>2. /\ Later(high[p], r.at) \in Time
        /\ high[p] <= Later(high[p], r.at)
        /\ r.at <= Later(high[p], r.at)
        /\ Later(high[p], r.at) \in {high[p], r.at}
    BY <1>1, SyncBoundsAssumption DEF Later, Time
  <1>3. high' \in [Path -> Time] /\ high'[p] = Later(high[p], r.at)
    BY <1>2 DEF TypeOK, SetRow
  <1>4. \A q \in Path : q # p => high'[q] = high[q]
    BY DEF TypeOK, SetRow
  <1>5. \A q \in Path : high[q] \in Nat
    BY SyncBoundsAssumption DEF TypeOK, Time
  <1>6. \A q \in Path : /\ row'[q] = IF q = p THEN r ELSE row[q]
                        /\ high[q] <= high'[q]
                        /\ high'[q] = high[q] \/ high'[q] = r.at
    <2> SUFFICES ASSUME NEW q \in Path
                 PROVE  /\ row'[q] = IF q = p THEN r ELSE row[q]
                        /\ high[q] <= high'[q]
                        /\ high'[q] = high[q] \/ high'[q] = r.at
      OBVIOUS
    <2>1. row'[q] = IF q = p THEN r ELSE row[q]
      BY DEF TypeOK, SetRow
    <2>2. CASE q = p
      BY <1>2, <1>3, <2>1, <2>2
    <2>3. CASE q # p
      <3>1. high'[q] = high[q] /\ high[q] \in Nat
        BY <1>4, <1>5, <2>3
      <3> QED
        BY <2>1, <3>1
    <2> QED
      BY <2>2, <2>3
  <1> QED
    BY <1>2, <1>3, <1>6 DEF TypeOK, SetRow

\* What every step does to the tables: dates only grow, and none is from the
\* future.
TablesStep ==
  /\ row' \in [Path -> Row]
  /\ history' \in [Path -> SUBSET Content]
  /\ high' \in [Path -> Time]
  /\ \A p \in Path :
       /\ high[p] <= high'[p]
       /\ row'[p].at <= high'[p]
       /\ high'[p] <= clock'

\* A row may be written with any date up to the present.
LEMMA SetRowStep ==
  ASSUME SyncInv, NEW p \in Path, NEW r \in Row, NEW h \in SUBSET Content,
         SetRow(p, r, h), r.at <= clock, clock' = clock
  PROVE  TablesStep
  <1>1. TypeOK /\ NothingFromTheFuture /\ DatedByServer
    BY DEF SyncInv
  <1>2. \A q \in Path : /\ row[q].at <= high[q] /\ high[q] <= clock
                        /\ row[q].at \in Nat /\ high[q] \in Nat
    BY <1>1, SyncBoundsAssumption
       DEF DatedByServer, NothingFromTheFuture, TypeOK, Row, Time
  <1>3. r.at \in Nat /\ clock \in Nat
    BY <1>1, SyncBoundsAssumption DEF TypeOK, Row, Time
  <1>4. /\ row' \in [Path -> Row]
        /\ history' \in [Path -> SUBSET Content]
        /\ high' \in [Path -> Time]
        /\ \A q \in Path : /\ row'[q] = IF q = p THEN r ELSE row[q]
                           /\ high[q] <= high'[q]
                           /\ high'[q] = high[q] \/ high'[q] = r.at
        /\ r.at <= high'[p]
    BY <1>1, SetRowEffect
  <1>5. ASSUME NEW q \in Path
        PROVE  /\ high[q] <= high'[q] /\ row'[q].at <= high'[q]
               /\ high'[q] <= clock'
    <2>1. /\ high'[q] \in Nat /\ high[q] <= high'[q]
          /\ high'[q] = high[q] \/ high'[q] = r.at
      BY <1>4, SyncBoundsAssumption DEF Time
    <2>2. /\ row[q].at <= high[q] /\ high[q] <= clock
          /\ row[q].at \in Nat /\ high[q] \in Nat
      BY <1>2
    <2>3. high'[q] <= clock
      BY <1>3, <2>1, <2>2
    <2>4. row'[q].at <= high'[q]
      <3>1. CASE q = p
        <4>1. row'[q] = r /\ r.at <= high'[q]
          BY <1>4, <3>1
        <4> QED
          BY <4>1
      <3>2. CASE q # p
        <4>1. row'[q] = row[q]
          BY <1>4, <3>2
        <4>2. row'[q].at = row[q].at
          BY <4>1
        <4> QED
          BY <2>1, <2>2, <4>2
      <3> QED
        BY <3>1, <3>2
    <2> QED
      BY <2>1, <2>3, <2>4
  <1> QED
    BY <1>4, <1>5 DEF TablesStep

\* A step that leaves the tables alone.
LEMMA TablesSame ==
  ASSUME SyncInv, UNCHANGED server, clock' \in Time, clock <= clock'
  PROVE  TablesStep
  <1>1. TypeOK /\ NothingFromTheFuture /\ DatedByServer
    BY DEF SyncInv
  <1>2. \A q \in Path : /\ row[q].at <= high[q] /\ high[q] <= clock
                        /\ high[q] \in Nat
    BY <1>1, SyncBoundsAssumption
       DEF DatedByServer, NothingFromTheFuture, TypeOK, Row, Time
  <1>3. clock \in Nat /\ clock' \in Nat
    BY <1>1, SyncBoundsAssumption DEF TypeOK, Time
  <1>4. \A q \in Path : /\ high[q] <= high'[q] /\ row'[q].at <= high'[q]
                        /\ high'[q] <= clock'
    BY <1>2, <1>3 DEF server
  <1> QED
    BY <1>1, <1>4 DEF TablesStep, TypeOK, server

\* The row an upload leaves carries its own date or the old one.
LEMMA UploadedRow ==
  ASSUME TypeOK, NEW u \in Upload, NEW t \in Time
  PROVE  /\ Uploaded(u, t) \in Row
         /\ Uploaded(u, t).at = t \/ Uploaded(u, t).at = row[u.path].at
         /\ row[u.path].hash # u.hash => Uploaded(u, t).at = t
  <1>1. u.path \in Path /\ u.hash \in Content
    BY DEF Upload
  <1>2. row[u.path] \in Row
    BY <1>1 DEF TypeOK
  <1>3. \A r \in Row : /\ [r EXCEPT !.status = "live"] \in Row
                       /\ [r EXCEPT !.status = "live"].at = r.at
    BY DEF Row
  <1>4. /\ [status |-> "live", hash |-> u.hash, at |-> t] \in Row
        /\ [status |-> "live", hash |-> u.hash, at |-> t].at = t
    BY <1>1 DEF Row
  <1> QED
    BY <1>2, <1>3, <1>4 DEF Uploaded

LEMMA TablesNext ==
  ASSUME SyncInv, Next
  PROVE  TablesStep
  <1> USE SyncBoundsAssumption
  <1>0. TypeOK /\ NothingFromTheFuture /\ DatedByServer
    BY DEF SyncInv
  <1>1. /\ clock \in Time /\ clock \in Nat
        /\ \A p \in Path : /\ row[p] \in Row /\ row[p].at \in Nat
                           /\ row[p].at <= clock
    <2>1. \A p \in Path : /\ row[p] \in Row /\ row[p].at \in Nat
                          /\ row[p].at <= high[p] /\ high[p] <= clock
                          /\ high[p] \in Nat
      BY <1>0 DEF TypeOK, Row, Time, NothingFromTheFuture, DatedByServer
    <2> QED
      BY <1>0, <2>1 DEF TypeOK, Time
  <1>2. /\ \A r \in Row, s \in {"live", "deleted"}, t \in Time :
             /\ [r EXCEPT !.status = s, !.at = t] \in Row
             /\ [r EXCEPT !.status = s, !.at = t].at = t
        /\ \A c \in Content, t \in Time :
             /\ [status |-> "live", hash |-> c, at |-> t] \in Row
             /\ [status |-> "live", hash |-> c, at |-> t].at = t
        /\ NoRow \in Row /\ NoRow.at = 0
    <2>1. \A r \in Row, s \in {"live", "deleted"}, t \in Time :
             /\ [r EXCEPT !.status = s, !.at = t] \in Row
             /\ [r EXCEPT !.status = s, !.at = t].at = t
      BY DEF Row
    <2>2. \A c \in Content, t \in Time :
             /\ [status |-> "live", hash |-> c, at |-> t] \in Row
             /\ [status |-> "live", hash |-> c, at |-> t].at = t
      BY DEF Row
    <2>3. NoRow \in Row /\ NoRow.at = 0
      BY DEF Row, NoRow, Time
    <2> QED
      BY <2>1, <2>2, <2>3
  <1>3. \A p \in Path : history[p] \in SUBSET Content
    BY <1>0 DEF TypeOK
  <1>4. ASSUME UNCHANGED <<server, clock>> PROVE TablesStep
    BY <1>1, <1>4, TablesSame
  <1>5. ASSUME NEW d \in Device, NEW p \in Path, DeltaDelete(d, p)
        PROVE  TablesStep
    <2>1. sess[d].now \in Time /\ sess[d].now <= clock
      BY <1>0 DEF TypeOK, Session, NothingFromTheFuture
    <2>2. CASE row[p].status = "live"
      <3> DEFINE r == [row[p] EXCEPT !.status = "deleted", !.at = sess[d].now]
      <3>1. SetRow(p, r, history[p]) /\ clock' = clock
        BY <1>5, <2>2 DEF DeltaDelete
      <3>2. r \in Row /\ r.at = sess[d].now
        BY <1>1, <1>2, <2>1
      <3> HIDE DEF r
      <3> QED
        BY <1>3, <2>1, <3>1, <3>2, SetRowStep
    <2>3. CASE row[p].status # "live"
      BY <1>4, <1>5, <2>3 DEF DeltaDelete
    <2> QED
      BY <2>2, <2>3
  <1>6. ASSUME NEW u \in uploads, NEW t \in Time, UploadCommit(u, t)
        PROVE  TablesStep
    <2>1. u \in Upload /\ u.path \in Path /\ u.hash \in Content
      BY <1>0 DEF TypeOK, Upload
    <2>2. Uploaded(u, t) \in Row /\ Uploaded(u, t).at <= clock
      BY <1>0, <1>1, <1>6, <2>1, UploadedRow DEF UploadCommit
    <2>3. history[u.path] \cup {u.hash} \in SUBSET Content
      BY <1>3, <2>1
    <2> QED
      BY <1>6, <2>1, <2>2, <2>3, SetRowStep DEF UploadCommit
  <1>7. ASSUME NEW p \in Path, NEW s \in {"live", "deleted"},
               SetRow(p, [row[p] EXCEPT !.status = s, !.at = clock], history[p]),
               clock' = clock
        PROVE  TablesStep
    <2> DEFINE r == [row[p] EXCEPT !.status = s, !.at = clock]
    <2>1. r \in Row /\ r.at = clock
      <3>1. row[p] \in Row /\ clock \in Time
        BY <1>1
      <3> QED
        BY <3>1 DEF Row
    <2>2. SetRow(p, r, history[p])
      BY <1>7
    <2> HIDE DEF r
    <2> QED
      BY <1>1, <1>3, <1>7, <2>1, <2>2, SetRowStep
  <1>8. ASSUME NEW p \in Path,
               \/ PanelDelete(p) \/ PanelRestore(p) \/ PanelPurge(p)
               \/ \E c \in Content : PanelRollback(p, c)
        PROVE  TablesStep
    <2>1. CASE PanelDelete(p) \/ PanelRestore(p)
      BY <1>7, <2>1 DEF PanelDelete, PanelRestore, Panel
    <2>2. CASE PanelPurge(p)
      <3>1. NoRow \in Row /\ NoRow.at <= clock
        <4>1. NoRow \in Row /\ NoRow.at = 0
          BY <1>2
        <4> QED
          BY <1>1, <4>1
      <3>2. SetRow(p, NoRow, {}) /\ clock' = clock
        BY <2>2 DEF PanelPurge, Panel
      <3> QED
        BY <3>1, <3>2, SetRowStep, {} \in SUBSET Content
    <2>3. ASSUME NEW c \in Content, PanelRollback(p, c) PROVE TablesStep
      <3> DEFINE r == [status |-> "live", hash |-> c, at |-> clock]
      <3>1. r \in Row /\ r.at = clock
        BY <1>1, <1>2
      <3>2. SetRow(p, r, history[p]) /\ clock' = clock
        BY <2>3 DEF PanelRollback, Panel
      <3> HIDE DEF r
      <3> QED
        BY <1>1, <1>3, <3>1, <3>2, SetRowStep
    <2> QED
      BY <1>8, <2>1, <2>2, <2>3
  <1>9. CASE PanelRestoreAll
    <2> DEFINE back == {p \in Path : row[p].status = "deleted"}
    <2>1. /\ row' = [p \in Path |-> IF p \in back
                       THEN [row[p] EXCEPT !.status = "live", !.at = clock]
                       ELSE row[p]]
          /\ high' = [p \in Path |-> IF p \in back THEN Later(high[p], clock)
                                     ELSE high[p]]
          /\ history' = history /\ clock' = clock
      BY <1>9 DEF PanelRestoreAll, Panel
    <2>2. ASSUME NEW p \in Path
          PROVE  /\ row'[p] \in Row /\ high'[p] \in Time
                 /\ high[p] <= high'[p] /\ row'[p].at <= high'[p]
                 /\ high'[p] <= clock'
      <3>1. /\ high[p] \in Time /\ high[p] \in Nat /\ high[p] <= clock
            /\ row[p].at <= high[p]
        BY <1>0 DEF TypeOK, Time, NothingFromTheFuture, DatedByServer
      <3>2. CASE p \in back
        <4>1. row'[p] \in Row /\ row'[p].at = clock
          BY <1>1, <1>2, <2>1, <3>2
        <4>2. high'[p] = Later(high[p], clock)
          BY <2>1, <3>2
        <4>3. high'[p] = clock
          BY <1>1, <3>1, <4>2 DEF Later
        <4>4. row'[p].at <= high'[p] /\ high'[p] <= clock' /\ high[p] <= high'[p]
          <5>1. clock' = clock
            BY <2>1
          <5> QED
            BY <1>1, <3>1, <4>1, <4>3, <5>1
        <4> QED
          BY <1>1, <4>1, <4>3, <4>4
      <3>3. CASE p \notin back
        <4>1. row'[p] = row[p] /\ high'[p] = high[p]
          BY <2>1, <3>3
        <4>2. row[p] \in Row /\ row'[p].at = row[p].at
          BY <1>1, <4>1
        <4>3. clock' = clock
          BY <2>1
        <4>4. high'[p] <= clock' /\ high[p] <= high'[p]
          BY <3>1, <4>1, <4>3
        <4>5. row'[p].at <= high'[p]
          BY <3>1, <4>1, <4>2
        <4> QED
          BY <3>1, <4>1, <4>2, <4>4, <4>5
      <3> QED
        BY <3>2, <3>3
    <2>3. row' \in [Path -> Row] /\ high' \in [Path -> Time]
      BY <2>1, <2>2
    <2> QED
      BY <1>0, <2>1, <2>2, <2>3 DEF TablesStep, TypeOK
  <1>10. CASE Tick
    BY <1>1, <1>10, TablesSame DEF Tick, Time
  <1> QED
    BY <1>4, <1>5, <1>6, <1>7, <1>8, <1>9, <1>10
       DEF Next, UserStep, DeviceStep, CommitStep, SyncStart, DeltaLoad,
           CompleteSend, CompleteStep, CompleteRead, CompleteStore, CompleteDies,
           UploadSend, DeleteLocal, Download, DownloadFails,
           Receive, SessionLost, UploadDies, Edit, Remove

-----------------------------------------------------------------------------
(* The sessions.                                                            *)

\* What every step keeps of sessions and uploads.
SessionsStep ==
  /\ sess' \in [Device -> Session]
  /\ uploads' \subseteq Upload
  /\ SessionsFit'
  /\ \A d \in Device : sess'[d].now <= clock'

LEMMA SessionsSame ==
  ASSUME SyncInv, UNCHANGED <<sess, uploads>>, clock' \in Time, clock <= clock'
  PROVE  SessionsStep
  <1>1. TypeOK /\ NothingFromTheFuture /\ SessionsFit
    BY DEF SyncInv
  <1>2. ASSUME NEW d \in Device PROVE sess'[d].now <= clock'
    <2>1. sess[d].now \in Nat /\ sess[d].now <= clock /\ clock \in Nat /\ clock' \in Nat
      BY <1>1, SyncBoundsAssumption DEF TypeOK, Session, Time, NothingFromTheFuture
    <2>2. sess'[d].now = sess[d].now
      OBVIOUS
    <2> QED
      BY <2>1, <2>2
  <1> QED
    BY <1>1, <1>2 DEF SessionsStep, TypeOK, SessionsFit

\* A session that follows an instruction other than an upload that is under way.
LEMMA SessionsDone ==
  ASSUME SyncInv, NEW d \in Device, NEW p \in Path, Done(d, p),
         sess[d].plan[p].do # "sent", UNCHANGED <<uploads, clock>>
  PROVE  SessionsStep
  <1>1. TypeOK /\ NothingFromTheFuture /\ SessionsFit
    BY DEF SyncInv
  <1>2. /\ sess' \in [Device -> Session]
        /\ \A e \in Device :
             /\ sess'[e].now = sess[e].now
             /\ sess'[e].pc = sess[e].pc
             /\ sess'[e].manifest = sess[e].manifest
             /\ e # d => sess'[e] = sess[e]
        /\ \A q \in Path : sess'[d].plan[q] =
             IF q = p THEN NoInstruction ELSE sess[d].plan[q]
    BY <1>1, DoneEffect DEF TypeOK
  <1>3. ASSUME NEW u \in uploads, u.held
        PROVE  sess'[u.dev].plan[u.path].do = "sent"
    <2>1. u.dev \in Device /\ u.path \in Path
      BY <1>1 DEF TypeOK, Upload
    <2>2. sess[u.dev].plan[u.path].do = "sent"
      BY <1>1, <1>3 DEF SessionsFit
    <2>3. u.dev # d \/ u.path # p
      BY <2>2
    <2> QED
      BY <1>2, <2>1, <2>2, <2>3
  <1>4. ASSUME NEW e \in Device, NEW q \in Path
        PROVE  /\ sess'[e].pc # "delta" => sess'[e].manifest[q] = Absent
               /\ sess'[e].pc # "apply" => sess'[e].plan[q] = NoInstruction
    BY <1>1, <1>2 DEF SessionsFit
  <1>5. SessionsFit'
    BY <1>1, <1>3, <1>4 DEF SessionsFit
  <1>6. \A e \in Device : sess'[e].now <= clock'
    BY <1>1, <1>2 DEF NothingFromTheFuture
  <1> QED
    BY <1>1, <1>2, <1>5, <1>6 DEF SessionsStep, TypeOK

\* A session that is replaced while none of its uploads is waited for.
LEMMA SessionsReplaced ==
  ASSUME SyncInv, NEW d \in Device, clock' = clock,
         sess' \in [Device -> Session], sess'[d].now <= clock,
         \A e \in Device : e # d => sess'[e] = sess[e],
         \A q \in Path :
           /\ sess'[d].pc # "delta" => sess'[d].manifest[q] = Absent
           /\ sess'[d].pc # "apply" => sess'[d].plan[q] = NoInstruction,
         uploads' \subseteq Upload,
         \A u \in uploads' : u.held => u \in uploads /\ u.dev # d
  PROVE  SessionsStep
  <1>1. TypeOK /\ NothingFromTheFuture /\ SessionsFit
    BY DEF SyncInv
  <1>2. \A u \in uploads' : u.held => sess'[u.dev].plan[u.path].do = "sent"
    <2> SUFFICES ASSUME NEW u \in uploads', u.held
                 PROVE  sess'[u.dev].plan[u.path].do = "sent"
      OBVIOUS
    <2>1. u \in uploads /\ u.dev # d /\ u.dev \in Device
      BY DEF Upload
    <2>2. sess[u.dev].plan[u.path].do = "sent"
      BY <1>1, <2>1 DEF SessionsFit
    <2> QED
      BY <2>1, <2>2
  <1>3. \A u, v \in uploads' :
          u.held /\ v.held /\ u.dev = v.dev /\ u.path = v.path => u = v
    BY <1>1 DEF SessionsFit
  <1>4. ASSUME NEW e \in Device, NEW q \in Path
        PROVE  /\ sess'[e].pc # "delta" => sess'[e].manifest[q] = Absent
               /\ sess'[e].pc # "apply" => sess'[e].plan[q] = NoInstruction
    BY <1>1 DEF SessionsFit
  <1>5. ASSUME NEW e \in Device PROVE sess'[e].now <= clock'
    BY <1>1 DEF NothingFromTheFuture
  <1> QED
    BY <1>2, <1>3, <1>4, <1>5 DEF SessionsStep, SessionsFit

\* No upload is waited for by a session that has no instruction under way.
LEMMA NobodyWaits ==
  ASSUME SyncInv, NEW d \in Device,
         \A p \in Path : sess[d].plan[p].do # "sent",
         NEW u \in uploads, u.held
  PROVE  u.dev # d
  <1>1. TypeOK /\ SessionsFit
    BY DEF SyncInv
  <1>2. u.path \in Path /\ sess[u.dev].plan[u.path].do = "sent"
    BY <1>1 DEF TypeOK, Upload, SessionsFit
  <1> QED
    BY <1>2

\* Outside of "apply" there is no instruction at all.
LEMMA NothingSent ==
  ASSUME SyncInv, NEW d \in Device, sess[d].pc # "apply", NEW p \in Path
  PROVE  sess[d].plan[p] = NoInstruction /\ sess[d].plan[p].do # "sent"
  <1>1. sess[d].plan[p] = NoInstruction
    BY DEF SyncInv, SessionsFit
  <1>2. NoInstruction.do = "none"
    BY DEF NoInstruction
  <1> QED
    BY <1>1, <1>2

\* The device sends a file.
LEMMA SendStep ==
  ASSUME SyncInv, NEW d \in Device, NEW p \in Path, UploadSend(d, p)
  PROVE  SessionsStep
  <1>1. TypeOK /\ NothingFromTheFuture /\ SessionsFit
    BY DEF SyncInv
  <1>2. clock' = clock /\ sess[d].plan[p].do = "upload" /\ sess[d].pc = "apply"
    BY DEF UploadSend, Ordered
  <1>3. CASE local[d][p].hash = None
    <2>1. Done(d, p) /\ uploads' = uploads
      BY <1>3 DEF UploadSend
    <2> QED
      BY <1>2, <2>1, SessionsDone
  <1>4. CASE local[d][p].hash # None
    <2> DEFINE v == [dev |-> d, path |-> p, hash |-> local[d][p].hash,
                     at |-> local[d][p].at, since |-> clock, held |-> TRUE]
    <2>1. /\ sess' = [sess EXCEPT ![d].plan[p].do = "sent"]
          /\ uploads' = uploads \cup {v}
      BY <1>4 DEF UploadSend
    <2>2. v \in Upload /\ v.dev = d /\ v.path = p
      <3>1. local[d][p] \in Entry /\ clock \in Time
        BY <1>1 DEF TypeOK
      <3>2. local[d][p].hash \in Content /\ local[d][p].at \in Nat
        BY <1>4, <3>1 DEF Entry
      <3> QED
        BY <3>1, <3>2 DEF Upload
    <2> HIDE DEF v
    <2>3. /\ sess' \in [Device -> Session]
          /\ \A e \in Device :
               /\ sess'[e].now = sess[e].now
               /\ sess'[e].pc = sess[e].pc
               /\ sess'[e].manifest = sess[e].manifest
               /\ e # d => sess'[e] = sess[e]
          /\ \A q \in Path : q # p => sess'[d].plan[q] = sess[d].plan[q]
          /\ sess'[d].plan[p].do = "sent"
      <3>1. sess \in [Device -> Session]
        BY <1>1 DEF TypeOK
      <3>2. sess' = [sess EXCEPT ![d].plan[p].do = "sent"]
        BY <2>1
      <3> QED
        BY <3>1, <3>2, SentEffect
    <2>4. ASSUME NEW u \in uploads, u.held
          PROVE  /\ u.dev \in Device /\ u.path \in Path
                 /\ u.dev # d \/ u.path # p
                 /\ sess'[u.dev].plan[u.path].do = "sent"
      <3>1. u.dev \in Device /\ u.path \in Path
        BY <1>1 DEF TypeOK, Upload
      <3>2. sess[u.dev].plan[u.path].do = "sent"
        BY <1>1, <2>4 DEF SessionsFit
      <3>3. u.dev # d \/ u.path # p
        BY <1>2, <3>2
      <3> QED
        BY <2>3, <3>1, <3>2, <3>3
    <2>5. \A u \in uploads' : u.held => sess'[u.dev].plan[u.path].do = "sent"
      BY <2>1, <2>2, <2>3, <2>4
    <2>6. \A u, w \in uploads' :
            u.held /\ w.held /\ u.dev = w.dev /\ u.path = w.path => u = w
      <3> SUFFICES ASSUME NEW u \in uploads', NEW w \in uploads',
                          u.held, w.held, u.dev = w.dev, u.path = w.path
                   PROVE  u = w
        OBVIOUS
      <3>1. CASE u \in uploads /\ w \in uploads
        BY <1>1, <3>1 DEF SessionsFit
      <3>2. CASE u = v \/ w = v
        BY <2>1, <2>2, <2>4, <3>2
      <3> QED
        BY <2>1, <3>1, <3>2
    <2>7. ASSUME NEW e \in Device, NEW q \in Path
          PROVE  /\ sess'[e].pc # "delta" => sess'[e].manifest[q] = Absent
                 /\ sess'[e].pc # "apply" => sess'[e].plan[q] = NoInstruction
      BY <1>1, <1>2, <2>3 DEF SessionsFit
    <2>8. SessionsFit'
      BY <2>5, <2>6, <2>7 DEF SessionsFit
    <2>9. \A e \in Device : sess'[e].now <= clock'
      BY <1>1, <1>2, <2>3 DEF NothingFromTheFuture
    <2>10. uploads' \subseteq Upload
      BY <1>1, <2>1, <2>2 DEF TypeOK
    <2> QED
      BY <2>3, <2>8, <2>9, <2>10 DEF SessionsStep
  <1> QED
    BY <1>3, <1>4

\* An upload ends, and with it the instruction that is waiting for it.
LEMMA CommitSessionsStep ==
  ASSUME SyncInv, NEW u \in uploads, NEW t \in Time, UploadCommit(u, t)
  PROVE  SessionsStep
  <1>1. TypeOK /\ NothingFromTheFuture /\ SessionsFit
    BY DEF SyncInv
  <1>2. /\ clock' = clock /\ uploads' = uploads \ {u} /\ clock \in Time
        /\ u.dev \in Device /\ u.path \in Path /\ clock <= clock
    BY <1>1, SyncBoundsAssumption DEF UploadCommit, TypeOK, Upload, Time
  <1>3. CASE ~u.held
    <2>1. sess' = sess
      BY <1>3 DEF UploadCommit
    <2>2. SessionsFit'
      BY <1>1, <1>2, <2>1 DEF SessionsFit
    <2>3. \A e \in Device : sess'[e].now <= clock'
      BY <1>1, <1>2, <2>1 DEF NothingFromTheFuture
    <2> QED
      BY <1>1, <1>2, <2>1, <2>2, <2>3 DEF SessionsStep, TypeOK
  <1>4. CASE u.held
    <2>1. Done(u.dev, u.path)
      BY <1>4 DEF UploadCommit, Done
    <2>2. /\ sess' \in [Device -> Session]
          /\ \A e \in Device :
               /\ sess'[e].now = sess[e].now
               /\ sess'[e].pc = sess[e].pc
               /\ sess'[e].manifest = sess[e].manifest
               /\ e # u.dev => sess'[e] = sess[e]
          /\ \A q \in Path : sess'[u.dev].plan[q] =
               IF q = u.path THEN NoInstruction ELSE sess[u.dev].plan[q]
      BY <1>1, <1>2, <2>1, DoneEffect DEF TypeOK
    <2>3. ASSUME NEW v \in uploads', v.held
          PROVE  sess'[v.dev].plan[v.path].do = "sent"
      <3>1. v \in uploads /\ v # u /\ v.dev \in Device /\ v.path \in Path
        BY <1>1, <1>2 DEF TypeOK, Upload
      <3>2. sess[v.dev].plan[v.path].do = "sent"
        BY <1>1, <2>3, <3>1 DEF SessionsFit
      <3>3. v.dev # u.dev \/ v.path # u.path
        BY <1>1, <1>4, <2>3, <3>1 DEF SessionsFit
      <3> QED
        BY <2>2, <3>1, <3>2, <3>3
    <2>4. ASSUME NEW e \in Device, NEW q \in Path
          PROVE  /\ sess'[e].pc # "delta" => sess'[e].manifest[q] = Absent
                 /\ sess'[e].pc # "apply" => sess'[e].plan[q] = NoInstruction
      BY <1>1, <2>2 DEF SessionsFit
    <2>5. \A v, w \in uploads' :
            v.held /\ w.held /\ v.dev = w.dev /\ v.path = w.path => v = w
      BY <1>1, <1>2 DEF SessionsFit
    <2>6. SessionsFit'
      BY <2>3, <2>4, <2>5 DEF SessionsFit
    <2>7. \A e \in Device : sess'[e].now <= clock'
      BY <1>1, <1>2, <2>2 DEF NothingFromTheFuture
    <2>8. uploads' \subseteq Upload
      BY <1>1, <1>2 DEF TypeOK
    <2> QED
      BY <2>2, <2>6, <2>7, <2>8 DEF SessionsStep
  <1> QED
    BY <1>3, <1>4

\* An upload nobody waits for ends.
LEMMA DiesStep ==
  ASSUME SyncInv, NEW u \in uploads, UploadDies(u)
  PROVE  SessionsStep
  <1>1. TypeOK /\ NothingFromTheFuture /\ SessionsFit
    BY DEF SyncInv
  <1>2. clock' = clock /\ uploads' = uploads \ {u} /\ sess' = sess
    BY DEF UploadDies
  <1>3. SessionsFit'
    BY <1>1, <1>2 DEF SessionsFit
  <1>4. \A e \in Device : sess'[e].now <= clock'
    BY <1>1, <1>2 DEF NothingFromTheFuture
  <1> QED
    BY <1>1, <1>2, <1>3, <1>4 DEF SessionsStep, TypeOK

\* A session breaks off.
LEMMA LostStep ==
  ASSUME SyncInv, NEW d \in Device, SessionLost(d)
  PROVE  SessionsStep
  <1>1. TypeOK
    BY DEF SyncInv
  <1>2. /\ clock' = clock /\ sess' = [sess EXCEPT ![d] = NoSession]
        /\ uploads' = {IF u.dev = d THEN [u EXCEPT !.held = FALSE] ELSE u
                       : u \in uploads}
    BY DEF SessionLost
  <1>3. /\ sess' \in [Device -> Session]
        /\ sess'[d].now = 0
        /\ sess'[d].pc = "idle"
        /\ \A q \in Path : /\ sess'[d].manifest[q] = Absent
                           /\ sess'[d].plan[q] = NoInstruction
        /\ \A e \in Device : e # d => sess'[e] = sess[e]
    BY <1>1, <1>2, EndEffect
  <1>4. ASSUME NEW v \in uploads'
        PROVE  v \in Upload /\ (v.held => v \in uploads /\ v.dev # d)
    <2>1. PICK u \in uploads :
            v = IF u.dev = d THEN [u EXCEPT !.held = FALSE] ELSE u
      BY <1>2
    <2>2. u \in Upload
      BY <1>1 DEF TypeOK
    <2>3. CASE u.dev = d
      BY <2>1, <2>2, <2>3 DEF Upload
    <2>4. CASE u.dev # d
      BY <2>1, <2>2, <2>4
    <2> QED
      BY <2>3, <2>4
  <1>5. uploads' \subseteq Upload /\ \A v \in uploads' : v.held => v \in uploads /\ v.dev # d
    BY <1>4
  <1>6. sess'[d].now <= clock
    BY <1>1, <1>3, SyncBoundsAssumption DEF TypeOK, Time
  <1> QED
    BY <1>2, <1>3, <1>5, <1>6, SessionsReplaced

\* Sessions and uploads fit together after every step.
LEMMA SessionsNext ==
  ASSUME SyncInv, Next
  PROVE  SessionsStep
  <1>1. TypeOK /\ NothingFromTheFuture /\ SessionsFit
    BY DEF SyncInv
  <1>2. clock \in Time /\ clock \in Nat /\ clock <= clock /\ uploads \subseteq Upload
    BY <1>1, SyncBoundsAssumption DEF TypeOK, Time
  <1>3. ASSUME UNCHANGED <<sess, uploads, clock>> PROVE SessionsStep
    BY <1>2, <1>3, SessionsSame
  <1>4. ASSUME NEW d \in Device, SyncStart(d) PROVE SessionsStep
    <2>1. sess[d].pc = "idle" /\ uploads' = uploads /\ clock' = clock
      BY <1>4 DEF SyncStart
    <2>2. \A u \in uploads : u.held => u.dev # d
      BY <2>1, NothingSent, NobodyWaits
    <2>3. /\ sess' \in [Device -> Session]
          /\ sess'[d].now \in {0, clock}
          /\ sess'[d].pc = "delta"
          /\ \A q \in Path : sess'[d].plan[q] = NoInstruction
          /\ \A e \in Device : e # d => sess'[e] = sess[e]
      BY <1>1, <1>4, StartEffect
    <2>4. sess'[d].now <= clock
      BY <1>2, <2>3
    <2> QED
      BY <1>2, <2>1, <2>2, <2>3, <2>4, SessionsReplaced
  <1>5. ASSUME NEW d \in Device, DeltaLoad(d) PROVE SessionsStep
    <2>1. sess[d].pc = "delta" /\ uploads' = uploads /\ clock' = clock
      BY <1>5 DEF DeltaLoad
    <2>2. \A u \in uploads : u.held => u.dev # d
      BY <2>1, NothingSent, NobodyWaits
    <2>3. /\ sess' \in [Device -> Session]
          /\ sess'[d].now = 0
          /\ sess'[d].pc = "apply"
          /\ \A q \in Path : sess'[d].manifest[q] = Absent
          /\ \A e \in Device : e # d => sess'[e] = sess[e]
      BY <1>1, <1>5, LoadEffect
    <2>4. sess'[d].now <= clock
      BY <1>2, <2>3
    <2> QED
      BY <1>2, <2>1, <2>2, <2>3, <2>4, SessionsReplaced
  <1>6. ASSUME NEW d \in Device, CompleteSend(d) PROVE SessionsStep
    <2>1. /\ \A p \in Path : sess[d].plan[p].do = "none"
          /\ sess' = [sess EXCEPT ![d] = [NoSession EXCEPT !.pc = "complete"]]
          /\ uploads' = uploads /\ clock' = clock
      BY <1>6 DEF CompleteSend
    <2>2. \A u \in uploads : u.held => u.dev # d
      BY <2>1, NobodyWaits
    <2>3. /\ sess' \in [Device -> Session]
          /\ sess'[d].now = 0
          /\ sess'[d].pc = "complete"
          /\ \A q \in Path : /\ sess'[d].manifest[q] = Absent
                             /\ sess'[d].plan[q] = NoInstruction
          /\ \A e \in Device : e # d => sess'[e] = sess[e]
      BY <1>1, <2>1, CompletingEffect
    <2>4. sess'[d].now <= clock
      BY <1>2, <2>3
    <2> QED
      BY <1>2, <2>1, <2>2, <2>3, <2>4, SessionsReplaced
  <1>11. ASSUME NEW c \in completes, CompleteStore(c) PROVE SessionsStep
    <2>1. uploads' = uploads /\ clock' = clock
      BY <1>11 DEF CompleteStore
    <2>2. CASE c.held
      <3> DEFINE d == c.dev
      <3>1. d \in Device /\ sess[d].pc = "complete"
        BY <2>2 DEF SyncInv, TypeOK, Completion, CompletesFit
      <3>2. sess' = [sess EXCEPT ![d] = NoSession]
        BY <1>11, <2>2 DEF CompleteStore
      <3> HIDE DEF d
      <3>3. \A u \in uploads : u.held => u.dev # d
        BY <3>1, NothingSent, NobodyWaits
      <3>4. /\ sess' \in [Device -> Session]
            /\ sess'[d].now = 0
            /\ sess'[d].pc = "idle"
            /\ \A q \in Path : /\ sess'[d].manifest[q] = Absent
                               /\ sess'[d].plan[q] = NoInstruction
            /\ \A e \in Device : e # d => sess'[e] = sess[e]
        BY <1>1, <3>1, <3>2, EndEffect
      <3>5. sess'[d].now <= clock
        BY <1>2, <3>4
      <3> QED
        BY <1>2, <2>1, <3>1, <3>3, <3>4, <3>5, SessionsReplaced
    <2>3. CASE ~c.held
      <3>1. sess' = sess
        BY <1>11, <2>3 DEF CompleteStore
      <3> QED
        BY <1>3, <2>1, <3>1
    <2> QED
      BY <2>2, <2>3
  <1>12. ASSUME NEW c \in completes,
                CompleteDies(c) \/ \E t \in Time : CompleteRead(c, t)
         PROVE  SessionsStep
    BY <1>3, <1>12 DEF CompleteDies, CompleteRead
  <1>7. ASSUME NEW d \in Device, NEW p \in Path, DeltaDelete(d, p)
        PROVE  SessionsStep
    <2>1. uploads' = uploads /\ clock' = clock
      BY <1>7 DEF DeltaDelete
    <2>2. /\ sess' \in [Device -> Session]
          /\ \A e \in Device :
               /\ sess'[e].now = sess[e].now
               /\ sess'[e].pc = sess[e].pc
               /\ sess'[e].manifest = sess[e].manifest
               /\ sess'[e].plan = sess[e].plan
      BY <1>1, <1>7, TodoEffect
    <2>3. \A u \in uploads : u.dev \in Device
      BY <1>2 DEF Upload
    <2>4. SessionsFit'
      BY <1>1, <2>1, <2>2, <2>3 DEF SessionsFit
    <2>5. \A e \in Device : sess'[e].now <= clock'
      BY <1>1, <2>1, <2>2 DEF NothingFromTheFuture
    <2> QED
      BY <1>2, <2>1, <2>2, <2>4, <2>5 DEF SessionsStep
  <1>8. ASSUME NEW d \in Device, NEW p \in Path,
               DeleteLocal(d, p) \/ Download(d, p) \/ DownloadFails(d, p)
        PROVE  SessionsStep
    <2>1. Done(d, p) /\ uploads' = uploads /\ clock' = clock
      BY <1>8 DEF DeleteLocal, Download, DownloadFails, Receive
    <2>2. sess[d].plan[p].do # "sent"
      BY <1>8 DEF DeleteLocal, Download, DownloadFails, Ordered
    <2> QED
      BY <2>1, <2>2, SessionsDone
  <1>9. CASE Tick
    <2>1. UNCHANGED <<sess, uploads>> /\ clock' = clock + 1 /\ clock < MaxTime
      BY <1>9 DEF Tick
    <2>2. clock' \in Time /\ clock <= clock'
      BY <1>2, <2>1, SyncBoundsAssumption DEF Time
    <2> QED
      BY <2>1, <2>2, SessionsSame
  <1>10. CASE UserStep
    BY <1>3, <1>10 DEF UserStep, Remove, Edit, PanelDelete, PanelRestore,
       PanelPurge, PanelRollback, PanelRestoreAll, Panel
  <1> QED
    BY <1>4, <1>5, <1>6, <1>7, <1>8, <1>9, <1>10, <1>11, <1>12, SendStep,
       CommitSessionsStep, DiesStep, LostStep
       DEF Next, DeviceStep, CommitStep, CompleteStep

-----------------------------------------------------------------------------
(* The files of the devices, and the cursors.                               *)

LEMMA ClockNext ==
  ASSUME SyncInv, Next
  PROVE  clock' \in Time /\ clock <= clock'
  <1>1. clock \in Time /\ clock \in Nat
    BY SyncBoundsAssumption DEF SyncInv, TypeOK, Time
  <1>2. clock' = clock \/ (clock' = clock + 1 /\ clock < MaxTime)
    BY DEF Next, UserStep, Remove, Edit, PanelDelete, PanelRestore, PanelPurge,
       PanelRollback, PanelRestoreAll, Panel, Tick, DeviceStep, SyncStart,
       DeltaDelete, DeltaLoad, UploadSend, DeleteLocal, Download, DownloadFails,
       Receive, CompleteSend, CompleteStep, CompleteRead,
           CompleteStore, CompleteDies, SessionLost, CommitStep, UploadCommit, UploadDies
  <1> QED
    BY <1>1, <1>2, SyncBoundsAssumption DEF Time

\* The dates of a device.
LEMMA DeviceTimeType ==
  ASSUME SyncInv, NEW d \in Device
  PROVE  DeviceTime(d) \in Nat
  <1>1. clock \in Nat /\ Skew[d] \in Int
    BY SkewAssumption, SyncBoundsAssumption DEF SyncInv, TypeOK, Time
  <1> QED
    BY <1>1 DEF DeviceTime, Later

\* Writing one file of a device.
LEMMA PutEffect ==
  ASSUME TypeOK, NEW d \in Device, NEW p \in Path, NEW e \in Entry,
         local' = [local EXCEPT ![d][p] = e]
  PROVE  /\ local' \in [Device -> [Path -> Entry]]
         /\ local'[d][p] = e
         /\ \A f \in Device, q \in Path :
              f # d \/ q # p => local'[f][q] = local[f][q]
  BY DEF TypeOK

\* The dates of files, rows and requests in their arithmetic form.
LEMMA Dates ==
  ASSUME SyncInv
  PROVE  /\ clock \in Nat
         /\ \A p \in Path : high[p] \in Nat /\ high[p] <= clock
         /\ \A d \in Device, p \in Path :
              /\ sess[d].plan[p].at \in Time /\ sess[d].plan[p].at \in Nat
              /\ sess[d].plan[p].at <= high[p]
              /\ local[d][p] \in Entry /\ local[d][p].at \in Nat
              /\ sess[d].manifest[p].at \in Nat
              /\ p \notin OwnDated(d) => /\ local[d][p].at <= high[p]
                                         /\ sess[d].manifest[p].at <= high[p]
  <1> USE SyncBoundsAssumption
  <1>1. TypeOK /\ NothingFromTheFuture /\ DatedByServer
    BY DEF SyncInv
  <1>2. ASSUME NEW d \in Device, NEW p \in Path
        PROVE  /\ sess[d].plan[p].at \in Time
               /\ local[d][p] \in Entry /\ local[d][p].at \in Nat
               /\ sess[d].manifest[p].at \in Nat
    <2>1. sess[d].plan[p] \in Instruction /\ sess[d].manifest[p] \in Entry
          /\ local[d][p] \in Entry
      BY <1>1 DEF TypeOK, Session
    <2> QED
      BY <2>1 DEF Instruction, Entry
  <1> QED
    BY <1>1, <1>2 DEF TypeOK, NothingFromTheFuture, DatedByServer, Time

\* The files of the devices keep their type.
LEMMA FilesNext ==
  ASSUME SyncInv, Next
  PROVE  local' \in [Device -> [Path -> Entry]]
  <1>1. TypeOK
    BY DEF SyncInv
  <1>2. ASSUME NEW d \in Device, NEW p \in Path, NEW c \in Content, Edit(d, p, c)
        PROVE  local' \in [Device -> [Path -> Entry]]
    <2> DEFINE e == [hash |-> c, at |-> DeviceTime(d)]
    <2>1. e \in Entry
      BY DeviceTimeType DEF Entry
    <2>2. local' = [local EXCEPT ![d][p] = e]
      BY <1>2 DEF Edit
    <2> HIDE DEF e
    <2> QED
      BY <1>1, <2>1, <2>2, PutEffect
  <1>3. ASSUME NEW d \in Device, NEW p \in Path, Remove(d, p) \/ DeleteLocal(d, p)
        PROVE  local' \in [Device -> [Path -> Entry]]
    <2>1. local' = [local EXCEPT ![d][p] = Absent]
      BY <1>3 DEF Remove, DeleteLocal, Receive
    <2> QED
      BY <1>1, <2>1, NoSessionType, PutEffect
  <1>4. ASSUME NEW d \in Device, NEW p \in Path, Download(d, p)
        PROVE  local' \in [Device -> [Path -> Entry]]
    <2> DEFINE e == [hash |-> row[p].hash, at |-> sess[d].plan[p].at]
    <2>1. e \in Entry
      <3>1. sess[d].plan[p].at \in Nat
        BY Dates
      <3>2. row[p].hash \in Content \cup {None}
        BY <1>1 DEF TypeOK, Row
      <3> QED
        BY <3>1, <3>2 DEF Entry
    <2>2. local' = [local EXCEPT ![d][p] = e]
      BY <1>4 DEF Download, Receive
    <2> HIDE DEF e
    <2> QED
      BY <1>1, <2>1, <2>2, PutEffect
  <1>5. ASSUME local' = local PROVE local' \in [Device -> [Path -> Entry]]
    BY <1>1, <1>5 DEF TypeOK
  <1> QED
    BY <1>2, <1>3, <1>4, <1>5
       DEF Next, UserStep, DeviceStep, CommitStep, PanelDelete, PanelRestore,
           PanelPurge, PanelRollback, PanelRestoreAll, Panel, Tick, SyncStart,
           DeltaDelete, DeltaLoad, UploadSend, DownloadFails, CompleteSend,
           CompleteStep, CompleteRead, CompleteStore, CompleteDies,
           SessionLost, UploadCommit, UploadDies

\* The remaining variables keep their types.
LEMMA RestNext ==
  ASSUME TypeOK, Next
  PROVE  /\ gone' \in [Device -> SUBSET Path]
         /\ cursor' \in [Device -> Time]
         /\ dirty' \in [Device -> SUBSET Path]
         /\ ahead' \in [Device -> SUBSET Path]
         /\ spent' \in [edits : Nat, lost : Nat, panel : Nat]
  <1>1. gone' \in [Device -> SUBSET Path]
    <2>1. ASSUME NEW d \in Device, DeltaLoad(d)
          PROVE  gone' \in [Device -> SUBSET Path]
      BY <2>1 DEF DeltaLoad, TypeOK
    <2>2. ASSUME NEW d \in Device, NEW p \in Path,
                 Remove(d, p) \/ \E c \in Content : Edit(d, p, c)
          PROVE  gone' \in [Device -> SUBSET Path]
      <3>1. \/ gone' = [gone EXCEPT ![d] = @ \cup {p}]
            \/ gone' = [gone EXCEPT ![d] = @ \ {p}]
        BY <2>2 DEF Remove, Edit
      <3> QED
        BY <3>1 DEF TypeOK
    <2>3. ASSUME gone' = gone PROVE gone' \in [Device -> SUBSET Path]
      BY <2>3 DEF TypeOK
    <2> QED
      BY <2>1, <2>2, <2>3
         DEF Next, UserStep, PanelDelete, PanelRestore, PanelPurge,
             PanelRollback, PanelRestoreAll, Panel, Tick, DeviceStep, SyncStart,
             DeltaDelete, UploadSend, DeleteLocal, Download, DownloadFails,
             Receive, CompleteSend, CompleteStep, CompleteRead,
           CompleteStore, CompleteDies, SessionLost, CommitStep, UploadCommit, UploadDies
  <1>2. cursor' \in [Device -> Time]
    <2>1. ASSUME NEW c \in completes, CompleteStore(c)
          PROVE  cursor' \in [Device -> Time]
      <3>1. c.dev \in Device /\ c.at \in Time
        BY <2>1 DEF CompleteStore, TypeOK, Completion
      <3> QED
        BY <2>1, <3>1 DEF CompleteStore, TypeOK
    <2>2. ASSUME cursor' = cursor PROVE cursor' \in [Device -> Time]
      BY <2>2 DEF TypeOK
    <2> QED
      BY <2>1, <2>2
         DEF Next, UserStep, Remove, Edit, PanelDelete, PanelRestore,
             PanelPurge, PanelRollback, PanelRestoreAll, Panel, Tick,
             DeviceStep, SyncStart, DeltaDelete, DeltaLoad, UploadSend,
             DeleteLocal, Download, DownloadFails, Receive, CompleteSend,
             CompleteStep, CompleteRead, CompleteDies, SessionLost, CommitStep,
             UploadCommit, UploadDies
  <1>3. dirty' \in [Device -> SUBSET Path] /\ ahead' \in [Device -> SUBSET Path]
    <2>1. ASSUME NEW d \in Device, NEW p \in Path,
                 \/ DeleteLocal(d, p) \/ Download(d, p)
                 \/ \E c \in Content : Edit(d, p, c)
          PROVE  /\ dirty' \in [Device -> SUBSET Path]
                 /\ ahead' \in [Device -> SUBSET Path]
      <3>1. /\ \/ dirty' = [dirty EXCEPT ![d] = @ \cup {p}]
               \/ dirty' = [dirty EXCEPT ![d] = @ \ {p}]
            /\ ahead' = [ahead EXCEPT ![d] = @ \ {p}]
        BY <2>1 DEF DeleteLocal, Download, Receive, Edit
      <3> QED
        BY <3>1 DEF TypeOK
    <2>2. ASSUME NEW u \in uploads, NEW t \in Time, UploadCommit(u, t)
          PROVE  /\ dirty' \in [Device -> SUBSET Path]
                 /\ ahead' \in [Device -> SUBSET Path]
      <3>1. /\ \/ dirty' = [dirty EXCEPT ![u.dev] = @ \ {u.path}]
               \/ dirty' = dirty
            /\ \/ ahead' = [ahead EXCEPT ![u.dev] = @ \cup {u.path}]
               \/ ahead' = [ahead EXCEPT ![u.dev] = @ \ {u.path}]
               \/ ahead' = ahead
        BY <2>2 DEF UploadCommit
      <3>2. dirty' \in [Device -> SUBSET Path]
        BY <3>1 DEF TypeOK
      <3>3. u.path \in Path /\ ahead \in [Device -> SUBSET Path]
        BY DEF TypeOK, Upload
      <3>4. ahead' \in [Device -> SUBSET Path]
        BY <3>1, <3>3
      <3> QED
        BY <3>2, <3>4
    <2>3. ASSUME UNCHANGED ghosts
          PROVE  /\ dirty' \in [Device -> SUBSET Path]
                 /\ ahead' \in [Device -> SUBSET Path]
      BY <2>3 DEF TypeOK, ghosts
    <2> QED
      BY <2>1, <2>2, <2>3
         DEF Next, UserStep, Remove, PanelDelete, PanelRestore, PanelPurge,
             PanelRollback, PanelRestoreAll, Panel, Tick, DeviceStep, SyncStart,
             DeltaDelete, DeltaLoad, UploadSend, DownloadFails, CompleteSend,
             CompleteStep, CompleteRead, CompleteStore, CompleteDies,
             SessionLost, CommitStep, UploadDies
  <1>4. spent' \in [edits : Nat, lost : Nat, panel : Nat]
    <2>1. \/ spent' = spent
          \/ \E w \in {"edits", "lost", "panel"} :
               spent' = [spent EXCEPT ![w] = @ + 1]
      BY DEF Next, UserStep, Remove, Edit, PanelDelete, PanelRestore,
         PanelPurge, PanelRollback, PanelRestoreAll, Panel, Spend, Tick,
         DeviceStep, SyncStart, DeltaDelete, DeltaLoad, UploadSend, DeleteLocal,
         Download, DownloadFails, Receive, CompleteSend, CompleteStep, CompleteRead,
           CompleteStore, CompleteDies, SessionLost, CommitStep,
         UploadCommit, UploadDies
    <2>2. spent \in [edits : Nat, lost : Nat, panel : Nat]
      BY DEF TypeOK
    <2>3. ASSUME NEW w \in {"edits", "lost", "panel"},
                 spent' = [spent EXCEPT ![w] = @ + 1]
          PROVE  spent' \in [edits : Nat, lost : Nat, panel : Nat]
      <3>1. CASE w = "edits"
        BY <2>2, <2>3, <3>1
      <3>2. CASE w = "lost"
        BY <2>2, <2>3, <3>2
      <3>3. CASE w = "panel"
        BY <2>2, <2>3, <3>3
      <3> QED
        BY <3>1, <3>2, <3>3
    <2> QED
      BY <2>1, <2>2, <2>3
  <1> QED
    BY <1>1, <1>2, <1>3, <1>4

\* The dates of the requests.
LEMMA UploadsNext ==
  ASSUME SyncInv, Next
  PROVE  \A u \in uploads' : u.since <= clock'
  <1>1. TypeOK /\ NothingFromTheFuture
    BY DEF SyncInv
  <1>2. clock \in Nat /\ clock' \in Nat /\ clock <= clock'
    BY ClockNext, Dates, SyncBoundsAssumption DEF Time
  <1>3. ASSUME NEW u \in uploads
        PROVE  u.since <= clock'
    <2>1. u \in Upload
      BY <1>1 DEF TypeOK
    <2>2. u.since \in Nat /\ u.since <= clock
      BY <1>1, <2>1, SyncBoundsAssumption DEF NothingFromTheFuture, Upload, Time
    <2> QED
      BY <1>2, <2>2
  <1>4. ASSUME NEW d \in Device, NEW p \in Path, UploadSend(d, p)
        PROVE  \A u \in uploads' : u.since <= clock'
    <2> DEFINE v == [dev |-> d, path |-> p, hash |-> local[d][p].hash,
                     at |-> local[d][p].at, since |-> clock, held |-> TRUE]
    <2>1. v.since <= clock'
      BY <1>2
    <2>2. uploads' = uploads \/ uploads' = uploads \cup {v}
      BY <1>4 DEF UploadSend
    <2> HIDE DEF v
    <2> QED
      BY <1>3, <2>1, <2>2
  <1>5. ASSUME NEW d \in Device, SessionLost(d)
        PROVE  \A u \in uploads' : u.since <= clock'
    <2>1. uploads' = {IF u.dev = d THEN [u EXCEPT !.held = FALSE] ELSE u
                      : u \in uploads}
      BY <1>5 DEF SessionLost
    <2>2. ASSUME NEW v \in uploads'
          PROVE  v.since <= clock'
      <3>1. PICK u \in uploads :
              v = IF u.dev = d THEN [u EXCEPT !.held = FALSE] ELSE u
        BY <2>1
      <3>2. u \in Upload
        BY <1>1 DEF TypeOK
      <3>3. v.since = u.since
        BY <3>1, <3>2 DEF Upload
      <3> QED
        BY <1>3, <3>3
    <2> QED
      BY <2>2
  <1>6. ASSUME uploads' \subseteq uploads
        PROVE  \A u \in uploads' : u.since <= clock'
    BY <1>3, <1>6
  <1> QED
    BY <1>4, <1>5, <1>6
       DEF Next, UserStep, Remove, Edit, PanelDelete, PanelRestore, PanelPurge,
           PanelRollback, PanelRestoreAll, Panel, Tick, DeviceStep, SyncStart,
           DeltaDelete, DeltaLoad, DeleteLocal, Download, DownloadFails,
           Receive, CompleteSend, CompleteStep, CompleteRead, CompleteStore,
           CompleteDies, CommitStep, UploadCommit, UploadDies

\* The instructions and the unchanged files of a device are dated by the server.
DatedFor(d, p) ==
  /\ sess[d].plan[p].at <= high[p]
  /\ p \notin OwnDated(d) => /\ local[d][p].at <= high[p]
                             /\ sess[d].manifest[p].at <= high[p]

\* A device for which nothing has changed, or less.
LEMMA DatedKept ==
  ASSUME SyncInv, TablesStep, NEW d \in Device, NEW p \in Path,
         sess'[d].plan[p].at = sess[d].plan[p].at \/ sess'[d].plan[p].at = 0,
         p \in OwnDated(d) => p \in OwnDated(d)',
         p \notin OwnDated(d)' => local'[d][p] = local[d][p] \/ local'[d][p] = Absent,
         \/ sess'[d].manifest[p].at = sess[d].manifest[p].at
         \/ sess'[d].manifest[p].at = 0
  PROVE  DatedFor(d, p)'
  <1>1. Absent.at = 0
    BY DEF Absent
  <1>2. /\ high[p] \in Nat /\ high'[p] \in Nat /\ high[p] <= high'[p]
    BY Dates, SyncBoundsAssumption DEF TablesStep, Time
  <1>3. /\ sess[d].plan[p].at \in Nat /\ sess[d].plan[p].at <= high[p]
        /\ local[d][p].at \in Nat /\ sess[d].manifest[p].at \in Nat
        /\ p \notin OwnDated(d) => /\ local[d][p].at <= high[p]
                                   /\ sess[d].manifest[p].at <= high[p]
    BY Dates
  <1>4. sess'[d].plan[p].at <= high'[p]
    BY <1>2, <1>3
  <1>5. ASSUME p \notin OwnDated(d)'
        PROVE  local'[d][p].at <= high'[p] /\ sess'[d].manifest[p].at <= high'[p]
    <2>1. p \notin OwnDated(d)
      BY <1>5
    <2>2. local'[d][p].at = local[d][p].at \/ local'[d][p].at = 0
      BY <1>1, <1>5
    <2> QED
      BY <1>2, <1>3, <2>1, <2>2
  <1> QED
    BY <1>4, <1>5 DEF DatedFor

\* A device whose file gets a date the server gave, or goes by one of its own,
\* while it has no list.
LEMMA DatedPut ==
  ASSUME SyncInv, TablesStep, NEW d \in Device, NEW p \in Path,
         sess[d].pc = "apply", Done(d, p),
         p \in OwnDated(d)' \/ local'[d][p].at <= high'[p]
  PROVE  DatedFor(d, p)'
  <1>1. TypeOK /\ SessionsFit
    BY DEF SyncInv
  <1>2. /\ sess'[d].manifest = sess[d].manifest
        /\ sess'[d].plan[p] = NoInstruction
    BY <1>1, DoneEffect DEF TypeOK
  <1>3. sess[d].manifest[p] = Absent
    BY <1>1 DEF SessionsFit
  <1>4. sess'[d].manifest[p].at = 0 /\ sess'[d].plan[p].at = 0
    BY <1>2, <1>3 DEF Absent, NoInstruction
  <1>5. high'[p] \in Nat
    BY SyncBoundsAssumption DEF TablesStep, Time
  <1> QED
    BY <1>4, <1>5 DEF DatedFor

\* The transaction of an upload: a file it dates has got a date that is not newer
\* than the highest of its path, unless the device's clock was ahead.
LEMMA DatedCommit ==
  ASSUME SyncInv, TablesStep, NEW u \in uploads, NEW t \in Time,
         UploadCommit(u, t), NEW d \in Device, NEW p \in Path
  PROVE  DatedFor(d, p)'
  <1>1. TypeOK /\ NothingFromTheFuture /\ SessionsFit
    BY DEF SyncInv
  <1>2. u \in Upload /\ u.dev \in Device /\ u.path \in Path
    BY <1>1 DEF TypeOK, Upload
  <1>3. local' = local /\ sess' = IF u.held
               THEN [sess EXCEPT ![u.dev].plan[u.path] = NoInstruction]
               ELSE sess
    BY DEF UploadCommit
  <1>4. u.held => Done(u.dev, u.path)
    BY <1>3 DEF Done
  <1>5. CASE d = u.dev /\ p = u.path /\ Acknowledges(u)
    <2>1. u.held /\ row[p].hash # u.hash
          /\ local[d][p] = [hash |-> u.hash, at |-> u.at]
      BY <1>5 DEF Acknowledges
    <2>2. sess[d].pc = "apply"
      <3>1. sess[d].plan[p].do = "sent"
        BY <1>1, <1>5, <2>1 DEF SessionsFit
      <3> QED
        BY <3>1, NothingSent
    <2>3. u.at \in Nat /\ t \in Nat
      BY <1>2, SyncBoundsAssumption DEF Upload, Time
    <2>4. t <= high'[p]
      <3> DEFINE r == Uploaded(u, t)
                 h == history[u.path] \cup {u.hash}
      <3>1. r \in Row /\ r.at = t
        BY <1>1, <1>2, <1>5, <2>1, UploadedRow
      <3>2. h \in SUBSET Content
        BY <1>1, <1>2 DEF TypeOK, Upload
      <3>3. SetRow(u.path, r, h)
        BY DEF UploadCommit
      <3> HIDE DEF r, h
      <3>4. r.at <= high'[u.path]
        BY <1>1, <1>2, <3>1, <3>2, <3>3, SetRowEffect
      <3> QED
        BY <1>5, <3>1, <3>4
    <2>5. high'[p] \in Nat
      BY SyncBoundsAssumption DEF TablesStep, Time
    <2>6. local'[d][p].at = u.at
      BY <1>3, <2>1
    <2>7. p \in OwnDated(d)' \/ local'[d][p].at <= high'[p]
      <3>1. CASE u.at <= t
        BY <2>3, <2>4, <2>5, <2>6, <3>1
      <3>2. CASE u.at > t
        <4>1. ahead' = [ahead EXCEPT ![d] = @ \cup {p}]
          BY <1>5, <3>2 DEF UploadCommit
        <4> QED
          BY <1>1, <4>1 DEF OwnDated, TypeOK
      <3> QED
        BY <2>3, <3>1, <3>2
    <2>8. Done(d, p)
      BY <1>4, <1>5, <2>1
    <2> QED
      BY <2>2, <2>7, <2>8, DatedPut
  <1>6. CASE ~(d = u.dev /\ p = u.path /\ Acknowledges(u))
    <2>1. /\ dirty' = IF Acknowledges(u)
                        THEN [dirty EXCEPT ![u.dev] = @ \ {u.path}]
                        ELSE dirty
          /\ \/ ahead' = [ahead EXCEPT ![u.dev] = @ \cup {u.path}]
             \/ ahead' = [ahead EXCEPT ![u.dev] = @ \ {u.path}]
             \/ ahead' = ahead
          /\ ~Acknowledges(u) => ahead' = ahead
      BY DEF UploadCommit
    <2>2. p \in OwnDated(d) => p \in OwnDated(d)'
      <3>1. CASE Acknowledges(u)
        BY <1>1, <1>6, <2>1, <3>1 DEF TypeOK, OwnDated
      <3>2. CASE ~Acknowledges(u)
        BY <2>1, <3>2 DEF OwnDated
      <3> QED
        BY <3>1, <3>2
    <2>3. CASE u.held
      <3>1. /\ \A e \in Device : /\ sess'[e].manifest = sess[e].manifest
                                 /\ e # u.dev => sess'[e] = sess[e]
            /\ \A q \in Path : sess'[u.dev].plan[q] =
                 IF q = u.path THEN NoInstruction ELSE sess[u.dev].plan[q]
        BY <1>1, <1>2, <1>4, <2>3, DoneEffect DEF TypeOK
      <3>2. NoInstruction.at = 0
        BY DEF NoInstruction
      <3>3. sess'[d].plan[p].at = sess[d].plan[p].at \/ sess'[d].plan[p].at = 0
        BY <3>1, <3>2
      <3>4. sess'[d].manifest[p].at = sess[d].manifest[p].at
        BY <3>1
      <3> QED
        BY <1>3, <2>2, <3>3, <3>4, DatedKept
    <2>4. CASE ~u.held
      <3>1. sess' = sess
        BY <1>3, <2>4
      <3>2. /\ sess'[d].plan[p].at = sess[d].plan[p].at
            /\ sess'[d].manifest[p].at = sess[d].manifest[p].at
        BY <3>1
      <3> QED
        BY <1>3, <2>2, <3>2, DatedKept
    <2> QED
      BY <2>3, <2>4
  <1> QED
    BY <1>5, <1>6

\* A device follows an instruction, or does not.
LEMMA DatedApply ==
  ASSUME SyncInv, TablesStep, NEW e \in Device, NEW q \in Path,
         \/ DeleteLocal(e, q) \/ Download(e, q) \/ DownloadFails(e, q)
         \/ UploadSend(e, q),
         NEW d \in Device, NEW p \in Path
  PROVE  DatedFor(d, p)'
  <1>1. TypeOK /\ sess \in [Device -> Session]
    BY DEF SyncInv, TypeOK
  <1>2. NoInstruction.at = 0 /\ Absent.at = 0
    BY DEF NoInstruction, Absent
  <1>3. ASSUME Done(e, q)
        PROVE  /\ sess'[d].plan[p].at = sess[d].plan[p].at \/ sess'[d].plan[p].at = 0
               /\ sess'[d].manifest[p].at = sess[d].manifest[p].at
    <2>1. /\ sess'[d].manifest = sess[d].manifest
          /\ d # e => sess'[d] = sess[d]
          /\ sess'[e].plan[p] = IF p = q THEN NoInstruction ELSE sess[e].plan[p]
      BY <1>1, <1>3, DoneEffect
    <2> QED
      BY <1>2, <2>1
  <1>4. CASE DownloadFails(e, q)
    <2>1. Done(e, q) /\ local' = local /\ OwnDated(d)' = OwnDated(d)
      BY <1>4 DEF DownloadFails, ghosts, OwnDated
    <2> QED
      BY <1>3, <2>1, DatedKept
  <1>5. CASE UploadSend(e, q)
    <2>1. local' = local /\ OwnDated(d)' = OwnDated(d)
      BY <1>5 DEF UploadSend, ghosts, OwnDated
    <2>2. CASE Done(e, q)
      BY <1>3, <2>1, <2>2, DatedKept
    <2>3. CASE sess' = [sess EXCEPT ![e].plan[q].do = "sent"]
      <3>1. /\ sess'[d].manifest = sess[d].manifest
            /\ d # e => sess'[d] = sess[d]
            /\ p # q => sess'[e].plan[p] = sess[e].plan[p]
            /\ sess'[e].plan[q].at = sess[e].plan[q].at
        BY <1>1, <2>3, SentEffect
      <3>2. /\ sess'[d].plan[p].at = sess[d].plan[p].at
            /\ sess'[d].manifest[p].at = sess[d].manifest[p].at
        BY <3>1
      <3> QED
        BY <2>1, <3>2, DatedKept
    <2> QED
      BY <1>5, <2>2, <2>3 DEF UploadSend
  <1>6. ASSUME NEW f \in Entry, Receive(e, q, f), sess[e].pc = "apply",
               f.at \in Nat, f.at <= high'[q]
        PROVE  DatedFor(d, p)'
    <2>1. /\ local' = [local EXCEPT ![e][q] = f] /\ Done(e, q)
          /\ dirty' = [dirty EXCEPT ![e] = @ \ {q}]
          /\ ahead' = [ahead EXCEPT ![e] = @ \ {q}]
      BY <1>6 DEF Receive
    <2>2. /\ local'[e][q] = f
          /\ d # e \/ p # q => local'[d][p] = local[d][p]
      BY <1>1, <2>1, PutEffect
    <2>3. CASE d = e /\ p = q
      <3>1. local'[d][p].at <= high'[p]
        BY <1>6, <2>2, <2>3
      <3> QED
        BY <1>6, <2>1, <2>3, <3>1, DatedPut
    <2>4. CASE d # e \/ p # q
      <3>1. p \in OwnDated(d) => p \in OwnDated(d)'
        BY <1>1, <2>1, <2>4 DEF TypeOK, OwnDated
      <3> QED
        BY <1>3, <2>1, <2>2, <2>4, <3>1, DatedKept
    <2> QED
      BY <2>3, <2>4
  <1>7. high'[q] \in Nat /\ high[q] \in Nat /\ high[q] <= high'[q]
    BY Dates, SyncBoundsAssumption DEF TablesStep, Time
  <1>8. CASE DeleteLocal(e, q)
    <2>1. Receive(e, q, Absent) /\ sess[e].pc = "apply"
      BY <1>8 DEF DeleteLocal, Ordered
    <2>2. Absent \in Entry /\ Absent.at \in Nat /\ Absent.at <= high'[q]
      BY <1>2, <1>7, NoSessionType
    <2> QED
      BY <1>6, <2>1, <2>2
  <1>9. CASE Download(e, q)
    <2> DEFINE f == [hash |-> row[q].hash, at |-> sess[e].plan[q].at]
    <2>1. Receive(e, q, f) /\ sess[e].pc = "apply"
      BY <1>9 DEF Download, Ordered
    <2>2. f \in Entry /\ f.at = sess[e].plan[q].at
      <3>1. row[q].hash \in Content \cup {None} /\ sess[e].plan[q].at \in Nat
        BY <1>1, Dates DEF TypeOK, Row
      <3> QED
        BY <3>1 DEF Entry
    <2> HIDE DEF f
    <2>3. f.at \in Nat /\ f.at <= high'[q]
      BY <1>7, <2>2, Dates
    <2> QED
      BY <1>6, <2>1, <2>2, <2>3
  <1> QED
    BY <1>4, <1>5, <1>8, <1>9

\* Dates stay in order after every step.
LEMMA DatedNext ==
  ASSUME SyncInv, Next, NEW d \in Device, NEW p \in Path
  PROVE  DatedFor(d, p)'
  <1>1. TypeOK /\ NothingFromTheFuture /\ SessionsFit /\ DatedByServer
    BY DEF SyncInv
  <1>2. TablesStep
    BY TablesNext
  <1>3. NoInstruction.at = 0 /\ Absent.at = 0
    BY DEF NoInstruction, Absent
  <1>4. ASSUME UNCHANGED <<sess, local, ghosts>> PROVE DatedFor(d, p)'
    <2>1. OwnDated(d)' = OwnDated(d)
      BY <1>4 DEF ghosts, OwnDated
    <2> QED
      BY <1>2, <1>4, <2>1, DatedKept
  <1>5. /\ high[p] \in Nat /\ high'[p] \in Nat /\ high[p] <= high'[p]
    BY <1>2, Dates, SyncBoundsAssumption DEF TablesStep, Time
  <1>6. ASSUME NEW e \in Device, SyncStart(e) PROVE DatedFor(d, p)'
    <2>1. local' = local /\ OwnDated(d)' = OwnDated(d)
      BY <1>6 DEF SyncStart, ghosts, OwnDated
    <2>2. /\ sess'[e].manifest = local[e]
          /\ sess'[e].plan[p] = NoInstruction
          /\ d # e => sess'[d] = sess[d]
      BY <1>1, <1>6, StartEffect
    <2>3. CASE d # e
      BY <1>2, <2>1, <2>2, <2>3, DatedKept
    <2>4. CASE d = e
      <3>1. sess'[d].plan[p].at <= high'[p]
        BY <1>3, <1>5, <2>2, <2>4
      <3>2. ASSUME p \notin OwnDated(d)'
            PROVE  /\ local'[d][p].at <= high'[p]
                   /\ sess'[d].manifest[p].at <= high'[p]
        <4>1. local[d][p].at \in Nat /\ local[d][p].at <= high[p]
          BY <2>1, <3>2, Dates
        <4>2. local'[d][p] = local[d][p] /\ sess'[d].manifest[p] = local[d][p]
          BY <2>1, <2>2, <2>4
        <4> QED
          BY <1>5, <4>1, <4>2
      <3> QED
        BY <3>1, <3>2 DEF DatedFor
    <2> QED
      BY <2>3, <2>4
  <1>7. ASSUME NEW e \in Device, DeltaLoad(e) PROVE DatedFor(d, p)'
    <2>1. local' = local /\ OwnDated(d)' = OwnDated(d)
      BY <1>7 DEF DeltaLoad, ghosts, OwnDated
    <2>2. /\ sess'[e].manifest[p] = Absent
          /\ sess'[e].plan[p] = Instruct(sess[e].manifest[p], row[p])
          /\ d # e => sess'[d] = sess[d]
      BY <1>1, <1>7, LoadEffect
    <2>3. CASE d # e
      BY <1>2, <2>1, <2>2, <2>3, DatedKept
    <2>4. CASE d = e
      <3>1. sess[e].manifest[p] \in Entry /\ row[p] \in Row
        BY <1>1 DEF TypeOK, Session
      <3>2. sess'[d].plan[p].at = row[p].at \/ sess'[d].plan[p].at = 0
        BY <2>2, <2>4, <3>1, InstructType
      <3>3. row[p].at \in Nat /\ row[p].at <= high[p]
        BY <1>1, <3>1, SyncBoundsAssumption DEF DatedByServer, Row, Time
      <3>4. sess'[d].plan[p].at <= high'[p]
        BY <1>5, <3>2, <3>3
      <3>5. ASSUME p \notin OwnDated(d)'
            PROVE  /\ local'[d][p].at <= high'[p]
                   /\ sess'[d].manifest[p].at <= high'[p]
        <4>1. local[d][p].at \in Nat /\ local[d][p].at <= high[p]
          BY <2>1, <3>5, Dates
        <4>2. local'[d][p] = local[d][p] /\ sess'[d].manifest[p].at = 0
          BY <1>3, <2>1, <2>2, <2>4
        <4> QED
          BY <1>5, <4>1, <4>2
      <3> QED
        BY <3>4, <3>5 DEF DatedFor
    <2> QED
      BY <2>3, <2>4
  <1>8. ASSUME NEW e \in Device,
               \/ sess' = [sess EXCEPT ![e] = NoSession]
               \/ sess' = [sess EXCEPT ![e] = [NoSession EXCEPT !.pc = "complete"]],
               UNCHANGED <<local, ghosts>>
        PROVE  DatedFor(d, p)'
    <2>1. OwnDated(d)' = OwnDated(d)
      BY <1>8 DEF ghosts, OwnDated
    <2>2. /\ sess'[e].manifest[p] = Absent /\ sess'[e].plan[p] = NoInstruction
          /\ d # e => sess'[d] = sess[d]
      BY <1>1, <1>8, EndEffect, CompletingEffect
    <2> QED
      BY <1>2, <1>3, <1>8, <2>1, <2>2, DatedKept
  <1>11. ASSUME NEW e \in Device, CompleteSend(e) \/ SessionLost(e)
         PROVE  DatedFor(d, p)'
    BY <1>8, <1>11 DEF CompleteSend, SessionLost
  <1>12. ASSUME NEW c \in completes,
                \/ CompleteStore(c) \/ CompleteDies(c)
                \/ \E t \in Time : CompleteRead(c, t)
         PROVE  DatedFor(d, p)'
    <2>1. c.dev \in Device
      BY <1>1 DEF TypeOK, Completion
    <2>2. CASE CompleteStore(c) /\ c.held
      BY <1>8, <2>1, <2>2 DEF CompleteStore
    <2>3. CASE ~(CompleteStore(c) /\ c.held)
      BY <1>4, <1>12, <2>3 DEF CompleteStore, CompleteDies, CompleteRead
    <2> QED
      BY <2>2, <2>3
  <1>9. ASSUME NEW e \in Device, NEW q \in Path, DeltaDelete(e, q)
        PROVE  DatedFor(d, p)'
    <2>1. local' = local /\ OwnDated(d)' = OwnDated(d)
      BY <1>9 DEF DeltaDelete, ghosts, OwnDated
    <2>2. sess'[d].manifest = sess[d].manifest /\ sess'[d].plan = sess[d].plan
      BY <1>1, <1>9, TodoEffect
    <2> QED
      BY <1>2, <2>1, <2>2, DatedKept
  <1>10. ASSUME NEW e \in Device, NEW q \in Path,
                Remove(e, q) \/ \E c \in Content : Edit(e, q, c)
         PROVE  DatedFor(d, p)'
    <2>1. sess' = sess
      BY <1>10 DEF Remove, Edit
    <2>2. p \in OwnDated(d) => p \in OwnDated(d)'
      <3>1. CASE Remove(e, q)
        BY <3>1 DEF Remove, ghosts, OwnDated
      <3>2. ASSUME NEW c \in Content, Edit(e, q, c)
            PROVE  p \in OwnDated(d) => p \in OwnDated(d)'
        <4>1. /\ dirty' = [dirty EXCEPT ![e] = @ \cup {q}]
              /\ ahead' = [ahead EXCEPT ![e] = @ \ {q}]
          BY <3>2 DEF Edit
        <4> QED
          BY <1>1, <4>1 DEF OwnDated, TypeOK
      <3> QED
        BY <1>10, <3>1, <3>2
    <2>3. p \notin OwnDated(d)' => local'[d][p] = local[d][p] \/ local'[d][p] = Absent
      BY <1>1, <1>10 DEF Remove, Edit, TypeOK, OwnDated
    <2> QED
      BY <1>2, <2>1, <2>2, <2>3, DatedKept
  <1> QED
    BY <1>2, <1>4, <1>6, <1>7, <1>9, <1>10, <1>11, <1>12, DatedApply, DatedCommit
       DEF Next, UserStep, PanelDelete, PanelRestore, PanelPurge, PanelRollback,
           PanelRestoreAll, Panel, Tick, DeviceStep, CommitStep, UploadDies,
           CompleteStep

\* What every step keeps of the requests to complete.
CompletesStep == completes' \subseteq Completion /\ CompletesFit'

\* A step that neither sends nor ends one, nor what one waits for.
LEMMA CompletesSame ==
  ASSUME SyncInv, completes' = completes, UNCHANGED spent,
         \A d \in Device : sess[d].pc = "complete" => sess'[d].pc = "complete"
  PROVE  CompletesStep
  <1>1. TypeOK /\ CompletesFit
    BY DEF SyncInv
  <1>2. \A c \in completes : c.dev \in Device
    BY <1>1 DEF TypeOK, Completion
  <1> QED
    BY <1>1, <1>2 DEF CompletesStep, CompletesFit, TypeOK

\* Requests to complete fit their sessions after every step.
LEMMA CompletesNext ==
  ASSUME SyncInv, Next
  PROVE  CompletesStep
  <1>1. TypeOK /\ CompletesFit /\ spent.lost \in Nat /\ sess \in [Device -> Session]
    BY DEF SyncInv, TypeOK
  <1>2. \A c \in completes : c \in Completion /\ c.dev \in Device /\ c.nr \in Nat
    BY <1>1 DEF TypeOK, Completion
  <1>3. ASSUME NEW d \in Device, CompleteSend(d) PROVE CompletesStep
    <2> DEFINE v == [dev |-> d, nr |-> spent.lost, at |-> Unread, held |-> TRUE,
                     late |-> FALSE]
    <2>1. /\ completes' = completes \cup {v} /\ spent' = spent
          /\ sess[d].pc = "apply"
          /\ sess' = [sess EXCEPT ![d] = [NoSession EXCEPT !.pc = "complete"]]
      BY <1>3 DEF CompleteSend
    <2>2. v \in Completion /\ v.dev = d /\ v.nr = spent.lost
      BY <1>1 DEF Completion
    <2> HIDE DEF v
    <2>3. sess'[d].pc = "complete" /\ \A e \in Device : e # d => sess'[e] = sess[e]
      BY <1>1, <2>1, CompletingEffect
    <2>4. \A c \in completes : c.dev = d => ~c.held /\ c.nr < spent.lost
      BY <1>1, <2>1 DEF CompletesFit
    <2>5. \A c \in completes' :
            /\ c.held => sess'[c.dev].pc = "complete"
            /\ c.nr <= spent'.lost /\ (~c.held => c.nr < spent'.lost)
      <3>1. ASSUME NEW c \in completes
            PROVE  /\ c.held => sess'[c.dev].pc = "complete"
                   /\ c.nr <= spent'.lost /\ (~c.held => c.nr < spent'.lost)
        BY <1>1, <1>2, <2>1, <2>3 DEF CompletesFit
      <3>2. v.held
        BY DEF v
      <3> QED
        BY <1>1, <2>1, <2>2, <2>3, <3>1, <3>2
    <2>6. \A c \in completes : c.dev = v.dev => ~c.held /\ c.nr # v.nr
      BY <1>1, <1>2, <2>2, <2>4
    <2>7. \A c, e \in completes' :
            c.dev = e.dev /\ (c.nr = e.nr \/ (c.held /\ e.held)) => c = e
      BY <1>1, <2>1, <2>6 DEF CompletesFit
    <2> QED
      BY <1>1, <2>1, <2>2, <2>5, <2>7 DEF CompletesStep, CompletesFit, TypeOK
  <1>4. ASSUME NEW c \in completes, NEW t \in Time, CompleteRead(c, t)
        PROVE  CompletesStep
    <2> DEFINE v == [c EXCEPT !.at = t, !.late = \E p \in Path : Backdated(p)]
    <2>1. /\ completes' = (completes \ {c}) \cup {v}
          /\ spent' = spent /\ sess' = sess
      BY <1>4 DEF CompleteRead
    <2>2. /\ v \in Completion
          /\ v.dev = c.dev /\ v.nr = c.nr /\ v.held = c.held
      BY <1>2 DEF Completion
    <2> HIDE DEF v
    <2>3. \A x \in completes' :
            /\ x.held => sess'[x.dev].pc = "complete"
            /\ x.nr <= spent'.lost /\ (~x.held => x.nr < spent'.lost)
      BY <1>1, <2>1, <2>2 DEF CompletesFit
    <2>4. \A x, y \in completes' :
            x.dev = y.dev /\ (x.nr = y.nr \/ (x.held /\ y.held)) => x = y
      BY <1>1, <2>1, <2>2 DEF CompletesFit
    <2> QED
      BY <1>1, <2>1, <2>2, <2>3, <2>4 DEF CompletesStep, CompletesFit, TypeOK
  <1>5. ASSUME NEW c \in completes, CompleteStore(c) PROVE CompletesStep
    <2>1. /\ completes' = {Overtake(c, x) : x \in completes \ {c}}
          /\ spent' = spent
          /\ sess' = IF c.held THEN [sess EXCEPT ![c.dev] = NoSession] ELSE sess
      BY <1>5 DEF CompleteStore
    <2>2. ASSUME NEW x \in completes
          PROVE  /\ Overtake(c, x) \in Completion
                 /\ Overtake(c, x).dev = x.dev /\ Overtake(c, x).nr = x.nr
                 /\ Overtake(c, x).held = x.held
      <3>1. x \in Completion
        BY <1>2
      <3>2. /\ [x EXCEPT !.late = TRUE] \in Completion
            /\ [x EXCEPT !.late = TRUE].dev = x.dev
            /\ [x EXCEPT !.late = TRUE].nr = x.nr
            /\ [x EXCEPT !.late = TRUE].held = x.held
        BY <3>1 DEF Completion
      <3> QED
        BY <3>1, <3>2 DEF Overtake
    <2>3. ASSUME NEW x \in completes, x # c, x.held
          PROVE  sess'[x.dev].pc = "complete"
      <3>1. sess[x.dev].pc = "complete"
        BY <1>1, <2>3 DEF CompletesFit
      <3>2. c.held => x.dev # c.dev
        BY <1>1, <2>3 DEF CompletesFit
      <3> QED
        BY <1>1, <1>2, <2>1, <3>1, <3>2
    <2>4. \A y \in completes' :
            /\ y.held => sess'[y.dev].pc = "complete"
            /\ y.nr <= spent'.lost /\ (~y.held => y.nr < spent'.lost)
      <3> SUFFICES ASSUME NEW y \in completes'
                   PROVE  /\ y.held => sess'[y.dev].pc = "complete"
                          /\ y.nr <= spent'.lost /\ (~y.held => y.nr < spent'.lost)
        OBVIOUS
      <3>1. PICK x \in completes : x # c /\ y = Overtake(c, x)
        BY <2>1
      <3>2. y.dev = x.dev /\ y.nr = x.nr /\ y.held = x.held
        BY <2>2, <3>1
      <3>3. x.nr <= spent.lost /\ (~x.held => x.nr < spent.lost)
        BY <1>1 DEF CompletesFit
      <3> QED
        BY <2>1, <2>3, <3>1, <3>2, <3>3
    <2>5. \A y, z \in completes' :
            y.dev = z.dev /\ (y.nr = z.nr \/ (y.held /\ z.held)) => y = z
      <3> SUFFICES ASSUME NEW y \in completes', NEW z \in completes', y.dev = z.dev,
                          y.nr = z.nr \/ (y.held /\ z.held)
                   PROVE  y = z
        OBVIOUS
      <3>1. PICK x \in completes : y = Overtake(c, x)
        BY <2>1
      <3>2. PICK w \in completes : z = Overtake(c, w)
        BY <2>1
      <3>3. /\ y.dev = x.dev /\ y.nr = x.nr /\ y.held = x.held
            /\ z.dev = w.dev /\ z.nr = w.nr /\ z.held = w.held
        BY <2>2, <3>1, <3>2
      <3>4. x = w
        BY <1>1, <3>3 DEF CompletesFit
      <3> QED
        BY <3>1, <3>2, <3>4
    <2>6. completes' \subseteq Completion
      BY <2>1, <2>2
    <2> QED
      BY <2>4, <2>5, <2>6 DEF CompletesStep, CompletesFit
  <1>6. ASSUME NEW c \in completes, CompleteDies(c) PROVE CompletesStep
    <2>1. completes' = completes \ {c} /\ spent' = spent /\ sess' = sess
      BY <1>6 DEF CompleteDies
    <2> QED
      BY <1>1, <2>1 DEF CompletesStep, CompletesFit, TypeOK
  <1>7. ASSUME NEW d \in Device, SessionLost(d) PROVE CompletesStep
    <2>1. /\ completes' = {IF c.dev = d THEN [c EXCEPT !.held = FALSE] ELSE c
                           : c \in completes}
          /\ spent' = [spent EXCEPT !.lost = @ + 1]
          /\ sess' = [sess EXCEPT ![d] = NoSession]
      BY <1>7 DEF SessionLost
    <2>2. spent'.lost = spent.lost + 1
      BY <1>1, <2>1 DEF TypeOK
    <2>3. ASSUME NEW x \in completes
          PROVE  /\ [x EXCEPT !.held = FALSE] \in Completion
                 /\ [x EXCEPT !.held = FALSE].dev = x.dev
                 /\ [x EXCEPT !.held = FALSE].nr = x.nr
                 /\ [x EXCEPT !.held = FALSE].held = FALSE
      BY <1>2 DEF Completion
    <2>4. ASSUME NEW y \in completes'
          PROVE  /\ y \in Completion
                 /\ y.held => sess'[y.dev].pc = "complete"
                 /\ y.nr <= spent'.lost /\ (~y.held => y.nr < spent'.lost)
      <3>1. PICK x \in completes :
              y = IF x.dev = d THEN [x EXCEPT !.held = FALSE] ELSE x
        BY <2>1
      <3>2. /\ y \in Completion /\ y.dev = x.dev /\ y.nr = x.nr
            /\ y.held => x.held /\ x.dev # d
        BY <1>2, <2>3, <3>1
      <3>3. y.held => sess'[y.dev].pc = "complete"
        BY <1>1, <1>2, <2>1, <3>2 DEF CompletesFit
      <3>4. x.nr <= spent.lost /\ x.nr \in Nat
        BY <1>1, <1>2 DEF CompletesFit
      <3> QED
        BY <1>1, <2>2, <3>2, <3>3, <3>4
    <2>5. \A y, z \in completes' :
            y.dev = z.dev /\ (y.nr = z.nr \/ (y.held /\ z.held)) => y = z
      <3> SUFFICES ASSUME NEW y \in completes', NEW z \in completes', y.dev = z.dev,
                          y.nr = z.nr \/ (y.held /\ z.held)
                   PROVE  y = z
        OBVIOUS
      <3>1. PICK x \in completes :
              y = IF x.dev = d THEN [x EXCEPT !.held = FALSE] ELSE x
        BY <2>1
      <3>2. PICK w \in completes :
              z = IF w.dev = d THEN [w EXCEPT !.held = FALSE] ELSE w
        BY <2>1
      <3>3. /\ y.dev = x.dev /\ y.nr = x.nr /\ (y.held => x.held)
            /\ z.dev = w.dev /\ z.nr = w.nr /\ (z.held => w.held)
        BY <2>3, <3>1, <3>2
      <3>4. x = w
        BY <1>1, <3>3 DEF CompletesFit
      <3> QED
        BY <3>1, <3>2, <3>4
    <2> QED
      BY <2>4, <2>5 DEF CompletesStep, CompletesFit
  <1>8. ASSUME NEW d \in Device, SyncStart(d) \/ DeltaLoad(d) PROVE CompletesStep
    <2>1. /\ completes' = completes /\ spent' = spent /\ sess[d].pc # "complete"
          /\ \A e \in Device : e # d => sess'[e] = sess[e]
      BY <1>1, <1>8, StartEffect, LoadEffect DEF SyncStart, DeltaLoad
    <2> QED
      BY <2>1, CompletesSame
  <1>9. ASSUME NEW d \in Device, NEW p \in Path,
               \/ DeltaDelete(d, p) \/ UploadSend(d, p) \/ DeleteLocal(d, p)
               \/ Download(d, p) \/ DownloadFails(d, p)
        PROVE  CompletesStep
    <2>1. completes' = completes /\ spent' = spent
      BY <1>9 DEF DeltaDelete, UploadSend, DeleteLocal, Download, DownloadFails,
                  Receive
    <2>2. \A e \in Device : sess'[e].pc = sess[e].pc
      <3>1. CASE DeltaDelete(d, p)
        BY <1>1, <3>1, TodoEffect
      <3>2. CASE Done(d, p)
        BY <1>1, <3>2, DoneEffect
      <3>3. CASE sess' = [sess EXCEPT ![d].plan[p].do = "sent"]
        BY <1>1, <3>3, SentEffect
      <3> QED
        BY <1>9, <3>1, <3>2, <3>3
           DEF UploadSend, DeleteLocal, Download, DownloadFails, Receive
    <2> QED
      BY <2>1, <2>2, CompletesSame
  <1>10. ASSUME NEW u \in uploads, NEW t \in Time, UploadCommit(u, t)
         PROVE  CompletesStep
    <2>1. completes' = completes /\ spent' = spent
      BY <1>10 DEF UploadCommit
    <2>2. \A e \in Device : sess'[e].pc = sess[e].pc
      <3>1. u.dev \in Device /\ u.path \in Path
        BY <1>1 DEF TypeOK, Upload
      <3>2. Done(u.dev, u.path) \/ sess' = sess
        BY <1>10 DEF UploadCommit, Done
      <3> QED
        BY <1>1, <3>1, <3>2, DoneEffect
    <2> QED
      BY <2>1, <2>2, CompletesSame
  <1>11. ASSUME NEW u \in uploads, UploadDies(u) PROVE CompletesStep
    BY <1>11, CompletesSame DEF UploadDies
  <1>12. CASE Tick
    BY <1>12, CompletesSame DEF Tick
  <1>13. CASE UserStep
    <2>1. UNCHANGED <<completes, sess>> /\ spent'.lost = spent.lost
      BY <1>1, <1>13
         DEF UserStep, Remove, Edit, PanelDelete, PanelRestore, PanelPurge,
             PanelRollback, PanelRestoreAll, Panel, Spend, TypeOK
    <2> QED
      BY <1>1, <2>1 DEF CompletesStep, CompletesFit, TypeOK
  <1> QED
    BY <1>3, <1>4, <1>5, <1>6, <1>7, <1>8, <1>9, <1>10, <1>11, <1>12, <1>13
       DEF Next, DeviceStep, CommitStep, CompleteStep

\* A cursor that is stored, or on its way, is a date some path has reached.
LEMMA CursorNext ==
  ASSUME SyncInv, Next
  PROVE  CursorReached'
  <1>1. TypeOK /\ CursorReached
    BY DEF SyncInv
  <1>2. \A p \in Path : high[p] \in Nat /\ high'[p] \in Nat /\ high[p] <= high'[p]
    BY TablesNext, Dates, SyncBoundsAssumption DEF TablesStep, Time
  <1>3. /\ \A d \in Device : cursor[d] \in Nat
        /\ \A c \in completes : /\ c \in Completion /\ c.dev \in Device
                                /\ c.at # Unread => c.at \in Nat
    BY <1>1, SyncBoundsAssumption DEF TypeOK, Completion, Time
  <1>4. ASSUME NEW t \in Nat, Reached(t) PROVE Reached(t)'
    BY <1>2, <1>4 DEF Reached
  <1>5. \A t \in Time : t \in Nat /\ t # Unread
    BY SyncBoundsAssumption DEF Time, Unread
  <1>6. ASSUME cursor' = cursor,
               \A c \in completes' : \/ c \in completes
                                     \/ c.at = Unread
                                     \/ \E x \in completes :
                                          /\ c.dev = x.dev /\ c.at = x.at
                                          /\ c.late = x.late
        PROVE  CursorReached'
    <2>1. \A d \in Device : Reached(cursor[d])'
      BY <1>1, <1>3, <1>4, <1>6 DEF CursorReached
    <2>2. ASSUME NEW c \in completes', c.at # Unread
          PROVE  Reached(c.at)' /\ (~c.late => cursor'[c.dev] <= c.at)
      <3>1. PICK x \in completes : c.dev = x.dev /\ c.at = x.at /\ c.late = x.late
        BY <1>6, <2>2
      <3> QED
        BY <1>1, <1>3, <1>4, <1>6, <2>2, <3>1 DEF CursorReached
    <2> QED
      BY <1>6, <2>1, <2>2 DEF CursorReached
  <1>7. ASSUME NEW c \in completes, NEW t \in Time, CompleteRead(c, t)
        PROVE  CursorReached'
    <2> DEFINE v == [c EXCEPT !.at = t, !.late = \E p \in Path : Backdated(p)]
    <2>1. /\ completes' = (completes \ {c}) \cup {v}
          /\ cursor' = cursor /\ row' = row /\ high' = high
      BY <1>7 DEF CompleteRead, server
    <2>2. /\ v.dev = c.dev /\ v.at = t
          /\ v.late = \E p \in Path : Backdated(p)
      BY <1>3 DEF Completion
    <2> HIDE DEF v
    <2>3. \A p \in Path : row[p].at <= t /\ row[p].at <= high[p]
                          /\ row[p].at \in Nat
      <3>1. \A p \in Path : row[p].at \in Nat
        BY <1>1, <1>5 DEF TypeOK, Row
      <3> QED
        BY <1>7, <3>1 DEF CompleteRead, IsServerVersion, NewestKnown, SyncInv,
           DatedByServer
    <2>4. Reached(t)
      BY <1>7, <2>3 DEF CompleteRead, IsServerVersion, Reached
    <2>5. ASSUME ~v.late PROVE cursor[c.dev] <= t
      <3>1. Reached(cursor[c.dev]) /\ cursor[c.dev] \in Nat /\ t \in Nat
        BY <1>1, <1>3, <1>5 DEF CursorReached
      <3>2. CASE cursor[c.dev] = 0
        BY <3>1, <3>2
      <3>3. ASSUME NEW p \in Path, cursor[c.dev] <= high[p] PROVE cursor[c.dev] <= t
        <4>1. ~(row[p].at < high[p])
          BY <2>2, <2>5 DEF Backdated
        <4> QED
          BY <1>2, <2>3, <3>1, <3>3, <4>1
      <3> QED
        BY <3>1, <3>2, <3>3 DEF Reached
    <2>6. \A d \in Device : Reached(cursor[d])'
      BY <1>1, <1>3, <1>4, <2>1 DEF CursorReached
    <2>7. ASSUME NEW x \in completes', x.at # Unread
          PROVE  Reached(x.at)' /\ (~x.late => cursor'[x.dev] <= x.at)
      <3>1. CASE x = v
        BY <1>4, <1>5, <2>1, <2>2, <2>4, <2>5, <3>1
      <3>2. CASE x # v
        BY <1>1, <1>3, <1>4, <2>1, <2>7, <3>2 DEF CursorReached
      <3> QED
        BY <3>1, <3>2
    <2> QED
      BY <2>1, <2>6, <2>7 DEF CursorReached
  <1>8. ASSUME NEW c \in completes, CompleteStore(c) PROVE CursorReached'
    <2>1. /\ cursor' = [cursor EXCEPT ![c.dev] = c.at] /\ c.at # Unread
          /\ completes' = {Overtake(c, x) : x \in completes \ {c}}
      BY <1>8 DEF CompleteStore
    <2>2. /\ cursor'[c.dev] = c.at
          /\ \A d \in Device : d # c.dev => cursor'[d] = cursor[d]
      BY <1>1, <1>3, <2>1 DEF TypeOK
    <2>3. \A d \in Device : Reached(cursor[d])'
      <3>1. Reached(c.at)'
        BY <1>1, <1>3, <1>4, <2>1 DEF CursorReached
      <3>2. ASSUME NEW d \in Device, d # c.dev PROVE Reached(cursor[d])'
        <4>1. Reached(cursor[d]) /\ cursor[d] \in Nat
          BY <1>1, <1>3 DEF CursorReached
        <4> QED
          BY <1>4, <2>2, <3>2, <4>1 DEF Reached
      <3> QED
        BY <2>2, <3>1, <3>2 DEF Reached
    <2>4. ASSUME NEW y \in completes', y.at # Unread
          PROVE  Reached(y.at)' /\ (~y.late => cursor'[y.dev] <= y.at)
      <3>1. PICK x \in completes : y = Overtake(c, x)
        BY <2>1
      <3>2. x \in Completion
        BY <1>3
      <3>3. y.dev = x.dev /\ y.at = x.at
            /\ (~y.late => ~x.late /\ (x.dev # c.dev \/ x.at = Unread))
        BY <3>1, <3>2 DEF Overtake, Completion
      <3>4. Reached(y.at)'
        BY <1>1, <1>3, <1>4, <2>4, <3>3 DEF CursorReached
      <3>5. ASSUME ~y.late PROVE cursor'[y.dev] <= y.at
        BY <1>1, <1>3, <2>2, <2>4, <3>3, <3>5 DEF CursorReached
      <3> QED
        BY <3>4, <3>5
    <2> QED
      BY <2>3, <2>4 DEF CursorReached
  <1>9. ASSUME NEW d \in Device, CompleteSend(d) PROVE CursorReached'
    <2>1. \A c \in completes' : c \in completes \/ c.at = Unread
      BY <1>9 DEF CompleteSend
    <2>2. cursor' = cursor
      BY <1>9 DEF CompleteSend
    <2> QED
      BY <1>6, <2>1, <2>2
  <1>10. ASSUME NEW d \in Device, SessionLost(d) PROVE CursorReached'
    <2>1. /\ completes' = {IF c.dev = d THEN [c EXCEPT !.held = FALSE] ELSE c
                           : c \in completes}
          /\ cursor' = cursor
      BY <1>10 DEF SessionLost
    <2>2. ASSUME NEW x \in completes
          PROVE  /\ [x EXCEPT !.held = FALSE].dev = x.dev
                 /\ [x EXCEPT !.held = FALSE].at = x.at
                 /\ [x EXCEPT !.held = FALSE].late = x.late
      BY <1>3 DEF Completion
    <2> QED
      BY <1>6, <2>1, <2>2
  <1>11. ASSUME NEW c \in completes, CompleteDies(c) PROVE CursorReached'
    BY <1>6, <1>11 DEF CompleteDies
  <1>12. ASSUME UNCHANGED <<cursor, completes>> PROVE CursorReached'
    BY <1>6, <1>12
  <1> QED
    BY <1>7, <1>8, <1>9, <1>10, <1>11, <1>12
       DEF Next, UserStep, Remove, Edit, PanelDelete, PanelRestore, PanelPurge,
           PanelRollback, PanelRestoreAll, Panel, Tick, DeviceStep, SyncStart,
           DeltaDelete, DeltaLoad, UploadSend, DeleteLocal, Download,
           DownloadFails, Receive, CommitStep, UploadCommit, UploadDies,
           CompleteStep

-----------------------------------------------------------------------------
(* The theorems.                                                            *)

LEMMA InitInv ==
  ASSUME Init
  PROVE  SyncInv
  <1> USE SyncBoundsAssumption DEF Init
  <1>1. 0 \in Time /\ NoRow \in Row /\ NoRow.at = 0
    BY DEF Time, NoRow, Row
  <1>2. /\ Absent.at = 0 /\ NoSession.now = 0 /\ NoSession.pc = "idle"
        /\ \A p \in Path : /\ NoSession.manifest[p] = Absent
                           /\ NoSession.plan[p] = NoInstruction
        /\ NoInstruction.at = 0
    BY DEF Absent, NoSession, NoInstruction
  <1>3. TypeOK
    <2>1. spent \in [edits : Nat, lost : Nat, panel : Nat]
      OBVIOUS
    <2> QED
      BY <1>1, <2>1, NoSessionType DEF TypeOK
  <1>4. NothingFromTheFuture
    BY <1>2 DEF NothingFromTheFuture
  <1>5. DatedByServer
    BY <1>1, <1>2 DEF DatedByServer
  <1>6. SessionsFit
    BY <1>2 DEF SessionsFit
  <1>7. CompletesFit /\ CursorReached
    BY DEF CompletesFit, CursorReached, Reached
  <1> QED
    BY <1>3, <1>4, <1>5, <1>6, <1>7 DEF SyncInv

LEMMA InvNext ==
  ASSUME SyncInv, Next
  PROVE  SyncInv'
  <1>1. TablesStep /\ SessionsStep /\ CompletesStep
    BY TablesNext, SessionsNext, CompletesNext
  <1>2. TypeOK'
    BY <1>1, ClockNext, FilesNext, RestNext
       DEF SyncInv, TypeOK, TablesStep, SessionsStep, CompletesStep
  <1>3. NothingFromTheFuture'
    BY <1>1, UploadsNext DEF NothingFromTheFuture, TablesStep, SessionsStep
  <1>4. DatedByServer'
    <2>1. \A d \in Device, p \in Path : DatedFor(d, p)'
      BY DatedNext
    <2> QED
      BY <1>1, <2>1 DEF DatedByServer, TablesStep, DatedFor
  <1>5. SessionsFit' /\ CompletesFit' /\ CursorReached'
    BY <1>1, CursorNext DEF SessionsStep, CompletesStep
  <1> QED
    BY <1>2, <1>3, <1>4, <1>5 DEF SyncInv

LEMMA InvStutter ==
  ASSUME SyncInv, UNCHANGED vars
  PROVE  SyncInv'
  BY DEF SyncInv, vars, TypeOK, NothingFromTheFuture, DatedByServer, OwnDated,
         SessionsFit, CompletesFit, CursorReached, Reached

\* What the tables of the server, the requests under way, the sessions and the
\* files of the devices hold fits together, for any number of devices, paths and
\* contents and for device clocks that are behind or ahead: the dates of rows and
\* instructions come from the server, and so do those of the files that do not go
\* by a date of the device's own; no request is waited for twice; and a date on
\* its way to the cursor is behind it only when it was read over a backdated path
\* or has been overtaken (sync/engine.rs, sync/handlers.rs).
THEOREM SyncInvariant == Spec => []SyncInv
  <1>1. SyncInv /\ [Next]_vars => SyncInv'
    BY InvNext, InvStutter
  <1> QED
    BY InitInv, <1>1, PTL DEF Spec

\* The part of the step relation behind UneditedNeverUploads.
LEMMA UploadsAreEdited ==
  ASSUME SyncInv, [Next]_vars, NEW d \in Device, NEW p \in Path,
         sess[d].pc = "delta", sess'[d].pc = "apply",
         sess'[d].plan[p].do = "upload"
  PROVE  p \in OwnDated(d) \/ row[p].status = "none" \/ Backdated(p)
  <1>1. TypeOK /\ DatedByServer
    BY DEF SyncInv
  <1>2. CASE DeltaLoad(d)
    <2>1. sess'[d].plan[p] = Instruct(sess[d].manifest[p], row[p])
      BY <1>1, <1>2, LoadEffect
    <2>2. sess[d].manifest[p] \in Entry /\ row[p] \in Row
      BY <1>1 DEF TypeOK, Session
    <2>3. row[p].status = "none" \/ sess[d].manifest[p].at > row[p].at
      BY <2>1, <2>2, InstructType DEF ClientNewer
    <2>4. /\ row[p].at \in Nat /\ high[p] \in Nat
          /\ sess[d].manifest[p].at \in Nat
          /\ p \notin OwnDated(d) => sess[d].manifest[p].at <= high[p]
      BY <2>2, Dates, SyncBoundsAssumption DEF Row, Time
    <2> QED
      BY <2>3, <2>4 DEF Backdated
  <1>3. ASSUME sess'[d].pc = sess[d].pc PROVE FALSE
    BY <1>3
  <1>4. ASSUME NEW e \in Device, e # d, sess'[d] # sess[d]
        PROVE  ~(SyncStart(e) \/ DeltaLoad(e) \/ CompleteSend(e) \/ SessionLost(e))
    <2>1. ASSUME NEW s, sess' = [sess EXCEPT ![e] = s] PROVE FALSE
      BY <1>1, <1>4, <2>1 DEF TypeOK
    <2> QED
      BY <2>1 DEF SyncStart, DeltaLoad, CompleteSend, SessionLost
  <1>5. ~SyncStart(d) /\ ~CompleteSend(d)
    BY DEF SyncStart, CompleteSend
  <1>6. ASSUME NEW e \in Device, sess' = [sess EXCEPT ![e] = NoSession] PROVE FALSE
    <2>1. sess'[e].pc = "idle" /\ (d # e => sess'[d] = sess[d])
      BY <1>1, <1>6, EndEffect
    <2> QED
      BY <1>3, <2>1
  <1>7. ASSUME NEW e \in Device, NEW q \in Path,
               \/ DeltaDelete(e, q) \/ DeleteLocal(e, q) \/ Download(e, q)
               \/ DownloadFails(e, q) \/ UploadSend(e, q)
        PROVE  FALSE
    <2>1. ASSUME DeltaDelete(e, q) PROVE FALSE
      BY <1>1, <1>3, <2>1, TodoEffect
    <2>2. ASSUME Done(e, q) PROVE FALSE
      BY <1>1, <1>3, <2>2, DoneEffect DEF TypeOK
    <2>3. ASSUME sess' = [sess EXCEPT ![e].plan[q].do = "sent"] PROVE FALSE
      <3>1. sess \in [Device -> Session]
        BY <1>1 DEF TypeOK
      <3>2. sess'[d].pc = sess[d].pc
        BY <2>3, <3>1, SentEffect
      <3> QED
        BY <1>3, <3>2
    <2> QED
      BY <1>7, <2>1, <2>2, <2>3
         DEF DeleteLocal, Download, Receive, DownloadFails, UploadSend
  <1>8. ASSUME NEW u \in uploads, NEW t \in Time, UploadCommit(u, t) PROVE FALSE
    <2>1. u.dev \in Device /\ u.path \in Path
      BY <1>1 DEF TypeOK, Upload
    <2>2. u.held => Done(u.dev, u.path)
      BY <1>8 DEF UploadCommit, Done
    <2>3. ~u.held => sess' = sess
      BY <1>8 DEF UploadCommit
    <2> QED
      BY <1>1, <1>3, <2>1, <2>2, <2>3, DoneEffect DEF TypeOK
  <1>9. sess' # sess /\ sess'[d] # sess[d]
    BY <1>3
  <1>10. \/ \E e \in Device : \/ SyncStart(e) \/ DeltaLoad(e) \/ CompleteSend(e)
                              \/ sess' = [sess EXCEPT ![e] = NoSession]
         \/ \E e \in Device, q \in Path :
              \/ DeltaDelete(e, q) \/ DeleteLocal(e, q) \/ Download(e, q)
              \/ DownloadFails(e, q) \/ UploadSend(e, q)
         \/ \E u \in uploads, s \in Time : UploadCommit(u, s)
    <2>1. \A c \in completes : c.dev \in Device
      BY <1>1 DEF TypeOK, Completion
    <2> QED
      BY <1>9, <2>1
       DEF Next, vars, UserStep, Remove, Edit, PanelDelete, PanelRestore,
           PanelPurge, PanelRollback, PanelRestoreAll, Panel, Tick, DeviceStep,
           CommitStep, UploadDies, SessionLost, CompleteStep, CompleteRead,
           CompleteStore, CompleteDies
  <1> QED
    BY <1>2, <1>4, <1>5, <1>6, <1>7, <1>8, <1>9, <1>10

\* Whatever the clocks of the devices: a copy that goes by the date the server
\* gave it is uploaded only over a path without a row, or with a backdated one
\* (engine.rs, step 3).
THEOREM Unedited == Spec => UneditedNeverUploads
  <1>1. SyncInv /\ [Next]_vars
        => [\A d \in Device, p \in Path :
              /\ sess[d].pc = "delta" /\ sess'[d].pc = "apply"
              /\ sess'[d].plan[p].do = "upload"
              => \/ p \in OwnDated(d)
                 \/ row[p].status = "none"
                 \/ Backdated(p)]_vars
    BY UploadsAreEdited
  <1> QED
    BY <1>1, SyncInvariant, PTL DEF Spec, UneditedNeverUploads

\* The part of the step relation behind CursorRetreats.
LEMMA RetreatsLate ==
  ASSUME SyncInv, [Next]_vars, NEW d \in Device, cursor'[d] < cursor[d]
  PROVE  \E c \in completes : c.dev = d /\ c.late /\ CompleteStore(c)
  <1>1. TypeOK /\ CursorReached
    BY DEF SyncInv
  <1>2. cursor[d] \in Nat
    BY <1>1, SyncBoundsAssumption DEF TypeOK, Time
  <1>3. cursor' # cursor
    BY <1>2
  <1>4. PICK c \in completes : CompleteStore(c)
    BY <1>3
       DEF Next, vars, UserStep, Remove, Edit, PanelDelete, PanelRestore,
           PanelPurge, PanelRollback, PanelRestoreAll, Panel, Tick, DeviceStep,
           SyncStart, DeltaDelete, DeltaLoad, UploadSend, DeleteLocal, Download,
           DownloadFails, Receive, SessionLost, CommitStep, UploadCommit,
           UploadDies, CompleteSend, CompleteStep, CompleteRead, CompleteDies
  <1>5. c.at # Unread /\ cursor' = [cursor EXCEPT ![c.dev] = c.at]
    BY <1>4 DEF CompleteStore
  <1>6. c.at \in Nat
    BY <1>1, <1>5, SyncBoundsAssumption DEF TypeOK, Completion, Time
  <1>7. c.dev = d /\ cursor'[d] = c.at
    BY <1>1, <1>2, <1>5 DEF TypeOK
  <1>8. c.late
    BY <1>1, <1>2, <1>5, <1>6, <1>7 DEF CursorReached
  <1> QED
    BY <1>4, <1>7, <1>8

\* A cursor goes back only by a complete that read its date over a backdated path,
\* or whose two statements another complete of the device has come between
\* (sync/handlers.rs, complete: MAX over the rows that are there now, then the
\* upsert).
THEOREM Retreats == Spec => CursorRetreats
  <1>1. SyncInv /\ [Next]_vars
        => [\A d \in Device : cursor'[d] < cursor[d] =>
              \E c \in completes : c.dev = d /\ c.late /\ CompleteStore(c)]_vars
    BY RetreatsLate
  <1> QED
    BY <1>1, SyncInvariant, PTL DEF Spec, CursorRetreats
=============================================================================
