---------------------------- MODULE Server_proofs ----------------------------
(***************************************************************************)
(* Proofs about Server: the program of a start, what holds whatever is      *)
(* killed on the way (StartInv), and what the devices will hear (NotifyInv). *)
(***************************************************************************)
EXTENDS ServerInv, FiniteSetTheorems, TLAPS

-----------------------------------------------------------------------------
(* The program of a start.                                                  *)

Kinds == {"check", "create", "alter", "column", "record", "recover"}
Words == Names \cup MadeBefore \cup
  {"encrypted_vault_key", "vaults", "failed_attempts", "locked_until",
   "encryption_salt", "files.vault_id", "file_versions.vault_id",
   "idx_files_vault", "main_vault", "settings"}
Steps == [do : Kinds, of : Words]
Join(s, t) == s \o t

LEMMA Joined ==
  ASSUME NEW s \in Seq(Steps), NEW t \in Seq(Steps)
  PROVE  /\ Join(s, t) \in Seq(Steps) /\ Len(Join(s, t)) = Len(s) + Len(t)
         /\ \A i \in 1..(Len(s) + Len(t)) :
              Join(s, t)[i] = IF i <= Len(s) THEN s[i] ELSE t[i - Len(s)]
  BY DEF Join

\* The program, statement by statement.
LEMMA ProgramTable ==
  /\ Program \in Seq(Steps) /\ Len(Program) = 31
  /\ Program[1] = S("check", "001") /\ Program[2] = S("create", "users")
  /\ Program[3] = S("create", "devices")
  /\ Program[4] = S("create", "refresh_tokens")
  /\ Program[5] = S("create", "files")
  /\ Program[6] = S("create", "file_versions")
  /\ Program[7] = S("create", "sync_cursors")
  /\ Program[8] = S("create", "server_settings")
  /\ Program[9] = S("record", "001") /\ Program[10] = S("check", "002")
  /\ Program[11] = S("create", "idx_files")
  /\ Program[12] = S("create", "idx_others")
  /\ Program[13] = S("create", "audit_log")
  /\ Program[14] = S("create", "idx_audit_log")
  /\ Program[15] = S("record", "002") /\ Program[16] = S("check", "003")
  /\ Program[17] = S("alter", "encrypted_vault_key")
  /\ Program[18] = S("record", "003") /\ Program[19] = S("check", "004")
  /\ Program[20] = S("create", "vaults") /\ Program[21] = S("record", "004")
  /\ Program[22] = S("column", "failed_attempts")
  /\ Program[23] = S("column", "locked_until")
  /\ Program[24] = S("column", "encryption_salt")
  /\ Program[25] = S("column", "encrypted_vault_key")
  /\ Program[26] = S("recover", "files")
  /\ Program[27] = S("column", "files.vault_id")
  /\ Program[28] = S("column", "file_versions.vault_id")
  /\ Program[29] = S("create", "idx_files_vault")
  /\ Program[30] = S("create", "main_vault")
  /\ Program[31] = S("create", "settings")
  <1> DEFINE tail == <<S("create", "settings")>>
             p == Join(Join(SqlMigrations, UserColumns), RunVaultMigration)
  <1>1. /\ SqlMigrations \in Seq(Steps) /\ Len(SqlMigrations) = 21
        /\ UserColumns \in Seq(Steps) /\ Len(UserColumns) = 4
        /\ RunVaultMigration \in Seq(Steps) /\ Len(RunVaultMigration) = 5
        /\ tail \in Seq(Steps) /\ Len(tail) = 1
    BY DEF SqlMigrations, UserColumns, RunVaultMigration, Steps, Words, Names, MadeBefore,
           Kinds, S
  <1>2. Program = Join(p, tail)
    BY DEF Program, RunMigrations, Join
  <1> HIDE DEF tail
  <1>3. /\ Join(SqlMigrations, UserColumns) \in Seq(Steps)
        /\ Len(Join(SqlMigrations, UserColumns)) = Len(SqlMigrations) + Len(UserColumns)
        /\ \A i \in 1..(Len(SqlMigrations) + Len(UserColumns)) :
             Join(SqlMigrations, UserColumns)[i] =
               IF i <= Len(SqlMigrations) THEN SqlMigrations[i]
               ELSE UserColumns[i - Len(SqlMigrations)]
    BY <1>1, Joined
  <1>4. /\ Len(Join(SqlMigrations, UserColumns)) = 25
        /\ \A i \in 1..25 : Join(SqlMigrations, UserColumns)[i] =
             IF i <= 21 THEN SqlMigrations[i] ELSE UserColumns[i - 21]
    BY <1>1, <1>3
  <1>5. /\ p \in Seq(Steps)
        /\ Len(p) = Len(Join(SqlMigrations, UserColumns)) + Len(RunVaultMigration)
        /\ \A i \in 1..(Len(Join(SqlMigrations, UserColumns)) + Len(RunVaultMigration)) :
             p[i] = IF i <= Len(Join(SqlMigrations, UserColumns))
                      THEN Join(SqlMigrations, UserColumns)[i]
                      ELSE RunVaultMigration[i - Len(Join(SqlMigrations, UserColumns))]
    BY <1>1, <1>3, Joined
  <1>6. /\ Len(p) = 30
        /\ \A i \in 1..30 : p[i] =
             IF i <= 25 THEN Join(SqlMigrations, UserColumns)[i]
             ELSE RunVaultMigration[i - 25]
    BY <1>1, <1>4, <1>5
  <1> HIDE DEF p
  <1>7. /\ Program \in Seq(Steps) /\ Len(Program) = Len(p) + Len(tail)
        /\ \A i \in 1..(Len(p) + Len(tail)) :
             Program[i] = IF i <= Len(p) THEN p[i] ELSE tail[i - Len(p)]
    BY <1>1, <1>2, <1>5, Joined
  <1>8. /\ Len(Program) = 31
        /\ \A i \in 1..30 : Program[i] = p[i]
        /\ Program[31] = tail[1]
    BY <1>1, <1>6, <1>7
  <1>9. \A i \in 1..21 : Program[i] = SqlMigrations[i]
    BY <1>4, <1>6, <1>8
  <1>10. /\ \A i \in 22..25 : Program[i] = UserColumns[i - 21]
         /\ \A i \in 26..30 : Program[i] = RunVaultMigration[i - 25]
    BY <1>4, <1>6, <1>8
  <1>11. /\ Program[1] = S("check", "001") /\ Program[2] = S("create", "users")
         /\ Program[3] = S("create", "devices")
         /\ Program[4] = S("create", "refresh_tokens")
         /\ Program[5] = S("create", "files")
         /\ Program[6] = S("create", "file_versions")
         /\ Program[7] = S("create", "sync_cursors")
         /\ Program[8] = S("create", "server_settings")
         /\ Program[9] = S("record", "001") /\ Program[10] = S("check", "002")
         /\ Program[11] = S("create", "idx_files")
         /\ Program[12] = S("create", "idx_others")
         /\ Program[13] = S("create", "audit_log")
         /\ Program[14] = S("create", "idx_audit_log")
         /\ Program[15] = S("record", "002") /\ Program[16] = S("check", "003")
         /\ Program[17] = S("alter", "encrypted_vault_key")
         /\ Program[18] = S("record", "003") /\ Program[19] = S("check", "004")
         /\ Program[20] = S("create", "vaults") /\ Program[21] = S("record", "004")
    BY <1>9 DEF SqlMigrations
  <1>12. /\ Program[22] = S("column", "failed_attempts")
         /\ Program[23] = S("column", "locked_until")
         /\ Program[24] = S("column", "encryption_salt")
         /\ Program[25] = S("column", "encrypted_vault_key")
    BY <1>10 DEF UserColumns
  <1>13. /\ Program[26] = S("recover", "files")
         /\ Program[27] = S("column", "files.vault_id")
         /\ Program[28] = S("column", "file_versions.vault_id")
         /\ Program[29] = S("create", "idx_files_vault")
         /\ Program[30] = S("create", "main_vault")
         /\ Program[31] = S("create", "settings")
    BY <1>8, <1>10 DEF RunVaultMigration, tail
  <1> QED BY <1>7, <1>8, <1>11, <1>12, <1>13

LEMMA Numbers ==
  ASSUME NEW i \in 1..31
  PROVE  \/ i = 1 \/ i = 2 \/ i = 3 \/ i = 4 \/ i = 5 \/ i = 6 \/ i = 7 \/ i = 8
         \/ i = 9 \/ i = 10 \/ i = 11 \/ i = 12 \/ i = 13 \/ i = 14 \/ i = 15
         \/ i = 16 \/ i = 17 \/ i = 18 \/ i = 19 \/ i = 20 \/ i = 21 \/ i = 22
         \/ i = 23 \/ i = 24 \/ i = 25 \/ i = 26 \/ i = 27 \/ i = 28 \/ i = 29
         \/ i = 30 \/ i = 31
  OBVIOUS

LEMMA ProgramDomain ==
  DOMAIN Program = 1..31 /\ Len(Program) = 31 /\ (Ready <=> step = 32)
  BY ProgramTable DEF Ready

\* Where the migrations begin and end.
LEMMA Landmarks ==
  ASSUME NEW i \in DOMAIN Program
  PROVE  /\ Program[i] = S("check", "001") <=> i = 1
         /\ Program[i] = S("record", "001") <=> i = 9
         /\ Program[i] = S("check", "002") <=> i = 10
         /\ Program[i] = S("record", "002") <=> i = 15
         /\ Program[i] = S("check", "003") <=> i = 16
         /\ Program[i] = S("record", "003") <=> i = 18
         /\ Program[i] = S("check", "004") <=> i = 19
         /\ Program[i] = S("record", "004") <=> i = 21
  BY ProgramDomain, ProgramTable, Numbers DEF S

LEMMA StatementsTable ==
  /\ DOMAIN Statements = Names
  /\ Statements["001"] = 2..9 /\ Statements["002"] = 11..15
  /\ Statements["003"] = 17..18 /\ Statements["004"] = 20..21
  <1>1. \A m \in Names : Statements[m] =
          {i \in 1..31 : \E a, b \in 1..31 :
             Program[a] = S("check", m) /\ a < i /\ Program[b] = S("record", m) /\ i <= b}
    BY ProgramDomain DEF Statements, S
  <1>2. {"001", "002", "003", "004"} = Names
    BY DEF Names
  <1>3. Statements["001"] = 2..9
    BY <1>1, <1>2, Landmarks, ProgramDomain
  <1>4. Statements["002"] = 11..15
    BY <1>1, <1>2, Landmarks, ProgramDomain
  <1>5. Statements["003"] = 17..18
    BY <1>1, <1>2, Landmarks, ProgramDomain
  <1>6. Statements["004"] = 20..21
    BY <1>1, <1>2, Landmarks, ProgramDomain
  <1> QED BY <1>3, <1>4, <1>5, <1>6 DEF Statements

LEMMA StatementKinds ==
  ASSUME NEW m \in Names, NEW i \in Statements[m]
  PROVE  /\ i \in DOMAIN Program /\ 1 < i
         /\ Program[i].do \in {"create", "alter", "record"}
         /\ Program[i].do = "record" => Program[i].of = m
         /\ m \in {"001", "002"} /\ Program[i].do # "record" => Program[i].of \in MadeBefore
  BY ProgramDomain, ProgramTable, StatementsTable, Numbers DEF S, Names, MadeBefore

\* The migrations follow each other.
LEMMA StatementsFollow ==
  ASSUME NEW m \in Names, NEW i \in DOMAIN Program
  PROVE  /\ i + 1 \in Statements[m] => i \in Statements[m] \/ Program[i] = S("check", m)
         /\ Program[i] = S("record", m) =>
              /\ i \in Statements[m] /\ \A j \in Statements[m] : j <= i
              /\ \A k \in Names : i + 1 \notin Statements[k]
  BY ProgramDomain, Landmarks, StatementsTable DEF Names

LEMMA RecordIsThere ==
  ASSUME NEW m \in Names
  PROVE  /\ Past(m) - 1 \in DOMAIN Program /\ Past(m) \in Int
         /\ Program[Past(m) - 1] = S("record", m)
  <1>1. \E b \in DOMAIN Program : Program[b] = S("record", m)
    BY ProgramDomain, ProgramTable DEF Names
  <1> DEFINE b == CHOOSE x \in DOMAIN Program : Program[x] = S("record", m)
  <1>2. b \in DOMAIN Program /\ Program[b] = S("record", m)
    BY <1>1
  <1>3. Past(m) = 1 + b
    BY DEF Past, S
  <1> HIDE DEF b
  <1>4. b \in 1..31 /\ Past(m) \in Int /\ Past(m) - 1 = b
    BY <1>2, <1>3, ProgramDomain
  <1> QED BY <1>2, <1>4

\* What else the program looks like.
LEMMA ProgramShape ==
  ASSUME NEW i \in DOMAIN Program
  PROVE  /\ Program[i].of # "files_new"
         /\ Program[i].do = "alter" => /\ Program[i].of = "encrypted_vault_key"
                                       /\ i \in Statements["003"]
                                       /\ i + 1 \in DOMAIN Program
                                       /\ Program[i + 1] = S("record", "003")
         /\ Program[i].do = "recover" => Program[i].of = "files"
  BY ProgramDomain, ProgramTable, StatementsTable, Numbers DEF S

LEMMA IndexCreated ==
  ASSUME NEW i \in DOMAIN Program, Program[i].of = "idx_files_vault"
  PROVE  Program[i].do = "create"
  BY ProgramDomain, ProgramTable, StatementsTable, Numbers DEF S

LEMMA FilesCreated ==
  ASSUME NEW i \in DOMAIN Program, Program[i].do \in {"create", "alter", "column"},
         Program[i].of = "files"
  PROVE  i \in Statements["001"]
  BY ProgramDomain, ProgramTable, StatementsTable, Numbers DEF S

LEMMA VaultKeyAdded ==
  ASSUME NEW i \in DOMAIN Program, Program[i].do \in {"create", "alter", "column"},
         Program[i].of = "encrypted_vault_key", ~(18 < i)
  PROVE  Program[i].do = "alter"
  BY ProgramDomain, ProgramTable, Numbers DEF S

LEMMA ObjectsTable ==
  /\ MadeBefore \cup {"failed_attempts", "locked_until", "encryption_salt", "settings",
                      "files.vault_id"} \subseteq Objects
  /\ \A i \in DOMAIN Program :
       Program[i].do \in {"create", "alter", "column"} => Program[i].of \in Objects
  <1>1. \A i \in DOMAIN Program :
          Program[i].do \in {"create", "alter", "column"} => Program[i].of \in Objects
    BY DEF Objects
  <1> QED BY <1>1, ProgramDomain, ProgramTable DEF MadeBefore, S

-----------------------------------------------------------------------------
(* The start of a process.                                                  *)

\* The database, the records and the warnings grow, but for files_new, which
\* becomes files.
Grows ==
  /\ db \ {"files_new"} \subseteq db'
  /\ "files_new" \in db /\ "files_new" \notin db' => "files" \in db'
  /\ recorded \subseteq recorded' /\ lost' = lost

\* What is done stays done.
LEMMA DoneStays ==
  ASSUME Grows, NEW i \in DOMAIN Program, Done(i),
         warned \subseteq warned' \/ Program[i].do # "column"
  PROVE  Done(i)'
  <1>1. Program[i].of # "files_new"
    BY ProgramShape
  <1>2. Has(Program[i].of) => Has(Program[i].of)'
    BY <1>1 DEF Has, Grows
  <1> QED BY <1>1, <1>2 DEF Done, Grows

LEMMA RecordedStay ==
  ASSUME Grows, RecordedDone, recorded' = recorded, recorded \subseteq Names
  PROVE  RecordedDone'
  <1> SUFFICES ASSUME NEW m \in recorded, NEW i \in Statements[m] PROVE Done(i)'
    BY DEF RecordedDone
  <1>1. i \in DOMAIN Program /\ Program[i].do # "column"
    BY StatementKinds
  <1> QED BY <1>1, DoneStays DEF RecordedDone

\* A process that goes on by one step has done one more.
LEMMA OneMoreDone ==
  ASSUME Grows, DoneBefore, warned \subseteq warned', Advance, step \in DOMAIN Program,
         \A i \in DOMAIN Program : i = step => Done(i)'
  PROVE  DoneBefore'
  <1> SUFFICES ASSUME NEW i \in DOMAIN Program, i < step' PROVE Done(i)'
    BY DEF DoneBefore
  <1>1. i < step \/ i = step
    BY ProgramDomain DEF Advance
  <1>2. CASE i < step
    BY <1>2, DoneStays DEF DoneBefore
  <1>3. CASE i = step
    BY <1>3
  <1> QED BY <1>1, <1>2, <1>3

\* A step that is no check stays within what is not recorded.
LEMMA NotRepeatedStays ==
  ASSUME NotRepeated, Advance, step \in DOMAIN Program, recorded \subseteq Names,
         recorded' = recorded, Program[step].do # "check",
         "files_new" \in db' => "files_new" \in db
  PROVE  NotRepeated'
  <1>1. ASSUME NEW m \in recorded PROVE step' \notin Statements[m]
    <2>1. step + 1 \in Statements[m] => step \in Statements[m]
      BY StatementsFollow DEF S
    <2> QED BY <2>1 DEF NotRepeated, Advance
  <1> QED BY <1>1 DEF NotRepeated

LEMMA Nowhere ==
  ASSUME recorded \subseteq Names
  PROVE  \A m \in recorded : 0 \notin Statements[m] /\ 1 \notin Statements[m]
  BY StatementKinds, ProgramDomain

LEMMA Boots ==
  ASSUME StartInv, Boot
  PROVE  StartInv'
  <1>1. Grows
    BY DEF Boot, Grows
  <1>2. recorded \subseteq Names
    BY DEF StartInv, StartTypeOK
  <1>3. StartTypeOK'
    BY ProgramDomain DEF StartInv, StartTypeOK, Boot
  <1>4. DoneBefore'
    BY ProgramDomain DEF Boot, DoneBefore
  <1>5. RecordedDone'
    BY <1>1, <1>2, RecordedStay DEF StartInv, Boot
  <1>6. NotRepeated'
    BY <1>2, Nowhere DEF StartInv, NotRepeated, Boot
  <1>7. StuckAtRecord'
    BY ProgramDomain DEF StartInv, StuckAtRecord, Boot, Down, AtStep, Stuck
  <1> QED BY <1>3, <1>4, <1>5, <1>6, <1>7 DEF StartInv

\* A recorded migration is passed over, and is complete.
LEMMA Checks ==
  ASSUME StartInv, NEW m \in Names, Check(m)
  PROVE  StartInv'
  <1>1. /\ step \in DOMAIN Program /\ Program[step] = S("check", m)
        /\ UNCHANGED <<db, recorded, warned, crashes, lost>>
        /\ recorded \subseteq Names
    BY DEF Check, AtStep, S, StartInv, StartTypeOK
  <1>2. Grows
    BY <1>1 DEF Grows
  <1>3. \A i \in DOMAIN Program : i = step => Done(i)'
    BY <1>1 DEF Done, S
  <1>4. RecordedDone'
    BY <1>1, <1>2, RecordedStay DEF StartInv
  <1>5. ~(crashes = 0 /\ Stuck)
    BY <1>1 DEF StartInv, StuckAtRecord, AtStep, S
  <1>6. StuckAtRecord'
    BY <1>1, <1>5 DEF StuckAtRecord, Stuck
  <1>7. CASE ~Applied(m)
    <2>1. Advance
      BY <1>7 DEF Check
    <2>2. StartTypeOK'
      BY <1>1, <2>1, ProgramDomain DEF StartInv, StartTypeOK, Advance
    <2>3. DoneBefore'
      BY <1>1, <1>2, <1>3, <2>1, OneMoreDone DEF StartInv
    <2>4. NotRepeated'
      <3>1. ASSUME NEW k \in recorded PROVE step' \notin Statements[k]
        <4>1. k # m /\ k \in Names
          BY <1>1, <1>7 DEF Applied
        <4>2. step + 1 \in Statements[k] => step \in Statements[k] \/ Program[step] = S("check", k)
          BY <1>1, <4>1, StatementsFollow
        <4> QED BY <1>1, <2>1, <4>1, <4>2 DEF StartInv, NotRepeated, Advance, S
      <3> QED BY <1>1, <3>1 DEF StartInv, NotRepeated
    <2> QED BY <1>4, <1>6, <2>2, <2>3, <2>4 DEF StartInv
  <1>8. CASE Applied(m)
    <2>1. /\ step' = Past(m) /\ m \in recorded
          /\ Past(m) - 1 \in DOMAIN Program /\ Past(m) \in Int
          /\ Program[Past(m) - 1] = S("record", m)
      BY <1>8, RecordIsThere DEF Check, Applied
    <2>2. StartTypeOK'
      BY <1>1, <2>1, ProgramDomain DEF StartInv, StartTypeOK
    <2>3. DoneBefore'
      <3> SUFFICES ASSUME NEW i \in DOMAIN Program, i < step' PROVE Done(i)'
        BY DEF DoneBefore
      <3>1. i < step \/ i = step \/ (step < i /\ i <= Past(m) - 1)
        BY <1>1, <2>1, ProgramDomain
      <3>2. CASE i < step
        BY <1>1, <1>2, <3>2, DoneStays DEF StartInv, DoneBefore
      <3>3. CASE i = step
        BY <1>3, <3>3
      <3>4. CASE step < i /\ i <= Past(m) - 1
        <4>1. i \in Statements[m]
          BY <1>1, <2>1, <3>4 DEF Statements, S
        <4> QED BY <1>1, <1>4, <2>1, <4>1 DEF RecordedDone
      <3> QED BY <3>1, <3>2, <3>3, <3>4
    <2>4. NotRepeated'
      <3>1. \A k \in Names : (Past(m) - 1) + 1 \notin Statements[k]
        BY <2>1, StatementsFollow
      <3>2. (Past(m) - 1) + 1 = Past(m)
        BY <2>1
      <3> QED BY <1>1, <2>1, <3>1, <3>2 DEF StartInv, NotRepeated
    <2> QED BY <1>4, <1>6, <2>2, <2>3, <2>4 DEF StartInv
  <1> QED BY <1>7, <1>8

\* A migration is recorded behind its last statement.
LEMMA Records ==
  ASSUME StartInv, NEW m \in Names, Record(m)
  PROVE  StartInv'
  <1>1. /\ step \in DOMAIN Program /\ Program[step] = S("record", m)
        /\ UNCHANGED <<db, warned, crashes, lost>>
        /\ recorded' = recorded \cup {m} /\ recorded \subseteq Names
        /\ Advance
    BY DEF Record, AtStep, S, StartInv, StartTypeOK
  <1>2. Grows
    BY <1>1 DEF Grows
  <1>3. \A i \in DOMAIN Program : i = step => Done(i)'
    BY <1>1 DEF Done, S
  <1>4. StartTypeOK'
    BY <1>1, ProgramDomain DEF StartInv, StartTypeOK, Advance
  <1>5. DoneBefore'
    BY <1>1, <1>2, <1>3, OneMoreDone DEF StartInv
  <1>6. /\ \A j \in Statements[m] : j <= step
        /\ \A k \in Names : step + 1 \notin Statements[k]
    BY <1>1, StatementsFollow
  <1>7. RecordedDone'
    <2> SUFFICES ASSUME NEW k \in recorded', NEW i \in Statements[k] PROVE Done(i)'
      BY DEF RecordedDone
    <2>1. i \in DOMAIN Program /\ Program[i].do # "column"
      BY <1>1, StatementKinds
    <2>2. CASE k \in recorded
      BY <1>2, <2>1, <2>2, DoneStays DEF StartInv, RecordedDone
    <2>3. CASE k = m
      <3>1. i < step \/ i = step
        BY <1>1, <1>6, <2>1, <2>3, ProgramDomain
      <3> QED BY <1>2, <1>3, <2>1, <3>1, DoneStays DEF StartInv, DoneBefore
    <2> QED BY <1>1, <2>2, <2>3
  <1>8. NotRepeated'
    BY <1>1, <1>6 DEF StartInv, NotRepeated, Advance
  <1>9. StuckAtRecord'
    <2>1. crashes = 0 /\ Stuck' => m = "003"
      BY <1>1 DEF StartInv, StuckAtRecord, Stuck, AtStep, S
    <2>2. m = "003" => ~Stuck'
      BY <1>1 DEF Stuck
    <2> QED BY <1>1, <2>1, <2>2 DEF StuckAtRecord
  <1> QED BY <1>4, <1>5, <1>7, <1>8, <1>9 DEF StartInv

\* A statement that adds an object, or fails to.
LEMMA Adds ==
  ASSUME StartInv, step \in DOMAIN Program, Advance,
         Program[step].do \in {"create", "alter", "column"},
         \/ db' = db \cup {Program[step].of} /\ warned' = warned
         \/ Program[step].do = "column" /\ db' = db /\ warned' = warned \cup {Program[step].of},
         UNCHANGED <<recorded, crashes, lost>>
  PROVE  StartInv'
  <1>0. recorded \subseteq Names /\ Program[step].of \in Objects /\ Program[step].of # "files_new"
    BY ObjectsTable, ProgramShape DEF StartInv, StartTypeOK
  <1>1. Grows /\ warned \subseteq warned'
    BY DEF Grows
  <1>2. \A i \in DOMAIN Program : i = step => Done(i)'
    BY DEF Done, Has
  <1>3. StartTypeOK'
    <2>1. db' \subseteq Objects \cup {"files_new"} /\ warned' \subseteq Objects
      BY <1>0 DEF StartInv, StartTypeOK
    <2>2. ~({"files", "files_new"} \subseteq db')
      <3> SUFFICES ASSUME "files" \in db', "files_new" \in db' PROVE FALSE
        OBVIOUS
      <3>1. "files_new" \in db /\ "files" \notin db /\ Program[step].of = "files"
        BY <1>0 DEF StartInv, StartTypeOK
      <3>2. "001" \in recorded
        BY <3>1 DEF StartInv, NotRepeated
      <3>3. step \notin Statements["001"]
        BY <3>2 DEF StartInv, NotRepeated
      <3> QED BY <3>1, <3>3, FilesCreated
    <2> QED BY <2>1, <2>2, ProgramDomain DEF StartInv, StartTypeOK, Advance
  <1>4. DoneBefore'
    BY <1>1, <1>2, OneMoreDone DEF StartInv
  <1>5. RecordedDone'
    BY <1>0, <1>1, RecordedStay DEF StartInv
  <1>6. NotRepeated'
    BY <1>0, NotRepeatedStays DEF StartInv
  <1>7. StuckAtRecord'
    <2> SUFFICES ASSUME crashes = 0, Stuck' PROVE AtStep("record", "003")'
      BY DEF StuckAtRecord
    <2>1. ~Stuck
      BY DEF StartInv, StuckAtRecord, AtStep
    <2>2. Program[step].of = "encrypted_vault_key" /\ "003" \notin recorded
      BY <2>1 DEF Stuck
    <2>3. ~(18 < step)
      BY <2>2, Landmarks, ProgramDomain DEF StartInv, DoneBefore, Done, S
    <2>4. Program[step].do = "alter"
      BY <2>2, <2>3, VaultKeyAdded
    <2> QED BY <2>4, ProgramShape DEF Advance, AtStep, S
  <1> QED BY <1>3, <1>4, <1>5, <1>6, <1>7 DEF StartInv

\* ALTER TABLE that fails ends the process.
LEMMA Fails ==
  ASSUME StartInv, step \in DOMAIN Program, step' = 0, crashes = 0 => ~Stuck,
         UNCHANGED <<db, recorded, warned, crashes, lost>>
  PROVE  StartInv'
  <1>1. Grows /\ recorded \subseteq Names
    BY DEF Grows, StartInv, StartTypeOK
  <1>2. StartTypeOK'
    BY ProgramDomain DEF StartInv, StartTypeOK
  <1>3. DoneBefore'
    BY ProgramDomain DEF DoneBefore
  <1>4. RecordedDone'
    BY <1>1, RecordedStay DEF StartInv
  <1>5. NotRepeated'
    BY <1>1, Nowhere DEF StartInv, NotRepeated
  <1>6. StuckAtRecord'
    BY DEF StuckAtRecord, Stuck
  <1> QED BY <1>2, <1>3, <1>4, <1>5, <1>6 DEF StartInv

LEMMA Alters ==
  ASSUME StartInv, NEW o \in Objects, Alter(o)
  PROVE  StartInv'
  <1>1. step \in DOMAIN Program /\ Program[step] = S("alter", o)
    BY DEF Alter, AtStep, S
  <1>2. CASE o \in db
    <2>1. o = "encrypted_vault_key" /\ step \in Statements["003"]
      BY <1>1, ProgramShape DEF S
    <2>2. "003" \notin recorded
      BY <2>1 DEF StartInv, NotRepeated
    <2>3. Stuck
      BY <1>2, <2>1, <2>2 DEF Stuck
    <2>4. crashes # 0
      BY <1>1, <2>3 DEF StartInv, StuckAtRecord, AtStep, S
    <2> QED BY <1>1, <1>2, <2>4, Fails DEF Alter
  <1>3. CASE o \notin db
    BY <1>1, <1>3, Adds DEF Alter, S
  <1> QED BY <1>2, <1>3

\* files_new takes the place of files.
LEMMA Recovers ==
  ASSUME StartInv, Recover
  PROVE  StartInv'
  <1>1. /\ step \in DOMAIN Program /\ Program[step] = S("recover", "files")
        /\ UNCHANGED <<recorded, warned, crashes, lost>> /\ recorded \subseteq Names
    BY DEF Recover, AtStep, S, StartInv, StartTypeOK
  <1>2. crashes = 0 => ~Stuck
    BY <1>1 DEF StartInv, StuckAtRecord, AtStep, S
  <1>3. CASE "files" \notin db /\ "files_new" \notin db
    BY <1>1, <1>2, <1>3, Fails DEF Recover
  <1>4. CASE "files" \in db \/ "files_new" \in db
    <2>1. /\ Advance /\ "files" \in db'
          /\ \/ db' = db
             \/ db' = (db \ {"files_new"}) \cup {"files"}
      BY <1>4 DEF Recover, Recovered
    <2>2. Grows
      BY <1>1, <2>1 DEF Grows
    <2>3. \A i \in DOMAIN Program : i = step => Done(i)'
      BY <1>1, <2>1 DEF Done, S
    <2>4. StartTypeOK'
      <3>1. "files" \in Objects
        BY ObjectsTable DEF MadeBefore
      <3> QED BY <1>1, <2>1, <3>1, ProgramDomain DEF StartInv, StartTypeOK, Advance
    <2>5. DoneBefore'
      BY <1>1, <2>1, <2>2, <2>3, OneMoreDone DEF StartInv
    <2>6. RecordedDone'
      BY <1>1, <2>2, RecordedStay DEF StartInv
    <2>7. NotRepeated'
      BY <1>1, <2>1, NotRepeatedStays DEF StartInv, S
    <2>8. StuckAtRecord'
      BY <1>1, <1>2, <2>1 DEF StuckAtRecord, Stuck
    <2> QED BY <2>4, <2>5, <2>6, <2>7, <2>8 DEF StartInv
  <1> QED BY <1>3, <1>4

LEMMA Killed ==
  ASSUME StartInv, Kill
  PROVE  StartInv'
  <1>1. /\ UNCHANGED <<db, recorded, warned, lost>> /\ step' = 0 /\ crashes \in Nat
        /\ crashes' = crashes + 1 /\ recorded \subseteq Names
    BY DEF Kill, StartInv, StartTypeOK
  <1>2. Grows
    BY <1>1 DEF Grows
  <1>3. StartTypeOK'
    BY <1>1, ProgramDomain DEF StartInv, StartTypeOK
  <1>4. DoneBefore'
    BY <1>1, ProgramDomain DEF DoneBefore
  <1>5. RecordedDone'
    BY <1>1, <1>2, RecordedStay DEF StartInv
  <1>6. NotRepeated'
    BY <1>1, Nowhere DEF StartInv, NotRepeated
  <1>7. StuckAtRecord'
    BY <1>1 DEF StuckAtRecord
  <1> QED BY <1>3, <1>4, <1>5, <1>6, <1>7 DEF StartInv

LEMMA BootStepKeeps ==
  ASSUME StartInv, BootStep
  PROVE  StartInv'
  <1>1. ASSUME NEW o \in Objects, Create(o) \/ AddColumn(o) PROVE StartInv'
    <2>1. CASE AddColumn(o) \/ (Create(o) /\ ~LacksColumn(o))
      BY <2>1, Adds DEF Create, AddColumn, AtStep
    <2>2. CASE Create(o) /\ LacksColumn(o)
      <3>1. /\ step \in DOMAIN Program /\ Program[step] = S("create", o)
            /\ step' = 0 /\ UNCHANGED <<db, recorded, warned, crashes, lost>>
        BY <2>2 DEF Create, AtStep, S
      <3>2. crashes = 0 => ~Stuck
        BY <3>1 DEF StartInv, StuckAtRecord, AtStep, S
      <3> QED BY <3>1, <3>2, Fails
    <2> QED BY <1>1, <2>1, <2>2
  <1> QED BY <1>1, Boots, Recovers, Checks, Records, Alters DEF BootStep

\* Whatever release the database comes from.
LEMMA StartStarts == StartInit => StartInv
  <1> SUFFICES ASSUME StartInit PROVE StartInv
    OBVIOUS
  <1>1. /\ step = 0 /\ warned = {} /\ crashes = 0
        /\ recorded \in {{}, {"001", "002"}} /\ recorded \subseteq Names
    BY DEF StartInit, Origin, Names
  <1>2. "encrypted_vault_key" \notin db
    BY DEF StartInit, Origin, MadeBefore
  <1>3. "files_new" \in db => "001" \in recorded /\ "files" \notin db
    BY DEF StartInit, Origin, MadeBefore
  <1>4. /\ db \subseteq Objects \cup {"files_new"} /\ lost \subseteq {"idx_files"}
        /\ recorded # {} => \A o \in MadeBefore : Has(o)
    BY ObjectsTable DEF StartInit, Origin, Has, MadeBefore
  <1>5. StartTypeOK
    BY <1>1, <1>3, <1>4, ProgramDomain DEF StartTypeOK
  <1>6. DoneBefore
    BY <1>1, ProgramDomain DEF DoneBefore
  <1>7. RecordedDone
    <2> SUFFICES ASSUME NEW m \in recorded, NEW i \in Statements[m] PROVE Done(i)
      BY DEF RecordedDone
    <2>1. m \in Names /\ m \in {"001", "002"} /\ recorded # {}
      BY <1>1
    <2> QED BY <1>4, <2>1, StatementKinds DEF Done
  <1>8. NotRepeated
    BY <1>1, <1>3, Nowhere DEF NotRepeated
  <1>9. StuckAtRecord
    BY <1>2 DEF StuckAtRecord, Stuck
  <1> QED BY <1>5, <1>6, <1>7, <1>8, <1>9 DEF StartInv

\* What the start relies on holds whatever is interleaved, and whenever the
\* process is killed.
THEOREM StartInvariant == Spec => []StartInv
  <1>1. Init => StartInv
    BY StartStarts DEF Init
  <1>2. StartInv /\ [Next]_vars => StartInv'
    <2> SUFFICES ASSUME StartInv, [Next]_vars PROVE StartInv'
      OBVIOUS
    <2>1. CASE Starting
      BY <2>1, BootStepKeeps DEF Starting
    <2>2. CASE Crash
      BY <2>2, Killed DEF Crash
    <2>3. CASE UNCHANGED start
      <3>1. UNCHANGED <<db, recorded, step, warned, crashes, lost>>
        BY <2>3 DEF start
      <3>2. /\ StartTypeOK' = StartTypeOK /\ NotRepeated' = NotRepeated
            /\ StuckAtRecord' = StuckAtRecord
        BY <3>1 DEF StartTypeOK, NotRepeated, StuckAtRecord, Stuck, AtStep
      <3>3. DoneBefore' = DoneBefore /\ RecordedDone' = RecordedDone
        BY <3>1 DEF DoneBefore, RecordedDone, Done, Has
      <3> QED BY <3>2, <3>3 DEF StartInv
    <2> QED BY <2>1, <2>2, <2>3 DEF Next, Serving, vars
  <1> QED BY <1>1, <1>2, PTL DEF Spec

\* The types of the start, and files never beside files_new.
THEOREM StartTypeCorrect == Spec => []StartTypeOK
  <1>1. StartInv => StartTypeOK
    BY DEF StartInv
  <1> QED BY <1>1, StartInvariant, PTL

\* No step leaves the index without its column.
LEMMA IndexKeepsColumn == Spec => []IndexHasColumn
  <1>1. Init => IndexHasColumn
    BY DEF Init, StartInit, Origin, MadeBefore, IndexHasColumn
  <1>2. IndexHasColumn /\ [Next]_vars => IndexHasColumn'
    <2> SUFFICES ASSUME IndexHasColumn, [Next]_vars PROVE IndexHasColumn'
      OBVIOUS
    <2>1. ASSUME NEW o, db' = db \cup {o}, ~LacksColumn(o) PROVE IndexHasColumn'
      BY <2>1 DEF IndexHasColumn, LacksColumn
    <2>2. ASSUME NEW o \in Objects, Create(o) \/ Alter(o) \/ AddColumn(o)
          PROVE  IndexHasColumn'
      <3>1. CASE Create(o)
        BY <2>1, <3>1 DEF Create, IndexHasColumn
      <3>2. CASE Alter(o) \/ AddColumn(o)
        <4>1. o # "idx_files_vault"
          BY <3>2, IndexCreated DEF Alter, AddColumn, AtStep
        <4> QED BY <2>1, <3>2, <4>1 DEF Alter, AddColumn, IndexHasColumn, LacksColumn
      <3> QED BY <2>2, <3>1, <3>2
    <2>3. CASE Recover
      BY <2>3 DEF Recover, Recovered, IndexHasColumn
    <2>4. CASE UNCHANGED db
      BY <2>4 DEF IndexHasColumn
    <2> QED BY <2>2, <2>3, <2>4
       DEF Next, Starting, Serving, Crash, BootStep, Boot, Check, Record, Kill, start, vars
  <1> QED BY <1>1, <1>2, PTL DEF Spec

\* A process that listens has done the whole program.
THEOREM ListensComplete == Spec => []ListensOnlyWhenComplete
  <1>1. StartInv /\ IndexHasColumn => ListensOnlyWhenComplete
    <2> SUFFICES ASSUME StartInv, IndexHasColumn, Ready
                 PROVE  /\ recorded = Names
                        /\ Objects \ ((warned \ {"files.vault_id"}) \cup lost) \subseteq db
      BY DEF ListensOnlyWhenComplete
    <2>1. \A i \in DOMAIN Program : Done(i)
      BY ProgramDomain DEF StartInv, DoneBefore
    <2>2. recorded = Names
      <3>1. ASSUME NEW m \in Names PROVE m \in recorded
        <4>1. PICK i \in DOMAIN Program : Program[i] = S("record", m)
          BY RecordIsThere
        <4> QED BY <2>1, <4>1 DEF Done, S
      <3> QED BY <3>1 DEF StartInv, StartTypeOK
    <2>3. "files" \in db
      <3>1. 26 \in DOMAIN Program /\ Program[26] = S("recover", "files")
        BY ProgramDomain, ProgramTable
      <3> QED BY <2>1, <3>1 DEF Done, S
    <2>4. ASSUME NEW o \in Objects PROVE o \in db \cup warned \cup lost
      <3>1. PICK i \in DOMAIN Program :
              Program[i].of = o /\ Program[i].do \in {"create", "alter", "column"}
        BY <2>4 DEF Objects
      <3> QED BY <2>1, <2>3, <3>1 DEF Done, Has
    <2>5. "files.vault_id" \in db
      <3>1. 29 \in DOMAIN Program /\ Program[29] = S("create", "idx_files_vault")
        BY ProgramDomain, ProgramTable
      <3>2. Has("idx_files_vault")
        BY <2>1, <3>1 DEF Done, S
      <3> QED BY <3>2 DEF Has, StartInv, StartTypeOK, IndexHasColumn
    <2> QED BY <2>2, <2>4, <2>5
  <1> QED BY <1>1, StartInvariant, IndexKeepsColumn, PTL

\* Ordinary starts do not get stuck.
THEOREM StuckByCrash == Spec => []StuckOnlyByCrash
  <1>1. StartInv => StuckOnlyByCrash
    BY ProgramDomain DEF StartInv, StartTypeOK, StuckAtRecord, StuckOnlyByCrash, Down, AtStep
  <1> QED BY <1>1, StartInvariant, PTL

\* The way out of run_vault_migration: no table to recover files from.
LEMMA FilesRecoverable ==
  ASSUME StartInv, AtStep("recover", "files")
  PROVE  "files" \in db \/ "files_new" \in db
  <1>1. step \in DOMAIN Program /\ Program[step] = S("recover", "files")
    BY DEF AtStep, S
  <1>2. /\ 5 \in DOMAIN Program /\ Program[5] = S("create", "files")
        /\ step \in 1..31
    BY <1>1, ProgramDomain, ProgramTable
  <1>3. 5 < step
    BY <1>1, <1>2, ProgramTable, Numbers DEF S
  <1>4. Has("files")
    BY <1>2, <1>3 DEF StartInv, DoneBefore, Done, S
  <1> QED BY <1>4 DEF Has, StartInv, StartTypeOK

\* The column the index is on is missing only when this process failed to add it.
LEMMA ColumnRefused ==
  ASSUME StartInv, NEW o \in Objects, AtStep("create", o), LacksColumn(o)
  PROVE  "files.vault_id" \in warned
  <1>1. step \in DOMAIN Program /\ Program[step] = S("create", "idx_files_vault")
    BY DEF AtStep, S, LacksColumn
  <1>2. /\ 27 \in DOMAIN Program /\ Program[27] = S("column", "files.vault_id")
        /\ step \in 1..31
    BY <1>1, ProgramDomain, ProgramTable
  <1>3. 27 < step
    BY <1>1, <1>2, ProgramTable, Numbers DEF S
  <1>4. Has("files.vault_id") \/ "files.vault_id" \in warned
    BY <1>2, <1>3 DEF StartInv, DoneBefore, Done, S
  <1> QED BY <1>4 DEF Has, StartInv, StartTypeOK, LacksColumn

\* A start ends by itself only where 003 fails, or the index on a column it has
\* just failed to add.
THEOREM StartsFinish == Spec => FailsOnlyStuck
  <1>1. StartInv /\ [Next]_vars
        => [~Down /\ Down' =>
              crashes' > crashes \/ Stuck \/ "files.vault_id" \in warned]_start
    <2> SUFFICES ASSUME StartInv, [Next]_vars, ~Down, Down', UNCHANGED start => FALSE
                 PROVE  crashes' > crashes \/ Stuck \/ "files.vault_id" \in warned
      BY DEF start
    <2>1. CASE Crash
      BY <2>1 DEF Crash, Kill, StartInv, StartTypeOK
    <2>2. CASE Starting
      <3>1. step \in 1..32 /\ step' = 0
        BY ProgramDomain DEF Down, StartInv, StartTypeOK
      <3>2. ASSUME NEW o \in Objects, Alter(o) PROVE Stuck
        <4>1. step \in DOMAIN Program /\ Program[step] = S("alter", o) /\ o \in db
          BY <3>1, <3>2 DEF Alter, AtStep, S, Advance
        <4>2. o = "encrypted_vault_key" /\ step \in Statements["003"]
          BY <4>1, ProgramShape DEF S
        <4> QED BY <4>1, <4>2 DEF StartInv, NotRepeated, Stuck
      <3>3. ~Recover
        BY <3>1, FilesRecoverable DEF Recover, Advance
      <3>4. ASSUME NEW m \in Names, Check(m) PROVE FALSE
        BY <3>1, <3>4, RecordIsThere, ProgramDomain DEF Check, Advance
      <3>5. ASSUME NEW m \in Names, Record(m) PROVE FALSE
        BY <3>1, <3>5 DEF Record, Advance
      <3>6. ASSUME NEW o \in Objects, Create(o) \/ AddColumn(o)
            PROVE  "files.vault_id" \in warned
        <4>1. ~AddColumn(o)
          BY <3>1 DEF AddColumn, Advance
        <4>2. Create(o) /\ LacksColumn(o)
          BY <3>1, <3>6, <4>1 DEF Create, Advance
        <4> QED BY <4>2, ColumnRefused DEF Create
      <3>7. ~Boot
        BY DEF Boot
      <3> QED BY <2>2, <3>2, <3>3, <3>4, <3>5, <3>6, <3>7 DEF Starting, BootStep
    <2>3. CASE UNCHANGED start
      BY <2>3
    <2> QED BY <2>1, <2>2, <2>3 DEF Next, Serving, vars
  <1> QED BY <1>1, StartInvariant, PTL DEF Spec, FailsOnlyStuck

-----------------------------------------------------------------------------
(* Notifications.                                                           *)

\* What is announced once fits into the changes.
LEMMA ChannelFits ==
  ASSUME NEW n \in Nat, NEW c \in Seq(1..n),
         \A i, j \in 1..Len(c) : c[i] = c[j] => i = j
  PROVE  Len(c) <= n
  <1>0. Len(c) \in Nat
    OBVIOUS
  <1>1. SUFFICES ASSUME n < Len(c) PROVE FALSE
    BY <1>0
  <1>2. \A m \in Nat : IsFiniteSet(1..m) /\ Cardinality(1..m) = m
    BY FS_Interval
  <1>3. /\ IsFiniteSet(1..n) /\ Cardinality(1..n) = n
        /\ IsFiniteSet(1..Len(c)) /\ Cardinality(1..Len(c)) = Len(c)
    BY <1>0, <1>2
  <1>4. c \in [1..Len(c) -> 1..n]
    OBVIOUS
  <1>5. \E i, j \in 1..Len(c) : i # j /\ c[i] = c[j]
    BY <1>1, <1>3, <1>4, FS_PigeonHole
  <1> QED BY <1>5

\* The changes with one more at their end.
Grown == 
  /\ changes' \in Seq(Device) /\ Len(changes') = Len(changes) + 1
  /\ Len(changes') <= MaxChanges
  /\ \A c \in 1..Len(changes) : changes'[c] = changes[c]

\* A change that is pending, or will not be announced, tells nobody anything.
LEMMA GrownHeard ==
  ASSUME NotifyInv, Grown, UNCHANGED <<channel, client>>,
         unsaid \subseteq unsaid',
         \A h \in Handler : handler[h] # 0 => handler'[h] = handler[h],
         \/ Len(changes) + 1 \in unsaid'
         \/ \E h \in Handler : handler'[h] = Len(changes) + 1
  PROVE  Heard'
  <1> USE NotifyAssumption
  <1>1. /\ Len(channel) \in Nat /\ Len(changes) \in Nat
        /\ \A i \in 1..Len(channel) : channel[i] \in 1..Len(changes)
    BY DEF NotifyInv, NotifyTypeOK, AnnouncedOnce, Change
  <1>2. \A i \in 1..Len(channel) : Source(i)' = Source(i)
    BY <1>1 DEF Grown, Source
  <1>3. Oldest' = Oldest /\ Oldest \in 1..(Len(channel) + 1)
    BY <1>1 DEF Oldest
  <1>4. SUFFICES ASSUME NEW d \in Device, client[d].on, client[d].synced, ~client[d].told
                 PROVE  \/ \A c \in 1..Len(changes') : Accounted(d, c)'
                        \/ WillBeTold(d)'
                        \/ OnlyOwnLeft(d)'
    BY DEF Heard
  <1>5. client[d].pos \in Nat \ {0} /\ client[d].seen \in Nat
    BY DEF NotifyInv, NotifyTypeOK, Client
  <1>6. CASE OnlyOwnLeft(d)
    BY <1>1, <1>2, <1>3, <1>6 DEF OnlyOwnLeft
  <1>7. CASE WillBeTold(d)
    BY <1>1, <1>2, <1>3, <1>5, <1>7 DEF WillBeTold
  <1>8. CASE \A c \in 1..Len(changes) : Accounted(d, c)
    <2>1. ASSUME NEW c \in 1..Len(changes) PROVE Accounted(d, c)'
      <3>1. c # 0 /\ changes'[c] = changes[c]
        BY <1>1 DEF Grown
      <3>2. (\E h \in Handler : handler[h] = c) => \E h \in Handler : handler'[h] = c
        BY <3>1
      <3>3. Accounted(d, c)
        BY <1>8
      <3> QED BY <3>1, <3>2, <3>3 DEF Accounted
    <2>2. ASSUME NEW c \in 1..Len(changes'), c \notin 1..Len(changes)
          PROVE  Accounted(d, c)'
      <3>1. c = Len(changes) + 1
        BY <1>1, <2>2 DEF Grown
      <3> QED BY <3>1 DEF Accounted
    <2> QED BY <2>1, <2>2
  <1> QED BY <1>4, <1>6, <1>7, <1>8 DEF NotifyInv, Heard

\* What a handler commits is a change of its own.
LEMMA Commits ==
  ASSUME NotifyInv, NEW h \in Handler, NEW d \in Device, Commit(h, d)
  PROVE  NotifyInv'
  <1> USE NotifyAssumption
  <1>0. /\ changes \in Seq(Device) /\ Len(changes) \in Nat /\ Len(channel) \in Nat
        /\ handler \in [Handler -> 0..MaxChanges] /\ channel \in Seq(Change)
    BY DEF NotifyInv, NotifyTypeOK
  <1>1. Grown
    BY <1>0 DEF Commit, Grown
  <1>2. /\ handler'[h] = Len(changes) + 1 /\ handler[h] = 0
        /\ \A k \in Handler \ {h} : handler'[k] = handler[k]
        /\ handler' \in [Handler -> 0..MaxChanges]
    BY <1>0 DEF Commit
  <1>3. NotifyTypeOK'
    BY <1>1, <1>2 DEF NotifyInv, NotifyTypeOK, Commit, Grown
  <1>4. AnnouncedOnce'
    <2>1. \A k \in Handler : handler[k] <= Len(changes)
      BY DEF NotifyInv, AnnouncedOnce
    <2>2. \A k \in Handler : handler'[k] <= Len(changes')
      BY <1>0, <1>1, <1>2, <2>1 DEF Grown
    <2>3. \A k, m \in Handler : handler'[k] # 0 /\ handler'[k] = handler'[m] => k = m
      <3>1. \A k \in Handler \ {h} : handler'[k] # handler'[h]
        BY <1>0, <1>2, <2>1
      <3> QED BY <1>2, <3>1 DEF NotifyInv, AnnouncedOnce
    <2>4. \A i \in 1..Len(channel) :
            channel[i] \in Nat /\ channel[i] <= Len(changes) /\ channel[i] # Len(changes) + 1
      BY <1>0 DEF NotifyInv, AnnouncedOnce, Change
    <2>5. \A i \in 1..Len(channel) : /\ channel[i] <= Len(changes')
                                     /\ \A k \in Handler : handler'[k] # channel[i]
      <3>1. \A i \in 1..Len(channel) : channel[i] <= Len(changes')
        BY <1>0, <1>1, <2>4 DEF Grown
      <3>2. \A i \in 1..Len(channel), k \in Handler : handler'[k] # channel[i]
        BY <1>2, <2>4 DEF NotifyInv, AnnouncedOnce
      <3> QED BY <3>1, <3>2
    <2> QED BY <2>2, <2>3, <2>5 DEF NotifyInv, AnnouncedOnce, Commit
  <1>5. PositionsFit'
    BY <1>0, <1>1 DEF NotifyInv, NotifyTypeOK, PositionsFit, Commit, Client, Grown
  <1>6. Heard'
    BY <1>0, <1>1, <1>2, GrownHeard DEF Commit
  <1> QED BY <1>3, <1>4, <1>5, <1>6 DEF NotifyInv

\* A change nobody announces is one nobody will hear of.
LEMMA ChangesSilently ==
  ASSUME NotifyInv, NEW d \in Device, ChangeSilently(d)
  PROVE  NotifyInv'
  <1> USE NotifyAssumption
  <1>0. /\ changes \in Seq(Device) /\ Len(changes) \in Nat /\ Len(channel) \in Nat
        /\ handler \in [Handler -> 0..MaxChanges] /\ channel \in Seq(Change)
        /\ unsaid \subseteq Change
    BY DEF NotifyInv, NotifyTypeOK
  <1>1. Grown
    BY <1>0 DEF ChangeSilently, Grown
  <1>2. unsaid' \subseteq Change
    <2>1. Len(changes) + 1 \in Change
      BY <1>0 DEF ChangeSilently, Change
    <2> QED BY <1>0, <2>1 DEF ChangeSilently
  <1>3. NotifyTypeOK'
    BY <1>1, <1>2 DEF NotifyInv, NotifyTypeOK, ChangeSilently, Grown
  <1>4. AnnouncedOnce'
    <2>1. \A k \in Handler : handler[k] <= Len(changes')
      BY <1>0, <1>1 DEF NotifyInv, AnnouncedOnce, Grown
    <2>2. \A i \in 1..Len(channel) : channel[i] <= Len(changes')
      BY <1>0, <1>1 DEF NotifyInv, AnnouncedOnce, Grown, Change
    <2> QED BY <2>1, <2>2 DEF NotifyInv, AnnouncedOnce, ChangeSilently
  <1>5. PositionsFit'
    BY <1>0, <1>1 DEF NotifyInv, NotifyTypeOK, PositionsFit, ChangeSilently, Client, Grown
  <1>6. Heard'
    BY <1>0, <1>1, GrownHeard DEF ChangeSilently
  <1> QED BY <1>3, <1>4, <1>5, <1>6 DEF NotifyInv

\* A pending change will never be announced.
LEMMA GivesUp ==
  ASSUME NotifyInv, NEW h \in Handler, GiveUp(h)
  PROVE  NotifyInv'
  <1> USE NotifyAssumption
  <1>0. /\ Len(changes) \in Nat /\ Len(channel) \in Nat
        /\ handler \in [Handler -> 0..MaxChanges] /\ channel \in Seq(Change)
        /\ unsaid \subseteq Change
    BY DEF NotifyInv, NotifyTypeOK
  <1>1. /\ handler'[h] = 0 /\ \A k \in Handler \ {h} : handler'[k] = handler[k]
        /\ handler' \in [Handler -> 0..MaxChanges]
    BY <1>0 DEF GiveUp
  <1>2. NotifyTypeOK'
    <2>1. handler[h] \in Change
      BY <1>0 DEF GiveUp, Change
    <2>2. unsaid' \subseteq Change
      BY <1>0, <2>1 DEF GiveUp
    <2> QED BY <1>1, <2>2 DEF NotifyInv, NotifyTypeOK, GiveUp
  <1>3. AnnouncedOnce'
    <2>1. \A i \in 1..Len(channel) : channel[i] # 0
      BY <1>0 DEF Change
    <2> QED BY <1>0, <1>1, <2>1 DEF NotifyInv, AnnouncedOnce, GiveUp
  <1>4. PositionsFit'
    BY DEF NotifyInv, PositionsFit, GiveUp
  <1>5. Heard'
    <2>1. \A d \in Device : WillBeTold(d)' = WillBeTold(d) /\ OnlyOwnLeft(d)' = OnlyOwnLeft(d)
      BY DEF WillBeTold, OnlyOwnLeft, Oldest, Source, GiveUp
    <2>2. \A d \in Device, c \in 1..Len(changes) : Accounted(d, c) => Accounted(d, c)'
      BY <1>1 DEF Accounted, GiveUp
    <2> QED BY <2>1, <2>2 DEF NotifyInv, Heard, GiveUp
  <1> QED BY <1>2, <1>3, <1>4, <1>5 DEF NotifyInv

\* Another message moves the oldest one by one at most.
LEMMA Sends ==
  ASSUME NotifyInv, NEW h \in Handler, handler[h] # 0,
         channel' = Append(channel, handler[h]),
         handler' = [handler EXCEPT ![h] = 0],
         UNCHANGED <<changes, client, unsaid>>
  PROVE  NotifyInv'
  <1> USE NotifyAssumption
  <1>0. /\ Len(changes) \in Nat /\ Len(channel) \in Nat /\ Len(changes) <= MaxChanges
        /\ handler \in [Handler -> 0..MaxChanges] /\ channel \in Seq(Change)
        /\ Capacity \in Nat \ {0} /\ MaxChanges \in Nat
    BY DEF NotifyInv, NotifyTypeOK
  <1>1. handler[h] \in Change /\ handler[h] \in 1..Len(changes)
    BY <1>0 DEF Change, NotifyInv, AnnouncedOnce
  <1>2. /\ handler'[h] = 0 /\ \A k \in Handler \ {h} : handler'[k] = handler[k]
        /\ handler' \in [Handler -> 0..MaxChanges]
    BY <1>0
  <1>3. /\ channel' \in Seq(Change) /\ Len(channel') = Len(channel) + 1
        /\ channel'[Len(channel) + 1] = handler[h]
        /\ \A i \in 1..Len(channel) : channel'[i] = channel[i]
    BY <1>0, <1>1
  <1>4. AnnouncedOnce'
    <2>1. \A i \in 1..Len(channel) : channel[i] # handler[h] /\ channel[i] # 0
      BY <1>0 DEF NotifyInv, AnnouncedOnce, Change
    <2>2. \A i \in 1..Len(channel') :
            i \in 1..Len(channel) \/ i = Len(channel) + 1
      BY <1>0, <1>3
    <2>3. \A i, j \in 1..Len(channel') : channel'[i] = channel'[j] => i = j
      BY <1>3, <2>1, <2>2 DEF NotifyInv, AnnouncedOnce
    <2>4. \A i \in 1..Len(channel') : channel'[i] <= Len(changes)
      BY <1>1, <1>3, <2>2 DEF NotifyInv, AnnouncedOnce
    <2>5. \A k \in Handler \ {h} : handler[k] # handler[h]
      BY DEF NotifyInv, AnnouncedOnce
    <2>6. \A i \in 1..Len(channel'), k \in Handler : handler'[k] # channel'[i]
      BY <1>1, <1>2, <1>3, <2>1, <2>2, <2>5 DEF NotifyInv, AnnouncedOnce
    <2>7. /\ \A k \in Handler : handler'[k] <= Len(changes)
          /\ \A k, m \in Handler : handler'[k] # 0 /\ handler'[k] = handler'[m] => k = m
      BY <1>0, <1>2 DEF NotifyInv, AnnouncedOnce
    <2> QED BY <2>3, <2>4, <2>6, <2>7 DEF AnnouncedOnce
  <1>5. NotifyTypeOK'
    <2>1. Len(channel') <= MaxChanges
      BY <1>0, <1>3, <1>4, ChannelFits DEF AnnouncedOnce, Change
    <2> QED BY <1>2, <1>3, <2>1 DEF NotifyInv, NotifyTypeOK
  <1>6. PositionsFit'
    BY <1>0, <1>3 DEF NotifyInv, NotifyTypeOK, PositionsFit, Client
  <1>7. Heard'
    <2>1. SUFFICES ASSUME NEW d \in Device, client[d].on, client[d].synced, ~client[d].told
                   PROVE  \/ \A c \in 1..Len(changes) : Accounted(d, c)'
                          \/ WillBeTold(d)'
                          \/ OnlyOwnLeft(d)'
      BY DEF Heard
    <2>2. client[d].pos \in 1..(Len(channel) + 1)
      BY <1>0 DEF NotifyInv, NotifyTypeOK, PositionsFit, Client
    <2>3. /\ Oldest \in 1..(Len(channel) + 1) /\ Oldest' \in 1..(Len(channel) + 1)
          /\ Oldest <= Oldest' /\ Oldest' <= Oldest + 1
      BY <1>0, <1>3 DEF Oldest
    <2>4. \A i \in 1..Len(channel) : Source(i)' = Source(i)
      BY <1>3 DEF Source
    <2>0. PICK n \in Nat : n = Len(channel) + 1
      BY <1>0
    <2>5. CASE Source(n)' # d
      <3>1. n \in client[d].pos..Len(channel') /\ n >= Oldest'
        BY <1>0, <1>3, <2>0, <2>2, <2>3
      <3> QED BY <2>5, <3>1 DEF WillBeTold
    <2>6. CASE OnlyOwnLeft(d) /\ Source(n)' = d
      <3>1. \A i \in Oldest'..Len(channel') : i \in Oldest..Len(channel) \/ i = n
        BY <1>0, <1>3, <2>0, <2>3
      <3>2. \A i \in Oldest'..Len(channel') : Source(i)' = d
        BY <1>0, <2>3, <2>4, <2>6, <3>1 DEF OnlyOwnLeft
      <3>3. Len(channel') >= Capacity
        BY <1>0, <1>3, <2>6 DEF OnlyOwnLeft
      <3> QED BY <3>2, <3>3 DEF OnlyOwnLeft
    <2>7. CASE WillBeTold(d) /\ Source(n)' = d
      <3>1. PICK i \in client[d].pos..Len(channel) : i >= Oldest /\ Source(i) # d
        BY <2>7 DEF WillBeTold
      <3>2. i \in 1..Len(channel) /\ i \in client[d].pos..Len(channel') /\ Source(i)' # d
        BY <1>0, <1>3, <2>2, <2>4, <3>1
      <3>3. CASE i >= Oldest'
        BY <3>2, <3>3 DEF WillBeTold
      <3>4. CASE i < Oldest'
        <4>1. i = Oldest /\ Oldest' = Oldest + 1 /\ Len(channel') >= Capacity
          <5>1. i \in Nat /\ Oldest \in Nat /\ Oldest' \in Nat /\ Oldest <= i /\ i < Oldest'
            BY <1>0, <2>3, <3>1, <3>2, <3>4
          <5>2. i = Oldest /\ Oldest' = Oldest + 1
            BY <2>3, <5>1
          <5>3. Len(channel') >= Capacity
            BY <1>0, <1>3, <5>2 DEF Oldest
          <5> QED BY <5>2, <5>3
        <4>2. CASE \E j \in Oldest'..Len(channel') : Source(j)' # d
          <5>1. PICK j \in Oldest'..Len(channel') : Source(j)' # d
            BY <4>2
          <5>2. j \in client[d].pos..Len(channel') /\ j >= Oldest'
            BY <1>0, <1>3, <2>2, <2>3, <3>1, <4>1, <5>1
          <5> QED BY <5>1, <5>2 DEF WillBeTold
        <4>3. CASE \A j \in Oldest'..Len(channel') : Source(j)' = d
          BY <4>1, <4>3 DEF OnlyOwnLeft
        <4> QED BY <4>2, <4>3
      <3> QED BY <2>3, <3>2, <3>3, <3>4
    <2>8. CASE \A c \in 1..Len(changes) : Accounted(d, c)
      <3>1. SUFFICES ASSUME NEW c \in 1..Len(changes) PROVE Accounted(d, c)'
        OBVIOUS
      <3>2. Accounted(d, c)
        BY <2>8
      <3>3. CASE handler[h] = c
        <4>1. /\ Len(channel) + 1 \in client[d].pos..Len(channel')
              /\ channel'[Len(channel) + 1] = c
          BY <1>0, <1>3, <2>2, <3>3
        <4> QED BY <4>1 DEF Accounted
      <3>4. CASE handler[h] # c
        <4>1. (\E k \in Handler : handler[k] = c) => \E k \in Handler : handler'[k] = c
          BY <1>2, <3>4
        <4>2. (\E i \in client[d].pos..Len(channel) : channel[i] = c)
                => \E i \in client[d].pos..Len(channel') : channel'[i] = c
          BY <1>0, <1>3, <2>2
        <4> QED BY <3>2, <4>1, <4>2 DEF Accounted
      <3> QED BY <3>3, <3>4
    <2>9. \/ \A c \in 1..Len(changes) : Accounted(d, c)
          \/ WillBeTold(d) \/ OnlyOwnLeft(d)
      BY <2>1 DEF NotifyInv, Heard
    <2> QED BY <2>5, <2>6, <2>7, <2>8, <2>9
  <1> QED BY <1>4, <1>5, <1>6, <1>7 DEF NotifyInv

LEMMA Announces ==
  ASSUME NotifyInv, NEW h \in Handler, Announce(h)
  PROVE  NotifyInv'
  <1>1. CASE \E d \in Device : client[d].on
    BY <1>1, Sends DEF Announce
  <1>2. CASE ~\E d \in Device : client[d].on
    BY <1>2, GivesUp DEF Announce, GiveUp
  <1> QED BY <1>1, <1>2

\* The steps of a connection leave the channel alone.
LEMMA ChannelStays ==
  ASSUME NotifyInv, UNCHANGED <<changes, handler, channel, unsaid>>,
         client' \in [Device -> Client],
         \A d \in Device : /\ client'[d].pos <= Len(channel) + 1
                           /\ client'[d].seen <= Len(changes),
         \A d \in Device : client'[d].on /\ client'[d].synced /\ ~client'[d].told =>
           \/ \A c \in 1..Len(changes) : Accounted(d, c)'
           \/ WillBeTold(d)'
           \/ OnlyOwnLeft(d)'
  PROVE  NotifyInv'
  BY DEF NotifyInv, NotifyTypeOK, AnnouncedOnce, PositionsFit, Heard

\* What a device is owed depends on its own connection only.
LEMMA OthersUnmoved ==
  ASSUME NotifyInv, UNCHANGED <<changes, handler, channel, unsaid>>,
         NEW d \in Device, client'[d] = client[d],
         client[d].on, client[d].synced, ~client[d].told
  PROVE  \/ \A c \in 1..Len(changes) : Accounted(d, c)'
         \/ WillBeTold(d)'
         \/ OnlyOwnLeft(d)'
  <1>1. /\ WillBeTold(d)' = WillBeTold(d) /\ OnlyOwnLeft(d)' = OnlyOwnLeft(d)
        /\ \A c \in 1..Len(changes) : Accounted(d, c)' = Accounted(d, c)
    BY DEF WillBeTold, OnlyOwnLeft, Oldest, Source, Accounted
  <1> QED BY <1>1 DEF NotifyInv, Heard

\* The fields of a connection.
LEMMA AClient ==
  ASSUME NEW on \in BOOLEAN, NEW pos \in 1..(MaxChanges + 1),
         NEW seen \in 0..MaxChanges, NEW synced \in BOOLEAN, NEW told \in BOOLEAN
  PROVE  [on |-> on, pos |-> pos, seen |-> seen, synced |-> synced, told |-> told]
           \in Client
  BY DEF Client

\* A connection that has yet to sync.
LEMMA FreshClient ==
  ASSUME NEW on \in BOOLEAN, NEW pos \in 1..(MaxChanges + 1), NEW seen \in 0..MaxChanges
  PROVE  [on |-> on, pos |-> pos, seen |-> seen, synced |-> FALSE, told |-> FALSE]
           \in Client
  BY DEF Client

LEMMA ClientFields ==
  ASSUME NEW c \in Client
  PROVE  /\ c.on \in BOOLEAN /\ c.pos \in 1..(MaxChanges + 1) /\ c.seen \in 0..MaxChanges
         /\ c.synced \in BOOLEAN /\ c.told \in BOOLEAN
         /\ c = [on |-> c.on, pos |-> c.pos, seen |-> c.seen, synced |-> c.synced,
                 told |-> c.told]
  BY DEF Client

\* A device that has just connected, or gone, has yet to sync.
LEMMA ConnectsOrGoes ==
  ASSUME NotifyInv, NEW d \in Device, Connect(d) \/ Disconnect(d)
  PROVE  NotifyInv'
  <1> USE NotifyAssumption
  <1>0. /\ Len(channel) \in Nat /\ Len(channel) <= MaxChanges /\ Len(changes) \in Nat
        /\ client \in [Device -> Client] /\ client[d] \in Client
    BY DEF NotifyInv, NotifyTypeOK
  <1>1. /\ client'[d] \in Client /\ ~client'[d].synced
        /\ client'[d].pos <= Len(channel) + 1 /\ client'[d].seen = client[d].seen
        /\ client' = [client EXCEPT ![d] = client'[d]]
    <2>1. CASE Connect(d)
      <3>1. client'[d] = [on |-> TRUE, pos |-> Len(channel) + 1, seen |-> client[d].seen,
                          synced |-> FALSE, told |-> FALSE]
        <4>1. client'[d] = [client[d] EXCEPT !.on = TRUE, !.pos = Len(channel) + 1,
                                             !.synced = FALSE, !.told = FALSE]
          BY <1>0, <2>1 DEF Connect, SubscribeAt
        <4> QED BY <1>0, <4>1, ClientFields
      <3>2. Len(channel) + 1 \in 1..(MaxChanges + 1)
        BY <1>0
      <3>3. client'[d] \in Client
        <4>1. client[d].seen \in 0..MaxChanges
          BY <1>0, ClientFields
        <4> QED BY <3>1, <3>2, <4>1, FreshClient, Zenon
      <3>4. client' = [client EXCEPT ![d] = client'[d]]
        BY <1>0, <2>1 DEF Connect
      <3> QED BY <1>0, <3>1, <3>3, <3>4
    <2>2. CASE Disconnect(d)
      <3>1. client'[d] = [on |-> FALSE, pos |-> 1, seen |-> client[d].seen,
                          synced |-> FALSE, told |-> FALSE]
        BY <1>0, <2>2 DEF Disconnect, Offline
      <3>2. 1 \in 1..(MaxChanges + 1)
        BY <1>0
      <3>3. client'[d] \in Client
        <4>1. client[d].seen \in 0..MaxChanges
          BY <1>0, ClientFields
        <4> QED BY <3>1, <3>2, <4>1, FreshClient, Zenon
      <3>4. client' = [client EXCEPT ![d] = client'[d]]
        BY <1>0, <2>2 DEF Disconnect
      <3> QED BY <1>0, <3>1, <3>3, <3>4
    <2> QED BY <2>1, <2>2
  <1>2. UNCHANGED <<changes, handler, channel, unsaid>>
    BY DEF Connect, Disconnect
  <1>3. client' \in [Device -> Client] /\ \A x \in Device \ {d} : client'[x] = client[x]
    BY <1>0, <1>1
  <1>4. \A x \in Device : /\ client'[x].pos <= Len(channel) + 1
                          /\ client'[x].seen <= Len(changes)
    BY <1>1, <1>3 DEF NotifyInv, PositionsFit
  <1> QED BY <1>1, <1>2, <1>3, <1>4, ChannelStays, OthersUnmoved

\* A device that lagged finds a message of another device, or its own only.
LEMMA Lags ==
  ASSUME NotifyInv, NEW d \in Device, Lag(d)
  PROVE  NotifyInv'
  <1> USE NotifyAssumption
  <1>0. /\ Len(channel) \in Nat /\ Len(channel) <= MaxChanges
        /\ client \in [Device -> Client] /\ client[d] \in Client
    BY DEF NotifyInv, NotifyTypeOK
  <1>1. Oldest \in 1..(Len(channel) + 1) /\ Len(channel) >= Capacity
    BY <1>0 DEF Lag, Oldest, Client
  <1>2. /\ client'[d] \in Client /\ client'[d].pos = Oldest
        /\ client'[d].seen = client[d].seen
        /\ client' \in [Device -> Client] /\ \A x \in Device \ {d} : client'[x] = client[x]
    BY <1>0, <1>1 DEF Lag, Client
  <1>3. UNCHANGED <<changes, handler, channel, unsaid>>
    BY DEF Lag
  <1>4. \A x \in Device : /\ client'[x].pos <= Len(channel) + 1
                          /\ client'[x].seen <= Len(changes)
    BY <1>0, <1>1, <1>2 DEF NotifyInv, PositionsFit
  <1>5. WillBeTold(d)' \/ OnlyOwnLeft(d)'
    <2>1. Oldest' = Oldest /\ \A i \in Oldest..Len(channel) : Source(i)' = Source(i)
      BY <1>3 DEF Oldest, Source
    <2>2. CASE \E i \in Oldest..Len(channel) : Source(i) # d
      BY <1>0, <1>1, <1>2, <1>3, <2>1, <2>2 DEF WillBeTold
    <2>3. CASE \A i \in Oldest..Len(channel) : Source(i) = d
      BY <1>1, <1>3, <2>1, <2>3 DEF OnlyOwnLeft
    <2> QED BY <2>2, <2>3
  <1> QED BY <1>2, <1>3, <1>4, <1>5, ChannelStays, OthersUnmoved

\* A message of another device tells; an own one is known.
LEMMA Receives ==
  ASSUME NotifyInv, NEW d \in Device, Receive(d)
  PROVE  NotifyInv'
  <1> USE NotifyAssumption
  <1>0. /\ Len(channel) \in Nat /\ Len(channel) <= MaxChanges
        /\ client \in [Device -> Client] /\ client[d] \in Client
        /\ client[d].pos \in 1..Len(channel)
    BY DEF NotifyInv, NotifyTypeOK, Receive, Client
  <1>1. /\ client'[d] \in Client /\ client'[d].pos = client[d].pos + 1
        /\ client'[d].seen = client[d].seen /\ client'[d].on = client[d].on
        /\ client'[d].synced = client[d].synced
        /\ client'[d].told = (client[d].told \/ ForDevice(d, client[d].pos))
        /\ client' \in [Device -> Client] /\ \A x \in Device \ {d} : client'[x] = client[x]
    <2>1. client'[d] = [client[d] EXCEPT !.pos = @ + 1,
                                         !.told = @ \/ ForDevice(d, client[d].pos)]
      BY <1>0 DEF Receive, Client
    <2>2. client[d].told \/ ForDevice(d, client[d].pos) \in BOOLEAN
      BY DEF ForDevice
    <2>3. client'[d] \in Client
      <3>1. client[d].pos + 1 \in 1..(MaxChanges + 1)
        BY <1>0
      <3>2. client'[d] = [on |-> client[d].on, pos |-> client[d].pos + 1,
                          seen |-> client[d].seen, synced |-> client[d].synced,
                          told |-> client[d].told \/ ForDevice(d, client[d].pos)]
        BY <1>0, <2>1, ClientFields
      <3> QED BY <1>0, <2>2, <3>1, <3>2, AClient, ClientFields
    <2>4. client' \in [Device -> Client] /\ \A x \in Device \ {d} : client'[x] = client[x]
      <3>1. DOMAIN client' = Device /\ \A x \in Device \ {d} : client'[x] = client[x]
        BY <1>0 DEF Receive
      <3>2. client' = [x \in Device |-> client'[x]]
        BY <1>0 DEF Receive
      <3> QED BY <1>0, <2>3, <3>1, <3>2
    <2> QED BY <1>0, <2>1, <2>3, <2>4 DEF Client
  <1>2. UNCHANGED <<changes, handler, channel, unsaid>>
    BY DEF Receive
  <1>3. \A x \in Device : /\ client'[x].pos <= Len(channel) + 1
                          /\ client'[x].seen <= Len(changes)
    BY <1>0, <1>1 DEF NotifyInv, PositionsFit
  <1>4. ASSUME client'[d].on, client'[d].synced, ~client'[d].told
        PROVE  \/ \A c \in 1..Len(changes) : Accounted(d, c)'
               \/ WillBeTold(d)'
               \/ OnlyOwnLeft(d)'
    <2>1. /\ client[d].on /\ client[d].synced /\ ~client[d].told
          /\ Source(client[d].pos) = d
      BY <1>1, <1>4 DEF ForDevice
    <2>2. \A i \in client[d].pos..Len(channel) :
            i = client[d].pos \/ i \in client'[d].pos..Len(channel)
      BY <1>0, <1>1
    <2>3. CASE OnlyOwnLeft(d)
      BY <1>2, <2>3 DEF OnlyOwnLeft, Oldest, Source
    <2>4. CASE WillBeTold(d)
      BY <1>2, <2>1, <2>2, <2>4 DEF WillBeTold, Oldest, Source
    <2>5. CASE \A c \in 1..Len(changes) : Accounted(d, c)
      BY <1>1, <1>2, <2>1, <2>2, <2>5 DEF Accounted, Source
    <2> QED BY <2>1, <2>3, <2>4, <2>5 DEF NotifyInv, Heard
  <1> QED BY <1>1, <1>2, <1>3, <1>4, ChannelStays, OthersUnmoved

\* A sync reads every change there is.
LEMMA Synchronises ==
  ASSUME NotifyInv, NEW d \in Device, Synchronise(d)
  PROVE  NotifyInv'
  <1> USE NotifyAssumption
  <1>0. /\ Len(changes) \in Nat /\ Len(changes) <= MaxChanges
        /\ client \in [Device -> Client] /\ client[d] \in Client
    BY DEF NotifyInv, NotifyTypeOK
  <1>1. /\ client'[d] \in Client /\ client'[d].pos = client[d].pos
        /\ client'[d].seen = Len(changes)
        /\ client' \in [Device -> Client] /\ \A x \in Device \ {d} : client'[x] = client[x]
    <2>1. client'[d] = [on |-> client[d].on, pos |-> client[d].pos, seen |-> Len(changes),
                        synced |-> client[d].on, told |-> FALSE]
      BY <1>0 DEF Synchronise, Client
    <2>2. client'[d] \in Client
      BY <1>0, <2>1 DEF Client
    <2>3. client' \in [Device -> Client] /\ \A x \in Device \ {d} : client'[x] = client[x]
      <3>1. DOMAIN client' = Device /\ \A x \in Device \ {d} : client'[x] = client[x]
        BY <1>0 DEF Synchronise
      <3>2. client' = [x \in Device |-> client'[x]]
        BY <1>0 DEF Synchronise
      <3> QED BY <1>0, <2>2, <3>1, <3>2
    <2> QED BY <2>1, <2>2, <2>3
  <1>2. UNCHANGED <<changes, handler, channel, unsaid>>
    BY DEF Synchronise
  <1>3. \A x \in Device : /\ client'[x].pos <= Len(channel) + 1
                          /\ client'[x].seen <= Len(changes)
    BY <1>0, <1>1 DEF NotifyInv, PositionsFit
  <1>4. \A c \in 1..Len(changes) : Accounted(d, c)'
    BY <1>0, <1>1, <1>2 DEF Accounted
  <1> QED BY <1>1, <1>2, <1>3, <1>4, ChannelStays, OthersUnmoved

LEMMA NotifyStepKeeps ==
  ASSUME NotifyInv, NotifyStep
  PROVE  NotifyInv'
  BY Announces, GivesUp, Commits, ChangesSilently, ConnectsOrGoes, Lags, Receives,
     Synchronises DEF NotifyStep

\* The process forgets its channel; the devices keep what they have read.
LEMMA Forgets ==
  ASSUME NotifyInv, Forget
  PROVE  NotifyInv'
  <1> USE NotifyAssumption
  <1>0. /\ Len(changes) \in Nat /\ MaxChanges \in Nat /\ unsaid \subseteq Change
        /\ handler \in [Handler -> 0..MaxChanges]
        /\ client \in [Device -> Client]
    BY DEF NotifyInv, NotifyTypeOK
  <1>1. handler' = [h \in Handler |-> 0] /\ channel' = <<>> /\ changes' = changes
    BY DEF Forget
  <1>2. \A d \in Device : /\ client'[d] \in Client /\ ~client'[d].on
                          /\ client'[d].pos = 1 /\ client'[d].seen = client[d].seen
    <2> TAKE d \in Device
    <2>1. client'[d] = [on |-> FALSE, pos |-> 1, seen |-> client[d].seen,
                        synced |-> FALSE, told |-> FALSE]
      BY DEF Forget, Offline
    <2>2. client[d].seen \in 0..MaxChanges /\ 1 \in 1..(MaxChanges + 1)
      BY <1>0, ClientFields
    <2>3. client'[d] \in Client
      BY <2>1, <2>2, FreshClient, Zenon
    <2> QED BY <2>1, <2>3
  <1>3. unsaid' \subseteq Change
    <2>1. \A h \in Handler : handler[h] # 0 => handler[h] \in Change
      BY <1>0 DEF Change
    <2> QED BY <1>0, <2>1 DEF Forget
  <1>4. NotifyTypeOK'
    <2>1. client' \in [Device -> Client]
      BY <1>2 DEF Forget
    <2>2. channel' \in Seq(Change) /\ Len(channel') = 0
      BY <1>1
    <2>3. handler' \in [Handler -> 0..MaxChanges]
      BY <1>0, <1>1
    <2> QED BY <1>0, <1>1, <1>3, <2>1, <2>2, <2>3 DEF NotifyInv, NotifyTypeOK
  <1>5. AnnouncedOnce'
    BY <1>0, <1>1 DEF AnnouncedOnce
  <1>6. PositionsFit'
    BY <1>1, <1>2 DEF NotifyInv, PositionsFit
  <1>7. Heard'
    BY <1>2 DEF Heard
  <1> QED BY <1>4, <1>5, <1>6, <1>7 DEF NotifyInv

LEMMA NotifyStarts == NotifyInit => NotifyInv
  <1> USE NotifyAssumption
  <1> SUFFICES ASSUME NotifyInit PROVE NotifyInv
    OBVIOUS
  <1>2. NotifyTypeOK
    <2>1. Offline \in Client
      BY DEF Offline, Client
    <2> QED BY <2>1 DEF NotifyInit, NotifyTypeOK
  <1>3. AnnouncedOnce
    BY DEF NotifyInit, AnnouncedOnce
  <1>4. PositionsFit
    BY DEF NotifyInit, PositionsFit, Offline
  <1>5. Heard
    BY DEF NotifyInit, Heard, Offline
  <1> QED BY <1>2, <1>3, <1>4, <1>5 DEF NotifyInv

\* Whatever is interleaved with the start and the end of processes.
THEOREM NotifyInvariant == Spec => []NotifyInv
  <1>1. Init => NotifyInv
    BY NotifyStarts DEF Init
  <1>2. NotifyInv /\ [Next]_vars => NotifyInv'
    <2> SUFFICES ASSUME NotifyInv, [Next]_vars PROVE NotifyInv'
      OBVIOUS
    <2>1. CASE Serving
      BY <2>1, NotifyStepKeeps DEF Serving
    <2>2. CASE Crash
      BY <2>2, Forgets DEF Crash
    <2>3. CASE UNCHANGED notify
      <3>1. UNCHANGED <<changes, handler, channel, client, unsaid>>
        BY <2>3 DEF notify
      <3>2. /\ NotifyTypeOK' = NotifyTypeOK /\ AnnouncedOnce' = AnnouncedOnce
            /\ PositionsFit' = PositionsFit
        BY <3>1 DEF NotifyTypeOK, AnnouncedOnce, PositionsFit
      <3>3. Heard' = Heard
        BY <3>1 DEF Heard, Accounted, WillBeTold, OnlyOwnLeft, Oldest, Source
      <3> QED BY <3>2, <3>3 DEF NotifyInv
    <2> QED BY <2>1, <2>2, <2>3 DEF Next, Starting, vars
  <1> QED BY <1>1, <1>2, PTL DEF Spec

\* The types of the channels, and what a channel holds.
THEOREM NotifyTypeCorrect == Spec => []NotifyTypeOK
  <1>1. NotifyInv => NotifyTypeOK
    BY DEF NotifyInv
  <1> QED BY <1>1, NotifyInvariant, PTL

\* A device that has received all there is was told of every change, or has one
\* of the reasons not to know it that NothingUnheard lists.
THEOREM Unheard == Spec => []NothingUnheard
  <1>1. NotifyInv => NothingUnheard
    <2> SUFFICES ASSUME NotifyInv, NEW d \in Device,
                        Drained(d), client[d].synced, ~client[d].told, ~OnlyOwnLeft(d),
                        NEW c \in 1..Len(changes)
                 PROVE  \/ c <= client[d].seen \/ changes[c] = d \/ c \in unsaid
                        \/ \E h \in Handler : handler[h] = c
      BY DEF NothingUnheard
    <2>1. client[d].on /\ client[d].pos = Len(channel) + 1 /\ Len(channel) \in Nat
      BY DEF Drained, NotifyInv, NotifyTypeOK
    <2>2. ~WillBeTold(d)
      BY <2>1 DEF WillBeTold
    <2>3. Accounted(d, c)
      BY <2>1, <2>2 DEF NotifyInv, Heard
    <2> QED BY <2>1, <2>3 DEF Accounted
  <1> QED BY <1>1, NotifyInvariant, PTL
-----------------------------------------------------------------------------
(* The whole.                                                               *)

\* Start and notifications together.
THEOREM ServerInvariant == Spec => []ServerInv
  <1>1. StartInv /\ IndexHasColumn /\ NotifyInv => ServerInv
    BY DEF ServerInv
  <1> QED BY <1>1, StartInvariant, IndexKeepsColumn, NotifyInvariant, PTL
=============================================================================
