----------------------------- MODULE Migrations -----------------------------
(***************************************************************************)
(* The start of the server: init_pool runs the migrations that are not yet  *)
(* recorded, adds columns, repairs what an earlier release may have left    *)
(* behind, seeds, and then the server listens.                              *)
(*                                                                          *)
(* Every statement commits on its own; none of this is in a transaction.    *)
(* The process may be killed between two statements, and the supervisor     *)
(* (restart: unless-stopped) starts it again.  The database is the set of   *)
(* the tables, columns, indexes and seeded rows it has.                     *)
(*                                                                          *)
(* A definition under the comment "Slip" is a plausible mistake in the      *)
(* definition that follows it; no specification uses it.                    *)
(***************************************************************************)
EXTENDS Integers, Sequences

CONSTANTS
  MaxCrashes,  \* bound: how often the process is killed
  Failing      \* bound: the columns whose ADD COLUMN may fail

ASSUME MigrationsAssumption == MaxCrashes \in Nat

VARIABLES
  db,        \* what the database has
  recorded,  \* table _migrations
  step,      \* the step of Program to come; 0 when the process is down
  warned,    \* columns this process failed to add and only logged
  crashes,   \* how often the process was killed
  lost       \* ghost: objects of recorded migrations a former release dropped

start == <<db, recorded, step, warned, crashes, lost>>

-----------------------------------------------------------------------------
(* What init_pool does, statement by statement.                             *)

S(what, o) == [do |-> what, of |-> o]

\* The loop of run_migrations, one migration after the other.
SqlMigrations ==
  <<S("check", "001"),
    S("create", "users"), S("create", "devices"), S("create", "refresh_tokens"),
    S("create", "files"), S("create", "file_versions"),
    S("create", "sync_cursors"), S("create", "server_settings"),
    S("record", "001"),
    S("check", "002"),
    S("create", "idx_files"), S("create", "idx_others"),
    S("create", "audit_log"), S("create", "idx_audit_log"),
    S("record", "002"),
    S("check", "003"), S("alter", "encrypted_vault_key"), S("record", "003"),
    S("check", "004"), S("create", "vaults"), S("record", "004")>>

UserColumns ==
  <<S("column", "failed_attempts"), S("column", "locked_until"),
    S("column", "encryption_salt"), S("column", "encrypted_vault_key")>>

\* Slip: the columns first.
RunMigrationsColumnsFirst == UserColumns \o SqlMigrations

RunMigrations == SqlMigrations \o UserColumns

RunVaultMigration ==
  <<S("recover", "files"),
    S("column", "files.vault_id"), S("column", "file_versions.vault_id"),
    S("create", "idx_files_vault"), S("create", "main_vault")>>

Program == RunMigrations \o RunVaultMigration \o <<S("create", "settings")>>

Objects == {Program[i].of : i \in {j \in DOMAIN Program :
                                     Program[j].do \in {"create", "alter", "column"}}}

\* The objects of the migrations that a former release had.
MadeBefore == {"users", "devices", "refresh_tokens", "files", "file_versions",
               "sync_cursors", "server_settings", "idx_files", "idx_others",
               "audit_log", "idx_audit_log"}

Names == {"001", "002", "003", "004"}
Ready == step = Len(Program) + 1
Down == step = 0

\* The process is at a step of this kind, for o.
AtStep(what, o) == step \in DOMAIN Program /\ Program[step] = [do |-> what, of |-> o]

\* A new database; one of a release with two migrations; and one of the release
\* whose vault migration had dropped files, with its indexes, and was stopped
\* before it renamed files_new.
Origin ==
  LET old == MadeBefore \cup
               {"failed_attempts", "locked_until", "encryption_salt", "settings"}
      dropped == {"files", "idx_files"}
  IN \/ db = {} /\ recorded = {} /\ lost = {}
     \/ db = old /\ recorded = {"001", "002"} /\ lost = {}
     \/ /\ db = (old \ dropped) \cup {"files_new", "files.vault_id"}
        /\ recorded = {"001", "002"} /\ lost = {"idx_files"}

StartInit ==
  /\ Origin
  /\ step = 0 /\ warned = {} /\ crashes = 0

-----------------------------------------------------------------------------
Boot ==
  /\ Down
  /\ step' = 1
  /\ warned' = {}
  /\ UNCHANGED <<db, recorded, crashes, lost>>

Advance == step' = step + 1

\* Slip: whatever is in _migrations, the statements run.
AppliedNever(m) == FALSE

\* SELECT COUNT(*) > 0 FROM _migrations
Applied(m) == m \in recorded

\* Slip: the loop ends at the first migration that is applied.
PastBreak(m) == Len(SqlMigrations) + 1

\* continue: the step behind the record of m.
Past(m) == 1 + CHOOSE b \in DOMAIN Program : Program[b] = [do |-> "record", of |-> m]

Check(m) ==
  /\ AtStep("check", m)
  /\ IF Applied(m) THEN step' = Past(m) ELSE Advance
  /\ UNCHANGED <<db, recorded, warned, crashes, lost>>

\* idx_files_user_vault_path is on a column that may not have been added.
LacksColumn(o) == o = "idx_files_vault" /\ {o, "files.vault_id"} \cap db = {}

\* CREATE ... IF NOT EXISTS, INSERT OR IGNORE.
Create(o) ==
  /\ AtStep("create", o)
  /\ IF LacksColumn(o)
       THEN step' = 0 /\ UNCHANGED db
       ELSE db' = db \cup {o} /\ Advance
  /\ UNCHANGED <<recorded, warned, crashes, lost>>

\* ALTER TABLE ... ADD COLUMN fails when the column is there.
Alter(o) ==
  /\ AtStep("alter", o)
  /\ IF o \in db
       THEN step' = 0 /\ UNCHANGED db
       ELSE db' = db \cup {o} /\ Advance
  /\ UNCHANGED <<recorded, warned, crashes, lost>>

Record(m) ==
  /\ AtStep("record", m)
  /\ recorded' = recorded \cup {m}
  /\ Advance
  /\ UNCHANGED <<db, warned, crashes, lost>>

\* add_column_if_missing looks first, and only logs a failure.
AddColumn(o) ==
  /\ AtStep("column", o)
  /\ \/ /\ db' = db \cup {o}
        /\ UNCHANGED warned
     \/ /\ o \notin db /\ o \in Failing
        /\ warned' = warned \cup {o}
        /\ UNCHANGED db
  /\ Advance
  /\ UNCHANGED <<recorded, crashes, lost>>

\* ALTER TABLE files_new RENAME TO files
Recovered == (db \ {"files_new"}) \cup {"files"}

Recover ==
  /\ AtStep("recover", "files")
  /\ IF "files" \in db THEN Advance /\ UNCHANGED db
     ELSE IF "files_new" \in db THEN Advance /\ db' = Recovered
     ELSE step' = 0 /\ UNCHANGED db
  /\ UNCHANGED <<recorded, warned, crashes, lost>>

Kill ==
  /\ ~Down
  /\ crashes < MaxCrashes
  /\ crashes' = crashes + 1
  /\ step' = 0
  /\ UNCHANGED <<db, recorded, warned, lost>>

BootStep ==
  \/ Boot \/ Recover
  \/ \E m \in Names : Check(m) \/ Record(m)
  \/ \E o \in Objects : Create(o) \/ Alter(o) \/ AddColumn(o)

-----------------------------------------------------------------------------
(* Properties.                                                              *)

\* Types; files never exists beside files_new, from which it would be recovered,
\* and is itself never what is lost (run_vault_migration).
StartTypeOK ==
  /\ db \subseteq Objects \cup {"files_new"}
  /\ ~({"files", "files_new"} \subseteq db)
  /\ recorded \subseteq Names
  /\ step \in 0..(Len(Program) + 1)
  /\ warned \subseteq Objects
  /\ crashes \in Nat
  /\ lost \subseteq {"idx_files"}

\* However often the process was killed on the way, and whatever release the
\* database comes from, a server that listens has everything its statements
\* use, but for columns it has warned about and for the indexes that went with
\* the table a former release dropped; and among the columns it may only have
\* warned about is not the one the sync goes by (init_pool).
ListensOnlyWhenComplete ==
  Ready => /\ recorded = Names
           /\ Objects \ ((warned \ {"files.vault_id"}) \cup lost) \subseteq db

\* A column of a migration is in the database and the migration is not
\* recorded: 003 fails with "duplicate column name" at every start.
Stuck == "encrypted_vault_key" \in db /\ "003" \notin recorded

\* A server gets stuck only by being killed between the statement of 003 and
\* its record: a sequence of ordinary starts never does it, although the same
\* column is also added by add_column_if_missing (run_migrations).
StuckOnlyByCrash == Down /\ Stuck => crashes > 0

\* A start that nobody kills comes to its end, unless it is stuck, or has just
\* failed to add the column an index is on: the "failed to recover" way out is
\* never taken, whatever release the database comes from and wherever earlier
\* starts were killed (run_migrations, run_vault_migration).
FailsOnlyStuck ==
  [][~Down /\ Down' =>
       crashes' > crashes \/ Stuck \/ "files.vault_id" \in warned]_start
=============================================================================
