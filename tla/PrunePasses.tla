---------------------------- MODULE PrunePasses ----------------------------
(***************************************************************************)
(* VersionHistory with one more history variable, that follows a pass of    *)
(* the pruning job: what a pass that comes to its end has achieved, in      *)
(* spite of the list it works from being old by then.  The steps are those  *)
(* of VersionStore.                                                         *)
(***************************************************************************)
EXTENDS VersionHistory

VARIABLE listed  \* history: the files in the list of the pass at work to which
                 \*   no version has been added since the list was read

passVars == <<historyVars, listed>>

PassInit == HistoryInit /\ listed = {}

PassNext ==
  /\ HistoryNext
  /\ listed' = IF prune'.pc = "idle" THEN {}
               ELSE IF prune.pc = "idle" THEN {t.file : t \in prune'.todo}
               ELSE {f \in listed : RowsOf(f)' \subseteq RowsOf(f)}

PassSpec == PassInit /\ [][PassNext]_passVars

-----------------------------------------------------------------------------
(* Properties.                                                              *)

\* How many versions the settings of the pass leave a file; one more, its
\* current one, when a rollback may have made an old number current.
Allowed(f) == IF f \in regressed THEN prune.keep + 1 ELSE prune.keep

\* The versions in S are within the settings: few enough, and only the newest
\* version of the file may be older than the retention period.
WithinLimits(f, S) ==
  /\ Cardinality(S) <= Allowed(f)
  /\ f \notin regressed =>
       \A x \in S : x.created < prune.cutoff =>
         \A y \in RowsOf(f) : y.version <= x.version

\* The listed number of a file still to be scanned is that of its newest version.
PassTodo ==
  \A t \in prune.todo : t.file \in listed \ regressed =>
    \A x \in RowsOf(t.file) : x.version <= t.cur

\* Of a file that has been scanned, what is not doomed is within the limits.
PassDone ==
  \A f \in listed : prune.pc = "run" =>
    \/ \E t \in prune.todo : t.file = f
    \/ WithinLimits(f, RowsOf(f) \ prune.doomed)

\* At every moment of a pass, what it has listed is still to be scanned or is as
\* good as trimmed: no interleaving of uploads, rollbacks, purges and restores
\* with the two loops of prune_versions leaves a file in between.
PassSettles == listed \subseteq FileId /\ PassTodo /\ PassDone

\* The inductive invariant of a pass.
PassInv == IndInv /\ PassSettles

\* A pass that comes to its end leaves every file it has listed, and to which no
\* version was added meanwhile, within the settings it has read, whatever
\* rollbacks, purges and restores did to the files since, and although the rows
\* are deleted one by one (prune_versions).
PassTrims ==
  prune.pc = "run" /\ prune.todo = {} /\ prune.doomed = {} =>
    \A f \in listed : WithinLimits(f, RowsOf(f))
=============================================================================
