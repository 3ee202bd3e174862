------------------------------- MODULE Sync --------------------------------
(***************************************************************************)
(* The sync protocol of one vault: several devices, the delta engine that   *)
(* tells each of them what to do, the transfers that follow, and the        *)
(* cursor stored at the end.  The web panel edits the same files.           *)
(*                                                                          *)
(* A file is known to the server by the columns the engine compares:        *)
(* is_deleted, hash and updated_at.  VersionStore has the version numbers   *)
(* and the history.  Timestamps are whole seconds, read from the server's   *)
(* clock, which is taken to be monotone; a device's modification times come *)
(* from its own clock, which may be behind it or ahead of it.               *)
(*                                                                          *)
(* The plugin is not in the repository.  What is modelled of it is what the *)
(* endpoints ask for: it sends its files with their modification times and  *)
(* the paths it has deleted, keeps those until a delta is answered, follows *)
(* the instructions in any order, and gives a file it has received the      *)
(* server_modified_at of the instruction.                                   *)
(*                                                                          *)
(* A definition under the comment "Slip" is a plausible mistake in the      *)
(* definition that follows it; no specification uses it.                    *)
(***************************************************************************)
EXTENDS Integers, FiniteSets

CONSTANTS
  Device,    \* the devices of the user
  Path,      \* vault-relative paths
  Content,   \* hashes of contents
  Skew,      \* by how much the clock of a device is ahead of the server's
  MaxTime,   \* bound: the clock stops here
  MaxEdits,  \* bound: edits and removals on the devices
  MaxLost,   \* bound: sessions that break off
  MaxPanel   \* bound: operations in the web panel

None == "none"

ASSUME SkewAssumption == Skew \in [Device -> Int]
ASSUME NoneAssumption == None \notin Content
ASSUME SyncBoundsAssumption ==
  MaxTime \in Nat /\ MaxEdits \in Nat /\ MaxLost \in Nat /\ MaxPanel \in Nat

VARIABLES
  row,      \* table files, by path
  history,  \* the contents file_versions holds, by path
  clock,    \* the server's clock
  local,    \* the files of each device
  gone,     \* paths deleted on a device and not yet acknowledged
  sess,     \* the sync session of each device
  uploads,  \* upload requests the server is working on
  completes, \* complete requests the server is working on
  cursor,   \* sync_cursors.server_version
  spent,    \* how much of each bound is used
  dirty,    \* ghost: files changed on a device since the server dated them
  ahead,    \* ghost: files the server stored under an earlier date than the
            \*   device, whose clock was ahead, goes on giving them
  high      \* ghost: the highest updated_at a path has had

server == <<row, history, high>>
ghosts == <<dirty, ahead>>
vars == <<row, history, clock, local, gone, sess, uploads, completes, cursor,
          spent, dirty, ahead, high>>

-----------------------------------------------------------------------------
(* Tables, files, instructions.                                             *)

Time == 0..MaxTime

Row == [status : {"none", "live", "deleted"}, hash : Content \cup {None},
        at : Time]
NoRow == [status |-> "none", hash |-> None, at |-> 0]

\* A file on a device; hash None when the device does not have it.  A device
\* whose clock is ahead gives dates that the server's clock may never reach.
Entry == [hash : Content \cup {None}, at : Nat]
Absent == [hash |-> None, at |-> 0]

SyncAction == {"none", "upload", "sent", "download", "delete", "conflict"}
Instruction == [do : SyncAction, at : Time]
NoInstruction == [do |-> "none", at |-> 0]

Session == [pc : {"idle", "delta", "apply", "complete"}, now : Time,
            todo : SUBSET Path, listed : SUBSET Path,
            manifest : [Path -> Entry], plan : [Path -> Instruction]]
NoSession == [pc |-> "idle", now |-> 0, todo |-> {}, listed |-> {},
              manifest |-> [p \in Path |-> Absent],
              plan |-> [p \in Path |-> NoInstruction]]

Upload == [dev : Device, path : Path, hash : Content, at : Nat, since : Time,
           held : BOOLEAN]

Unread == -1

\* A complete request; nr tells apart those of one device, whose sessions broke
\* off in between.  Ghost: late, when some path was backdated as it read its date,
\* or another complete of the device has stored the cursor since.
Completion == [dev : Device, nr : Nat, at : Time \cup {Unread}, held : BOOLEAN,
               late : BOOLEAN]

Later(s, t) == IF s > t THEN s ELSE t

\* The modification time a device gives to a file it changes now.
DeviceTime(d) == Later(clock + Skew[d], 0)

Init ==
  /\ row = [p \in Path |-> NoRow]
  /\ history = [p \in Path |-> {}]
  /\ clock = 0
  /\ local = [d \in Device |-> [p \in Path |-> Absent]]
  /\ gone = [d \in Device |-> {}]
  /\ sess = [d \in Device |-> NoSession]
  /\ uploads = {}
  /\ completes = {}
  /\ cursor = [d \in Device |-> 0]
  /\ spent = [edits |-> 0, lost |-> 0, panel |-> 0]
  /\ dirty = [d \in Device |-> {}]
  /\ ahead = [d \in Device |-> {}]
  /\ high = [p \in Path |-> 0]

\* The row of p becomes r, and h its history.
SetRow(p, r, h) ==
  /\ row' = [row EXCEPT ![p] = r]
  /\ history' = [history EXCEPT ![p] = h]
  /\ high' = [high EXCEPT ![p] = Later(@, r.at)]

-----------------------------------------------------------------------------
(* The delta engine.                                                        *)

\* Slip: a tie is won by the client.
ClientNewerOrEqual(e, r) == e.at >= r.at

\* The client changed the file after the server last dated it.
ClientNewer(e, r) == e.at > r.at

\* Slip: a file the manifest does not list is left alone.
MissingHereIgnored(r) == "none"

\* Step 4: a file the manifest does not list is never taken for deleted.
MissingHere(r) == IF r.status = "live" THEN "download" ELSE "none"

\* Slip: the hashes are compared before is_deleted is looked at.
ActionForSameContent(e, r) ==
  CASE r.status = "none" -> "upload"
    [] r.status # "none" /\ e.hash = r.hash -> "none"
    [] r.status # "none" /\ e.hash # r.hash ->
         IF ClientNewer(e, r) THEN "upload"
         ELSE IF r.status = "deleted" THEN "delete"
         ELSE IF e.at < r.at THEN "download" ELSE "conflict"

\* Step 3, for a path the manifest lists with e and the server holds as r.
ActionFor(e, r) ==
  CASE r.status = "none" -> "upload"
    [] r.status = "deleted" -> IF ClientNewer(e, r) THEN "upload" ELSE "delete"
    [] r.status = "live" /\ e.hash = r.hash -> "none"
    [] r.status = "live" /\ e.hash # r.hash ->
         IF ClientNewer(e, r) THEN "upload"
         ELSE IF e.at < r.at THEN "download" ELSE "conflict"

\* The instruction; only what the device writes itself needs the row's date.
Instruct(e, r) ==
  LET do == IF e.hash = None THEN MissingHere(r) ELSE ActionFor(e, r)
  IN [do |-> do, at |-> IF do \in {"download", "conflict"} THEN r.at ELSE 0]

\* The device reads its files; compute_delta reads the clock, for the deletions.
SyncStart(d) ==
  /\ sess[d].pc = "idle"
  /\ sess' = [sess EXCEPT ![d] = [NoSession EXCEPT
                !.pc = "delta", !.now = IF gone[d] = {} THEN 0 ELSE clock,
                !.todo = gone[d], !.listed = gone[d], !.manifest = local[d]]]
  /\ UNCHANGED <<server, clock, local, gone, uploads, completes, cursor, spent, ghosts>>

\* Step 1: one UPDATE for each of deleted_paths, dated at the start.
DeltaDelete(d, p) ==
  /\ sess[d].pc = "delta" /\ p \in sess[d].todo
  /\ IF row[p].status = "live"
       THEN SetRow(p, [row[p] EXCEPT !.status = "deleted", !.at = sess[d].now],
                   history[p])
       ELSE UNCHANGED server
  /\ sess' = [sess EXCEPT ![d].todo = @ \ {p}]
  /\ UNCHANGED <<clock, local, gone, uploads, completes, cursor, spent, ghosts>>

\* Steps 2 to 4: one SELECT, the instructions, and the answer arrives.
DeltaLoad(d) ==
  /\ sess[d].pc = "delta" /\ sess[d].todo = {}
  /\ sess' = [sess EXCEPT ![d] = [NoSession EXCEPT
                !.pc = "apply",
                !.plan = [p \in Path |-> Instruct(sess[d].manifest[p], row[p])]]]
  /\ gone' = [gone EXCEPT ![d] = @ \ sess[d].listed]
  /\ UNCHANGED <<server, clock, local, uploads, completes, cursor, spent, ghosts>>

-----------------------------------------------------------------------------
(* The transfers.                                                           *)

Ordered(d, p, do) == sess[d].pc = "apply" /\ sess[d].plan[p].do = do

Done(d, p) == sess' = [sess EXCEPT ![d].plan[p] = NoInstruction]

\* The device sends what it has; a request may read the clock when it starts
\* (upload_batch) or just before its transaction (upload).
UploadSend(d, p) ==
  /\ Ordered(d, p, "upload")
  /\ IF local[d][p].hash = None
       THEN /\ Done(d, p)
            /\ UNCHANGED uploads
       ELSE /\ sess' = [sess EXCEPT ![d].plan[p].do = "sent"]
            /\ uploads' = uploads \cup
                 {[dev |-> d, path |-> p, hash |-> local[d][p].hash,
                   at |-> local[d][p].at, since |-> clock, held |-> TRUE]}
  /\ UNCHANGED <<server, clock, local, gone, completes, cursor, spent, ghosts>>

\* Slip: the same hash needs nothing done.
UploadedSameIgnored(u, t) ==
  IF row[u.path].hash = u.hash THEN row[u.path]
  ELSE [status |-> "live", hash |-> u.hash, at |-> t]

\* The row after upsert_file_record: the same hash is not dated again.
Uploaded(u, t) ==
  IF row[u.path].hash = u.hash THEN [row[u.path] EXCEPT !.status = "live"]
  ELSE [status |-> "live", hash |-> u.hash, at |-> t]

\* The server dated just what the device still has.
Acknowledges(u) ==
  /\ u.held
  /\ row[u.path].hash # u.hash
  /\ local[u.dev][u.path] = [hash |-> u.hash, at |-> u.at]

\* The transaction commits with a time read since the request began; the
\* answer reaches a device that still waits for it.
UploadCommit(u, t) ==
  /\ u \in uploads
  /\ u.since <= t /\ t <= clock
  /\ SetRow(u.path, Uploaded(u, t), history[u.path] \cup {u.hash})
  /\ uploads' = uploads \ {u}
  /\ sess' = IF u.held
               THEN [sess EXCEPT ![u.dev].plan[u.path] = NoInstruction]
               ELSE sess
  /\ dirty' = IF Acknowledges(u)
                THEN [dirty EXCEPT ![u.dev] = @ \ {u.path}]
                ELSE dirty
  /\ ahead' = IF Acknowledges(u)
                THEN [ahead EXCEPT ![u.dev] = IF u.at > t THEN @ \cup {u.path}
                                              ELSE @ \ {u.path}]
                ELSE ahead
  /\ UNCHANGED <<clock, local, gone, completes, cursor, spent>>

\* An upload nobody waits for any more ends without having stored anything.
UploadDies(u) ==
  /\ u \in uploads /\ ~u.held
  /\ uploads' = uploads \ {u}
  /\ UNCHANGED <<server, clock, local, gone, sess, completes, cursor, spent, ghosts>>

\* What the device writes when it follows an instruction for p.
Receive(d, p, e) ==
  /\ local' = [local EXCEPT ![d][p] = e]
  /\ dirty' = [dirty EXCEPT ![d] = @ \ {p}]
  /\ ahead' = [ahead EXCEPT ![d] = @ \ {p}]
  /\ Done(d, p)
  /\ UNCHANGED <<server, clock, gone, uploads, completes, cursor, spent>>

\* download serves the current version by file_id, deleted or not.  In a
\* conflict the device takes the server's version too and keeps its own under
\* another name.
Download(d, p) ==
  /\ Ordered(d, p, "download") \/ Ordered(d, p, "conflict")
  /\ row[p].status # "none"
  /\ Receive(d, p, [hash |-> row[p].hash, at |-> sess[d].plan[p].at])

\* The file was deleted permanently in the meantime: 404.
DownloadFails(d, p) ==
  /\ Ordered(d, p, "download") \/ Ordered(d, p, "conflict")
  /\ row[p].status = "none"
  /\ Done(d, p)
  /\ UNCHANGED <<server, clock, local, gone, uploads, completes, cursor, spent, ghosts>>

DeleteLocal(d, p) ==
  /\ Ordered(d, p, "delete")
  /\ Receive(d, p, Absent)

\* Slip: only the files that are not deleted count.
NewestLive(t) == \A p \in Path : row[p].status = "live" => row[p].at <= t

\* t bounds what MAX(updated_at) ranges over.
NewestKnown(t) == \A p \in Path : row[p].at <= t

\* COALESCE(MAX(updated_at), 0)
IsServerVersion(t) == NewestKnown(t) /\ (t = 0 \/ \E p \in Path : row[p].at = t)

\* The row of p carries an older date than the path has had: a request
\* committed with a time it had read before another one, or the file was
\* deleted permanently and uploaded again.
Backdated(p) == row[p].at < high[p]

\* All instructions are followed: the device asks for the cursor to be stored.
CompleteSend(d) ==
  /\ sess[d].pc = "apply"
  /\ \A p \in Path : sess[d].plan[p].do = "none"
  /\ sess' = [sess EXCEPT ![d] = [NoSession EXCEPT !.pc = "complete"]]
  /\ completes' = completes \cup
       {[dev |-> d, nr |-> spent.lost, at |-> Unread, held |-> TRUE,
         late |-> FALSE]}
  /\ UNCHANGED <<server, clock, local, gone, uploads, cursor, spent, ghosts>>

\* The SELECT of complete.
CompleteRead(c, t) ==
  /\ c \in completes /\ c.at = Unread
  /\ IsServerVersion(t)
  /\ completes' = (completes \ {c}) \cup
       {[c EXCEPT !.at = t, !.late = \E p \in Path : Backdated(p)]}
  /\ UNCHANGED <<server, clock, local, gone, sess, uploads, cursor, spent, ghosts>>

\* c stores the cursor between the SELECT of x and its upsert.
Overtake(c, x) ==
  IF x.dev = c.dev /\ x.at # Unread THEN [x EXCEPT !.late = TRUE] ELSE x

\* The upsert of complete, and the answer if the device still waits for it.
CompleteStore(c) ==
  /\ c \in completes /\ c.at # Unread
  /\ cursor' = [cursor EXCEPT ![c.dev] = c.at]
  /\ completes' = {Overtake(c, x) : x \in completes \ {c}}
  /\ sess' = IF c.held THEN [sess EXCEPT ![c.dev] = NoSession] ELSE sess
  /\ UNCHANGED <<server, clock, local, gone, uploads, spent, ghosts>>

\* A complete nobody waits for any more ends without having stored the cursor.
CompleteDies(c) ==
  /\ c \in completes /\ ~c.held
  /\ completes' = completes \ {c}
  /\ UNCHANGED <<server, clock, local, gone, sess, uploads, cursor, spent, ghosts>>

\* The connection breaks, an answer is lost, or the plugin is stopped: what
\* the server works on goes on without a receiver.
SessionLost(d) ==
  /\ sess[d].pc # "idle"
  /\ spent.lost < MaxLost
  /\ spent' = [spent EXCEPT !.lost = @ + 1]
  /\ sess' = [sess EXCEPT ![d] = NoSession]
  /\ uploads' = {IF u.dev = d THEN [u EXCEPT !.held = FALSE] ELSE u : u \in uploads}
  /\ completes' = {IF c.dev = d THEN [c EXCEPT !.held = FALSE] ELSE c : c \in completes}
  /\ UNCHANGED <<server, clock, local, gone, cursor, ghosts>>

-----------------------------------------------------------------------------
(* The users: on the devices at any time, and in the web panel.             *)

Spend(what, bound) ==
  /\ spent[what] < bound
  /\ spent' = [spent EXCEPT ![what] = @ + 1]

Edit(d, p, c) ==
  /\ local[d][p].hash # c
  /\ Spend("edits", MaxEdits)
  /\ local' = [local EXCEPT ![d][p] = [hash |-> c, at |-> DeviceTime(d)]]
  /\ gone' = [gone EXCEPT ![d] = @ \ {p}]
  /\ dirty' = [dirty EXCEPT ![d] = @ \cup {p}]
  /\ ahead' = [ahead EXCEPT ![d] = @ \ {p}]
  /\ UNCHANGED <<server, clock, sess, uploads, completes, cursor>>

Remove(d, p) ==
  /\ local[d][p].hash # None
  /\ Spend("edits", MaxEdits)
  /\ local' = [local EXCEPT ![d][p] = Absent]
  /\ gone' = [gone EXCEPT ![d] = @ \cup {p}]
  /\ UNCHANGED <<server, clock, sess, uploads, completes, cursor, ghosts>>

Panel ==
  /\ Spend("panel", MaxPanel)
  /\ UNCHANGED <<clock, local, gone, sess, uploads, completes, cursor, ghosts>>

\* delete_file; a file that is deleted already is dated again.
PanelDelete(p) ==
  /\ Panel /\ row[p].status # "none"
  /\ SetRow(p, [row[p] EXCEPT !.status = "deleted", !.at = clock], history[p])

PanelRestore(p) ==
  /\ Panel /\ row[p].status = "deleted"
  /\ SetRow(p, [row[p] EXCEPT !.status = "live", !.at = clock], history[p])

PanelRollback(p, c) ==
  /\ Panel /\ row[p].status # "none" /\ c \in history[p]
  /\ SetRow(p, [status |-> "live", hash |-> c, at |-> clock], history[p])

\* restore_all: one UPDATE.
PanelRestoreAll ==
  /\ Panel
  /\ LET back == {p \in Path : row[p].status = "deleted"}
     IN /\ row' = [p \in Path |-> IF p \in back
                     THEN [row[p] EXCEPT !.status = "live", !.at = clock]
                     ELSE row[p]]
        /\ high' = [p \in Path |-> IF p \in back THEN Later(high[p], clock)
                                   ELSE high[p]]
  /\ UNCHANGED history

\* delete_permanent, and wipe_archive one file at a time.
PanelPurge(p) ==
  /\ Panel /\ row[p].status = "deleted"
  /\ SetRow(p, NoRow, {})

Tick ==
  /\ clock < MaxTime
  /\ clock' = clock + 1
  /\ UNCHANGED <<server, local, gone, sess, uploads, completes, cursor, spent, ghosts>>

-----------------------------------------------------------------------------
UserStep ==
  \/ \E d \in Device, p \in Path :
       Remove(d, p) \/ \E c \in Content : Edit(d, p, c)
  \/ \E p \in Path :
       \/ PanelDelete(p) \/ PanelRestore(p) \/ PanelPurge(p)
       \/ \E c \in Content : PanelRollback(p, c)
  \/ PanelRestoreAll

\* A sync session of d goes on.
DeviceStep(d) ==
  \/ SyncStart(d) \/ DeltaLoad(d) \/ CompleteSend(d)
  \/ \E p \in Path :
       \/ DeltaDelete(d, p) \/ UploadSend(d, p) \/ DeleteLocal(d, p)
       \/ Download(d, p) \/ DownloadFails(d, p)

CommitStep(u) == \E t \in Time : UploadCommit(u, t)

CompleteStep(c) == (\E t \in Time : CompleteRead(c, t)) \/ CompleteStore(c)

Next ==
  \/ UserStep \/ Tick
  \/ \E d \in Device : DeviceStep(d) \/ SessionLost(d)
  \/ \E u \in uploads : CommitStep(u) \/ UploadDies(u)
  \/ \E c \in completes : CompleteStep(c) \/ CompleteDies(c)

Spec == Init /\ [][Next]_vars

\* A device that is switched on syncs again and again (the plugin's interval);
\* a handler is a plain sequence of awaits and ends.
RequestOf(d) ==
  \/ \E u \in uploads : u.dev = d /\ (CommitStep(u) \/ UploadDies(u))
  \/ \E c \in completes : c.dev = d /\ (CompleteStep(c) \/ CompleteDies(c))

Fairness == \A d \in Device : WF_vars(DeviceStep(d) \/ RequestOf(d))

FairSpec == Spec /\ Fairness

-----------------------------------------------------------------------------
(* Properties.                                                              *)

\* Rows, files, sessions and requests keep their types.
TypeOK ==
  /\ row \in [Path -> Row]
  /\ history \in [Path -> SUBSET Content]
  /\ clock \in Time
  /\ local \in [Device -> [Path -> Entry]]
  /\ gone \in [Device -> SUBSET Path]
  /\ sess \in [Device -> Session]
  /\ uploads \subseteq Upload
  /\ completes \subseteq Completion
  /\ cursor \in [Device -> Time]
  /\ spent \in [edits : Nat, lost : Nat, panel : Nat]
  /\ dirty \in [Device -> SUBSET Path]
  /\ ahead \in [Device -> SUBSET Path]
  /\ high \in [Path -> Time]

\* No time the server has read is in the future.
NothingFromTheFuture ==
  /\ \A p \in Path : high[p] <= clock
  /\ \A u \in uploads : u.since <= clock
  /\ \A d \in Device : sess[d].now <= clock

\* The files of d that go by a date of its own: changed since the server dated
\* them, or stored by the server under an earlier date.
OwnDated(d) == dirty[d] \cup ahead[d]

\* What the server has dated is not newer than the highest date it gave: this
\* holds of a row, of an instruction that is still to be followed, and of a
\* file of a device, or of the list it sent, that does not go by a date of the
\* device's own.
DatedByServer ==
  \A p \in Path :
    /\ row[p].at <= high[p]
    /\ \A d \in Device :
         /\ sess[d].plan[p].at <= high[p]
         /\ p \notin OwnDated(d) =>
              /\ local[d][p].at <= high[p]
              /\ sess[d].manifest[p].at <= high[p]

\* An upload that is waited for is the one its session has sent for the path;
\* a session has a list only until the answer comes, and a plan only from then.
SessionsFit ==
  /\ \A u \in uploads : u.held => sess[u.dev].plan[u.path].do = "sent"
  /\ \A u, v \in uploads :
       u.held /\ v.held /\ u.dev = v.dev /\ u.path = v.path => u = v
  /\ \A d \in Device, p \in Path :
       /\ sess[d].pc # "delta" => sess[d].manifest[p] = Absent
       /\ sess[d].pc # "apply" => sess[d].plan[p] = NoInstruction

\* A complete that is waited for is the one of its session, and any other was
\* sent before a session broke off, so that no two are taken for each other.
CompletesFit ==
  /\ \A c \in completes :
       /\ c.held => sess[c.dev].pc = "complete"
       /\ c.nr <= spent.lost /\ (~c.held => c.nr < spent.lost)
  /\ \A c, e \in completes :
       c.dev = e.dev /\ (c.nr = e.nr \/ (c.held /\ e.held)) => c = e

\* t is a date some path has reached.
Reached(t) == t = 0 \/ \E p \in Path : t <= high[p]

\* Cursors, and the dates on their way to become one, have been reached; only a
\* date read while a path was backdated, or overtaken since, is behind the cursor.
CursorReached ==
  /\ \A d \in Device : Reached(cursor[d])
  /\ \A c \in completes : c.at # Unread =>
       /\ Reached(c.at)
       /\ ~c.late => cursor[c.dev] <= c.at

\* The inductive invariant behind UneditedNeverUploads and CursorRetreats: what
\* is stored, on the way or on a device fits together, in types, in time, and in
\* who is waiting for whom (sync/engine.rs, sync/handlers.rs).
SyncInv ==
  /\ TypeOK /\ NothingFromTheFuture /\ DatedByServer
  /\ SessionsFit /\ CompletesFit /\ CursorReached

\* A device is told to upload a file it has not changed since the server dated
\* it only when the server has no row for the path or a backdated one, or when
\* the device's clock was ahead as it made the change that the server dated
\* earlier.  But for these a copy that is merely old never overwrites or revives
\* a newer state of the file (engine.rs, step 3, which compares the device's
\* dates with the server's as they are).
UneditedNeverUploads ==
  [][\A d \in Device, p \in Path :
       /\ sess[d].pc = "delta" /\ sess'[d].pc = "apply"
       /\ sess'[d].plan[p].do = "upload"
       => \/ p \in OwnDated(d)
          \/ row[p].status = "none"
          \/ Backdated(p)]_vars

\* The cursor of a device goes back only by a complete that read its date while
\* some path was backdated or had been deleted permanently (MAX(updated_at)
\* ranges over the rows that are there now), or between whose SELECT and upsert
\* another complete of the device stored the cursor.
CursorRetreats ==
  [][\A d \in Device : cursor'[d] < cursor[d] =>
       \E c \in completes : c.dev = d /\ c.late /\ CompleteStore(c)]_vars

\* The device holds exactly what the server holds of p.
Agree(d, p) ==
  local[d][p].hash = IF row[p].status = "live" THEN row[p].hash ELSE None

\* When the users stop changing files and sessions stop breaking off, which the
\* bounds bring about, devices that keep syncing reach the same files as the
\* server and stay there, whatever deletions were sent twice, answers were lost
\* and uploads arrived late.
EventuallyAgree == <>[](\A d \in Device, p \in Path : Agree(d, p))
=============================================================================
