----------------------------- MODULE JobRestore -----------------------------
(***************************************************************************)
(* JobWorker composed with the second owner of the maintenance flag: the    *)
(* restore endpoint, which replaces the whole database, the jobs table and  *)
(* its id sequence included, from a request handler of the same process     *)
(* while the worker task is alive (services/backup_service.py).             *)
(*                                                                         *)
(* A dump carries the terminal rows of the jobs table in a staging table and *)
(* the table itself empty; a restore merges the staged rows back afterwards. *)
(***************************************************************************)
EXTENDS JobWorker, FiniteSetsExt

CONSTANTS
    Restores,       \* the restore requests that can be in flight at once
    MaxRestores,    \* bound: how many restore requests are made
    MaxRequests     \* bound: how many enqueueing requests are made

ASSUME RestoreAssumption == MaxRestores \in Nat /\ MaxRequests \in Nat

VARIABLES
    newest,         \* what the newest dump on disk holds
    staging,        \* _jobs_dump_staging in the live database, NoStaging when absent
    lock,           \* who holds _BACKUP_WRITE_LOCK
    backup,         \* how far the worker's backup job is in create_backup
    rpc,            \* where each restore request is
    target,         \* the dump each restore request restores
    restores,       \* how many restore requests have been made
    requests,       \* how many enqueueing requests have been made
    wiped           \* the row the worker claimed has been dropped by a restore

restoreVars == <<newest, staging, lock, backup, rpc, target, restores, requests, wiped>>
allVars == <<vars, restoreVars>>

Terminal == {"succeeded", "failed"}
NoRows == [i \in JobIds |-> NoRow]
NoStaging == [i \in {} |-> NoRow]

\* Mutant of TerminalRows: the dump carries the in-flight rows too.
AllRows == rows

\* _stage_jobs_for_dump: the terminal rows only.
TerminalRows == [i \in JobIds |-> IF rows[i].status \in Terminal THEN rows[i] ELSE NoRow]

Dump == [rows : [JobIds -> Row \cup {NoRow}], seq : 0 .. MaxJobs]
Snapshot == [rows |-> TerminalRows, seq |-> seq]

\* The dump of an install that has run no job yet.
InstallDump == [rows |-> NoRows, seq |-> 0]

InWindow(r) == rpc[r] \in {"window", "restored", "stamped", "broken", "merged"}

-----------------------------------------------------------------------------
(* The backup job of the worker, as far as the database sees it *)

\* create_backup takes the lock and stages the terminal rows.
BackupStage ==
    /\ pc = "working" /\ job.kind = "backup" /\ backup = "none"
    /\ lock = "free"
    /\ lock' = "worker"
    /\ staging' = TerminalRows
    /\ backup' = "staged"
    /\ UNCHANGED <<vars, newest, rpc, target, restores, requests, wiped>>

\* pg_dump has ended, well or badly: the finally drops the staging table, whoever's
\* it is by now; a good dump is then finalised and the lock released.
BackupUnstage(ok) ==
    /\ backup = "staged"
    /\ newest' = IF ok THEN Snapshot ELSE newest
    /\ staging' = NoStaging
    /\ lock' = "free"
    /\ backup' = IF ok THEN "dumped" ELSE "failed"
    /\ UNCHANGED <<vars, rpc, target, restores, requests, wiped>>

-----------------------------------------------------------------------------
(* restore_backup *)

\* Past the gate and the confirmation; the target exists on disk.
RestoreRequest(r, d) ==
    /\ pc # "down" /\ ~stop /\ ~flag
    /\ rpc[r] = "idle" /\ restores < MaxRestores
    /\ rpc' = [rpc EXCEPT ![r] = "locking"]
    /\ target' = [target EXCEPT ![r] = d]
    /\ restores' = restores + 1
    /\ UNCHANGED <<vars, newest, staging, lock, backup, requests, wiped>>

\* Mutant of SnapshotStage: the flag goes up before the snapshot, outside the try.
SnapshotStageGated(r) ==
    /\ rpc[r] = "locking" /\ lock = "free"
    /\ lock' = r
    /\ staging' = TerminalRows
    /\ flag' = TRUE
    /\ rpc' = [rpc EXCEPT ![r] = "dumping"]
    /\ UNCHANGED <<dbVars, pc, workVars, scheduled, eventVars, handlers, now, boundVars,
                   newest, backup, target, restores, requests, wiped>>

\* The pre-restore snapshot: the same create_backup as the worker's.
SnapshotStage(r) ==
    /\ rpc[r] = "locking" /\ lock = "free"
    /\ lock' = r
    /\ staging' = TerminalRows
    /\ rpc' = [rpc EXCEPT ![r] = "dumping"]
    /\ UNCHANGED <<vars, newest, backup, target, restores, requests, wiped>>

\* No await lies between the end of create_backup and set_maintenance(True).
SnapshotTaken(r) ==
    /\ rpc[r] = "dumping"
    /\ newest' = Snapshot
    /\ staging' = NoStaging
    /\ lock' = "free"
    /\ flag' = TRUE
    /\ rpc' = [rpc EXCEPT ![r] = "window"]
    /\ UNCHANGED <<dbVars, pc, workVars, scheduled, eventVars, handlers, now, boundVars,
                   backup, target, restores, requests, wiped>>

\* The snapshot fails: the restore is off before it touched the flag.
SnapshotFails(r) ==
    /\ rpc[r] = "dumping"
    /\ staging' = NoStaging
    /\ lock' = "free"
    /\ rpc' = [rpc EXCEPT ![r] = "idle"]
    /\ UNCHANGED <<vars, newest, backup, target, restores, requests, wiped>>

\* Every table is dropped and recreated as the dump has it.
Replace(d) ==
    /\ rows' = NoRows
    /\ seq' = d.seq
    /\ staging' = d.rows
    /\ wiped' = (wiped \/ job # NoJob)

PgRestore(r) ==
    /\ rpc[r] = "window"
    /\ Replace(target[r])
    /\ rpc' = [rpc EXCEPT ![r] = "restored"]
    /\ UNCHANGED <<pc, workVars, gateVars, eventVars, handlers, now, boundVars,
                   newest, lock, backup, target, restores, requests>>

\* pg_restore fails before it drops anything, or exits non-zero over a database it
\* has replaced nevertheless (it goes on after an error).
PgRestoreFails(r) ==
    /\ rpc[r] = "window"
    /\ \/ Replace(target[r])
       \/ UNCHANGED <<rows, seq, staging, wiped>>
    /\ rpc' = [rpc EXCEPT ![r] = "broken"]
    /\ UNCHANGED <<pc, workVars, gateVars, eventVars, handlers, now, boundVars,
                   newest, lock, backup, target, restores, requests>>

\* _set_meta_field links the snapshot to the restored dump: it waits for the write
\* lock, unless the snapshot is already gone from the disk.
StampLink(r, found) ==
    /\ rpc[r] = "restored"
    /\ found => lock = "free"
    /\ rpc' = [rpc EXCEPT ![r] = "stamped"]
    /\ UNCHANGED <<vars, newest, staging, lock, backup, target, restores, requests, wiped>>

\* INSERT ... ON CONFLICT (id) DO NOTHING: a row already there wins.
Merged == [i \in JobIds |-> IF rows[i] = NoRow THEN staging[i] ELSE rows[i]]
\* Mutant of HighestId: only the staged ids count, not those inserted meanwhile.
HighestStagedId(table) == Max({1} \cup {i \in JobIds : staging # NoStaging /\ staging[i] # NoRow})
HighestId(table) == Max({1} \cup {i \in JobIds : table[i] # NoRow})

\* Mutant of RestoreRow: a status no JobStatus has.
RestoreRowCompleted(outcome, id) ==
    [kind |-> "restore", status |-> "completed", due |-> 0, created |-> id]

\* The audit row of the restore, terminal from birth.
RestoreRow(outcome, id) ==
    [kind |-> "restore", status |-> outcome, due |-> 0, created |-> id]

\* Merge the staged rows (only after a success, only if the staging table is there),
\* drop the table, advance the sequence, and append the restore's own row.
MergeAudit(r) ==
    LET merging == rpc[r] = "stamped" /\ staging # NoStaging
        table == IF merging THEN Merged ELSE rows
        id == (IF merging THEN HighestId(table) ELSE seq) + 1
        outcome == IF rpc[r] = "stamped" THEN "succeeded" ELSE "failed"
    IN  /\ rpc[r] \in {"stamped", "broken"}
        /\ id <= MaxJobs
        /\ rows' = [table EXCEPT ![id] = RestoreRow(outcome, id)]
        /\ seq' = id
        /\ staging' = IF merging THEN NoStaging ELSE staging
        /\ rpc' = [rpc EXCEPT ![r] = "merged"]
        /\ UNCHANGED <<pc, workVars, gateVars, eventVars, handlers, now, boundVars,
                       newest, lock, backup, target, restores, requests, wiped>>

\* Mutant of MergeSkipped: the exception leaves the finally before the flag is lowered.
MergeRaises(r) ==
    /\ rpc[r] \in {"stamped", "broken"}
    /\ rpc' = [rpc EXCEPT ![r] = "idle"]
    /\ UNCHANGED <<vars, newest, staging, lock, backup, target, restores, requests, wiped>>

\* The audit transaction raises or takes more than 30s: logged and skipped.
MergeSkipped(r) ==
    /\ rpc[r] \in {"stamped", "broken"}
    /\ rpc' = [rpc EXCEPT ![r] = "merged"]
    /\ UNCHANGED <<vars, newest, staging, lock, backup, target, restores, requests, wiped>>

\* The end of the finally: lift the gate, without a notify().
LiftGate(r) ==
    /\ rpc[r] = "merged"
    /\ flag' = FALSE
    /\ rpc' = [rpc EXCEPT ![r] = "idle"]
    /\ UNCHANGED <<dbVars, pc, workVars, scheduled, eventVars, handlers, now, boundVars,
                   newest, staging, lock, backup, target, restores, requests, wiped>>

-----------------------------------------------------------------------------
(* The composition *)

RInit ==
    /\ Init
    /\ newest = InstallDump /\ staging = NoStaging
    /\ lock = "free" /\ backup = "none"
    /\ rpc = [r \in Restores |-> "idle"]
    /\ target = [r \in Restores |-> InstallDump]
    /\ restores = 0 /\ requests = 0 /\ wiped = FALSE

RestoreStep(r) ==
    \/ SnapshotStage(r) \/ SnapshotTaken(r) \/ SnapshotFails(r)
    \/ PgRestore(r) \/ PgRestoreFails(r)
    \/ \E found \in BOOLEAN : StampLink(r, found)
    \/ MergeAudit(r) \/ MergeSkipped(r) \/ LiftGate(r)

\* A worker step; `wiped` and `backup` are about the job held, and end with it.  While
\* create_backup runs nothing leaves the dispatcher, and it returns only with a dump.
ComposedWorkerStep ==
    /\ WorkerStep
    /\ backup # "staged"
    /\ pc = "working" /\ job.kind = "backup" => Fail \/ backup = "dumped"
    /\ wiped' = (wiped /\ job' # NoJob)
    /\ backup' = IF job' = NoJob THEN "none" ELSE backup
    /\ UNCHANGED <<newest, staging, lock, rpc, target, restores, requests>>

\* Two steps of dispatch_one that need a second owner of the flag and of the table.
\* It returns False on the flag; no await lies between the test and _wakeup.clear().
GateClosed ==
    /\ pc = "loop" /\ ~stop /\ flag
    /\ wakeup' = FALSE
    /\ pc' = "waiting"
    /\ UNCHANGED <<dbVars, workVars, gateVars, stop, handlers, now, boundVars, restoreVars>>

\* "Job vanished after claim": it returns True through its finally.
Vanished ==
    /\ pc = "opening"
    /\ rows[job.id] = NoRow
    /\ pc' = "closing"
    /\ UNCHANGED <<dbVars, workVars, gateVars, eventVars, handlers, now, boundVars, restoreVars>>

ComposedStop == /\ Stop /\ \A r \in Restores : rpc[r] = "idle"
                /\ UNCHANGED restoreVars

ComposedCancel == CancelTask /\ backup # "staged" /\ UNCHANGED restoreVars

ComposedRestart == Restart /\ UNCHANGED restoreVars

\* The process ends; a restore under way stops where it is.
ComposedDown ==
    /\ Shutdown \/ Crash
    /\ lock' = "free" /\ backup' = "none" /\ wiped' = FALSE
    /\ rpc' = [r \in Restores |-> "idle"]
    /\ UNCHANGED <<newest, staging, target, restores, requests>>

RNext ==
    \/ /\ RequestStep
       /\ requests < MaxRequests /\ requests' = requests + 1
       /\ UNCHANGED <<newest, staging, lock, backup, rpc, target, restores, wiped>>
    \/ ((\E h \in Handlers : HandlerStep(h)) \/ Tick) /\ UNCHANGED restoreVars
    \/ ComposedWorkerStep \/ GateClosed \/ Vanished
    \/ ComposedStop \/ ComposedCancel \/ ComposedRestart \/ ComposedDown
    \/ BackupStage
    \/ \E ok \in BOOLEAN : BackupUnstage(ok)
    \/ \E r \in Restores, d \in {InstallDump, newest} : RestoreRequest(r, d)
    \/ \E r \in Restores : RestoreStep(r)

RSpec == RInit /\ [][RNext]_allVars

\* As in JobWorker; pg_restore and the audit transaction of a restore have timeouts,
\* its snapshot's pg_dump is assumed to end.
RFairness ==
    /\ WF_allVars(\/ ComposedWorkerStep \/ GateClosed \/ Vanished
                   \/ BackupStage \/ \E ok \in BOOLEAN : BackupUnstage(ok))
    /\ \A r \in Restores : WF_allVars(RestoreStep(r))
    /\ \A h \in Handlers : WF_allVars(HandlerStep(h) /\ UNCHANGED restoreVars)
    /\ WF_allVars(ComposedCancel) /\ WF_allVars(ComposedRestart)
    /\ WF_allVars(ComposedDown /\ pc = "exited")
    /\ WF_allVars(Tick /\ UNCHANGED restoreVars)

RFairSpec == RSpec /\ RFairness

-----------------------------------------------------------------------------
(* Properties *)

\* The restore's variables keep their types (backup_service's module state).
RTypeOK ==
    /\ TypeOK
    /\ newest \in Dump
    /\ staging \in [JobIds -> Row \cup {NoRow}] \cup {NoStaging}
    /\ lock \in {"free", "worker"} \cup Restores
    /\ backup \in {"none", "staged", "dumped", "failed"}
    /\ rpc \in [Restores -> {"idle", "locking", "dumping", "window", "restored",
                             "stamped", "broken", "merged"}]
    /\ target \in [Restores -> Dump]
    /\ restores \in 0 .. MaxRestores /\ requests \in 0 .. MaxRequests
    /\ wiped \in BOOLEAN

\* However windows overlap, the flag is never left up with nobody inside a window:
\* the last owner to leave lowers it (core/maintenance.py).
GateHasOwner == flag => InBracket \/ \E r \in Restores : InWindow(r)

\* After any restore, merge and insert, jobs_id_seq is at or past every row, so the
\* next INSERT cannot collide with a row merged in (the setval of the merge).
SequenceCoversRows == \A i \in JobIds : rows[i] # NoRow => i <= seq

\* An id the worker holds always names the row it claimed: no row is driven by a
\* worker that did not claim it.
WorkerDrivesItsOwnRow == wiped => rows[job.id] = NoRow

\* core/maintenance.py, "Single-owner assumption": only one code path drives a
\* maintenance window at a time.
OneWindowOwner ==
    /\ \A r \in Restores : InWindow(r) => ~InBracket
    /\ \A r, q \in Restores : InWindow(r) /\ InWindow(q) => r = q

\* A restore whose audit merge ran brings back every terminal row of its dump.
AuditRowsReturn ==
    [][\A r \in Restores : rpc[r] = "stamped" /\ MergeAudit(r) =>
         \A i \in JobIds : target[r].rows[i] # NoRow => rows'[i] # NoRow]_allVars

\* The gate reopens after every window.
RGateReopens == flag ~> ~flag

\* No job is left lying: one queued during a window is started although lifting the gate
\* sends no notify(), and one that is running is ended by its dispatcher or by the reaper
\* of the next start, or replaced by a restore; only a database failure can cost the
\* worker its record.
RJobsFinish == \A i \in JobIds :
    /\ rows[i].status = "queued" ~> rows[i].status # "queued"
    /\ rows[i].status = "running" ~> (rows[i].status # "running" \/ faults > 0)
=============================================================================
