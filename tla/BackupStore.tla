----------------------------- MODULE BackupStore -----------------------------
(***************************************************************************)
(* The backup directory (services/backup_service.py, backup_dispatcher.py):  *)
(* dumps, their side-car files and the pointer to the current dump, between   *)
(* the backup job, restores, uploads, renames, listings and deletes.          *)
(*                                                                         *)
(* One event loop: a step runs from one await that really suspends to the     *)
(* next.  A listing suspends only for a dump without a side-car, which it     *)
(* rebuilds; retention, a delete and the end of a dump otherwise run in one   *)
(* piece.  Dumps are numbered by their creation.                              *)
(***************************************************************************)
EXTENDS Integers, FiniteSets, Functions, FiniteSetsExt

CONSTANTS
    Restores, Uploads, Namers, Viewers,     \* the requests that may overlap
    SundayOf,       \* dump -> the number of the Sunday it was taken on, or 0
    RecentKept, SundaysKept, PreRestoresKept, UploadsKept,  \* retention, 14 8 3 5
    MaxOps,         \* bound: backups, restores, uploads, renames and edits
    MaxFaults       \* bound: crashes, failed dumps and restores, damaged files

Job == "job"
Free == "free"
Procs == {Job} \cup Restores \cup Uploads \cup Namers \cup Viewers

ASSUME StoreAssumption ==
    /\ {RecentKept, SundaysKept, PreRestoresKept, UploadsKept} \subseteq Nat \ {0}
    /\ {MaxOps, MaxFaults} \subseteq Nat
    /\ SundayOf \in [1 .. MaxOps -> Nat]
    /\ Free \notin Procs /\ Job \notin Restores \cup Uploads \cup Namers \cup Viewers
    /\ Restores \cap Uploads = {}

VARIABLES
    disk,       \* the dump files: [source, content, intact]
    side,       \* their side-cars: [source, hash, ok, named, restored]
    current,    \* .current_db.json, 0 when there is none
    taken,      \* the names given out
    live,       \* the database: its data, and its log of finished jobs
    fresh,      \* the last version of either
    lock,       \* _BACKUP_WRITE_LOCK
    gate,       \* the maintenance flag: a restore has its snapshot
    mem,        \* what each request holds between two awaits
    ops, faults \* bounds

files == <<disk, side, current, taken>>
database == <<live, fresh>>
vars == <<disk, side, current, taken, live, fresh, lock, gate, mem, ops, faults>>

Unhashed == [data |-> 0, log |-> 0]
Foreign == [data |-> 0, log |-> 1]
Resting == [pc |-> "idle", file |-> 0, snap |-> 0, content |-> Unhashed,
            ok |-> TRUE, todo |-> {}, list |-> <<>>]

Drop(f, gone) == Restrict(f, DOMAIN f \ gone)
Over(new, old) ==
    [f \in DOMAIN new \cup DOMAIN old |-> IF f \in DOMAIN new THEN new[f] ELSE old[f]]
Put(f, row, rows) == Over([g \in {f} |-> row], rows)
Op == ops < MaxOps /\ ops' = ops + 1
Fault == faults < MaxFaults /\ faults' = faults + 1
NoBound == UNCHANGED <<ops, faults>>

\* A finished job adds a row to the log, which a dump carries.
Logged ==
    /\ fresh' = fresh + 1
    /\ live' = [live EXCEPT !.log = fresh + 1]

\* Mutant of Abort: the lock is not given back.
AbortHolding(p) ==
    /\ mem' = [mem EXCEPT ![p] = Resting]
    /\ lock' = lock
    /\ IF p = Job THEN Logged ELSE UNCHANGED database

\* An exception ends the request; the job is recorded as failed.
Abort(p) ==
    /\ mem' = [mem EXCEPT ![p] = Resting]
    /\ lock' = IF lock = p THEN Free ELSE lock
    /\ IF p = Job THEN Logged ELSE UNCHANGED database

-----------------------------------------------------------------------------
(* Listing the directory *)

Orphans == DOMAIN disk \ DOMAIN side

\* _rebuild_meta: neither the hash nor the name can be recovered.
Rebuilt(f) == [source |-> disk[f].source, hash |-> Unhashed, ok |-> disk[f].intact,
               named |-> FALSE, restored |-> 0]

AtListing(p) == mem[p].pc \in {"dumped", "reverifying", "evicting", "viewing"}

\* What p works with: the directory as it is, or as it was when its listing began.
Seen(p) == IF mem[p].list = <<>> THEN [side |-> side, current |-> current]
           ELSE mem[p].list[1]
Listed(p) == IF mem[p].list = <<>> THEN Orphans = {} ELSE mem[p].list[1].orphans = {}

BeginListing(p) ==
    /\ AtListing(p) /\ mem[p].list = <<>> /\ Orphans # {}
    /\ mem' = [mem EXCEPT ![p].list =
                 <<[side |-> side, current |-> current, orphans |-> Orphans]>>]
    /\ UNCHANGED <<files, database, lock, gate>> /\ NoBound

\* The side-cars are written, whatever was written meanwhile.
EndListing(p) ==
    /\ AtListing(p) /\ ~Listed(p) /\ mem[p].list # <<>>
    /\ LET found == mem[p].list[1]
           rebuilt == [f \in found.orphans |-> Rebuilt(f)]
       IN  IF found.orphans \subseteq DOMAIN disk
           THEN /\ side' = Over(rebuilt, side)
                /\ mem' = [mem EXCEPT ![p].list =
                             <<[found EXCEPT !.orphans = {}, !.side = Over(rebuilt, @)]>>]
                /\ UNCHANGED <<disk, current, taken, database, lock>>
           ELSE Abort(p) /\ UNCHANGED files
    /\ UNCHANGED gate /\ NoBound

\* GET /backups.
View(p) ==
    /\ mem[p].pc = "idle" /\ ~gate /\ Orphans # {}
    /\ mem' = [mem EXCEPT ![p].pc = "viewing"]
    /\ UNCHANGED <<files, database, lock, gate>> /\ NoBound

EndView(p) ==
    /\ mem[p].pc = "viewing" /\ Listed(p)
    /\ mem' = [mem EXCEPT ![p] = Resting]
    /\ UNCHANGED <<files, database, lock, gate>> /\ NoBound

-----------------------------------------------------------------------------
(* Making a dump: the backup job, the snapshot of a restore, an upload *)

Backup ==
    /\ mem[Job].pc = "idle" /\ Op
    /\ mem' = [mem EXCEPT ![Job].pc = "queued"]
    /\ UNCHANGED <<files, database, lock, gate, faults>>

RestoreRequest(p, f) ==
    /\ mem[p].pc = "idle" /\ ~gate /\ f \in DOMAIN disk /\ Op
    /\ mem' = [mem EXCEPT ![p].pc = "queued", ![p].file = f]
    /\ UNCHANGED <<files, database, lock, gate, faults>>

UploadRequest(p) ==
    /\ mem[p].pc = "idle" /\ ~gate /\ Op
    /\ mem' = [mem EXCEPT ![p].pc = "queued"]
    /\ UNCHANGED <<files, database, lock, gate, faults>>

\* What an administrator may upload: a copy of a dump, kept elsewhere, or another.
Uploadable == {disk[f].content : f \in DOMAIN disk} \cup {Foreign}

\* The lock, and then pg_dump or the upload into the .partial file.
Dump(p) ==
    /\ mem[p].pc = "queued" /\ lock = Free
    /\ lock' = p
    /\ \E content \in IF p \in Uploads THEN Uploadable ELSE {live} :
         mem' = [mem EXCEPT ![p].pc = "dumped", ![p].content = content]
    /\ UNCHANGED <<files, database, gate>> /\ NoBound

\* No space, pg_dump fails, the upload is too large, or cannot be hashed; or a progress
\* update of the job.
DumpFails(p) ==
    /\ mem[p].pc \in {"dumped", "reverifying", "evicting"} /\ Fault
    /\ Abort(p)
    /\ UNCHANGED <<files, gate, ops>>

Source(p) == CASE p = Job -> "archive" [] p \in Restores -> "pre_restore"
               [] p \in Uploads -> "upload"

Dumped(p) == [source |-> Source(p), content |-> mem[p].content, intact |-> TRUE]

\* Mutant of Duplicates: a duplicate is sought among the dumps of the same kind.
DuplicatesOfKind(p) ==
    {f \in DOMAIN Seen(p).side : /\ Seen(p).side[f].hash = mem[p].content
                                 /\ Seen(p).side[f].source = Source(p)}

\* _find_duplicate.
Duplicates(p) == {f \in DOMAIN Seen(p).side : Seen(p).side[f].hash = mem[p].content}

\* The dump that now stands for what was dumped: its duplicate, or a new file.
Keep(p) == IF Duplicates(p) = {} THEN taken + 1 ELSE Max(Duplicates(p))

\* _finalize_partial_dump, the pointer (which uploads never move), the lock; a restore
\* goes on to close the gate.
Finalize(p) ==
    /\ mem[p].pc = "dumped" /\ Listed(p)
    /\ IF Duplicates(p) = {}
       THEN /\ taken' = taken + 1
            /\ disk' = Put(taken + 1, Dumped(p), disk)
            /\ side' = Put(taken + 1, [source |-> Source(p), hash |-> mem[p].content, ok |-> TRUE,
                                       named |-> FALSE, restored |-> 0], side)
       ELSE UNCHANGED <<taken, disk, side>>
    /\ current' = IF p \in Uploads THEN current ELSE Keep(p)
    /\ lock' = Free
    /\ gate' = (gate \/ p \in Restores)
    /\ mem' = [mem EXCEPT ![p] =
                 CASE p = Job -> [Resting EXCEPT !.pc = "reverifying"]
                   [] p \in Restores -> [Resting EXCEPT !.pc = "ready", !.file = mem[p].file,
                                                        !.snap = Keep(p)]
                   [] p \in Uploads -> Resting]
    /\ UNCHANGED database /\ NoBound

-----------------------------------------------------------------------------
(* The rest of the job: verification, then retention *)

\* reverify_backups works on what its listing says of each dump.
Reverify ==
    /\ mem[Job].pc = "reverifying" /\ Listed(Job)
    /\ LET s == Seen(Job).side
       IN  mem' = [mem EXCEPT ![Job] =
                     [Resting EXCEPT !.pc = "checking", !.todo = {<<f, s[f].ok>> : f \in DOMAIN s}]]
    /\ UNCHANGED <<files, database, lock, gate>> /\ NoBound

\* pg_restore --list of the newest dump left; a dump deleted meanwhile is skipped, a
\* changed verdict goes into the side-car under the lock.
Check ==
    LET f == Max({t[1] : t \in mem[Job].todo})
        rest == {t \in mem[Job].todo : t[1] # f}
        changed == f \in DOMAIN disk /\ <<f, disk[f].intact>> \notin mem[Job].todo
    IN  /\ mem[Job].pc = "checking" /\ mem[Job].todo # {}
        /\ IF changed /\ lock # Free
           THEN /\ mem' = [mem EXCEPT ![Job].pc = "flagging", ![Job].file = f,
                                      ![Job].ok = disk[f].intact, ![Job].todo = rest]
                /\ UNCHANGED side
           ELSE /\ mem' = [mem EXCEPT ![Job].todo = rest]
                /\ side' = IF changed THEN [side EXCEPT ![f].ok = disk[f].intact] ELSE side
        /\ UNCHANGED <<disk, current, taken, database, lock, gate>> /\ NoBound

\* The lock is free at last.
Flag ==
    /\ mem[Job].pc = "flagging" /\ lock = Free
    /\ IF mem[Job].file \in DOMAIN disk
       THEN /\ side' = [side EXCEPT ![mem[Job].file].ok = mem[Job].ok]
            /\ mem' = [mem EXCEPT ![Job].pc = "checking"]
            /\ UNCHANGED <<disk, current, taken, database, lock>>
       ELSE Abort(Job) /\ UNCHANGED files
    /\ UNCHANGED gate /\ NoBound

Checked ==
    /\ mem[Job].pc = "checking" /\ mem[Job].todo = {}
    /\ mem' = [mem EXCEPT ![Job].pc = "evicting"]
    /\ UNCHANGED <<files, database, lock, gate>> /\ NoBound

Newest(dumps, n) == {f \in dumps : Cardinality({g \in dumps : g > f}) < n}

\* _latest_per_sunday.
LatestPerSunday(dumps) ==
    {f \in dumps : /\ SundayOf[f] # 0
                   /\ \A g \in dumps : SundayOf[g] = SundayOf[f] => g <= f}

\* Mutant of Anchor: the newest dump, known good or not.
AnchorUnchecked(s, dumps) == Newest(dumps, 1)

\* The most recent known-good dump.
Anchor(s, dumps) == Newest({f \in dumps : s[f].ok}, 1)

\* Mutant of Linked: no snapshot is tied to the current state.
LinkedNever(s, dumps) == {}

\* The snapshots tied to the current state, by the pointer as it is now.
Linked(s, dumps) == {f \in dumps : current # 0 /\ s[f].restored = current}

\* Mutant of Victims: a name only takes the dump out of the count.
VictimsNamed(s, at) ==
    LET Of(source) == {f \in DOMAIN s : s[f].source = source}
        Auto(source) == {f \in Of(source) : ~s[f].named}
    IN  DOMAIN s \ UNION {
            {at},
            Newest(Auto("archive"), RecentKept),
            Newest(LatestPerSunday(Auto("archive")), SundaysKept),
            Anchor(s, Of("archive")),
            Newest(Auto("pre_restore"), PreRestoresKept),
            Linked(s, Of("pre_restore")),
            Newest(Auto("upload"), UploadsKept)}

\* What retention deletes, of the side-cars s and the pointer `at` it has listed.
Victims(s, at) ==
    LET Of(source) == {f \in DOMAIN s : s[f].source = source}
        Auto(source) == {f \in Of(source) : ~s[f].named}
    IN  DOMAIN s \ UNION {
            {at}, {f \in DOMAIN s : s[f].named},
            Newest(Auto("archive"), RecentKept),
            Newest(LatestPerSunday(Auto("archive")), SundaysKept),
            Anchor(s, Of("archive")),
            Newest(Auto("pre_restore"), PreRestoresKept),
            Linked(s, Of("pre_restore")),
            Newest(Auto("upload"), UploadsKept)}

\* The pools one after the other, each newest first.
Earlier(s, f, g) ==
    LET rank == [archive |-> 1, pre_restore |-> 2, upload |-> 3]
    IN  \/ rank[s[f].source] < rank[s[g].source]
        \/ s[f].source = s[g].source /\ f > g

\* apply_retention, which a dump deleted since the listing interrupts, and the end of
\* the job.
Evict ==
    LET s == Seen(Job).side
        victims == Victims(s, Seen(Job).current)
        deleted == {f \in victims : \A g \in victims \ DOMAIN disk : Earlier(s, f, g)}
    IN  /\ mem[Job].pc = "evicting" /\ Listed(Job)
        /\ disk' = Drop(disk, deleted) /\ side' = Drop(side, deleted)
        /\ current' = IF current \in deleted THEN 0 ELSE current
        /\ mem' = [mem EXCEPT ![Job] = Resting]
        /\ Logged
        /\ UNCHANGED <<taken, lock, gate>> /\ NoBound

-----------------------------------------------------------------------------
(* The rest of a restore *)

\* pg_restore reads the target and drops what it will recreate.
PgRestore(p) ==
    /\ mem[p].pc = "ready" /\ mem[p].file \in DOMAIN disk /\ disk[mem[p].file].intact
    /\ fresh' = fresh + 1 /\ live' = [data |-> fresh + 1, log |-> fresh + 1]
    /\ mem' = [mem EXCEPT ![p].pc = "restoring", ![p].content = disk[mem[p].file].content]
    /\ UNCHANGED <<files, lock, gate>> /\ NoBound

\* The target is gone or damaged, or pg_restore fails half-way: only the audit row.
PgRestoreFails(p) ==
    /\ \/ /\ mem[p].pc = "ready"
          /\ mem[p].file \in DOMAIN disk => ~disk[mem[p].file].intact
          /\ NoBound
       \/ mem[p].pc = "restoring" /\ Fault /\ UNCHANGED ops
    /\ mem' = [mem EXCEPT ![p] = Resting]
    /\ Logged /\ gate' = FALSE
    /\ UNCHANGED <<files, lock>>

\* _mark_current_db_restored.
PgRestored(p) ==
    /\ mem[p].pc = "restoring"
    /\ live' = mem[p].content
    /\ current' = mem[p].file
    /\ mem' = [mem EXCEPT ![p].pc = "linking"]
    /\ UNCHANGED <<disk, side, taken, fresh, lock, gate>> /\ NoBound

\* restored_to on the snapshot (a failure is only logged), the audit row, the gate.
Link(p) ==
    /\ mem[p].pc = "linking" /\ lock = Free
    /\ side' = [f \in DOMAIN side |->
                  IF f = mem[p].snap THEN [side[f] EXCEPT !.restored = mem[p].file] ELSE side[f]]
    /\ mem' = [mem EXCEPT ![p] = Resting]
    /\ Logged /\ gate' = FALSE
    /\ UNCHANGED <<disk, current, taken, lock>> /\ NoBound

-----------------------------------------------------------------------------
(* Names, deletes, and what happens to the directory and the database *)

NameRequest(p, f) ==
    /\ mem[p].pc = "idle" /\ ~gate /\ f \in DOMAIN disk /\ Op
    /\ mem' = [mem EXCEPT ![p].pc = "naming", ![p].file = f]
    /\ UNCHANGED <<files, database, lock, gate, faults>>

\* set_backup_name: reads, changes and writes the side-car.
Name(p) ==
    /\ mem[p].pc = "naming" /\ lock = Free /\ mem[p].file \in DOMAIN side
    /\ \E named \in BOOLEAN : side' = [side EXCEPT ![mem[p].file].named = named]
    /\ mem' = [mem EXCEPT ![p] = Resting]
    /\ UNCHANGED <<disk, current, taken, database, lock, gate>> /\ NoBound

\* There is no side-car: it is rebuilt first, under the lock.
NameOrphan(p) ==
    /\ mem[p].pc = "naming" /\ lock = Free /\ mem[p].file \in Orphans
    /\ lock' = p
    /\ mem' = [mem EXCEPT ![p].pc = "rebuilding"]
    /\ UNCHANGED <<files, database, gate>> /\ NoBound

NameRebuilt(p) ==
    /\ mem[p].pc = "rebuilding" /\ mem[p].file \in DOMAIN disk
    /\ \E named \in BOOLEAN :
         side' = Put(mem[p].file, [Rebuilt(mem[p].file) EXCEPT !.named = named], side)
    /\ lock' = Free
    /\ mem' = [mem EXCEPT ![p] = Resting]
    /\ UNCHANGED <<disk, current, taken, database, gate>> /\ NoBound

\* The dump has been deleted since the request.
NameFails(p) ==
    /\ \/ mem[p].pc = "naming" /\ lock = Free
       \/ mem[p].pc = "rebuilding"
    /\ mem[p].file \notin DOMAIN disk
    /\ Abort(p)
    /\ UNCHANGED <<files, gate>> /\ NoBound

\* delete_backup takes no lock.
Delete(f) ==
    /\ ~gate /\ f \in DOMAIN disk
    /\ disk' = Drop(disk, {f}) /\ side' = Drop(side, {f})
    /\ current' = IF current = f THEN 0 ELSE current
    /\ UNCHANGED <<taken, database, lock, gate, mem>> /\ NoBound

\* A user writes.
Edit ==
    /\ ~gate /\ Op
    /\ fresh' = fresh + 1 /\ live' = [live EXCEPT !.data = fresh + 1]
    /\ UNCHANGED <<files, lock, gate, mem, faults>>

Damage(f) ==
    /\ f \in DOMAIN disk /\ disk[f].intact /\ Fault
    /\ disk' = [disk EXCEPT ![f].intact = FALSE]
    /\ UNCHANGED <<side, current, taken, database, lock, gate, mem, ops>>

\* The process dies, perhaps between the rename of a dump and its side-car, and starts
\* again: the reaper fails the job.
Crash ==
    /\ Fault
    /\ \/ UNCHANGED <<disk, taken>>
       \/ \E p \in Procs :
            /\ mem[p].pc = "dumped" /\ Listed(p) /\ Duplicates(p) = {}
            /\ taken' = taken + 1
            /\ disk' = Put(taken + 1, Dumped(p), disk)
    /\ mem' = [p \in Procs |-> Resting] /\ lock' = Free /\ gate' = FALSE
    /\ IF mem[Job].pc = "idle" THEN UNCHANGED database ELSE Logged
    /\ UNCHANGED <<side, current, ops>>

-----------------------------------------------------------------------------
(* The specification *)

Init ==
    /\ disk = <<>> /\ side = <<>> /\ current = 0 /\ taken = 0
    /\ live = [data |-> 1, log |-> 1] /\ fresh = 1
    /\ lock = Free /\ gate = FALSE /\ mem = [p \in Procs |-> Resting]
    /\ ops = 0 /\ faults = 0

JobStep == Reverify \/ Check \/ Flag \/ Checked \/ Evict

RestoreStep(p) ==
    \/ \E f \in DOMAIN disk : RestoreRequest(p, f)
    \/ PgRestore(p) \/ PgRestoreFails(p) \/ PgRestored(p) \/ Link(p)

NamerStep(p) ==
    \/ \E f \in DOMAIN disk : NameRequest(p, f)
    \/ Name(p) \/ NameOrphan(p) \/ NameRebuilt(p) \/ NameFails(p)

DumpStep(p) == Dump(p) \/ DumpFails(p) \/ Finalize(p)

Next ==
    \/ Backup \/ JobStep
    \/ \E p \in {Job} \cup Restores \cup Uploads : DumpStep(p)
    \/ \E p \in Restores : RestoreStep(p)
    \/ \E p \in Uploads : UploadRequest(p)
    \/ \E p \in Namers : NamerStep(p)
    \/ \E p \in Viewers : View(p) \/ EndView(p)
    \/ \E p \in Procs : BeginListing(p) \/ EndListing(p)
    \/ \E f \in DOMAIN disk : Delete(f) \/ Damage(f)
    \/ Edit \/ Crash

Spec == Init /\ [][Next]_vars

-----------------------------------------------------------------------------
(* Properties *)

Contents == [data : 0 .. fresh, log : 0 .. fresh]

\* The rows keep their types, every side-car has its dump, and a waiting process holds
\* no lock.
StoreTypeOK ==
    /\ DOMAIN side \subseteq DOMAIN disk /\ DOMAIN disk \subseteq 1 .. taken
    /\ \A f \in DOMAIN disk : disk[f].content \in Contents /\ disk[f].intact \in BOOLEAN
    /\ \A f \in DOMAIN side :
         /\ side[f].source = disk[f].source
         /\ side[f].hash \in {Unhashed, disk[f].content}
         /\ side[f].restored \in 0 .. taken
    /\ current \in 0 .. taken /\ live \in Contents
    /\ \A p \in Procs : lock = p <=> mem[p].pc \in {"dumped", "rebuilding"}

\* No two hashed dumps hold the same content, whoever made them (_find_duplicate inside
\* the write lock).
OneDumpPerContent ==
    \A f, g \in DOMAIN side :
        side[f].hash = side[g].hash /\ side[f].hash # Unhashed => f = g

\* A named dump goes only when an administrator deletes it ("Setting a non-empty name
\* pins a dump against auto-retention").
NamedDumpsStay ==
    [][\A f \in DOMAIN side :
         side[f].named /\ f \notin DOMAIN disk' => Delete(f)]_vars

\* The pointer names a dump that is there.
PointerNamesADump == current \in {0} \cup DOMAIN disk

\* Retention never takes the last dump that can be restored: while the flags of the
\* archive are true, an intact one is left if there was one.
Intact == {f \in DOMAIN disk : disk[f].source = "archive" /\ disk[f].intact}
AnchorSurvives ==
    [][Evict /\ Intact # {} /\ (\A f \in DOMAIN side : side[f].ok = disk[f].intact)
         => \E f \in DOMAIN disk' : f \in Intact]_vars

\* For as long as the pointer stays on the target of a restore, the snapshot taken before
\* it goes only when an administrator deletes it ("the snapshot tied to the now-current
\* state"), however many newer snapshots overlapping restores have left.
Pinned(f) ==
    /\ f \in DOMAIN side /\ side[f].source = "pre_restore"
    /\ current # 0 /\ side[f].restored = current
LinkedSnapshotStays ==
    [][\A f \in DOMAIN disk : Pinned(f) /\ f \notin DOMAIN disk' => Delete(f)]_vars

\* DuplicateBackupError: "This dump is identical to an existing backup".
DuplicateIsIdentical ==
    [][\A p \in Procs : Finalize(p) /\ taken' = taken => disk[Keep(p)].intact]_vars

\* docs/features/backups.md: "content-hash dedupe so an unchanged database doesn't
\* accumulate identical archives".
UnchangedNotAccumulated ==
    \A f, g \in DOMAIN side :
        side[f].source = "archive" /\ side[g].source = "archive"
        /\ disk[f].content.data = disk[g].content.data => f = g

\* create_backup: "the resulting `metadata.filename` IS the dump that matches live".
\* Writes may have moved live on since, never back.
PointerMovesToLive ==
    [][current' \notin {current, 0} => disk'[current'].content.data <= live'.data]_vars

\* docs/features/backups.md on verification: "a concurrent admin delete is respected
\* rather than treated as corruption that fails the whole job".
DeleteFailsNoJob ==
    [][mem[Job].pc \in {"checking", "flagging"} /\ faults' = faults
         => mem'[Job].pc # "idle"]_vars

\* docs/features/backups.md: "All write paths serialize on a module-level asyncio.Lock
\* (single-worker assumption), including the sidecar read-modify-write".
NamesAreKept ==
    [][\A p \in Procs \ Namers : EndListing(p) =>
         \A f \in DOMAIN side : side[f].named /\ f \in DOMAIN side' => side'[f].named]_vars
=============================================================================
