--------------------------- MODULE BackupStoreProofs ---------------------------
(***************************************************************************)
(* What holds of the backup directory for any number of restores, uploads,   *)
(* renames and listings, any retention and any bound: dumps are not kept      *)
(* twice, and retention spares what it promises to spare.                     *)
(*                                                                         *)
(* Both rest on what a listing may have missed.  A request that makes a dump  *)
(* holds the lock from its listing to its end, so every hash written since is *)
(* its own (HashesSeen).  And the listing of the job itself leaves no dump    *)
(* without a side-car, which only a crash can bring back and no job survives: *)
(* retention works on the directory as it is (JobSeesAll).                    *)
(***************************************************************************)
EXTENDS BackupStore, Counting, FiniteSetTheorems, TLAPS

-----------------------------------------------------------------------------
(* The inductive invariant *)

MemFields == {"pc", "file", "snap", "content", "ok", "todo", "list"}
DiskFields == {"source", "content", "intact"}
SideFields == {"source", "hash", "ok", "named", "restored"}
ListFields == {"side", "current", "orphans"}

\* StoreTypeOK and the fields it leaves open.
FileShapes ==
    /\ taken \in Nat /\ fresh \in Nat \ {0} /\ current \in 0 .. taken /\ live \in Contents
    /\ DOMAIN side \subseteq DOMAIN disk /\ DOMAIN disk \subseteq 1 .. taken
    /\ \A f \in DOMAIN disk : DOMAIN disk[f] = DiskFields /\ disk[f].content \in Contents
    /\ \A f \in DOMAIN side :
         /\ DOMAIN side[f] = SideFields
         /\ side[f].source = disk[f].source
         /\ side[f].hash \in {Unhashed, disk[f].content}
         /\ side[f].restored \in 0 .. taken

Integrity == \A f \in DOMAIN disk : disk[f].intact \in BOOLEAN

\* The files a listing found.
MemShape(p) ==
    /\ DOMAIN mem[p] = MemFields
    /\ mem[p].content \in Contents /\ mem[p].file \in 0 .. taken
    /\ mem[p].list # <<>> =>
         /\ AtListing(p)
         /\ mem[p].list = <<mem[p].list[1]>> /\ DOMAIN mem[p].list[1] = ListFields
         /\ DOMAIN mem[p].list[1].side \subseteq 1 .. taken

HoldsLock(p) == lock = p <=> mem[p].pc \in {"dumped", "rebuilding"}

\* A listing has found every dump that still lacks a side-car ...
OrphansListed(p) == mem[p].list # <<>> => Orphans \subseteq mem[p].list[1].orphans

\* ... and, of a request that makes a dump, every hash there is.
HashesSeen(p) ==
    mem[p].pc = "dumped" /\ mem[p].list # <<>> =>
        \A f \in DOMAIN side : side[f].hash # Unhashed =>
            /\ f \in DOMAIN mem[p].list[1].side /\ f \notin mem[p].list[1].orphans
            /\ mem[p].list[1].side[f].hash = side[f].hash

\* Once the job has its dump no side-car is missing.
JobSeesAll ==
    mem[Job].pc \in {"reverifying", "checking", "flagging", "evicting"} =>
        Orphans = {} /\ mem[Job].list = <<>>

ProcInv(p) == MemShape(p) /\ HoldsLock(p) /\ OrphansListed(p) /\ HashesSeen(p)

StoreInv ==
    /\ FileShapes /\ OneDumpPerContent /\ JobSeesAll
    /\ DOMAIN mem = Procs /\ \A p \in Procs : ProcInv(p)

-----------------------------------------------------------------------------
(* The pointer, while nothing is restored *)

\* A content the database has left behind when its log is at `log`: the log has grown
\* since, or it never was the database's.
Behind(c, log) == c.data = 0 \/ c.log < log
Known(c, log) == c.data = 0 \/ c.log <= log

JobBefore == mem[Job].pc \in {"idle", "queued", "dumped"}

\* What the job has dumped is none of the contents it listed.
JobBehind ==
    mem[Job].pc = "dumped" =>
        /\ mem[Job].content.data # 0 /\ mem[Job].content.log = live.log
        /\ mem[Job].list # <<>> =>
             \A f \in DOMAIN mem[Job].list[1].side :
                 Behind(mem[Job].list[1].side[f].hash, live.log)

\* Until the job has its dump every content on disk, in a listing or in an upload is
\* behind, so that a dump of the database is new.
ContentsBehind ==
    /\ live.log <= fresh /\ live.data # 0
    /\ \A f \in DOMAIN disk : /\ Known(disk[f].content, live.log)
                              /\ JobBefore => Behind(disk[f].content, live.log)
    /\ \A p \in Procs \ {Job} : mem[p].pc = "dumped" =>
         /\ Known(mem[p].content, live.log)
         /\ JobBefore => Behind(mem[p].content, live.log)

PointerInv == ContentsBehind /\ JobBehind /\ PointerNamesADump

-----------------------------------------------------------------------------
(* What steps have in common *)

LEMMA RestingIs ==
    /\ DOMAIN Resting = MemFields /\ Resting.pc = "idle" /\ Resting.list = <<>>
    /\ Resting.content = Unhashed /\ Resting.file = 0
  BY DEF Resting, MemFields

LEMMA ContentsGrow ==
    ASSUME fresh \in Nat, fresh' \in Nat, fresh <= fresh'
    PROVE  Contents \subseteq Contents'
  BY DEF Contents

LEMMA KnownContents ==
    ASSUME FileShapes
    PROVE  Unhashed \in Contents /\ Foreign \in Contents
  BY DEF FileShapes, Contents, Unhashed, Foreign

LEMMA DatabaseSteps ==
    ASSUME FileShapes, Logged \/ UNCHANGED database
    PROVE  fresh' \in Nat \ {0} /\ fresh <= fresh' /\ live' \in Contents'
  <1>1. CASE Logged
    <2>1. live \in Contents /\ fresh' = fresh + 1 /\ live' = [live EXCEPT !.log = fresh + 1]
          /\ fresh \in Nat \ {0}
      BY <1>1 DEF FileShapes, Logged
    <2> QED
      BY <2>1 DEF Contents
  <1>2. CASE UNCHANGED database
    BY <1>2 DEF database, FileShapes, Contents
  <1> QED
    BY <1>1, <1>2

\* No hash appears or changes.
HashesKept ==
    \A f \in DOMAIN side' : side'[f].hash # Unhashed =>
        f \in DOMAIN side /\ side[f].hash = side'[f].hash

LockMoves(p) ==
    \/ lock' = lock
    \/ lock = Free /\ lock' = p
    \/ lock = p /\ lock' = Free

LEMMA ProcessSteps ==
    ASSUME StoreInv, NEW p \in Procs,
           DOMAIN mem' = Procs, \A q \in Procs \ {p} : mem'[q] = mem[q],
           taken <= taken', fresh <= fresh', Orphans' \subseteq Orphans, LockMoves(p),
           HashesKept \/ (lock = p /\ OneDumpPerContent'),
           FileShapes', ProcInv(p)', p = Job => JobSeesAll'
    PROVE  StoreInv'
  <1>1. Free \notin Procs
    BY StoreAssumption
  <1>2. OneDumpPerContent'
    BY DEF StoreInv, OneDumpPerContent, HashesKept
  <1>3. JobSeesAll'
    BY DEF StoreInv, JobSeesAll, Procs
  <1>4. ASSUME NEW q \in Procs, q # p PROVE ProcInv(q)'
    <2>1. ProcInv(q) /\ mem'[q] = mem[q]
      BY <1>4 DEF StoreInv
    <2>2. MemShape(q)'
      <3>1. fresh \in Nat /\ fresh' \in Nat /\ taken \in Nat /\ taken' \in Nat
        BY DEF StoreInv, FileShapes
      <3> QED
        BY <2>1, <3>1, ContentsGrow DEF ProcInv, MemShape, AtListing
    <2>3. HoldsLock(q)'
      BY <1>1, <1>4, <2>1 DEF ProcInv, HoldsLock, LockMoves
    <2>4. OrphansListed(q)'
      BY <2>1 DEF ProcInv, OrphansListed
    <2>5. HashesSeen(q)'
      <3>1. mem[q].pc = "dumped" => lock # p
        BY <1>4, <2>1 DEF ProcInv, HoldsLock
      <3> QED
        BY <2>1, <3>1 DEF ProcInv, HashesSeen, HashesKept
    <2> QED
      BY <2>2, <2>3, <2>4, <2>5 DEF ProcInv
  <1> QED
    BY <1>2, <1>3, <1>4 DEF StoreInv

\* The step of one request that leaves the directory alone.
LEMMA MemorySteps ==
    ASSUME StoreInv, NEW p \in Procs, NEW m, mem' = [mem EXCEPT ![p] = m], UNCHANGED files,
           fresh' \in Nat \ {0}, fresh <= fresh', live' \in Contents', LockMoves(p),
           DOMAIN m = MemFields, m.content \in Contents', m.file \in 0 .. taken, HoldsLock(p)',
           m.list = <<>> \/ ProcInv(p)',
           p = Job => JobSeesAll'
    PROVE  StoreInv'
  <1>1. DOMAIN mem' = Procs /\ \A q \in Procs \ {p} : mem'[q] = mem[q]
    BY DEF StoreInv
  <1>2. taken <= taken' /\ Orphans' \subseteq Orphans
    BY DEF StoreInv, FileShapes, files, Orphans
  <1>3. HashesKept \/ (lock = p /\ OneDumpPerContent')
    BY DEF HashesKept, files
  <1>4. FileShapes'
    <2>1. Contents \subseteq Contents'
      BY ContentsGrow DEF StoreInv, FileShapes
    <2> QED
      BY <2>1 DEF StoreInv, FileShapes, files
  <1>5. ProcInv(p)'
    <2>1. mem'[p] = m /\ taken' = taken
      BY DEF StoreInv, files
    <2> QED
      BY <2>1 DEF ProcInv, MemShape, OrphansListed, HashesSeen
  <1> QED
    BY <1>1, <1>2, <1>3, <1>4, <1>5, ProcessSteps, Zenon

LEMMA AbortStep ==
    ASSUME StoreInv, NEW p \in Procs, Abort(p), UNCHANGED files
    PROVE  StoreInv'
  <1>1. fresh' \in Nat \ {0} /\ fresh <= fresh' /\ live' \in Contents'
    BY DatabaseSteps DEF StoreInv, Abort
  <1>2. mem' = [mem EXCEPT ![p] = Resting] /\ mem'[p] = Resting
    BY DEF Abort, StoreInv
  <1>3. LockMoves(p) /\ lock' # p
    BY StoreAssumption DEF Abort, LockMoves
  <1>4. Unhashed \in Contents' /\ 0 \in 0 .. taken
    BY <1>1, KnownContents, ContentsGrow DEF StoreInv, FileShapes
  <1>5. HoldsLock(p)' /\ (p = Job => JobSeesAll')
    BY <1>2, <1>3, RestingIs DEF HoldsLock, JobSeesAll
  <1> QED
    BY <1>1, <1>2, <1>3, <1>4, <1>5, RestingIs, MemorySteps

\* A request begins, waits, or moves on without its listing.
LEMMA QuietSteps ==
    ASSUME StoreInv, NEW p \in Procs, mem' = [mem EXCEPT ![p] = mem'[p]], DOMAIN mem'[p] = MemFields,
           UNCHANGED <<files, database, lock>>, mem'[p].list = <<>>,
           mem'[p].content \in {mem[p].content, Unhashed}, mem'[p].file \in 0 .. taken,
           mem[p].pc \notin {"dumped", "rebuilding"}, mem'[p].pc \notin {"dumped", "rebuilding"},
           p = Job => JobSeesAll'
    PROVE  StoreInv'
  <1>1. fresh' \in Nat \ {0} /\ fresh <= fresh' /\ live' \in Contents' /\ Contents' = Contents
    BY DEF StoreInv, FileShapes, database, Contents
  <1>2. mem'[p].content \in Contents'
    BY <1>1, KnownContents DEF StoreInv, ProcInv, MemShape
  <1>3. HoldsLock(p)' /\ LockMoves(p)
    BY DEF StoreInv, ProcInv, HoldsLock, LockMoves
  <1> QED
    BY <1>1, <1>2, <1>3, MemorySteps
-----------------------------------------------------------------------------
(* Steps that leave the directory alone *)

\* The shape of a request's memory, its listing and lock, as StoreInv has them.
LEMMA MemoryOf ==
    ASSUME StoreInv, NEW p \in Procs
    PROVE  /\ DOMAIN mem = Procs /\ DOMAIN mem[p] = MemFields
           /\ mem[p].content \in Contents /\ mem[p].file \in 0 .. taken
           /\ ~AtListing(p) => mem[p].list = <<>>
           /\ lock = p <=> mem[p].pc \in {"dumped", "rebuilding"}
           /\ DOMAIN disk \subseteq 0 .. taken /\ taken \in Nat /\ p # Free
  BY StoreAssumption DEF StoreInv, ProcInv, MemShape, HoldsLock, FileShapes

LEMMA CallSteps ==
    ASSUME StoreInv, NEW p \in Procs,
           \/ p = Job /\ Backup
           \/ \E f \in DOMAIN disk : RestoreRequest(p, f) \/ NameRequest(p, f)
           \/ UploadRequest(p) \/ View(p) \/ EndView(p)
    PROVE  StoreInv'
  <1>1. /\ mem' = [mem EXCEPT ![p] = mem'[p]] /\ DOMAIN mem'[p] = MemFields
        /\ UNCHANGED <<files, database, lock>> /\ mem[p].pc \in {"idle", "viewing"}
        /\ mem'[p].list = <<>> /\ mem'[p].content \in {mem[p].content, Unhashed}
        /\ mem'[p].pc \in {"idle", "queued", "naming", "viewing"}
    BY MemoryOf, RestingIs DEF MemFields, AtListing, Backup, RestoreRequest, NameRequest,
       UploadRequest, View, EndView
  <1>2. mem'[p].file \in 0 .. taken
    BY MemoryOf, RestingIs DEF MemFields, Backup, RestoreRequest, NameRequest, UploadRequest, View,
       EndView
  <1>3. p = Job => JobSeesAll'
    BY <1>1 DEF JobSeesAll
  <1> QED
    BY <1>1, <1>2, <1>3, QuietSteps

LEMMA JobMoves ==
    ASSUME StoreInv, Reverify \/ Checked
    PROVE  StoreInv'
  <1>1. Job \in Procs
    BY DEF Procs
  <1>2. /\ mem' = [mem EXCEPT ![Job] = mem'[Job]] /\ DOMAIN mem'[Job] = MemFields
        /\ UNCHANGED <<files, database, lock>> /\ mem[Job].pc \in {"reverifying", "checking"}
        /\ mem'[Job].list = <<>> /\ mem'[Job].content \in {mem[Job].content, Unhashed}
        /\ mem'[Job].file \in 0 .. taken /\ mem'[Job].pc \in {"checking", "evicting"}
    <2>1. CASE Reverify
      <3> DEFINE s == Seen(Job).side
                 todo == {<<f, s[f].ok>> : f \in DOMAIN s}
      <3>1. /\ mem' = [mem EXCEPT ![Job] = [Resting EXCEPT !.pc = "checking", !.todo = todo]]
            /\ UNCHANGED <<files, database, lock>> /\ mem[Job].pc = "reverifying"
        BY <2>1 DEF Reverify
      <3> HIDE DEF todo
      <3> QED
        BY <1>1, <3>1, MemoryOf, RestingIs DEF MemFields, StoreInv
    <2>2. CASE Checked
      BY <1>1, <2>2, MemoryOf DEF MemFields, AtListing, Checked
    <2> QED
      BY <2>1, <2>2
  <1>3. JobSeesAll'
    <2>1. Orphans' = Orphans
      BY <1>2 DEF files, Orphans
    <2> QED
      BY <1>2, <2>1 DEF StoreInv, JobSeesAll
  <1> QED
    BY <1>1, <1>2, <1>3, QuietSteps

LEMMA BeginListingStep ==
    ASSUME StoreInv, NEW p \in Procs, BeginListing(p)
    PROVE  StoreInv'
  <1> DEFINE found == [side |-> side, current |-> current, orphans |-> Orphans]
  <1>1. /\ mem' = [mem EXCEPT ![p] = mem'[p]] /\ DOMAIN mem'[p] = MemFields
        /\ mem'[p].content = mem[p].content /\ mem'[p].file = mem[p].file
        /\ mem'[p].pc = mem[p].pc /\ mem'[p].list = <<found>>
        /\ UNCHANGED <<files, database, lock>> /\ Orphans # {} /\ AtListing(p)
    BY MemoryOf DEF MemFields, BeginListing
  <1>2. fresh' \in Nat \ {0} /\ fresh <= fresh' /\ live' \in Contents' /\ Contents' = Contents
    BY <1>1 DEF StoreInv, FileShapes, database, Contents
  <1>3. mem'[p].list[1] = found /\ mem'[p].list # <<>> /\ Orphans' = Orphans
    BY <1>1 DEF files, Orphans
  <1>4. HoldsLock(p)' /\ LockMoves(p)
    BY <1>1 DEF StoreInv, ProcInv, HoldsLock, LockMoves
  <1>5. MemShape(p)'
    BY <1>1, <1>2, <1>3, MemoryOf DEF StoreInv, FileShapes, MemShape, ListFields, files, AtListing
  <1>6. OrphansListed(p)' /\ HashesSeen(p)'
    BY <1>1, <1>3 DEF OrphansListed, HashesSeen, Orphans, files
  <1>7. p = Job => JobSeesAll'
    <2>1. mem[Job].pc \notin {"reverifying", "checking", "flagging", "evicting"}
      BY <1>1 DEF StoreInv, JobSeesAll
    <2> QED
      BY <1>1, <2>1 DEF JobSeesAll
  <1>8. ProcInv(p)'
    BY <1>4, <1>5, <1>6 DEF ProcInv
  <1>9. mem'[p].content \in Contents' /\ mem'[p].file \in 0 .. taken
    BY <1>1, <1>2, MemoryOf
  <1> HIDE DEF found
  <1> QED
    BY <1>1, <1>2, <1>4, <1>7, <1>8, <1>9, MemorySteps

LEMMA DumpStep1 ==
    ASSUME StoreInv, NEW p \in {Job} \cup Restores \cup Uploads, Dump(p)
    PROVE  StoreInv'
  <1>1. p \in Procs
    BY DEF Procs
  <1>2. PICK content \in IF p \in Uploads THEN Uploadable ELSE {live} :
          mem' = [mem EXCEPT ![p].pc = "dumped", ![p].content = content]
    BY DEF Dump
  <1>3. /\ mem' = [mem EXCEPT ![p] = mem'[p]] /\ DOMAIN mem'[p] = MemFields
        /\ mem'[p].content = content /\ mem'[p].file = mem[p].file
        /\ mem'[p].pc = "dumped" /\ mem'[p].list = mem[p].list
        /\ UNCHANGED <<files, database>> /\ lock = Free /\ lock' = p /\ mem[p].pc = "queued"
    BY <1>1, <1>2, MemoryOf DEF MemFields, Dump
  <1>4. fresh' \in Nat \ {0} /\ fresh <= fresh' /\ live' \in Contents' /\ Contents' = Contents
    BY <1>3 DEF StoreInv, FileShapes, database, Contents
  <1>5. content \in Contents
    BY <1>2, KnownContents DEF Uploadable, StoreInv, FileShapes
  <1>6. mem'[p].list = <<>>
    BY <1>1, <1>3, MemoryOf DEF AtListing
  <1>7. HoldsLock(p)' /\ LockMoves(p) /\ (p = Job => JobSeesAll')
    BY <1>3 DEF HoldsLock, LockMoves, JobSeesAll
  <1>8. mem'[p].content \in Contents' /\ mem'[p].file \in 0 .. taken
    BY <1>1, <1>3, <1>4, <1>5, MemoryOf
  <1> QED
    BY <1>1, <1>3, <1>4, <1>6, <1>7, <1>8, MemorySteps

LEMMA NameOrphanStep ==
    ASSUME StoreInv, NEW p \in Procs, NameOrphan(p)
    PROVE  StoreInv'
  <1>1. /\ mem' = [mem EXCEPT ![p] = mem'[p]] /\ DOMAIN mem'[p] = MemFields
        /\ mem'[p].content = mem[p].content /\ mem'[p].file = mem[p].file
        /\ mem'[p].pc = "rebuilding" /\ mem'[p].list = <<>>
        /\ UNCHANGED <<files, database>> /\ lock = Free /\ lock' = p
    BY MemoryOf DEF MemFields, NameOrphan, AtListing
  <1>2. fresh' \in Nat \ {0} /\ fresh <= fresh' /\ live' \in Contents' /\ Contents' = Contents
    BY <1>1 DEF StoreInv, FileShapes, database, Contents
  <1>3. HoldsLock(p)' /\ LockMoves(p) /\ (p = Job => JobSeesAll')
    BY <1>1 DEF HoldsLock, LockMoves, JobSeesAll
  <1>4. mem'[p].content \in Contents' /\ mem'[p].file \in 0 .. taken
    BY <1>1, <1>2, MemoryOf
  <1> QED
    BY <1>1, <1>2, <1>3, <1>4, MemorySteps

LEMMA RestoreRuns ==
    ASSUME StoreInv, NEW p \in Restores, PgRestore(p) \/ PgRestoreFails(p)
    PROVE  StoreInv'
  <1>1. p \in Procs /\ p # Job
    BY StoreAssumption DEF Procs
  <1>2. /\ mem' = [mem EXCEPT ![p] = mem'[p]] /\ DOMAIN mem'[p] = MemFields
        /\ mem'[p].content \in Contents /\ mem'[p].file \in 0 .. taken
        /\ mem'[p].pc \in {"restoring", "idle"} /\ mem'[p].list = <<>>
        /\ UNCHANGED <<files, lock>> /\ mem[p].pc \in {"ready", "restoring"}
    <2>1. CASE PgRestore(p)
      BY <1>1, <2>1, MemoryOf DEF MemFields, PgRestore, AtListing, StoreInv, FileShapes
    <2>2. CASE PgRestoreFails(p)
      BY <1>1, <2>2, MemoryOf, RestingIs, KnownContents DEF PgRestoreFails, StoreInv
    <2> QED
      BY <2>1, <2>2
  <1>3. fresh' \in Nat \ {0} /\ fresh <= fresh' /\ live' \in Contents'
    <2>1. CASE PgRestore(p)
      BY <2>1 DEF PgRestore, StoreInv, FileShapes, Contents
    <2>2. CASE PgRestoreFails(p)
      BY <2>2, DatabaseSteps DEF PgRestoreFails, StoreInv
    <2> QED
      BY <2>1, <2>2
  <1>4. HoldsLock(p)' /\ LockMoves(p)
    BY <1>1, <1>2, MemoryOf DEF HoldsLock, LockMoves
  <1>5. mem'[p].content \in Contents'
    BY <1>2, <1>3, ContentsGrow DEF StoreInv, FileShapes
  <1> QED
    BY <1>1, <1>2, <1>3, <1>4, <1>5, MemorySteps

LEMMA FailSteps ==
    ASSUME StoreInv, NEW p \in Procs, DumpFails(p) \/ NameFails(p)
    PROVE  StoreInv'
  BY AbortStep DEF DumpFails, NameFails

LEMMA EditStep ==
    ASSUME StoreInv, Edit
    PROVE  StoreInv'
  <1>1. /\ UNCHANGED <<files, lock, mem>> /\ fresh' = fresh + 1
        /\ live' = [live EXCEPT !.data = fresh + 1]
    BY DEF Edit
  <1>2. fresh' \in Nat \ {0} /\ fresh <= fresh' /\ live' \in Contents'
    BY <1>1 DEF StoreInv, FileShapes, Contents
  <1>3. Contents \subseteq Contents'
    BY <1>2, ContentsGrow DEF StoreInv, FileShapes
  <1>4. FileShapes'
    BY <1>1, <1>2, <1>3 DEF StoreInv, FileShapes, files
  <1>5. Orphans' = Orphans /\ taken <= taken' /\ HashesKept
    BY <1>1 DEF files, Orphans, HashesKept, StoreInv, FileShapes
  <1>6. Job \in Procs /\ LockMoves(Job)
    BY <1>1 DEF Procs, LockMoves
  <1>7. ProcInv(Job)' /\ JobSeesAll'
    <2>1. ProcInv(Job) /\ JobSeesAll
      BY <1>6 DEF StoreInv
    <2>2. MemShape(Job)'
      BY <1>1, <1>3, <2>1 DEF ProcInv, MemShape, AtListing, files
    <2> QED
      BY <1>1, <1>5, <2>1, <2>2 DEF ProcInv, HoldsLock, OrphansListed, HashesSeen, JobSeesAll, files
  <1> QED
    BY <1>1, <1>2, <1>4, <1>5, <1>6, <1>7, ProcessSteps DEF StoreInv
-----------------------------------------------------------------------------
(* Steps that write the directory *)

\* Side-cars and the pointer change, no content does.
LEMMA DirectorySteps ==
    ASSUME StoreInv, NEW p \in Procs,
           mem' = [mem EXCEPT ![p] = mem'[p]], mem'[p].list = <<>>, DOMAIN mem'[p] = MemFields,
           mem'[p].content \in {mem[p].content, Unhashed}, mem'[p].file \in 0 .. taken,
           HoldsLock(p)', LockMoves(p), UNCHANGED taken,
           fresh' \in Nat \ {0}, fresh <= fresh', FileShapes',
           Orphans' \subseteq Orphans, HashesKept,
           p = Job => JobSeesAll'
    PROVE  StoreInv'
  <1>1. DOMAIN mem' = Procs /\ \A q \in Procs \ {p} : mem'[q] = mem[q]
    BY DEF StoreInv
  <1>2. Contents \subseteq Contents' /\ Unhashed \in Contents /\ taken <= taken'
    BY ContentsGrow, KnownContents DEF StoreInv, FileShapes
  <1>3. ProcInv(p)'
    <2>1. MemShape(p)'
      BY <1>2, MemoryOf DEF MemShape
    <2> QED
      BY <2>1 DEF ProcInv, OrphansListed, HashesSeen
  <1> QED
    BY <1>1, <1>2, <1>3, ProcessSteps

\* Files are deleted, with their side-cars.
LEMMA DropShapes ==
    ASSUME StoreInv, NEW gone, disk' = Drop(disk, gone), side' = Drop(side, gone),
           UNCHANGED taken, current' \in {0, current},
           fresh' \in Nat \ {0}, fresh <= fresh', live' \in Contents'
    PROVE  FileShapes' /\ Orphans' \subseteq Orphans /\ HashesKept
  <1>1. Contents \subseteq Contents'
    BY ContentsGrow DEF StoreInv, FileShapes
  <1>2. /\ DOMAIN disk' = DOMAIN disk \ gone /\ \A f \in DOMAIN disk' : disk'[f] = disk[f]
        /\ DOMAIN side' = DOMAIN side \ gone /\ \A f \in DOMAIN side' : side'[f] = side[f]
    BY DEF Drop, Restrict
  <1>3. FileShapes'
    BY <1>1, <1>2 DEF StoreInv, FileShapes
  <1> QED
    BY <1>2, <1>3 DEF Orphans, HashesKept

LEMMA EvictStep ==
    ASSUME StoreInv, Evict
    PROVE  StoreInv'
  <1>1. Job \in Procs
    BY DEF Procs
  <1>2. /\ mem' = [mem EXCEPT ![Job] = Resting] /\ mem'[Job] = Resting /\ mem[Job].pc = "evicting"
        /\ UNCHANGED <<taken, lock>> /\ current' \in {0, current}
        /\ \E gone : disk' = Drop(disk, gone) /\ side' = Drop(side, gone)
    BY <1>1, MemoryOf DEF Evict
  <1>3. fresh' \in Nat \ {0} /\ fresh <= fresh' /\ live' \in Contents'
    BY DatabaseSteps DEF Evict, StoreInv
  <1>4. FileShapes' /\ Orphans' \subseteq Orphans /\ HashesKept
    BY <1>2, <1>3, DropShapes
  <1>5. HoldsLock(Job)' /\ LockMoves(Job) /\ JobSeesAll'
    BY <1>1, <1>2, RestingIs, MemoryOf DEF HoldsLock, LockMoves, JobSeesAll
  <1>6. 0 \in 0 .. taken
    BY DEF StoreInv, FileShapes
  <1> QED
    BY <1>1, <1>2, <1>3, <1>4, <1>5, <1>6, RestingIs, DirectorySteps

\* A step that changes the directory and no request's memory.
LEMMA OutsideSteps ==
    ASSUME StoreInv, UNCHANGED <<mem, lock, taken, database>>, FileShapes',
           Orphans' \subseteq Orphans, HashesKept
    PROVE  StoreInv'
  <1>1. Job \in Procs /\ Contents' = Contents
    BY DEF Procs, Contents, database
  <1>2. ProcInv(Job)' /\ JobSeesAll'
    <2>1. ProcInv(Job) /\ JobSeesAll
      BY <1>1 DEF StoreInv
    <2>2. MemShape(Job)' /\ HoldsLock(Job)'
      BY <1>1, <2>1 DEF ProcInv, MemShape, AtListing, HoldsLock
    <2>3. OrphansListed(Job)' /\ HashesSeen(Job)' /\ JobSeesAll'
      BY <2>1 DEF ProcInv, OrphansListed, HashesSeen, JobSeesAll, HashesKept
    <2> QED
      BY <2>2, <2>3 DEF ProcInv
  <1>3. taken <= taken' /\ fresh <= fresh' /\ LockMoves(Job)
    BY DEF StoreInv, FileShapes, LockMoves, database
  <1> QED
    BY <1>1, <1>2, <1>3, ProcessSteps DEF StoreInv

LEMMA DeleteStep ==
    ASSUME StoreInv, NEW f \in DOMAIN disk, Delete(f)
    PROVE  StoreInv'
  <1>1. /\ UNCHANGED <<mem, lock, taken, database>> /\ current' \in {0, current}
        /\ disk' = Drop(disk, {f}) /\ side' = Drop(side, {f})
    BY DEF Delete
  <1>2. fresh' \in Nat \ {0} /\ fresh <= fresh' /\ live' \in Contents'
    BY <1>1 DEF StoreInv, FileShapes, database, Contents
  <1> QED
    BY <1>1, <1>2, DropShapes, OutsideSteps

LEMMA DamageStep ==
    ASSUME StoreInv, NEW f \in DOMAIN disk, Damage(f)
    PROVE  StoreInv'
  <1>1. /\ UNCHANGED <<mem, lock, taken, database, side, current>>
        /\ disk' = [disk EXCEPT ![f].intact = FALSE]
    BY DEF Damage
  <1>2. /\ DOMAIN disk' = DOMAIN disk
        /\ \A g \in DOMAIN disk : /\ DOMAIN disk'[g] = DiskFields
                                  /\ disk'[g].content = disk[g].content
                                  /\ disk'[g].source = disk[g].source
    BY <1>1 DEF StoreInv, FileShapes, DiskFields
  <1>3. FileShapes' /\ Orphans' = Orphans /\ HashesKept
    BY <1>1, <1>2 DEF StoreInv, FileShapes, Orphans, HashesKept, database, Contents
  <1> QED
    BY <1>1, <1>3, OutsideSteps

\* A column of a side-car other than its source and hash.
LEMMA SideShapes ==
    ASSUME StoreInv, UNCHANGED <<disk, current, taken>>,
           DOMAIN side' = DOMAIN side,
           \A f \in DOMAIN side : /\ DOMAIN side'[f] = SideFields
                                  /\ side'[f].source = side[f].source
                                  /\ side'[f].hash = side[f].hash
                                  /\ side'[f].restored \in 0 .. taken,
           fresh' \in Nat \ {0}, fresh <= fresh', live' \in Contents'
    PROVE  FileShapes' /\ Orphans' \subseteq Orphans /\ HashesKept
  <1>1. Contents \subseteq Contents'
    BY ContentsGrow DEF StoreInv, FileShapes
  <1>2. FileShapes'
    BY <1>1 DEF StoreInv, FileShapes
  <1> QED
    BY <1>2 DEF Orphans, HashesKept
LEMMA CheckStep ==
    ASSUME StoreInv, Check \/ Flag
    PROVE  StoreInv'
  <1>1. Job \in Procs /\ \A f \in DOMAIN side : DOMAIN side[f] = SideFields /\ side[f].restored \in 0 .. taken
    BY DEF Procs, StoreInv, FileShapes
  <1>2. CASE Flag /\ mem[Job].file \notin DOMAIN disk
    BY <1>1, <1>2, AbortStep DEF Flag
  <1>3. CASE Check \/ (Flag /\ mem[Job].file \in DOMAIN disk)
    <2>1. /\ mem' = [mem EXCEPT ![Job] = mem'[Job]] /\ DOMAIN mem'[Job] = MemFields
          /\ mem'[Job].list = <<>> /\ mem'[Job].content = mem[Job].content
          /\ mem'[Job].file \in 0 .. taken
          /\ mem[Job].pc \in {"checking", "flagging"} /\ mem'[Job].pc \in {"checking", "flagging"}
      <3>1. CASE Check
        <4> DEFINE f == Max({t[1] : t \in mem[Job].todo})
                   rest == {t \in mem[Job].todo : t[1] # f}
        <4>1. /\ mem[Job].pc = "checking"
              /\ \/ /\ mem' = [mem EXCEPT ![Job].pc = "flagging", ![Job].file = f,
                                          ![Job].ok = disk[f].intact, ![Job].todo = rest]
                    /\ f \in DOMAIN disk
                 \/ mem' = [mem EXCEPT ![Job].todo = rest]
          BY <3>1 DEF Check
        <4> HIDE DEF f, rest
        <4>2. CASE mem' = [mem EXCEPT ![Job].todo = rest]
          BY <1>1, <4>1, <4>2, MemoryOf DEF MemFields, AtListing
        <4>3. CASE f \in DOMAIN disk /\ mem' # [mem EXCEPT ![Job].todo = rest]
          <5>1. PICK verdict : mem' = [mem EXCEPT ![Job].pc = "flagging", ![Job].file = f,
                                                 ![Job].ok = verdict, ![Job].todo = rest]
            BY <4>1, <4>3
          <5>2. mem[Job].list = <<>> /\ f \in 0 .. taken
            BY <1>1, <4>1, <4>3, MemoryOf DEF AtListing
          <5>3. DOMAIN mem = Procs /\ DOMAIN mem[Job] = MemFields
            BY <1>1, MemoryOf
          <5>4. /\ mem'[Job].pc = "flagging" /\ mem'[Job].file = f
                /\ mem'[Job].list = mem[Job].list /\ mem'[Job].content = mem[Job].content
            BY <1>1, <5>1, <5>3 DEF MemFields
          <5>5. mem' = [mem EXCEPT ![Job] = mem'[Job]] /\ DOMAIN mem'[Job] = MemFields
            BY <1>1, <5>1, <5>3
          <5> QED
            BY <4>1, <5>2, <5>4, <5>5
        <4> QED
          BY <4>1, <4>2, <4>3
      <3>2. CASE Flag /\ mem[Job].file \in DOMAIN disk
        BY <1>1, <3>2, MemoryOf DEF MemFields, AtListing, Flag
      <3> QED
        BY <1>3, <3>1, <3>2
    <2>2. UNCHANGED <<disk, current, taken, database, lock>>
      BY <1>3 DEF Check, Flag
    <2>3. \E f, ok : side' \in {side, [side EXCEPT ![f].ok = ok]}
      <3>1. CASE Check
        <4> DEFINE f == Max({t[1] : t \in mem[Job].todo})
        <4>1. side' \in {side, [side EXCEPT ![f].ok = disk[f].intact]}
          BY <3>1 DEF Check
        <4> HIDE DEF f
        <4> QED
          BY <4>1
      <3>2. CASE Flag /\ mem[Job].file \in DOMAIN disk
        BY <3>2 DEF Flag
      <3> QED
        BY <1>3, <3>1, <3>2
    <2>4. PICK f, ok : side' \in {side, [side EXCEPT ![f].ok = ok]}
      BY <2>3
    <2>5. /\ DOMAIN side' = DOMAIN side
          /\ \A g \in DOMAIN side : /\ DOMAIN side'[g] = SideFields
                                    /\ side'[g].source = side[g].source
                                    /\ side'[g].hash = side[g].hash
                                    /\ side'[g].restored \in 0 .. taken
      BY <1>1, <2>4 DEF SideFields
    <2>6. fresh' \in Nat \ {0} /\ fresh <= fresh' /\ live' \in Contents'
      BY <2>2, DatabaseSteps DEF StoreInv
    <2>7. FileShapes' /\ Orphans' \subseteq Orphans /\ HashesKept
      BY <2>2, <2>5, <2>6, SideShapes
    <2>8. HoldsLock(Job)' /\ LockMoves(Job) /\ JobSeesAll'
      <3>1. Orphans = {}
        BY <2>1 DEF StoreInv, JobSeesAll
      <3> QED
        BY <1>1, <2>1, <2>2, <2>7, <3>1, MemoryOf DEF HoldsLock, LockMoves, JobSeesAll
    <2> QED
      BY <1>1, <2>1, <2>2, <2>6, <2>7, <2>8, DirectorySteps
  <1> QED
    BY <1>2, <1>3

LEMMA RestoredStep ==
    ASSUME StoreInv, NEW p \in Restores, PgRestored(p)
    PROVE  StoreInv'
  <1>1. p \in Procs /\ p # Job
    BY StoreAssumption DEF Procs
  <1>2. /\ mem' = [mem EXCEPT ![p] = mem'[p]] /\ DOMAIN mem'[p] = MemFields
        /\ mem'[p].list = <<>> /\ mem'[p].content = mem[p].content
        /\ mem'[p].file \in 0 .. taken
        /\ mem[p].pc = "restoring" /\ mem'[p].pc = "linking"
        /\ UNCHANGED <<disk, side, taken, fresh, lock>>
        /\ current' = mem[p].file /\ live' = mem[p].content
    BY <1>1, MemoryOf DEF MemFields, AtListing, PgRestored
  <1>3. FileShapes' /\ Orphans' = Orphans /\ HashesKept
    BY <1>1, <1>2, MemoryOf DEF StoreInv, FileShapes, Orphans, HashesKept, Contents
  <1>4. fresh' \in Nat \ {0} /\ fresh <= fresh'
    BY <1>2 DEF StoreInv, FileShapes
  <1>5. HoldsLock(p)' /\ LockMoves(p)
    BY <1>1, <1>2, MemoryOf DEF HoldsLock, LockMoves
  <1> QED
    BY <1>1, <1>2, <1>3, <1>4, <1>5, DirectorySteps

LEMMA LinkStep ==
    ASSUME StoreInv, NEW p \in Restores, Link(p)
    PROVE  StoreInv'
  <1>1. p \in Procs /\ p # Job
    BY StoreAssumption DEF Procs
  <1>2. /\ mem' = [mem EXCEPT ![p] = Resting] /\ mem'[p] = Resting /\ mem[p].pc = "linking"
        /\ UNCHANGED <<disk, current, taken, lock>>
    BY <1>1, MemoryOf DEF Link
  <1>3. /\ DOMAIN side' = DOMAIN side
        /\ \A g \in DOMAIN side : /\ DOMAIN side'[g] = SideFields
                                  /\ side'[g].source = side[g].source
                                  /\ side'[g].hash = side[g].hash
                                  /\ side'[g].restored \in 0 .. taken
    BY <1>1, MemoryOf DEF SideFields, StoreInv, FileShapes, Link
  <1>4. fresh' \in Nat \ {0} /\ fresh <= fresh' /\ live' \in Contents'
    BY DatabaseSteps DEF Link, StoreInv
  <1>5. FileShapes' /\ Orphans' \subseteq Orphans /\ HashesKept
    BY <1>2, <1>3, <1>4, SideShapes
  <1>6. HoldsLock(p)' /\ LockMoves(p) /\ 0 \in 0 .. taken
    BY <1>1, <1>2, RestingIs, MemoryOf DEF HoldsLock, LockMoves
  <1> QED
    BY <1>1, <1>2, <1>4, <1>5, <1>6, RestingIs, DirectorySteps

LEMMA NameStep ==
    ASSUME StoreInv, NEW p \in Procs, Name(p)
    PROVE  StoreInv'
  <1>1. /\ mem' = [mem EXCEPT ![p] = Resting] /\ mem'[p] = Resting /\ mem[p].pc = "naming"
        /\ UNCHANGED <<disk, current, taken, database, lock>>
        /\ \E named : side' = [side EXCEPT ![mem[p].file].named = named]
    BY MemoryOf DEF Name
  <1>2. /\ DOMAIN side' = DOMAIN side
        /\ \A g \in DOMAIN side : /\ DOMAIN side'[g] = SideFields
                                  /\ side'[g].source = side[g].source
                                  /\ side'[g].hash = side[g].hash
                                  /\ side'[g].restored \in 0 .. taken
    BY <1>1 DEF SideFields, StoreInv, FileShapes
  <1>3. fresh' \in Nat \ {0} /\ fresh <= fresh' /\ live' \in Contents'
    BY <1>1, DatabaseSteps DEF StoreInv
  <1>4. FileShapes' /\ Orphans' \subseteq Orphans /\ HashesKept
    BY <1>1, <1>2, <1>3, SideShapes
  <1>5. HoldsLock(p)' /\ LockMoves(p) /\ 0 \in 0 .. taken /\ (p = Job => JobSeesAll')
    BY <1>1, RestingIs, MemoryOf DEF HoldsLock, LockMoves, JobSeesAll
  <1> QED
    BY <1>1, <1>3, <1>4, <1>5, RestingIs, DirectorySteps

\* The columns of a rebuilt side-car.
LEMMA RebuiltIs ==
    ASSUME NEW f
    PROVE  /\ DOMAIN Rebuilt(f) = SideFields /\ Rebuilt(f).source = disk[f].source
           /\ Rebuilt(f).hash = Unhashed /\ Rebuilt(f).restored = 0
  BY DEF Rebuilt, SideFields

\* Missing side-cars are written, without a hash.
LEMMA RebuildShapes ==
    ASSUME StoreInv, NEW rows, DOMAIN rows \subseteq DOMAIN disk, side' = Over(rows, side),
           \A f \in DOMAIN rows : /\ DOMAIN rows[f] = SideFields /\ rows[f].source = disk[f].source
                                  /\ rows[f].hash = Unhashed /\ rows[f].restored = 0,
           UNCHANGED <<disk, current, taken, database>>
    PROVE  /\ FileShapes' /\ HashesKept /\ Orphans' = Orphans \ DOMAIN rows
           /\ \A f \in DOMAIN side' : side'[f].hash # Unhashed =>
                f \in DOMAIN side /\ f \notin DOMAIN rows /\ side'[f] = side[f]
  <1>1. /\ DOMAIN side' = DOMAIN rows \cup DOMAIN side
        /\ \A f \in DOMAIN rows : side'[f] = rows[f]
        /\ \A f \in DOMAIN side : f \notin DOMAIN rows => side'[f] = side[f]
    BY DEF Over
  <1>2. FileShapes'
    <2>1. 0 \in 0 .. taken /\ Contents' = Contents
      BY DEF StoreInv, FileShapes, database, Contents
    <2> QED
      BY <1>1, <2>1 DEF StoreInv, FileShapes, database
  <1> QED
    BY <1>1, <1>2 DEF HashesKept, Orphans

LEMMA NameRebuiltStep ==
    ASSUME StoreInv, NEW p \in Procs, NameRebuilt(p)
    PROVE  StoreInv'
  <1>1. PICK named : side' = Put(mem[p].file, [Rebuilt(mem[p].file) EXCEPT !.named = named], side)
    BY DEF NameRebuilt
  <1> DEFINE row == [Rebuilt(mem[p].file) EXCEPT !.named = named]
             rows == [g \in {mem[p].file} |-> row]
  <1>2. /\ mem' = [mem EXCEPT ![p] = Resting] /\ mem'[p] = Resting /\ mem[p].pc = "rebuilding"
        /\ UNCHANGED <<disk, current, taken, database>> /\ lock' = Free
        /\ mem[p].file \in DOMAIN disk
    BY MemoryOf DEF NameRebuilt
  <1>3. /\ DOMAIN row = SideFields /\ row.source = disk[mem[p].file].source
        /\ row.hash = Unhashed /\ row.restored = 0
    BY RebuiltIs DEF SideFields
  <1>4. side' = Over(rows, side)
    BY <1>1 DEF Put
  <1> HIDE DEF row
  <1>5. FileShapes' /\ Orphans' \subseteq Orphans /\ HashesKept
    BY <1>2, <1>3, <1>4, RebuildShapes
  <1>6. fresh' \in Nat \ {0} /\ fresh <= fresh'
    BY <1>2 DEF StoreInv, FileShapes, database
  <1>7. HoldsLock(p)' /\ LockMoves(p) /\ 0 \in 0 .. taken /\ (p = Job => JobSeesAll')
    BY <1>2, RestingIs, MemoryOf DEF HoldsLock, LockMoves, JobSeesAll
  <1> QED
    BY <1>2, <1>5, <1>6, <1>7, RestingIs, DirectorySteps
LEMMA EndListingStep ==
    ASSUME StoreInv, NEW p \in Procs, EndListing(p)
    PROVE  StoreInv'
  <1> DEFINE found == mem[p].list[1]
             rebuilt == [f \in found.orphans |-> Rebuilt(f)]
             new == [found EXCEPT !.orphans = {}, !.side = Over(rebuilt, @)]
  <1>1. CASE ~(found.orphans \subseteq DOMAIN disk)
    BY <1>1, AbortStep DEF EndListing
  <1>2. CASE found.orphans \subseteq DOMAIN disk
    <2>1. /\ mem' = [mem EXCEPT ![p].list = <<new>>] /\ side' = Over(rebuilt, side)
          /\ UNCHANGED <<disk, current, taken, database, lock>>
          /\ AtListing(p) /\ mem[p].list # <<>>
      BY <1>2 DEF EndListing
    <2>2. ProcInv(p) /\ DOMAIN found = ListFields
      BY <2>1 DEF StoreInv, ProcInv, MemShape
    <2>3. /\ DOMAIN new = ListFields /\ new.orphans = {}
          /\ new.side = Over(rebuilt, found.side)
      BY <2>2 DEF ListFields
    <2>4. /\ DOMAIN new.side = found.orphans \cup DOMAIN found.side
          /\ \A f \in DOMAIN found.side : f \notin found.orphans => new.side[f] = found.side[f]
      BY <2>3 DEF Over
    <2>5. /\ FileShapes' /\ HashesKept /\ Orphans' = Orphans \ found.orphans
          /\ \A f \in DOMAIN side' : side'[f].hash # Unhashed =>
               f \in DOMAIN side /\ f \notin found.orphans /\ side'[f] = side[f]
      BY <1>2, <2>1, RebuiltIs, RebuildShapes
    <2> HIDE DEF new, rebuilt
    <2>6. /\ DOMAIN mem' = Procs /\ \A q \in Procs \ {p} : mem'[q] = mem[q]
          /\ DOMAIN mem'[p] = MemFields /\ mem'[p].list = <<new>>
          /\ mem'[p].pc = mem[p].pc /\ mem'[p].file = mem[p].file
          /\ mem'[p].content = mem[p].content
      BY <2>1, MemoryOf DEF MemFields
    <2>7. mem'[p].list[1] = new /\ mem'[p].list # <<>>
      BY <2>6
    <2>8. MemShape(p)'
      <3>1. Contents' = Contents
        BY <2>1 DEF Contents, database
      <3>2. DOMAIN new.side \subseteq 1 .. taken'
        BY <1>2, <2>1, <2>2, <2>4 DEF ProcInv, MemShape, StoreInv, FileShapes
      <3> QED
        BY <2>1, <2>3, <2>6, <2>7, <3>1, <3>2, MemoryOf DEF MemShape, AtListing
    <2>9. HoldsLock(p)' /\ LockMoves(p)
      BY <2>1, <2>2, <2>6 DEF ProcInv, HoldsLock, LockMoves
    <2>10. Orphans' = {}
      BY <2>1, <2>2, <2>5 DEF ProcInv, OrphansListed
    <2>11. HashesSeen(p)'
      <3> SUFFICES ASSUME mem[p].pc = "dumped", NEW f \in DOMAIN side', side'[f].hash # Unhashed
                   PROVE  f \in DOMAIN new.side /\ new.side[f].hash = side'[f].hash
        BY <2>3, <2>6, <2>7 DEF HashesSeen
      <3>1. f \in DOMAIN side /\ f \notin found.orphans /\ side'[f] = side[f]
        BY <2>5
      <3>2. f \in DOMAIN found.side /\ found.side[f].hash = side[f].hash
        BY <2>1, <2>2, <3>1 DEF ProcInv, HashesSeen
      <3> QED
        BY <2>4, <3>1, <3>2
    <2>12. ProcInv(p)'
      BY <2>8, <2>9, <2>10, <2>11 DEF ProcInv, OrphansListed
    <2>13. p = Job => JobSeesAll'
      BY <2>1, <2>6 DEF StoreInv, JobSeesAll
    <2>14. taken <= taken' /\ fresh <= fresh' /\ Orphans' \subseteq Orphans
      BY <2>1, <2>10 DEF StoreInv, FileShapes, database
    <2> QED
      BY <2>5, <2>6, <2>9, <2>12, <2>13, <2>14, ProcessSteps
  <1> QED
    BY <1>1, <1>2

\* The dump that stands for a content is among those seen, or new.
LEMMA KeepIs ==
    ASSUME StoreInv, NEW p \in Procs
    PROVE  /\ Duplicates(p) \subseteq DOMAIN Seen(p).side /\ DOMAIN Seen(p).side \subseteq 1 .. taken
           /\ Duplicates(p) = {} => Keep(p) = taken + 1
           /\ Duplicates(p) # {} => Keep(p) \in Duplicates(p)
  <1>1. DOMAIN Seen(p).side \subseteq 1 .. taken /\ taken \in Nat
    BY DEF Seen, StoreInv, FileShapes, ProcInv, MemShape
  <1>2. Duplicates(p) \subseteq DOMAIN Seen(p).side
    BY DEF Duplicates
  <1>3. Duplicates(p) # {} => Max(Duplicates(p)) \in Duplicates(p)
    <2>1. Duplicates(p) \subseteq 0 .. taken
      BY <1>1, <1>2
    <2> QED
      BY <1>1, <2>1, MaxOfBounded
  <1> QED
    BY <1>1, <1>2, <1>3 DEF Keep

\* Who ends a dump has seen every hash there is, and no dump lacks a side-car.
LEMMA NothingMissed ==
    ASSUME StoreInv, NEW p \in Procs, mem[p].pc = "dumped", Listed(p)
    PROVE  /\ Orphans = {}
           /\ \A f \in DOMAIN side : side[f].hash # Unhashed =>
                f \in DOMAIN Seen(p).side /\ Seen(p).side[f].hash = side[f].hash
  <1>1. ProcInv(p)
    BY DEF StoreInv
  <1>2. CASE mem[p].list = <<>>
    BY <1>2 DEF Listed, Seen
  <1>3. CASE mem[p].list # <<>>
    BY <1>1, <1>3 DEF Listed, Seen, ProcInv, OrphansListed, HashesSeen
  <1> QED
    BY <1>2, <1>3

\* A dump is finished: the lock is given back, and every dump has its side-car.
LEMMA FinishedDump ==
    ASSUME StoreInv, NEW p \in Procs,
           DOMAIN mem' = Procs, \A q \in Procs \ {p} : mem'[q] = mem[q],
           DOMAIN mem'[p] = MemFields, mem'[p].list = <<>>, mem'[p].content = Unhashed,
           mem'[p].file \in {0, mem[p].file}, mem'[p].pc \in {"reverifying", "ready", "idle"},
           lock = p, lock' = Free, taken \in Nat, taken' \in {taken, taken + 1},
           fresh' = fresh, Contents' = Contents,
           FileShapes', OneDumpPerContent', Orphans' = {}
    PROVE  StoreInv'
  <1>1. taken <= taken' /\ fresh <= fresh' /\ Orphans' \subseteq Orphans
    BY DEF StoreInv, FileShapes
  <1>2. LockMoves(p) /\ HoldsLock(p)'
    BY StoreAssumption DEF LockMoves, HoldsLock
  <1>3. MemShape(p)'
    BY KnownContents, MemoryOf DEF MemShape, StoreInv
  <1>4. ProcInv(p)' /\ (p = Job => JobSeesAll')
    BY <1>2, <1>3 DEF ProcInv, OrphansListed, HashesSeen, JobSeesAll
  <1> QED
    BY <1>1, <1>2, <1>4, ProcessSteps

LEMMA FinalizeStep ==
    ASSUME StoreInv, NEW p \in {Job} \cup Restores \cup Uploads, Finalize(p)
    PROVE  StoreInv'
  <1> DEFINE car == [source |-> Source(p), hash |-> mem[p].content, ok |-> TRUE,
                     named |-> FALSE, restored |-> 0]
  <1>1. p \in Procs
    BY DEF Procs
  <1>2. /\ mem[p].pc = "dumped" /\ Listed(p) /\ lock = p /\ lock' = Free
        /\ UNCHANGED database
    BY <1>1, MemoryOf DEF Finalize
  <1>3. Orphans = {}
    BY <1>1, <1>2, NothingMissed
  <1>4. /\ DOMAIN mem' = Procs /\ \A q \in Procs \ {p} : mem'[q] = mem[q]
        /\ DOMAIN mem'[p] = MemFields /\ mem'[p].list = <<>> /\ mem'[p].content = Unhashed
        /\ mem'[p].file \in {0, mem[p].file} /\ mem'[p].pc \in {"reverifying", "ready", "idle"}
    <2>1. PICK next : /\ mem' = [mem EXCEPT ![p] = next]
                      /\ \/ next = [Resting EXCEPT !.pc = "reverifying"]
                         \/ next = [Resting EXCEPT !.pc = "ready", !.file = mem[p].file,
                                                   !.snap = Keep(p)]
                         \/ next = Resting
      <3>1. CASE p = Job
        BY <3>1, StoreAssumption DEF Finalize
      <3>2. CASE p \in Restores
        BY <3>2, StoreAssumption DEF Finalize
      <3>3. CASE p \in Uploads
        BY <3>3, StoreAssumption DEF Finalize
      <3> QED
        BY <3>1, <3>2, <3>3
    <2>2. /\ DOMAIN next = MemFields /\ next.list = <<>> /\ next.content = Unhashed
          /\ next.file \in {0, mem[p].file} /\ next.pc \in {"reverifying", "ready", "idle"}
      BY <2>1, RestingIs DEF MemFields
    <2> QED
      BY <1>1, <2>1, <2>2, MemoryOf
  <1>5. Contents' = Contents /\ fresh <= fresh' /\ live' = live /\ fresh' = fresh
    BY <1>2 DEF StoreInv, FileShapes, database, Contents
  <1>6. CASE Duplicates(p) = {}
    <2>1. /\ taken' = taken + 1 /\ disk' = Put(taken + 1, Dumped(p), disk)
          /\ side' = Put(taken + 1, car, side)
      BY <1>6 DEF Finalize
    <2>2. /\ DOMAIN disk' = DOMAIN disk \cup {taken + 1} /\ disk'[taken + 1] = Dumped(p)
          /\ \A g \in DOMAIN disk : g # taken + 1 => disk'[g] = disk[g]
          /\ DOMAIN side' = DOMAIN side \cup {taken + 1} /\ side'[taken + 1] = car
          /\ \A g \in DOMAIN side : g # taken + 1 => side'[g] = side[g]
      BY <2>1 DEF Put, Over
    <2>3. /\ DOMAIN Dumped(p) = DiskFields /\ Dumped(p).content = mem[p].content
          /\ DOMAIN car = SideFields /\ car.hash = mem[p].content /\ car.restored = 0
          /\ car.source = Dumped(p).source
      BY DEF Dumped, DiskFields, SideFields
    <2> HIDE DEF car
    <2>4. taken \in Nat /\ \A g \in DOMAIN disk : g # taken + 1 /\ g \in 1 .. taken
      BY DEF StoreInv, FileShapes
    <2>5. FileShapes'
      <3>1. current' \in 0 .. taken'
        <4>1. Keep(p) = taken + 1 /\ current' \in {current, Keep(p)}
          BY <1>1, <1>6, KeepIs DEF Finalize
        <4> QED
          BY <2>1, <2>4, <4>1 DEF StoreInv, FileShapes
      <3>2. mem[p].content \in Contents
        BY <1>1, MemoryOf
      <3> QED
        BY <1>5, <2>1, <2>2, <2>3, <2>4, <3>1, <3>2 DEF StoreInv, FileShapes
    <2>6. OneDumpPerContent'
      <3>1. \A f \in DOMAIN side : side[f].hash # Unhashed => side[f].hash # mem[p].content
        BY <1>1, <1>2, <1>6, NothingMissed DEF Duplicates
      <3> QED
        BY <2>2, <2>3, <2>4, <3>1 DEF StoreInv, FileShapes, OneDumpPerContent
    <2>7. Orphans' = {}
      BY <1>3, <2>2 DEF Orphans
    <2> QED
      BY <1>1, <1>2, <1>3, <1>4, <1>5, <2>1, <2>4, <2>5, <2>6, <2>7, FinishedDump
  <1>7. CASE Duplicates(p) # {}
    <2>1. UNCHANGED <<taken, disk, side>>
      BY <1>7 DEF Finalize
    <2>2. FileShapes'
      <3>1. current' \in 0 .. taken'
        <4>1. Keep(p) \in 1 .. taken /\ current' \in {current, Keep(p)}
          BY <1>1, <1>7, KeepIs DEF Finalize
        <4> QED
          BY <2>1, <4>1 DEF StoreInv, FileShapes
      <3> QED
        BY <1>5, <2>1, <3>1 DEF StoreInv, FileShapes
    <2>3. OneDumpPerContent' /\ Orphans' = {}
      BY <1>3, <2>1 DEF StoreInv, OneDumpPerContent, Orphans
    <2>4. taken \in Nat
      BY DEF StoreInv, FileShapes
    <2> QED
      BY <1>1, <1>2, <1>3, <1>4, <1>5, <2>1, <2>2, <2>3, <2>4, FinishedDump
  <1> QED
    BY <1>6, <1>7

LEMMA CrashStep ==
    ASSUME StoreInv, Crash
    PROVE  StoreInv'
  <1>1. /\ mem' = [q \in Procs |-> Resting] /\ lock' = Free /\ UNCHANGED <<side, current>>
        /\ Logged \/ UNCHANGED database
    BY DEF Crash
  <1>2. fresh' \in Nat \ {0} /\ fresh <= fresh' /\ live' \in Contents'
    BY <1>1, DatabaseSteps DEF StoreInv
  <1>3. Contents \subseteq Contents' /\ Unhashed \in Contents
    BY <1>2, ContentsGrow, KnownContents DEF StoreInv, FileShapes
  <1>4. taken' \in Nat /\ taken <= taken' /\ FileShapes'
    <2>1. CASE UNCHANGED <<disk, taken>>
      BY <1>1, <1>2, <1>3, <2>1 DEF StoreInv, FileShapes
    <2>2. ASSUME NEW p \in Procs, taken' = taken + 1, disk' = Put(taken + 1, Dumped(p), disk)
          PROVE  taken' \in Nat /\ taken <= taken' /\ FileShapes'
      <3>1. /\ DOMAIN disk' = DOMAIN disk \cup {taken + 1} /\ disk'[taken + 1] = Dumped(p)
            /\ \A g \in DOMAIN disk : g # taken + 1 => disk'[g] = disk[g]
        BY <2>2 DEF Put, Over
      <3>2. DOMAIN Dumped(p) = DiskFields /\ Dumped(p).content = mem[p].content
        BY DEF Dumped, DiskFields
      <3>3. taken \in Nat /\ \A g \in DOMAIN disk : g # taken + 1 /\ g \in 1 .. taken
        BY DEF StoreInv, FileShapes
      <3>4. mem[p].content \in Contents'
        BY <1>3, MemoryOf
      <3> QED
        BY <1>1, <1>2, <1>3, <2>2, <3>1, <3>2, <3>3, <3>4 DEF StoreInv, FileShapes
    <2> QED
      BY <2>1, <2>2 DEF Crash
  <1>5. ASSUME NEW q \in Procs PROVE ProcInv(q)'
    <2>1. mem'[q] = Resting /\ Free # q
      BY <1>1, StoreAssumption
    <2>2. 0 \in 0 .. taken'
      BY <1>4
    <2> QED
      BY <1>1, <1>3, <2>1, <2>2, RestingIs
      DEF ProcInv, MemShape, HoldsLock, OrphansListed, HashesSeen
  <1>6. OneDumpPerContent' /\ JobSeesAll'
    BY <1>1, RestingIs DEF StoreInv, OneDumpPerContent, JobSeesAll, Procs
  <1> QED
    BY <1>1, <1>4, <1>5, <1>6 DEF StoreInv

LEMMA StoreInit == Init => StoreInv
  <1> SUFFICES ASSUME Init PROVE StoreInv
    OBVIOUS
  <1>1. /\ disk = <<>> /\ side = <<>> /\ current = 0 /\ taken = 0 /\ fresh = 1 /\ lock = Free
        /\ live = [data |-> 1, log |-> 1] /\ mem = [p \in Procs |-> Resting]
    BY DEF Init
  <1>2. DOMAIN disk = {} /\ DOMAIN side = {}
    BY <1>1
  <1>3. FileShapes /\ OneDumpPerContent
    BY <1>1, <1>2 DEF FileShapes, OneDumpPerContent, Contents
  <1>4. ASSUME NEW q \in Procs PROVE ProcInv(q)
    <2>1. mem[q] = Resting /\ Free # q /\ Unhashed \in Contents
      BY <1>1, <1>3, StoreAssumption, KnownContents
    <2> QED
      BY <1>1, <2>1, RestingIs DEF ProcInv, MemShape, HoldsLock, OrphansListed, HashesSeen
  <1>5. JobSeesAll
    BY <1>1, RestingIs DEF JobSeesAll, Procs
  <1> QED
    BY <1>1, <1>3, <1>4, <1>5 DEF StoreInv

LEMMA StoreStep == StoreInv /\ [Next]_vars => StoreInv'
  <1> SUFFICES ASSUME StoreInv, [Next]_vars PROVE StoreInv'
    OBVIOUS
  <1> USE DEF Procs
  <1>1. CASE Backup \/ JobStep
    BY <1>1, CallSteps, JobMoves, CheckStep, EvictStep DEF JobStep
  <1>2. ASSUME NEW p \in {Job} \cup Restores \cup Uploads, DumpStep(p) PROVE StoreInv'
    BY <1>2, DumpStep1, FailSteps, FinalizeStep DEF DumpStep
  <1>3. ASSUME NEW p \in Restores, RestoreStep(p) PROVE StoreInv'
    BY <1>3, CallSteps, RestoreRuns, RestoredStep, LinkStep DEF RestoreStep
  <1>4. ASSUME NEW p \in Namers, NamerStep(p) PROVE StoreInv'
    BY <1>4, CallSteps, NameStep, NameOrphanStep, NameRebuiltStep, FailSteps DEF NamerStep
  <1>5. ASSUME NEW p \in Uploads, UploadRequest(p) PROVE StoreInv'
    BY <1>5, CallSteps
  <1>6. ASSUME NEW p \in Viewers, View(p) \/ EndView(p) PROVE StoreInv'
    BY <1>6, CallSteps
  <1>7. ASSUME NEW p \in Procs, BeginListing(p) \/ EndListing(p) PROVE StoreInv'
    BY <1>7, BeginListingStep, EndListingStep
  <1>8. ASSUME NEW f \in DOMAIN disk, Delete(f) \/ Damage(f) PROVE StoreInv'
    BY <1>8, DeleteStep, DamageStep
  <1>9. CASE Edit \/ Crash
    BY <1>9, EditStep, CrashStep
  <1>10. CASE UNCHANGED vars
    <2>1. UNCHANGED <<files, database, lock, mem>>
      BY <1>10 DEF vars, files, database
    <2>2. FileShapes' /\ Orphans' = Orphans /\ HashesKept
      BY <2>1 DEF StoreInv, FileShapes, Orphans, HashesKept, Contents, files, database
    <2>3. UNCHANGED taken
      BY <2>1 DEF files
    <2> QED
      BY <2>1, <2>2, <2>3, OutsideSteps
  <1> QED
    BY <1>1, <1>2, <1>3, <1>4, <1>5, <1>6, <1>7, <1>8, <1>9, <1>10 DEF Next

\* No two hashed dumps hold the same content, whoever makes them, names them, lists them
\* and deletes them meanwhile (_find_duplicate inside the write lock).
THEOREM NoDumpTwice == Spec => []OneDumpPerContent
  <1>1. StoreInv => OneDumpPerContent
    BY DEF StoreInv
  <1> QED
    BY <1>1, StoreInit, StoreStep, PTL DEF Spec
\* What a step can do to the dumps.
LEMMA DiskSteps ==
    ASSUME [Next]_vars
    PROVE  \/ UNCHANGED disk
           \/ Evict
           \/ \E f \in DOMAIN disk : Delete(f)
           \/ \E f : disk' = [disk EXCEPT ![f].intact = FALSE]
           \/ \E p : disk' = Put(taken + 1, Dumped(p), disk)
  <1>1. CASE Backup \/ JobStep
    BY <1>1 DEF Backup, JobStep, files, Reverify, Check, Flag, Checked
  <1>2. ASSUME NEW p, DumpStep(p) PROVE UNCHANGED disk \/ disk' = Put(taken + 1, Dumped(p), disk)
    BY <1>2 DEF DumpStep, Dump, DumpFails, Finalize, files
  <1>3. ASSUME NEW p, RestoreStep(p) \/ NamerStep(p) \/ UploadRequest(p) \/ View(p) \/ EndView(p)
        PROVE  UNCHANGED disk
    BY <1>3 DEF RestoreStep, RestoreRequest, PgRestore, PgRestoreFails, PgRestored, Link,
       NamerStep, NameRequest, Name, NameOrphan, NameRebuilt, NameFails, UploadRequest, View,
       EndView, files
  <1>4. ASSUME NEW p, BeginListing(p) \/ EndListing(p) PROVE UNCHANGED disk
    BY <1>4 DEF BeginListing, EndListing, files
  <1>5. CASE Edit \/ UNCHANGED vars
    BY <1>5 DEF Edit, vars, files
  <1> QED
    BY <1>1, <1>2, <1>3, <1>4, <1>5 DEF Next, Damage, Crash

\* The rows keep their types, every side-car has its dump, and a waiting process holds no
\* lock.
THEOREM StoreTypeCorrect == Spec => []StoreTypeOK
  <1>1. Init => Integrity
    BY DEF Init, Integrity
  <1>2. StoreInv /\ Integrity /\ [Next]_vars => Integrity'
    <2> SUFFICES ASSUME StoreInv, Integrity, [Next]_vars,
                        NEW f \in DOMAIN disk'
                 PROVE  disk'[f].intact \in BOOLEAN
      BY DEF Integrity
    <2>1. CASE UNCHANGED disk
      BY <2>1 DEF Integrity
    <2>2. ASSUME NEW gone, disk' = Drop(disk, gone) PROVE disk'[f].intact \in BOOLEAN
      BY <2>2 DEF Integrity, Drop, Restrict
    <2>3. ASSUME NEW p, disk' = Put(taken + 1, Dumped(p), disk) PROVE disk'[f].intact \in BOOLEAN
      BY <2>3 DEF Integrity, Put, Over, Dumped
    <2>4. ASSUME NEW g, disk' = [disk EXCEPT ![g].intact = FALSE] PROVE disk'[f].intact \in BOOLEAN
      BY <2>4 DEF Integrity, StoreInv, FileShapes, DiskFields
    <2>5. CASE Evict \/ \E g \in DOMAIN disk : Delete(g)
      BY <2>2, <2>5 DEF Evict, Delete
    <2> QED
      BY <2>1, <2>3, <2>4, <2>5, DiskSteps
  <1>3. StoreInv /\ Integrity => StoreTypeOK
    BY DEF StoreInv, FileShapes, ProcInv, HoldsLock, Integrity, StoreTypeOK
  <1> QED
    BY <1>1, <1>2, <1>3, StoreInit, StoreStep, PTL DEF Spec

-----------------------------------------------------------------------------
(* What retention spares *)

\* The end of the job works on the directory as it is, whatever has been made, named and
\* deleted since the job began.
LEMMA EvictsWhatIsThere ==
    ASSUME StoreInv, Evict
    PROVE  /\ DOMAIN side = DOMAIN disk
           /\ \E deleted \in SUBSET Victims(side, current) : disk' = Drop(disk, deleted)
  <1>1. mem[Job].pc = "evicting"
    BY DEF Evict
  <1>2. Orphans = {} /\ mem[Job].list = <<>>
    BY <1>1 DEF StoreInv, JobSeesAll
  <1>3. Seen(Job) = [side |-> side, current |-> current]
    BY <1>2 DEF Seen
  <1>4. Seen(Job).side = side /\ Seen(Job).current = current
    BY <1>3
  <1>5. DOMAIN side = DOMAIN disk
    BY <1>2 DEF Orphans, StoreInv, FileShapes
  <1>6. disk' = Drop(disk, {f \in Victims(side, current) :
                              \A g \in Victims(side, current) \ DOMAIN disk : Earlier(side, f, g)})
    BY <1>4 DEF Evict
  <1> QED
    BY <1>5, <1>6

\* A dump goes when an administrator deletes it or retention does not spare it.
LEMMA WhoDeletes ==
    ASSUME StoreInv, [Next]_vars, NEW f \in DOMAIN disk, f \notin DOMAIN disk'
    PROVE  Delete(f) \/ (Evict /\ f \in Victims(side, current))
  <1>1. CASE Evict
    BY <1>1, EvictsWhatIsThere DEF Drop, Restrict
  <1>2. CASE \E g \in DOMAIN disk : Delete(g)
    BY <1>2 DEF Delete, Drop, Restrict
  <1>3. CASE UNCHANGED disk
    BY <1>3
  <1>4. ASSUME NEW p, disk' = Put(taken + 1, Dumped(p), disk) PROVE FALSE
    BY <1>4 DEF Put, Over
  <1>5. ASSUME NEW g, disk' = [disk EXCEPT ![g].intact = FALSE] PROVE FALSE
    BY <1>5
  <1> QED
    BY <1>1, <1>2, <1>3, <1>4, <1>5, DiskSteps

\* A named dump goes only when an administrator deletes it ("Setting a non-empty name
\* pins a dump against auto-retention").
THEOREM NamesPin == Spec => NamedDumpsStay
  <1>1. StoreInv /\ [Next]_vars =>
          [\A f \in DOMAIN side : side[f].named /\ f \notin DOMAIN disk' => Delete(f)]_vars
    <2> SUFFICES ASSUME StoreInv, [Next]_vars,
                        NEW f \in DOMAIN side, side[f].named, f \notin DOMAIN disk'
                 PROVE  Delete(f)
      OBVIOUS
    <2>1. f \in DOMAIN disk
      BY DEF StoreInv, FileShapes
    <2>2. f \notin Victims(side, current)
      BY DEF Victims
    <2> QED
      BY <2>1, <2>2, WhoDeletes
  <1> QED
    BY <1>1, StoreInit, StoreStep, PTL DEF Spec, NamedDumpsStay

\* While the pointer stays on the target of a restore, the snapshot taken before it goes
\* only when an administrator deletes it ("the snapshot tied to the now-current state").
THEOREM SnapshotPinned == Spec => LinkedSnapshotStays
  <1>1. StoreInv /\ [Next]_vars =>
          [\A f \in DOMAIN disk : Pinned(f) /\ f \notin DOMAIN disk' => Delete(f)]_vars
    <2> SUFFICES ASSUME StoreInv, [Next]_vars,
                        NEW f \in DOMAIN disk, Pinned(f), f \notin DOMAIN disk'
                 PROVE  Delete(f)
      OBVIOUS
    <2>1. f \notin Victims(side, current)
      BY DEF Victims, Linked, Pinned
    <2> QED
      BY <2>1, WhoDeletes
  <1> QED
    BY <1>1, StoreInit, StoreStep, PTL DEF Spec, LinkedSnapshotStays

\* Retention never takes the last archive that can be restored, while the flags of the
\* side-cars are true.
THEOREM LastGoodStays == Spec => AnchorSurvives
  <1>1. StoreInv /\ [Next]_vars =>
          [Evict /\ Intact # {} /\ (\A f \in DOMAIN side : side[f].ok = disk[f].intact)
             => \E f \in DOMAIN disk' : f \in Intact]_vars
    <2> SUFFICES ASSUME StoreInv, Evict, Intact # {},
                        \A f \in DOMAIN side : side[f].ok = disk[f].intact
                 PROVE  \E f \in DOMAIN disk' : f \in Intact
      OBVIOUS
    <2> DEFINE archive == {f \in DOMAIN side : side[f].source = "archive"}
               good == {f \in archive : side[f].ok}
    <2>1. PICK deleted \in SUBSET Victims(side, current) : disk' = Drop(disk, deleted)
      BY EvictsWhatIsThere
    <2>2. good = Intact
      BY EvictsWhatIsThere DEF Intact, StoreInv, FileShapes
    <2>3. Max(good) \in good /\ \A g \in good : g <= Max(good)
      <3>1. Intact \subseteq 0 .. taken /\ taken \in Nat
        BY DEF Intact, StoreInv, FileShapes
      <3> QED
        BY <2>2, <3>1, MaxOfBounded
    <2>4. Max(good) \in Anchor(side, archive)
      <3>1. \A g \in good : g \in Nat
        BY <2>2 DEF Intact, StoreInv, FileShapes
      <3>2. {g \in good : g > Max(good)} = {}
        <4> HIDE DEF good
        <4> QED
          BY <2>3, <3>1
      <3>3. Cardinality({g \in good : g > Max(good)}) = 0
        BY <3>2, FS_EmptySet
      <3> QED
        BY <2>3, <3>3 DEF Anchor, Newest
    <2>5. Max(good) \notin Victims(side, current)
      BY <2>4 DEF Victims
    <2>6. Max(good) \in DOMAIN disk
      BY <2>2, <2>3 DEF Intact
    <2> HIDE DEF good
    <2>7. Max(good) \in DOMAIN disk'
      BY <2>1, <2>5, <2>6 DEF Drop, Restrict
    <2> QED
      BY <2>2, <2>3, <2>7
  <1> QED
    BY <1>1, StoreInit, StoreStep, PTL DEF Spec, AnchorSurvives
-----------------------------------------------------------------------------
(* The pointer, while nothing is restored *)

\* Contents a step may add to the disk or to an upload.
Late(c) == Known(c, live'.log) /\ (JobBefore' => Behind(c, live'.log))

LEMMA PointerSteps ==
    ASSUME StoreInv, StoreInv', PointerInv,
           live'.data # 0, live'.log <= fresh', live.log <= live'.log,
           JobBefore' => JobBefore \/ live.log < live'.log,
           \A f \in DOMAIN disk' :
               \/ f \in DOMAIN disk /\ disk'[f].content = disk[f].content
               \/ Late(disk'[f].content),
           \A p \in Procs \ {Job} : mem'[p].pc = "dumped" =>
               \/ mem[p].pc = "dumped" /\ mem'[p].content = mem[p].content
               \/ Late(mem'[p].content),
           JobBehind', PointerNamesADump'
    PROVE  PointerInv'
  <1>1. live.log \in Nat /\ live'.log \in Nat
    BY DEF StoreInv, FileShapes, Contents
  <1>2. ASSUME NEW c \in Contents, Known(c, live.log), JobBefore => Behind(c, live.log)
        PROVE  Late(c)
    <2>1. c.log \in Nat
      BY <1>2 DEF Contents
    <2> QED
      BY <1>1, <1>2, <2>1 DEF Late, Known, Behind
  <1>3. ASSUME NEW f \in DOMAIN disk' PROVE Late(disk'[f].content)
    <2>1. CASE f \in DOMAIN disk /\ disk'[f].content = disk[f].content
      BY <1>2, <2>1 DEF PointerInv, ContentsBehind, StoreInv, FileShapes
    <2> QED
      BY <1>3, <2>1
  <1>4. ASSUME NEW p \in Procs \ {Job}, mem'[p].pc = "dumped" PROVE Late(mem'[p].content)
    <2>1. CASE mem[p].pc = "dumped" /\ mem'[p].content = mem[p].content
      BY <1>2, <2>1, MemoryOf DEF PointerInv, ContentsBehind
    <2> QED
      BY <1>4, <2>1
  <1> QED
    BY <1>3, <1>4 DEF Late, PointerInv, ContentsBehind
\* The job waits, or goes on with the dump it has.
LEMMA PointerAside ==
    ASSUME StoreInv, StoreInv', PointerInv, mem'[Job] = mem[Job],
           live'.log = live.log, live'.data # 0, fresh <= fresh',
           \A f \in DOMAIN disk' :
               \/ f \in DOMAIN disk /\ disk'[f].content = disk[f].content
               \/ Late(disk'[f].content),
           \A p \in Procs \ {Job} : mem'[p].pc = "dumped" =>
               \/ mem[p].pc = "dumped" /\ mem'[p].content = mem[p].content
               \/ Late(mem'[p].content),
           PointerNamesADump'
    PROVE  PointerInv'
  <1>1. live.log \in Nat /\ live'.log \in Nat /\ fresh \in Nat /\ fresh' \in Nat
    BY DEF StoreInv, FileShapes, Contents
  <1>2. live'.log <= fresh' /\ live.log <= live'.log
    BY <1>1 DEF PointerInv, ContentsBehind
  <1>3. JobBefore' => JobBefore
    BY DEF JobBefore
  <1>4. JobBehind'
    BY DEF PointerInv, JobBehind
  <1> QED
    BY <1>2, <1>3, <1>4, PointerSteps

\* The job ends or fails: a row in the log.
LEMMA PointerLogged ==
    ASSUME StoreInv, StoreInv', PointerInv, Logged, mem'[Job] = Resting,
           \A f \in DOMAIN disk' :
               \/ f \in DOMAIN disk /\ disk'[f].content = disk[f].content
               \/ \E q \in Procs : mem[q].pc = "dumped" /\ disk'[f].content = mem[q].content,
           \A p \in Procs \ {Job} : mem'[p].pc = "dumped" =>
               mem[p].pc = "dumped" /\ mem'[p].content = mem[p].content,
           PointerNamesADump'
    PROVE  PointerInv'
  <1>1. live.log \in Nat /\ live.data \in Nat /\ fresh \in Nat /\ live.log <= fresh /\ live.data # 0
    BY DEF StoreInv, FileShapes, Contents, PointerInv, ContentsBehind
  <1>2. fresh' = fresh + 1 /\ live'.log = fresh + 1 /\ live'.data = live.data
    BY DEF Logged, StoreInv, FileShapes, Contents
  <1>3. live'.log <= fresh' /\ live.log < live'.log /\ live.log <= live'.log /\ live'.data # 0
    BY <1>1, <1>2
  <1>4. JobBehind'
    BY RestingIs DEF JobBehind
  <1>5. ASSUME NEW q \in Procs, mem[q].pc = "dumped" PROVE Late(mem[q].content)
    <2>1. mem[q].content.log \in Nat
      BY MemoryOf DEF Contents
    <2>2. Known(mem[q].content, live.log)
      BY <1>1, <1>5, <2>1 DEF PointerInv, ContentsBehind, JobBehind, Known
    <2> QED
      BY <1>1, <1>2, <1>3, <2>1, <2>2 DEF Late, Known, Behind
  <1> QED
    BY <1>3, <1>4, <1>5, PointerSteps

LEMMA PointerAbort ==
    ASSUME StoreInv, StoreInv', PointerInv, NEW p \in Procs, Abort(p), UNCHANGED files
    PROVE  PointerInv'
  <1>1. mem'[p] = Resting /\ \A q \in Procs \ {p} : mem'[q] = mem[q]
    BY DEF Abort, StoreInv
  <1>2. UNCHANGED disk /\ PointerNamesADump'
    BY DEF PointerInv, PointerNamesADump, files
  <1>3. CASE p = Job
    BY <1>1, <1>2, <1>3, PointerLogged DEF Abort
  <1>4. CASE p # Job
    <2>1. UNCHANGED database /\ mem'[Job] = mem[Job]
      BY <1>1, <1>4 DEF Abort, Procs
    <2>2. live' = live /\ live'.data # 0 /\ fresh <= fresh'
      BY <2>1 DEF database, PointerInv, ContentsBehind, StoreInv, FileShapes
    <2> QED
      BY <1>1, <1>2, <2>1, <2>2, RestingIs, PointerAside
  <1> QED
    BY <1>3, <1>4

\* Steps of others that dump nothing.
LEMMA PointerOthers ==
    ASSUME StoreInv, StoreInv', PointerInv, NEW p \in Procs \ {Job},
           \/ \E f \in DOMAIN disk : NameRequest(p, f)
           \/ UploadRequest(p) \/ View(p) \/ EndView(p)
           \/ BeginListing(p) \/ EndListing(p)
           \/ Name(p) \/ NameOrphan(p) \/ NameRebuilt(p) \/ NameFails(p) \/ DumpFails(p)
    PROVE  PointerInv'
  <1>1. CASE Abort(p) /\ UNCHANGED files
    BY <1>1, PointerAbort
  <1>2. CASE ~(Abort(p) /\ UNCHANGED files)
    <2>1. /\ mem' = [mem EXCEPT ![p] = mem'[p]] /\ UNCHANGED <<disk, current, database>>
          /\ mem'[p].pc = "dumped" => mem[p].pc = "dumped" /\ mem'[p].content = mem[p].content
      BY <1>2, MemoryOf, RestingIs DEF MemFields, NameRequest, UploadRequest, View, EndView,
         BeginListing, EndListing, Name, NameOrphan, NameRebuilt, NameFails, DumpFails, files
    <2>2. mem'[Job] = mem[Job] /\ \A q \in Procs \ {p} : mem'[q] = mem[q]
      BY <2>1 DEF StoreInv, Procs
    <2>3. live' = live /\ live'.data # 0 /\ fresh <= fresh' /\ PointerNamesADump'
      BY <2>1 DEF database, PointerInv, ContentsBehind, StoreInv, FileShapes, PointerNamesADump
    <2> QED
      BY <2>1, <2>2, <2>3, PointerAside
  <1> QED
    BY <1>1, <1>2

\* Steps of the job that neither dump nor end it.
LEMMA PointerJob ==
    ASSUME StoreInv, StoreInv', PointerInv,
           \/ Backup \/ Reverify \/ Check \/ Flag \/ Checked
           \/ BeginListing(Job) \/ EndListing(Job) \/ DumpFails(Job)
    PROVE  PointerInv'
  <1>1. Job \in Procs
    BY DEF Procs
  <1>2. CASE Abort(Job) /\ UNCHANGED files
    BY <1>1, <1>2, PointerAbort
  <1>3. CASE ~(Abort(Job) /\ UNCHANGED files)
    <2>1. /\ mem' = [mem EXCEPT ![Job] = mem'[Job]] /\ UNCHANGED <<disk, current, database>>
      BY <1>1, <1>3, MemoryOf DEF Backup, Reverify, Check, Flag, Checked, BeginListing, EndListing,
         DumpFails, files
    <2>2. \A q \in Procs \ {Job} : mem'[q] = mem[q]
      BY <1>1, <2>1 DEF StoreInv
    <2>3. live' = live /\ live'.data # 0 /\ fresh' = fresh /\ PointerNamesADump'
      BY <2>1 DEF database, PointerInv, ContentsBehind, PointerNamesADump
    <2>4. live'.log <= fresh' /\ live.log <= live'.log
      BY <2>3 DEF PointerInv, ContentsBehind, StoreInv, FileShapes, Contents
    <2>5. (JobBefore' => JobBefore) /\ JobBehind'
      <3>1. CASE Backup
        BY <1>1, <3>1, MemoryOf DEF MemFields, Backup, JobBefore, JobBehind
      <3>2. CASE Reverify \/ Check \/ Flag \/ Checked
        <4>1. mem'[Job].pc \in {"checking", "flagging", "evicting"}
          <5>1. CASE Reverify
            <6>1. PICK todo : mem' = [mem EXCEPT ![Job] = [Resting EXCEPT !.pc = "checking", !.todo = todo]]
              BY <5>1 DEF Reverify
            <6> QED
              BY <1>1, <6>1, MemoryOf, RestingIs DEF MemFields
          <5>2. CASE Check
            <6> DEFINE f == Max({t[1] : t \in mem[Job].todo})
                       rest == {t \in mem[Job].todo : t[1] # f}
                       verdict == disk[f].intact
            <6>1. /\ mem[Job].pc = "checking"
                  /\ \/ mem' = [mem EXCEPT ![Job].pc = "flagging", ![Job].file = f,
                                           ![Job].ok = verdict, ![Job].todo = rest]
                     \/ mem' = [mem EXCEPT ![Job].todo = rest]
              BY <5>2 DEF Check
            <6> HIDE DEF f, rest, verdict
            <6> QED
              BY <1>1, <6>1, MemoryOf DEF MemFields
          <5>3. CASE Flag \/ Checked
            BY <1>1, <1>3, <5>3, MemoryOf DEF MemFields, Flag, Checked
          <5> QED
            BY <3>2, <5>1, <5>2, <5>3
        <4> QED
          BY <4>1 DEF JobBefore, JobBehind
      <3>3. CASE BeginListing(Job)
        <4>1. /\ mem'[Job].pc = mem[Job].pc /\ mem'[Job].content = mem[Job].content
              /\ mem'[Job].list[1].side = side
          BY <1>1, <3>3, MemoryOf DEF MemFields, BeginListing
        <4>2. mem[Job].pc = "dumped" => \A f \in DOMAIN side : Behind(side[f].hash, live.log)
          <5>1. Behind(Unhashed, live.log)
            BY DEF Behind, Unhashed
          <5> QED
            BY <5>1 DEF StoreInv, FileShapes, PointerInv, ContentsBehind, JobBefore
        <4> QED
          BY <2>3, <4>1, <4>2 DEF PointerInv, JobBefore, JobBehind
      <3>4. CASE EndListing(Job)
        <4> DEFINE found == mem[Job].list[1]
                   rebuilt == [f \in found.orphans |-> Rebuilt(f)]
        <4>1. /\ mem' = [mem EXCEPT ![Job].list =
                            <<[found EXCEPT !.orphans = {}, !.side = Over(rebuilt, @)]>>]
              /\ mem[Job].list # <<>> /\ AtListing(Job)
          BY <1>3, <3>4 DEF EndListing
        <4>2. DOMAIN found = ListFields
          BY <1>1, <4>1 DEF StoreInv, ProcInv, MemShape
        <4>3. /\ mem'[Job].pc = mem[Job].pc /\ mem'[Job].content = mem[Job].content
              /\ mem'[Job].list[1].side = Over(rebuilt, found.side)
          BY <1>1, <4>1, <4>2, MemoryOf DEF MemFields, ListFields
        <4>4. \A f \in DOMAIN Over(rebuilt, found.side) :
                \/ Over(rebuilt, found.side)[f].hash = Unhashed
                \/ f \in DOMAIN found.side /\ Over(rebuilt, found.side)[f] = found.side[f]
          BY RebuiltIs DEF Over
        <4>5. Behind(Unhashed, live.log)
          BY DEF Behind, Unhashed
        <4> HIDE DEF rebuilt
        <4> QED
          BY <2>3, <4>1, <4>3, <4>4, <4>5 DEF PointerInv, JobBefore, JobBehind
      <3> QED
        BY <1>3, <3>1, <3>2, <3>3, <3>4 DEF DumpFails
    <2> QED
      BY <2>1, <2>2, <2>3, <2>4, <2>5, PointerSteps
  <1> QED
    BY <1>2, <1>3
\* While nothing is restored, a dump of the database is never one that is there.
LEMMA JobDumpsNew ==
    ASSUME StoreInv, PointerInv, mem[Job].pc = "dumped"
    PROVE  Duplicates(Job) = {}
  <1>1. ~Behind(mem[Job].content, live.log)
    <2>1. live.log \in Nat
      BY DEF StoreInv, FileShapes, Contents
    <2> QED
      BY <2>1 DEF PointerInv, JobBehind, Behind
  <1>2. ASSUME NEW f \in DOMAIN Seen(Job).side PROVE Behind(Seen(Job).side[f].hash, live.log)
    <2>1. CASE mem[Job].list = <<>>
      <3>1. Seen(Job).side = side /\ Behind(Unhashed, live.log)
        BY <2>1 DEF Seen, Behind, Unhashed
      <3> QED
        BY <1>2, <3>1 DEF StoreInv, FileShapes, PointerInv, ContentsBehind, JobBefore
    <2>2. CASE mem[Job].list # <<>>
      BY <1>2, <2>2 DEF Seen, PointerInv, JobBehind
    <2> QED
      BY <2>1, <2>2
  <1> QED
    BY <1>1, <1>2 DEF Duplicates

LEMMA PointerDump ==
    ASSUME StoreInv, StoreInv', PointerInv, NEW p \in {Job} \cup Uploads, Dump(p)
    PROVE  PointerInv'
  <1>1. p \in Procs /\ Job \in Procs
    BY DEF Procs
  <1>2. PICK content \in IF p \in Uploads THEN Uploadable ELSE {live} :
          mem' = [mem EXCEPT ![p].pc = "dumped", ![p].content = content]
    BY DEF Dump
  <1>3. /\ \A q \in Procs \ {p} : mem'[q] = mem[q]
        /\ mem'[p].content = content /\ mem'[p].pc = "dumped" /\ mem'[p].list = <<>>
        /\ UNCHANGED <<files, database>> /\ mem[p].pc = "queued"
    BY <1>1, <1>2, MemoryOf DEF MemFields, Dump, AtListing
  <1>4. UNCHANGED disk /\ PointerNamesADump'
    BY <1>3 DEF PointerInv, PointerNamesADump, files
  <1>5. live' = live /\ live'.data # 0 /\ fresh' = fresh /\ live.log <= fresh /\ live.log \in Nat
    BY <1>3 DEF database, PointerInv, ContentsBehind, StoreInv, FileShapes, Contents
  <1>6. CASE p = Job
    <2>1. content = live
      BY <1>2, <1>6, StoreAssumption
    <2>2. JobBehind' /\ (JobBefore' => JobBefore)
      BY <1>3, <1>5, <1>6, <2>1 DEF JobBehind, JobBefore
    <2> QED
      BY <1>3, <1>4, <1>5, <1>6, <2>2, PointerSteps
  <1>7. CASE p \in Uploads
    <2>1. p # Job /\ mem'[Job] = mem[Job]
      BY <1>1, <1>3, <1>7, StoreAssumption
    <2>2. Known(content, live.log) /\ (JobBefore => Behind(content, live.log))
      <3>1. CASE content = Foreign
        BY <3>1 DEF Foreign, Known, Behind
      <3>2. CASE \E f \in DOMAIN disk : content = disk[f].content
        BY <3>2 DEF PointerInv, ContentsBehind
      <3> QED
        BY <1>2, <1>7, <3>1, <3>2 DEF Uploadable
    <2>3. Late(mem'[p].content)
      BY <1>3, <1>5, <2>1, <2>2 DEF Late, JobBefore
    <2>4. live'.log = live.log /\ fresh <= fresh'
      BY <1>5 DEF StoreInv, FileShapes
    <2> QED
      BY <1>3, <1>4, <1>5, <2>1, <2>3, <2>4, PointerAside
  <1> QED
    BY <1>6, <1>7

LEMMA PointerFinalize ==
    ASSUME StoreInv, StoreInv', PointerInv, NEW p \in {Job} \cup Uploads, Finalize(p)
    PROVE  PointerInv'
  <1>1. p \in Procs /\ Job \in Procs
    BY DEF Procs
  <1>2. /\ mem[p].pc = "dumped" /\ UNCHANGED database
        /\ \A q \in Procs \ {p} : mem'[q] = mem[q]
    BY <1>1, MemoryOf DEF Finalize
  <1>3. live' = live /\ live'.data # 0 /\ fresh' = fresh /\ live.log <= fresh /\ live.log \in Nat
    BY <1>2 DEF database, PointerInv, ContentsBehind, StoreInv, FileShapes, Contents
  <1>4. ASSUME NEW f \in DOMAIN disk'
        PROVE  \/ f \in DOMAIN disk /\ disk'[f].content = disk[f].content
               \/ disk'[f].content = mem[p].content
    <2>1. CASE disk' = Put(taken + 1, Dumped(p), disk)
      BY <1>4, <2>1 DEF Put, Over, Dumped
    <2>2. CASE disk' = disk
      BY <1>4, <2>2
    <2> QED
      BY <2>1, <2>2 DEF Finalize
  <1>5. CASE p = Job
    <2>1. Duplicates(Job) = {} /\ Keep(Job) = taken + 1 /\ Job \notin Uploads
      BY <1>1, <1>2, <1>5, JobDumpsNew, KeepIs, StoreAssumption
    <2>2. current' = taken + 1 /\ disk' = Put(taken + 1, Dumped(Job), disk)
      BY <1>5, <2>1 DEF Finalize
    <2>3. PointerNamesADump'
      BY <2>2 DEF PointerNamesADump, Put, Over
    <2>4. mem'[Job].pc = "reverifying"
      <3>1. mem' = [mem EXCEPT ![Job] = [Resting EXCEPT !.pc = "reverifying"]]
        BY <1>5, StoreAssumption DEF Finalize
      <3> QED
        BY <1>1, <3>1, MemoryOf, RestingIs DEF MemFields
    <2>5. JobBehind' /\ ~JobBefore'
      BY <2>4 DEF JobBehind, JobBefore
    <2>6. Late(mem[Job].content)
      BY <1>2, <1>3, <1>5, <2>5 DEF Late, Known, PointerInv, JobBehind
    <2> QED
      BY <1>2, <1>3, <1>4, <1>5, <2>3, <2>5, <2>6, PointerSteps
  <1>6. CASE p \in Uploads
    <2>1. p # Job /\ mem'[Job] = mem[Job]
      BY <1>1, <1>2, <1>6, StoreAssumption
    <2>2. Late(mem[p].content)
      BY <1>1, <1>2, <1>3, <2>1 DEF Late, JobBefore, PointerInv, ContentsBehind
    <2>3. PointerNamesADump'
      <3>1. current' = current /\ DOMAIN disk \subseteq DOMAIN disk'
        BY <1>6 DEF Finalize, Put, Over
      <3> QED
        BY <3>1 DEF PointerInv, PointerNamesADump
    <2>4. mem'[p].pc # "dumped"
      <3>1. p \notin Restores
        BY <1>6, StoreAssumption
      <3> QED
        BY <1>1, <1>6, <2>1, <3>1, MemoryOf, RestingIs DEF Finalize
    <2>5. live'.log = live.log /\ fresh <= fresh'
      BY <1>3 DEF StoreInv, FileShapes
    <2> QED
      BY <1>2, <1>3, <1>4, <2>1, <2>2, <2>3, <2>4, <2>5, PointerAside
  <1> QED
    BY <1>5, <1>6

LEMMA PointerEvict ==
    ASSUME StoreInv, StoreInv', PointerInv, Evict
    PROVE  PointerInv'
  <1>1. PICK gone : /\ disk' = Drop(disk, gone)
                    /\ current' = IF current \in gone THEN 0 ELSE current
    BY DEF Evict
  <1>2. \A f \in DOMAIN disk' : f \in DOMAIN disk /\ disk'[f] = disk[f]
    BY <1>1 DEF Drop, Restrict
  <1>3. PointerNamesADump'
    BY <1>1 DEF PointerInv, PointerNamesADump, Drop, Restrict
  <1>4. mem'[Job] = Resting /\ Logged /\ \A q \in Procs \ {Job} : mem'[q] = mem[q]
    BY DEF Evict, StoreInv, Procs
  <1> QED
    BY <1>2, <1>3, <1>4, PointerLogged

\* Steps outside the requests.
LEMMA PointerOutside ==
    ASSUME StoreInv, StoreInv', PointerInv,
           \/ \E f \in DOMAIN disk : Delete(f) \/ Damage(f)
           \/ Edit \/ UNCHANGED vars
    PROVE  PointerInv'
  <1>1. /\ mem' = mem /\ live'.log = live.log /\ live'.data # 0 /\ fresh <= fresh'
    <2>1. CASE Edit
      BY <2>1 DEF Edit, StoreInv, FileShapes, Contents
    <2>2. CASE UNCHANGED <<mem, database>>
      BY <2>2 DEF database, StoreInv, FileShapes, PointerInv, ContentsBehind
    <2> QED
      BY <2>1, <2>2 DEF Delete, Damage, vars, database
  <1>2. ASSUME NEW f \in DOMAIN disk' PROVE f \in DOMAIN disk /\ disk'[f].content = disk[f].content
    <2>1. CASE \E g \in DOMAIN disk : Delete(g)
      BY <1>2, <2>1 DEF Delete, Drop, Restrict
    <2>2. CASE \E g \in DOMAIN disk : Damage(g)
      BY <1>2, <2>2 DEF Damage, StoreInv, FileShapes, DiskFields
    <2>3. CASE UNCHANGED disk
      BY <1>2, <2>3
    <2> QED
      BY <2>1, <2>2, <2>3 DEF Edit, vars, files
  <1>3. PointerNamesADump'
    <2>1. CASE \E g \in DOMAIN disk : Delete(g)
      BY <2>1 DEF Delete, Drop, Restrict, PointerInv, PointerNamesADump
    <2>2. CASE \E g \in DOMAIN disk : Damage(g)
      BY <2>2 DEF Damage, PointerInv, PointerNamesADump
    <2>3. CASE UNCHANGED <<disk, current>>
      BY <2>3 DEF PointerInv, PointerNamesADump
    <2> QED
      BY <2>1, <2>2, <2>3 DEF Edit, vars, files
  <1> QED
    BY <1>1, <1>2, <1>3, PointerAside

LEMMA PointerCrash ==
    ASSUME StoreInv, StoreInv', PointerInv, Crash
    PROVE  PointerInv'
  <1>1. /\ mem' = [q \in Procs |-> Resting] /\ current' = current /\ Job \in Procs
        /\ (mem[Job].pc = "idle" /\ UNCHANGED database) \/ Logged
    BY DEF Crash, Procs
  <1>2. ASSUME NEW f \in DOMAIN disk'
        PROVE  \/ f \in DOMAIN disk /\ disk'[f].content = disk[f].content
               \/ \E q \in Procs : mem[q].pc = "dumped" /\ disk'[f].content = mem[q].content
    <2>1. CASE disk' = disk
      BY <1>2, <2>1
    <2>2. ASSUME NEW q \in Procs, mem[q].pc = "dumped", disk' = Put(taken + 1, Dumped(q), disk)
          PROVE  \/ f \in DOMAIN disk /\ disk'[f].content = disk[f].content
                 \/ disk'[f].content = mem[q].content
      BY <1>2, <2>2 DEF Put, Over, Dumped
    <2> QED
      BY <2>1, <2>2 DEF Crash
  <1>3. PointerNamesADump'
    <2>1. DOMAIN disk \subseteq DOMAIN disk'
      BY DEF Crash, Put, Over
    <2> QED
      BY <1>1, <2>1 DEF PointerInv, PointerNamesADump
  <1>4. mem'[Job] = Resting /\ \A q \in Procs : mem'[q].pc # "dumped"
    BY <1>1, RestingIs
  <1>5. CASE Logged
    BY <1>2, <1>3, <1>4, <1>5, PointerLogged
  <1>6. CASE mem[Job].pc = "idle" /\ UNCHANGED database
    <2>1. JobBefore /\ JobBehind'
      BY <1>1, <1>4, <1>6 DEF JobBefore, JobBehind
    <2>2. live' = live /\ live'.data # 0 /\ fresh' = fresh /\ live.log <= fresh /\ live.log \in Nat
      BY <1>6 DEF database, PointerInv, ContentsBehind, StoreInv, FileShapes, Contents
    <2>3. ASSUME NEW q \in Procs, mem[q].pc = "dumped" PROVE Late(mem[q].content)
      BY <1>6, <2>1, <2>2, <2>3 DEF Late, PointerInv, ContentsBehind
    <2> QED
      BY <1>2, <1>3, <1>4, <2>1, <2>2, <2>3, PointerSteps
  <1> QED
    BY <1>1, <1>5, <1>6

LEMMA PointerStep == Restores = {} => (StoreInv /\ StoreInv' /\ PointerInv /\ [Next]_vars => PointerInv')
  <1> SUFFICES ASSUME Restores = {}, StoreInv, StoreInv', PointerInv, [Next]_vars PROVE PointerInv'
    OBVIOUS
  <1> USE DEF Procs
  <1>1. CASE Backup \/ JobStep
    BY <1>1, PointerJob, PointerEvict DEF JobStep
  <1>2. ASSUME NEW p \in {Job} \cup Uploads, DumpStep(p) PROVE PointerInv'
    BY <1>2, PointerDump, PointerFinalize, PointerJob, PointerOthers DEF DumpStep
  <1>3. ASSUME NEW p \in Procs \ {Job},
               UploadRequest(p) \/ View(p) \/ EndView(p) \/ BeginListing(p) \/ EndListing(p)
        PROVE  PointerInv'
    BY <1>3, PointerOthers
  <1>4. ASSUME NEW p \in Namers, NamerStep(p) PROVE PointerInv'
    BY <1>4, PointerOthers, StoreAssumption DEF NamerStep
  <1>5. CASE BeginListing(Job) \/ EndListing(Job)
    BY <1>5, PointerJob
  <1>6. CASE (\E f \in DOMAIN disk : Delete(f) \/ Damage(f)) \/ Edit \/ UNCHANGED vars
    BY <1>6, PointerOutside
  <1>7. CASE Crash
    BY <1>7, PointerCrash
  <1> QED
    BY <1>1, <1>2, <1>3, <1>4, <1>5, <1>6, <1>7, StoreAssumption DEF Next

\* As long as nobody restores, the pointer names a dump that is there: what the job has
\* dumped is new, so it never points at a duplicate deleted since the listing
\* (create_backup).
THEOREM PointerStays == Restores = {} => (Spec => []PointerNamesADump)
  <1> SUFFICES ASSUME Restores = {} PROVE Spec => []PointerNamesADump
    OBVIOUS
  <1>1. Init => PointerInv
    <2> SUFFICES ASSUME Init PROVE PointerInv
      OBVIOUS
    <2>1. /\ disk = <<>> /\ current = 0 /\ fresh = 1 /\ live = [data |-> 1, log |-> 1]
          /\ \A p \in Procs : mem[p] = Resting
      BY DEF Init
    <2>2. DOMAIN disk = {} /\ live.log = 1 /\ live.data = 1 /\ Job \in Procs
      BY <2>1 DEF Procs
    <2> QED
      BY <2>1, <2>2, RestingIs DEF PointerInv, ContentsBehind, JobBehind, PointerNamesADump
  <1>2. StoreInv /\ StoreInv' /\ PointerInv /\ [Next]_vars => PointerInv'
    BY PointerStep
  <1>3. PointerInv => PointerNamesADump
    BY DEF PointerInv
  <1> QED
    BY <1>1, <1>2, <1>3, StoreInit, StoreStep, PTL DEF Spec
=============================================================================
