# phsar: specification and verification

phsar is a self-hosted anime library: a FastAPI backend over one PostgreSQL
database (with pgvector), a Svelte front end, and a scraper of the MyAnimeList
API (v2).  The backend is **one process with one event loop**; everything that
outlives a request goes through a `jobs` table drained by **one worker task**, and a
few pieces of process memory (the maintenance flag, the banner time, the worker's two
events, the backup locks) coordinate requests, the worker and restores.

This directory holds TLA+ models of the parts of that program whose correctness
depends on *order*: who acts between two awaits, what a crash leaves behind, which
rows a rerun writes twice.  The models are translated from the code under `src/`, with
the lines each definition stands for listed in `PROJECT.json` under `map`.

## 1. The system: inventory

Sources are relative to `src/phsar/app/`.

### 1.1 Job queue and worker (`services/job_worker.py`, `daos/job_dao.py`, `routers/admin_jobs.py`, `services/seasonal_sweep_dispatcher.py`, `main.py`)

*State.* The `jobs` rows (kind, status, scheduled_for, created_at, parent) and their id
sequence, in the database; in memory the worker's position in `dispatch_one`, its
local job, and the events `_wakeup` and `_stop_event`.
*Operations.* enqueue (three admin endpoints, the nightly scheduler, the user scrape
endpoint, the season sweep's children), claim, dispatch, mark succeeded or failed,
reap at start, stop, cancel.
*Hard behaviour.* A wake-up lost between an empty claim and `_wakeup.clear()`; a commit
whose acknowledgement is lost; an exception, a cancellation or an early return between
claim and outcome; a crash anywhere.
*Correct when.* No job is stranded in `running`; every queued job starts; history is
final; a job's life is queued, running, terminal, and nothing else.

### 1.2 Maintenance gate and banner (`core/maintenance.py`, `core/maintenance_middleware.py`)

*State.* Two globals: the flag that makes every request but the scheduler's answer
503, and the banner's announced time.
*Operations.* raise and lower (the worker, a restore), announce (the schedule
endpoints), clear (the worker when a sweep ends).
*Correct when.* The flag is up exactly inside a window and always comes down; the
banner never announces a sweep that is not queued; one window has one owner.

### 1.3 Database restore (`services/backup_service.py`, `services/backup_dispatcher.py`)

*State.* The whole database, replaced by `pg_restore`; the staging table that carries
the audit rows through a dump; the backup write lock.
*Hard behaviour.* The jobs table and its sequence disappear under the worker and under
requests; the merge of the audit rows runs outside the lock; the flag is raised only
after the minutes-long snapshot.

### 1.4 Backup store (`services/backup_service.py`)

*State.* Dump files with JSON side-car files in one directory, the current-backup
pointer file, the write lock.
*Operations.* create with deduplication, upload, rename/protect/re-verify, delete,
retention, ensure an up-to-date backup at start.
*Hard behaviour.* Files are renamed, deleted and read without one lock covering all of
them; a crash can fall between the dump's rename and its side-car.

### 1.5 Scrape admission (`services/job_submission_service.py`)

*State.* The jobs rows a user owns.  *Operations.* `POST /jobs/scrape`: per-user cap,
daily cap, duplicate check, insert; a season sweep's children; the paged Jobs Log.
*Hard behaviour.* Every check is a query before the insert, with awaits between: two
requests see the same counts.  Pages are read by offset while rows are added at the head.
*Correct when.* A limit is passed by the overlap and no more; a reader of the log misses
no row.

### 1.6 Catalogue sweep (`services/scrape_dispatcher.py`)

*State.* The freshness rows of anime and media (tier, stability counter, next check),
the failure breaker, the per-run cap.
*Operations.* pick due entries, refresh one, probe relations, bump stability, save.
*Correct when.* An entry that changes is never left on the slow tier, a broken
upstream does not mark anything stable, one failing entry does not stop the rest.

### 1.7 Scraper and relation walk (`services/mal_scraper.py`, `services/save_service.py`, `services/unwanted_media_service.py`)

*State.* The breadth-first search's frontier and its exclusion set; the saved anime and
media.  *Operations.* anchor discovery, search, save, attach, mark unwanted.
*Hard behaviour.* The roots of one scrape share what they have visited, a dropped root
gives its media back, and the catalogue is read once before minutes of walking.
*Correct when.* Every media ends in one graph and none is lost.

### 1.8 Franchise classification (`services/relation_classifier.py`, `services/merge_detection_service.py`, `services/media_linking_service.py`)

*State.* Relation edges and the component each media belongs to.  *Operations.* classify
main and side entries, find disjoint franchises, detect merges.  A pure algorithm.
*Correct when.* What is announced demotes nothing that has aired; a bundle that is cut out
leaves the rest as it was; the spoiler frontier on the labels is the documented one.

### 1.9 Curation (`services/merge_candidate_service.py`, `services/split_candidate_service.py`, `services/delete_candidate_service.py`)

*State.* Candidate rows (pending, dismissed, done), anime and media, the users' rows
that hang on them.
*Operations.* detect (upsert pending), dismiss, restore a decision, merge, split, remove.
*Hard behaviour.* A candidate decided from one page can be stale when executed;
upserts are check-then-insert; a merge moves other users' rows.
*Correct when.* A candidate is decided once, a dismissal sticks, names and labels follow
the media, and no media goes down with the anime it has just left (it can: section 6).

### 1.10 Ratings, watch events and visibility (`services/rating_service.py`, `services/spoiler_service.py`)

*State.* Ratings, watch events, the per-user cache of visible media.
*Operations.* upsert one or many, delete, log a rewatch, recompute the cache.
*Hard behaviour.* The first-watch event is inserted after a check; the cache must follow
every rating.
*Correct when.* The first watch is logged once, a completed rating has an event, the
visible set is what the ratings say.

### 1.11 Watch list and tags (`services/watchlist_service.py`, `services/tag_service.py`)

*State.* A user's list entries and tags.  *Operations.* upsert, bulk upsert, create tag
(with a cap), rename, delete, empty.
*Hard behaviour.* A bulk write puts back notes it has read; a list is deleted after its
entries were moved; the cap is counted before the insert.

### 1.12 Accounts (`services/auth_service.py`, `services/user_settings_service.py`, `seeders/user_seeder.py`)

*State.* Users with their settings, default list and spoiler cache; one-use registration
tokens.  *Operations.* create and delete a token, register, delete an account, change the
spoiler level, refresh every account's cache, the five passes of a start.
*Hard behaviour.* Checking and spending a token are two statements; a pass fails for one
user, or the process dies between two; a show is saved while an account is being made.
*Correct when.* Whoever is served has an account that is complete; a token admits one
account, or one per overlapping request.

### 1.13 Search (`daos/search_filters.py`, `daos/anime_dao.py`, `services/filter_service.py`, `services/anime_search_service.py`)

*State.* None of its own: the catalogue and the caller's rows.  *Operations.* filters,
sorts and passes at two grains, once in SQL and once in Python for the card.
*Hard behaviour.* Two translations of one aggregate; NULLs, zero weights, exact halves;
conditions that one media must meet, or two may.
*Correct when.* A card shows what the filter asked for; an anime is the roll-up of its media.

### 1.14 Search vectors (`services/vector_embedding_service.py`, `seeders/embedding_backfiller.py`, `seeders/anime_title_backfiller.py`)

*State.* A vector row beside each anime and media, encoded from their texts.
*Operations.* save, change by column, strip a title suffix, fill what is missing,
re-embed the whole catalogue in the background.
*Hard behaviour.* Encoding takes seconds between the read and the write; two changes of
one document overlap; a pass fails half-way.
*Correct when.* Nothing is without a vector after the first, and without an overlap
the vector is that of the text.

### 1.15 Browse and Discover (`services/browse_service.py`, `daos/discover_progress_dao.py`)

*State.* One row per user: how many moods they have drawn, on which day, and today's.
*Hard behaviour.* Spins race, midnight passes between two statements, a release changes
the wheel under a stored mood.
*Correct when.* One draw counts a day, and a mood comes once in a cycle.

### 1.16 The rest

Exports, statistics, completion, progress reporting, the seeding of genres and carousels,
the relation backfill, schemas, routers, migrations, the Svelte front end, Docker and CI.
They read, format or render; their state changes are single statements or run alone.

## 2. The modules

| module | models | extends / instantiates |
|---|---|---|
| `JobLifecycle` | what the jobs table promises: queued, running, terminal (abstract) | |
| `JobWorker` | the jobs table, the enqueueing endpoints, the worker task, the maintenance flag and banner, the process's life | instantiates `JobLifecycle` |
| `JobRestore` | `JobWorker` composed with restore requests that replace the database | extends `JobWorker` |
| `JobWorkerProofs` | the invariants of `JobWorker`, that it implements `JobLifecycle`, and the invariants of the composition with restores, proved | extends `JobRestore` |
| `BackupStore` | the backup directory: dumps, side-cars, pointer, retention | |
| `BackupStoreProofs` | what retention keeps, proved | extends `BackupStore` |
| `UpdateSweep` | the nightly refresh of the catalogue, its probes, its delete candidates | |
| `SpoilerFrontier` | `compute_visible_media`, a pure algorithm | |
| `RatingWrites` | concurrent rating requests, the watch events and the visibility cache | extends `SpoilerFrontier` |
| `RelationClassifier` | `relation_classifier.py`, a pure algorithm over a relation graph | |
| `TitleWalk` | a scrape: hits, anchors, the walk over MAL's relations, what is kept and where it goes | extends `RelationClassifier` |
| `TitleWalkProofs` | what a scrape keeps and where it may go; what a split leaves, what a new entry moves, what the frontier shows, proved | extends `MCFranchises` |
| `Curation` | merge and split rows, decided and detected by overlapping requests | extends `RelationClassifier` |
| `CurationProofs` | what an admin has decided stands, proved | extends `MCCuration` |
| `CatalogueSearch` | filters, sorts and cards at the two grains | |
| `CatalogueSearchProofs` | what the two grains and the two languages promise each other, proved | extends `MCCatalogueSearch` |
| `WatchLists` | a user's list entries and lists, written by overlapping requests | |
| `Accounts` | accounts with what hangs on them, registration tokens, the passes of a start | |
| `JobAdmission` | submissions with their limits, the season sweep's children, the paged Jobs Log | |
| `SearchVectors` | the vector beside every document, its changes and the passes over all | |
| `Discover` | the wheel of moods and one user's progress on it | |
| `Upkeep` | the last four over constants and variables of their own | instantiates `Accounts`, `JobAdmission`, `SearchVectors`, `Discover` |
| `UpkeepProofs` | their invariants, and that the sweep keeps to the blacklist, proved | extends `Upkeep`, `UpdateSweep` |
| `PersonalProofs` | the invariants of `RatingWrites` and `WatchLists`, proved | extends `MCPersonal` |
| `Counting` | limits that are counted first and written later, the highest, the lowest and the sum of finitely many numbers, quotients: lemmas | |
| `MC…` | constants, symmetry and small instances for TLC | extend the module they name |

Three MC modules compose: `MCFranchises` extends `TitleWalk` and takes `SpoilerFrontier` on
the labels the classifier gives; `MCPersonal` extends `MCRatingWrites` and instantiates
`WatchLists`; `MCUpkeep` extends `MCCuration` and `Upkeep`.  In the last two, no transaction of the code writes the state
of two of the parts, so a behaviour is of one of them (`half`, `part`) and the others stay
as they start.

Every operation, handler or step of the code is one action, and a step ends where the
code can be interleaved with something else: at an `await` that really suspends (the
models of one process), or at an SQL statement (`RatingWrites`, whose requests are
concurrent transactions).  Every module's mutants (`\* Mutant of …`) stand before the
definition they change; each is a plausible mistake in that code that one of the
properties catches, and no next-state relation uses them.

### 2.1 JobWorker and JobLifecycle

`rows` is the `jobs` table by primary key, `seq` its sequence.  `pc`, `job`, `failure`
are the program counter and locals of `JobWorker.dispatch_one` and its loop `_run`;
`wakeup` and `stop` are the two `asyncio.Event`s; `flag` and `scheduled` the two globals
of `core/maintenance.py`.  `handlers` holds the enqueueing requests between two of their
awaits: the jobs still to insert and the due time published after the commit.

| action | code |
|---|---|
| `Request`, `Insert`, `InsertFails`, `Announce` | the middleware's one check on entry; the insert and its commit; a failed insert (500, the plan's later jobs are lost); `set_scheduled_at` and `notify()` |
| `GateOpen`, `Claim`, `QueueEmpty`, `ClaimError` | the flag test at the head of `dispatch_one`; `claim_next_queued` with its `ORDER BY created_at` (ties open); nothing due; the claim session raises, before or after its commit |
| `FallAsleep`, `Wake`, `FallbackPoll`, `Retry` | `_wakeup.clear()`, the wait and its timeout, the pause after an exception |
| `Bracket`, `OpenWork`, `NoDispatcher`, `OpenError` | raise the flag for a sweep; the row read back; no dispatcher registered; the session plumbing raises |
| `EnqueueChildren`, `Succeed`, `Fail`, `SucceedUnacked` | a season sweep's flock; the outcome committed; the dispatcher raises; the commit lands but its acknowledgement does not |
| `LeaveBracket`, `RecordFailure`, `RecordError` | the `finally`; `mark_failed` in a session of its own, or not even that |
| `Stop`, `CancelTask`, `Shutdown`, `Crash`, `Restart` | the lifespan's end, `stop()`'s cancellation after 10 s, a crash at any await, `reap_orphans` and `start()` |

Abstracted: payloads, progress, retries inside a dispatcher, error texts.  What a
dispatcher does to the rest of the database is another module's matter; here it returns
or raises.

`JobLifecycle` has two variables: the status of every id and the id a live worker
holds.  The refinement maps `status` to the table's column and `held` to the worker's
local id while its outcome is unwritten (`Holding`).

### 2.2 JobRestore

Adds the restore requests (`rpc`, `target`), the newest dump as the database sees it
(`newest`: the terminal rows and the sequence), the staging table, the backup write lock
and the worker's backup job.  `PgRestore` replaces `rows`, `seq` and `staging` under the
worker and under requests in flight; the worker may then find its row gone
(`Vanished`) or write through an id it no longer owns.  `MergeAudit` is the one
transaction that inserts the staged rows where no row is, drops the table, moves the
sequence past the highest id and appends the restore's own row; `MergeSkipped` is its
failure or timeout.  `ComposedWorkerStep` lets every step of `JobWorker` through except
where `create_backup` is running.

### 2.3 BackupStore

A dump is a number (its creation order, hence its age), with a source, a content and
whether it is intact; `side` is its side-car.  A *content* is a pair of versions: the
data users write, and the log of finished jobs that every dump carries.  `mem` holds what
each process keeps between two awaits, the listing it read included.  Dedupe, the
pointer's moves, verification (`Reverify`, `Check`, `Flag`, `Checked`), retention
(`Evict`), upload, rename, delete and the file side of a restore are actions; a listing
is a step of its own only when it has to rebuild a missing side-car, because only then
does it suspend.

### 2.4 UpdateSweep

Time is counted in nights.  `mal` is what the upstream answers for every entry:
ordinary (airing or finished), gone (404), failing in a way that counts as an outage,
failing in one that does not, or flagged Hentai; `MalMoves` changes it at any moment.
`age`, `stable`, `order` are the media freshness rows; `probed`, `settled` the anime's;
`sweep` is the dispatcher's memory (queue, exclusions, run of failures).  One anime takes
two commits: `Refresh`, `RemoveHentai` or `RefreshFails`, then `SkipProbe`, `Probe` or
`ProbeFails`; `Finish` is the low-signal detector and the end.  The main entries of
an anime are the seeds of its probe (`SeedMedia`): one that step 1 has just refreshed is
walked from that answer (`payloads`), another is fetched again, and what it has become since
counts (`Turned`): a seed that is flagged by now is blacklisted in the catalogue and followed
only up to where its franchise starts (`Roots`).  `Moved` is what a refresh
counts as news, `Reached` what a batch learns about the upstream, `AttachTo` the anime a found
entry goes to.  `Rule` and `RemoveMedia`
are the administrator's decisions, kept out of a sweep by the maintenance gate.

### 2.5 SpoilerFrontier and RatingWrites

`SpoilerFrontier` translates the walk of `compute_visible_media` for one anime.
`RatingWrites` runs requests as transactions at READ COMMITTED, statement by statement:
what each has read, the rows it has locked, and what it will write are in `req[r]`; the
others see nothing before `Commit`.  Row locks, the wait for another transaction's
insert or delete of the same row, `ON CONFLICT DO NOTHING` and the stale-row error are
modelled as the database (external) behaves under how the code calls it.

### 2.6 RelationClassifier and TitleWalk

`RelationClassifier` translates the substance gate, the choice of the anchor (`PickAnchor`), the
labels of every other media (`Classify`) and the franchises that lie disjoint from the anchor's
(`DisjointFranchises`, `ClusterOf`), each as a set or function of the graph; what the code
collects with a queue is the least closed set (`Closure`).

`TitleWalk` has what MAL holds (`mal`, with what extraction makes of each entry), the
catalogue (`home`), the blacklist, and the locals of a scrape: the queue and the status table
of the root under way, the graphs and cross-links already ended, what is claimed.

| action | code |
|---|---|
| `Begin` | a title search, or a seed of a season sweep; the catalogue and the blacklist are read once |
| `NextRoot`, `Visit`, `EndGraph` | the next of the hits and the anchors above them (`RootOrders`); one node of the walk; the graph kept, or dropped and its media given back |
| `Judge`, `Save`, `Attach` | drop, attach or save each graph; the saves in one transaction, the attachments in the one that ends the job |
| `Fail`, `Finish` | a request MAL keeps refusing, or the process stops; the end |

### 2.7 Curation

`home` and `umbrella` are the catalogue, `relation` the labels, `rows` the merge and split
candidates with their status, as rows of one table that grows with each commit; `req` is what each request has read, locked and will write.
`Mark` (dismiss, restore), `StartMerge`, `Reparent`, `Drop` and `StartSplit`, `Cut`, then `Reload`,
`Settle`, `Flag` are the statements of a decision: what a session has read (`seen`, by `Load`) waits
for nobody, and is what `reclassify_anime` decides on, while only the UPDATEs that follow wait; `DetectBundles`, `DetectPairs` and `Redetect` the
detectors on demand and after a commit; `StartRefresh` and `Refresh` are
a sweep that loads an anime, asks MAL, changes an entry or a relation and reclassifies what
it loaded.  A foreign key's row lock is modelled, since a merge and the deletion of an anime meet
in it.

### 2.8 CatalogueSearch

The only state is the catalogue and one caller's rows; its actions are the upserts that
change them.  The content is in the operators: each filter, order and card field at the
media grain, at the anime grain in SQL (`Having…`, `…Key`) and at the anime grain in
Python (`Card…`).  Scores are hundredths, so that rounding and exact halves are kept; the
weight of a score is any increasing function.  `SearchMedia` and `SearchAnime` compose them
into the two whole searches, each with its own conditions, badge population, personal scope
and passes; `WholeSearchesAgree`, part of `GrainsAgree`, compares them where the grains must
coincide, on franchises of one main-story media.

### 2.9 WatchLists

`Ask`, `Read`, `Flush`, `Retry` are a single or bulk upsert with its `IntegrityError` retry;
`Remove`, `EmptyList`, `CountLists`, `CreateList`, `StartDrop`, `CheckDrop`, `DropList` the
other requests; `Commit` and `Abort` end each.  A request writes the columns it changed of the
rows it has read, as the session does.

### 2.10 Accounts

`accounts` holds every account there ever was, each with its settings level, its default
list and the edition of every show its spoiler cache is of.  `Check`, `InsertUser`,
`ComputeCache`, `CommitUser` are a registration; `CreateToken` to `DeleteAccount` an
administrator's requests; `Publish` to `SkipUser` a change of the catalogue and the refresh
of every account's cache after it; and, between `Start` and serving, one action per pass of
`lifespan`.  `Crash` may fall anywhere.

### 2.11 JobAdmission

`Submit`, `CountActive`, `CountToday`, `FindDuplicate`, `Insert` are the statements of
`enqueue_user_scrape`; `Schedule`, `Take`, `Scrape`, `Sweep`, `EndBackup` what else adds to or
ends in the table; `Age` lets the oldest row leave the last day or the dedupe window;
`OpenLog` and `ReadPage` read the log page by page.  What the worker does beside that is
`JobWorker`'s.

### 2.12 SearchVectors and Discover

In `SearchVectors` a writer reads a text, encodes it and replaces the vector, each a step
(`Change`, `Encode`, `Replace`, `Commit`); the start's repairs (`StripTitle`, `FillVector`) run
alone, the re-embedding (`StartReembed`, `Reembed`, `CommitBatch`, `ReembedFails`) beside
everything.  A vector is the text it was encoded from.

In `Discover` a spin reads the day and the user's row (`Spin`), records the draw
(`RecordSpin`, one upsert guarded by the day) and stores the mood (`KeepMood`); `Look` is the
page without a spin, `Midnight` and `Deploy` move the day and the wheel, `Abort` is a request
that ends in between.  The list that `mood_for` builds is there as what comes before a mood in
it (`Before`): the sorted moods of a cycle are those of a lower hash, the bag's are the
opening and then those.  A draw is then the mood with as many before it as the draw's place.

## 3. The runs

Run one with `tlc -workers 2 -config <name>.cfg <module>`.  Every run explores all
interleavings of its instance.  The bounds are guards on the actions they name; only
`search`, whose states are catalogues and not behaviours of several actors, has a state
constraint (`FewPersonal`).

| run | module | question | what it shows |
|---|---|---|---|
| `worker` | `MCJobWorker` | safety of the queue | two concurrent requests (a nightly plan, a season sweep), a restart, one failed round-trip anywhere: `RunningIsHeld`, `FlagMatchesBracket`, `BannerHasWindow`, and `JobLifecycle` implemented |
| `restore` | `MCJobRestore` | two restores against the worker | `GateHasOwner`, `SequenceCoversRows` |
| `restore_liveness` | `MCJobRestore` | progress of worker and restore | the gate is always lifted (`RGateReopens`); a job queued behind it starts although lifting it wakes nobody and a wake-up can be lost, and ends (`RJobsFinish`) |
| `backup_store` | `MCBackupStore` | the directory | job, upload, rename, viewer and delete overlapping: `OneDumpPerContent`, `NamedDumpsStay`, `AnchorSurvives` |
| `backup_restores` | `MCBackupStore` | the way back | two overlapping restores: the snapshot of the current state survives retention (`LinkedSnapshotStays`) |
| `sweep_catalogue` | `MCUpdateSweep` | the catalogue and the blacklist | two franchises that list a common entry, 404s and Hentai flips, of seeds of a probe too: `BlacklistHolds` |
| `sweep_liveness` | `MCUpdateSweep` | night after night | `DueMediaRefreshed`, `GoneQuietens`, `SequelsFound` |
| `franchises` | `MCFranchises` | what is one franchise | scrapes over small worlds: `OneGraphPerMedia`, `GraphsBounded`; graphs that grow: `SplitIsFinal`, `NewEntryHarmless`, and the spoiler frontier on the labels that come out, `FrontierAsSpecified` |
| `search` | `MCCatalogueSearch` | two grains, two languages | `CardKeepsFilter`, `GrainsAgree`, `TimelineHolds`, `ScopeIsUnion` |
| `personal` | `MCPersonal` | one user's overlapping requests | ratings: `FirstWatchLoggedOnce`, `CompletedHasEvent`, `CacheKeptSerially`; the watch list: `ListsBounded`, `NotesKept` |
| `upkeep` | `MCUpkeep` | what goes on beside the queue | curation: `OneDecision`, `DismissalSticks`, `UmbrellaMatchesMedia`, `NamedForOwn`; accounts: `AccountsComplete`, `TokenBuysOne`; admission and log: `LimitsBounded`, `NoRowOverlooked`; vectors: `VectorsFollow`; Discover: `WheelHolds` |
| `media_kept` | `MCCuration` | a documented promise of a merge | violated: see section 6 |

### 3.1 Bounds, and why they are enough

* **`worker`**: two rows and two handlers are the least that let a second job be queued,
  announced or fanned out while the first one runs, and let an insert of one request fall
  between the insert and the announcement of another.  One crash and one fault each, at
  any point; the crash may be a stop, a cancellation or a kill.  Time has two values, past
  and future, which is all `not_before_at` and the banner are compared with.  The proofs
  of section 5 lift the safety properties of `worker`, `restore`, `backup_store`,
  `backup_restores`, `sweep_catalogue`, `franchises`, `search`, `personal` and, but for one
  property, `upkeep` to every value of the constants.
* **`restore`**: three ids, so that a row can be before, at and after the sequence a dump
  restores; two restores, so that their windows overlap; a restore goes back to the
  install's empty dump or to the newest one.  No crash and no fault there (the
  round-trip faults of the worker are `worker`'s question); the crash is in
  `restore_liveness`.
* **`backup_store`**: retention keeps one of each pool, so that the second dump of any
  source already evicts; five dumps, two on one Sunday and one on the next, so that the
  Sunday rule keeps and drops; one fault, a crash between rename and side-car, a failed
  dump or damage on disk.
* **`backup_restores`**: a pool of one snapshot makes the second restore's snapshot push
  the first one out unless its link protects it; three recent archives, so that the
  pointer's target is not evicted in the same breath.
* **`sweep_catalogue`**: a cap of two with three scraped media, a breaker of two, a
  threshold and windows of one night: selection, cap, breaker, back-off and probe all
  happen within a few nights, and a count beyond the threshold or a window is
  indistinguishable from one just above it (`Climb`, `Older`).  Both franchises have one main
  entry, which a probe walks from step 1's answer or fetches again, and which may have turned
  in between; the entry both list is where a franchise starts (`Roots`), so that the walk
  of a turned seed still reaches it.
* **`sweep_liveness`**: a cap of one with two media that can be due every night is the
  tightest contention; a breaker of two with one failing entry.  With as many failing
  franchises as the breaker or the cap counts at the head of the oldest-first order, the
  code itself starves the rest (each sweep ends at them); `DueMediaRefreshed` is checked
  below that.  One title may turn Hentai instead, and the property then says that it
  leaves the catalogue when its own turn comes.
* **`franchises`**: worlds of four entries with two ties, of two casts that put a season, a
  special, a stub and a song in every place of the graph, and a crossroads of four relations; a
  catalogue that holds none or one of them, a blacklist likewise.  Two ties are what it
  takes for one root to meet what another has claimed, dropped or attached.  The graphs that
  grow have up to four media of four kinds and three relations of four, entered in every
  order, which is every small graph and every step to it.
* **`search`**: two anime and three media, so that an anime can gain or lose the media that
  decides an aggregate and be compared with another one; seven contents cover the cases of
  the code (aired, airing, announced with and without a season, an alternative version, side
  entries, values missing), and media and the caller's rows, ratings and list entries, are
  four together: two ratings of two media of one anime tell the rated states apart.
* **`personal`**: two requests in flight, four in all on ratings of two seasons and an OVA:
  the shortest anime with an anchor beyond the frontier and a side entry.  Overlapping, the
  requests are single ratings; one by one, every operation with wipes and aborts.  The watch
  list has three entries, three lists of which two are allowed, and three requests.
* **`upkeep`**: two administrators on three flagged anime, or one on a bundle of two
  franchises, four decisions or detections each.  Two requests at once on accounts and
  tokens, five in all, four where the catalogue changes.  Two submissions at once with an
  active limit of one and a daily limit of two, at most four jobs; what is saved and what
  leaves the dedupe window are looked at one at a time.  A log of three rows with a page of
  one.  Three documents, two writers, batches of two, two changes.  Four moods of which a
  release drops one, a rest of one draw, five nights: a whole cycle and the start of the
  next.

### 3.2 What the models leave open or out

* A dump's content is a pair of version numbers; a half-restored database is one fresh
  version.  A rebuilt side-car's source is taken to be guessed right.  A snapshot that is
  deduplicated onto an older archive may age out with it, which the documentation calls
  acceptable, so `LinkedSnapshotStays` speaks of dumps whose source is `pre_restore`.
* `UpdateSweep` treats the fields a refresh compares as one choice, moved or not.
  Requests that were already past the gate when the sweep raised it are not modelled.  A
  walk reaches what its seed lists and no further; a seed whose kind turns into music, a pv
  or a cm, which the code blacklists in place as it does a Hentai one, is not told apart from
  that.  `BlacklistHolds` speaks of what was blacklisted and is out of the catalogue: that the
  two have nothing in common (`FlaggedAreOut`) the code does not keep (section 6).
* Some properties hold in a run that leaves out the operations known to break them, and
  section 6 says what puts them back: `FirstWatchLoggedOnce` in `personal`, without
  bulk ratings that overlap (`first_watch_bulk.cfg`); `CacheMatchesRatings` one request at a
  time (`cache_race.cfg`); `UmbrellaMatchesMedia` in `upkeep`, on bundles whose clusters share
  no label-deciding edge with the rest, and one administrator at a time: with two, a merge labels
  what it read before the other's commit (`AllClassified`).  What still holds with two is
  `NamedForOwn` (`media_kept.cfg` shows the rest).  `ListsBounded`, `TokenBuysOne` and
  `LimitsBounded` state how far a limit can be passed by requests that overlap.
* Wipes are only among the requests of `personal` that run one by one, because a re-rate
  that changes no column takes no row lock, and so can log a second first watch, or miss one,
  against a downgrade that wipes at the same moment.
* The Jobs Log's filters by status, kind, user and date are not modelled: a page is taken
  from the whole log or from one parent's children.  Jobs are ordered by `created_at`, taken
  to be the order of the commits.
* The encoder is a function of the text, and the rating notes' vectors are left out.
* `VisibleMedia` follows the code where the documentation is loose: as soon as the *last*
  anchor is rated everything is visible, whether or not the others are.

## 4. Fairness

The safety runs assume nothing.  The liveness properties (`RGateReopens` and `RJobsFinish`
in `restore_liveness`; `DueMediaRefreshed`, `GoneQuietens` and `SequelsFound` in
`sweep_liveness`) assume only what the code's scheduling gives:

* weak fairness of the worker task, of every request in flight and of a restore: they are
  coroutines of one event loop, which runs every ready task, and each of their awaits ends.
  HTTP calls, `pg_restore` and the audit transaction have timeouts; `pg_dump` has none
  (`run_capture` is called without one), so that it ends is an assumption.
* weak fairness of the clock (`Tick`, `FallbackPoll` as part of the worker): the timers
  fire.  `RJobsFinish` depends on it: the wake-up can be lost, and the fall-back poll
  finds the job.
* weak fairness of `Restart`, `CancelTask` and `Shutdown`: the container is restarted, and
  `stop()` cancels after ten seconds.
* for the sweep, weak fairness of `Night` (the scheduler container calls every night) and
  of the sweep's own steps.
* never of requests, faults, crashes, what MAL does, or what an administrator decides.

The three sweep properties use `[]<>` and `<>[]` premises on what MAL answers, because
nothing is owed for an entry that never answers.

## 5. Proofs

Each module `…Proofs` is checked with `tlapm`; `Counting` holds the
lemmas that several of them share.  TLC checks a small instance; a theorem holds for every
value of the constants that the assumption beside it admits.

### 5.1 What is proved

| module | theorem | states |
|---|---|---|
| `JobWorkerProofs` | `TypeCorrect` | `Spec => []TypeOK` |
| | `NoStrandedJob` | `Spec => []RunningIsHeld`: while the process is up and the database answers, a running row is the one the worker holds |
| | `MaintenanceFlag` | `Spec => []FlagMatchesBracket`: the flag is up exactly inside a sweep's bracket |
| | `NoPhantomBanner` | `Spec => []BannerHasWindow`: the banner counts down to a queued sweep |
| | `TerminalRowsStay` | `Spec => TerminalIsFinal`: history is final |
| | `WorkerImplementsLifecycle` | `Spec => Lifecycle!LSpec`: the worker implements `JobLifecycle` |
| | `RestoreTypeCorrect` | `RSpec => []RTypeOK` |
| | `GateIsOwned` | `RSpec => []GateHasOwner`: a closed gate is some restore's or the worker's to open |
| | `SequenceIsAhead` | `RSpec => []SequenceCoversRows`: whatever a restore puts into the table, no new job gets the id of an old one |
| `BackupStoreProofs` | `StoreTypeCorrect` | `Spec => []StoreTypeOK` |
| | `NoDumpTwice` | `Spec => []OneDumpPerContent` |
| | `NamesPin` | `Spec => NamedDumpsStay`: retention never takes a named dump |
| | `SnapshotPinned` | `Spec => LinkedSnapshotStays`: nor the snapshot a kept restore is linked to |
| | `LastGoodStays` | `Spec => AnchorSurvives`: retention leaves an intact archive if there was one and the flags are true |
| | `PointerStays` | `Restores = {} => (Spec => []PointerNamesADump)` |
| `CurationProofs` | `ResolvedOnce` | `Spec /\ SplitsAlone => []OneDecision`: a row of the queues is decided once, until its dismissal is forgotten |
| | `PairsDismissedStay` | `Spec => []PairDismissalSticks`: no pair that stands dismissed is pending in another row |
| | `DismissedOnesStay` | `Spec /\ Sole => []DismissalSticks`: the same of both queues, one request at a time |
| `TitleWalkProofs` | `WalkTypeCorrect` | `Spec => []WalkTypeOK` |
| | `MediaClaimedOnce` | `Spec => []OneGraphPerMedia`: no media in two graphs, none lost to a dropped root |
| | `NoBridges` | `Spec => []GraphsBounded`: a walk goes on over identity-preserving relations only |
| | `OnlySeedBreaksSave` | at a save, the seed is the one media of the graphs that the catalogue may hold |
| | `CutIsFinal` | of any graph: what a split cuts out is one franchise, and what it leaves keeps its anchor, its relation types and its other clusters |
| | `SplitIsFinalHolds` | `FSpec => []SplitIsFinal`: so it is for every franchise that MAL may come to list |
| | `FrontierHolds` | `FSpec => []FrontierAsSpecified`: the spoiler frontier shows what its docstring says |
| | `NewEntryHarmlessHolds` | `FSpec => NewEntryHarmless`: what is announced, or off the main chain, moves no anchor and no label |
| `CatalogueSearchProofs` | `ScopeHolds` | `Spec => []ScopeIsUnion`: the personal filters keep the documented rated states, at both grains |
| | `TimelineIsKept` | `Spec => []TimelineHolds`: the two season sorts place an anime at a season of its own |
| | `CardsShowWhatIsFiltered` | `Spec => []CardKeepsFilter`: what SQL filters by is what Python shows |
| | `GrainsHold` | `Spec => []GrainsAgree`: the anime grain is the roll-up of the media grain, and the whole searches agree where every franchise is one media |
| `PersonalProofs` | `FirstWatchOnce` | `OneOrBoth => []FirstWatchLoggedOnce` |
| | `CompletionsHaveEvents` | `OneOrBoth => []CompletedHasEvent` |
| | `CacheKept` | `OneOrBoth => []CacheKeptSerially`: requests one at a time leave the cache as the ratings say |
| | `ListsTypeCorrect` | `W!Spec => []W!ListsTypeOK` |
| | `ListLimitHolds` | `W!Spec => []ListsBounded`: overlapping requests pass the limit by less than their number |
| | `NotesAreOwn` | `W!Spec => NotesKept`: a note changes only where a request names it |
| `UpkeepProofs` | `AccountsTypeCorrect`, `AdmissionTypeCorrect` | `A!Spec => []A!AccountsTypeOK`, `J!Spec => []J!AdmissionTypeOK` |
| | `StartRepairs` | `A!Spec => []AccountsComplete`: at every moment of serving every account is whole |
| | `TokenIsSpent` | `A!Spec => []TokenBuysOne` |
| | `LimitsHold` | `J!Spec => []LimitsBounded` |
| | `LogShowsAll` | `J!Spec => []NoRowOverlooked`: paging by offset through rows that grow and end misses none of those there were |
| | `VectorsKeepUp` | `V!Spec => VectorsFollow`: a change of a document that does not cross another one leaves vector and text together |
| | `WheelIsFair` | `D!Spec => []WheelHolds`: one draw a day, one mood a draw, and a drawn mood sits out its rest |
| | `BlacklistedStayOut` | `Spec => BlacklistHolds`: what was blacklisted and is out of the catalogue does not come back, whichever franchise lists it |
| | `SweepsMoveNoMedia` | `Spec => ParentsStay`: a sweep moves no media of the catalogue to another anime |

`OneOrBoth` is `MCRatingWrites`' specification: requests that overlap are single ones that
wipe nothing, or requests of every kind follow one another.  That is the boundary of the
claim and not a convenience: outside it TLC shows each of the three properties violated
(section 6, `first_watch_bulk.cfg`, `cache_race.cfg`).  For the same reason `PointerStays`
has the hypothesis `Restores = {}`, and without it `pointer_after_restore.cfg` shows the
pointer on a dump that is gone.

`SplitsAlone` (where splits are executed, one request is under way at a time) and `Sole` (one
request at a time, whatever it does) are such boundaries too.  With two admins on a catalogue that holds a
bundle TLC violates both properties: a detection supersedes a row that it read before
the split of it committed, and the dismissed row can then be forgotten; and a row that another
request inserts while one like it is being dismissed is pending beside it (`media_kept.cfg` with
`OneDecision` or `DismissalSticks` in place of its own).  Merges, dismissals and their
detections may overlap as they like in `ResolvedOnce`, and everything may in
`PairsDismissedStay`.

### 5.2 What is assumed

Every assumption is a named `ASSUME` of the module that declares the constants, and TLC
evaluates it on a passing run.

| assumption | says |
|---|---|
| `BoundsAssumption` | the bounds of `JobWorker` are natural numbers, the endpoints and kinds some of those the code has |
| `RestoreAssumption` | the bounds of `JobRestore` are natural numbers |
| `StoreAssumption` | the pools keep at least one dump each, the job's process is no request's, and no process is both a restore and an upload |
| `SweepAssumption` | cap, breaker, threshold and windows are positive, the long window is the longer one, relations lead from media to media |
| `WalkAssumption` | what MAL holds is finite, and the links that are captured name entries of it; hops and scrapes are numbers |
| `CurationAssumption` | a start is a catalogue whose media are at anime there are, with rows of the shape of the two tables, no two of which stand for the same decision |
| `GrowthAssumption` | what MAL may add to a franchise is of the kinds of entries there are |
| `CatalogueAssumption` | a column holds a number where it is not NULL, votes are counted from 0 and have a logarithm in whole units, as have all smaller counts; titles match at 0, 1 or 2, no rating has the status that means none, the studios are finitely many, and NULL is no number and no set of ids |
| `WritesAssumption` | the anchors are among the media, the operations among those of the code |
| `PersonalAssumption` | finitely many requests and names of lists, at least one request, a limit of at least the default list |
| `UpkeepAssumption` | finitely many requests and titles, limits that are numbers, a page of at least one row, a role per token; no token is "", an operator is a person and the system's own account is none; what an old version left was admitted by no token; a wheel has at least three times as many moods as sit out (`mood_for`'s own comment asks for it; the code has ten and three), in a cycle no two hashes are equal, and a user has spun once a day at most before |

Faults, crashes, requests in flight and the data are therefore unbounded in number: a bound
such as `MaxCrashes` is any natural number.

### 5.3 The inductive invariants

None of the properties is inductive as it stands.  What each one rests on:

* **`JobWorker`.**  `TInv` = `TypeOK` and what makes the actions well-defined: a request in
  flight has a job left to insert (`TodoPending`), queued rows are of kinds the worker knows
  (`QueuedAreWork`), a worker inside `dispatch_one` has a job (`JobHeld`), an exited worker
  was stopped, and a process that is stopping may still go down (`StopCounted`).  `TypeOK`
  alone is not inductive: `Head` of an empty plan, or a status written through `NoJob`,
  leaves it.  `RunningIsHeld` and `FlagMatchesBracket` are inductive relative to `TInv`.

  `TableInv` adds that no row lies beyond the sequence (`RowsBelowSeq`: an insert never
  overwrites history), that the worker's id names a row whose status fits where the worker
  is (`HeldRow`), and that a failure is pending only between the dispatcher and its record
  (`FailurePending`).  `TerminalIsFinal` and the refinement need all three: without
  `HeldRow` a claim or an outcome could land on a terminal row.

  `BannerInv` = `BannerHasWindow` and `WindowAnnounced`: a request about to announce a
  future time has its sweep queued for that time.  It holds because a sweep is not
  claimable before its due time and the clock does not go back, and it is what `Announce`
  needs.  The mutant that publishes before the commit breaks exactly this conjunct.

  The refinement's lemma (`RefinementStep`) says which action maps to which abstract step:
  `Insert` and `EnqueueChildren` to `Create`, `Claim` to `Start`, a claim whose
  acknowledgement is lost to `Lose`, and so on; the rest stutter.
* **`JobRestore`.**  `RInv` = `TInv` of the worker, taken over whole, `RTypeOK` and
  `OnlyFinished`: dumps and the staging table carry finished jobs only, so a merge cannot
  queue one.  `ComposedSteps` splits a step of the composition into a step of `Next` and the
  few that a restore takes with the worker's variables.  `SequenceCoversRows`
  is what is left of `TableInv`: `HeldRow` does not carry over and is not used, because a restore
  does take the worker's row away, and may give its id to another (section 6,
  `WorkerDrivesItsOwnRow`).
* **`BackupStore`.**  `StoreInv` is about what a listing may have missed.  A request that
  makes a dump holds the lock from its listing to its end, so every hash written since is
  its own (`HashesSeen`); what a listing leaves without a side-car is what it set out to
  rebuild (`OrphansListed`); and once the job has its dump no side-car is missing, so that
  retention works on the directory as it is (`JobSeesAll`).  `PointerInv` adds that without
  restores the log of finished jobs, which every dump carries, makes a dump of the
  database a new content (`ContentsBehind`, `JobBehind`): a job finds no duplicate, points at
  the dump it made, and its retention keeps the newest.
* **`Curation`.**  `QueueInv` is about what a request holds.  The rows it will write are its
  own, together with the row it decides (`Locks`, disjoint for two requests); the row it
  decides still has the status the locking read saw, and it is on the way to the
  status of the decision (`Deciding`, per stage); what it would supersede is no row it
  has written; and what it adds is one row per pair and per anime (`AddsOK`).  A step that
  commits nothing is one of `Advances`; a commit and a redetection only extend the table and
  overwrite what was locked (`Grows`), which leaves every other request as it was
  (`TxKept`).  Of the log of decisions (`Settled`, `DecidedTwice`) this gives that a decided
  row is never pending again.  Two hypotheses are left to discharge: that no request
  supersedes a row that was split (`Spares`), which another request's split can break
  (`SplitInv`), and that the bundles it adds are news when it commits (`NewsOK`), which
  another's insert can break (`SoleInv`).
* **`UpdateSweep`.**  `BlacklistInv` has `Excluding`: from its selection to its end a sweep
  excludes the whole catalogue and the blacklist.  The administrator is locked out
  meanwhile, and what the sweep adds to either it excludes in the same commit, but for a seed
  that has turned, which is in the catalogue and so excluded already.  Only a probe adds to the
  catalogue, and only what no exclusion names; every other step leaves it or takes from it
  (`Steady`).
* **`TitleWalk`.**  `ClaimInv` follows a media from the queue to a graph.  What was visited
  and may be saved is in a kept graph or in the one under way (`ClaimsInv`), which holds
  nothing that is claimed, and whose followed pages lead to what was visited or is queued
  (`GraphInv`): when the queue is empty, whatever those pages name is claimed, and the
  graph may be kept (`KeptClosed`).  The rollback gives back exactly the graph that is
  dropped, so what it claimed and no other media is free for the roots that follow.
  `ReachInv` is about where the walk may go on: every set of entries that holds the root
  and is closed under the identity-preserving relations seen so far holds what is walked
  from.  For a closed set of the graph's own media, which is what `GraphsBounded` speaks
  of, the proof adds all that is not in the graph and uses this (`GraphBounded`).
  Of a growing franchise `GrowthInv` keeps that every page names entries of it and that no
  scrape interferes.  The rest is about the classifier's operators on any graph: the anchors
  are ordered, and of finitely many one is the first (`Counting`: `SmallestExists`); the
  reach of the main and the alternative chain is the least set closed under their relations,
  so the reach on a part of the graph is compared with the reach on all of it by closure
  alone, with no induction over paths.  `CutIsFinal` says this of every graph, and
  `SplitIsFinalHolds` of those the specification reaches.
* **`CatalogueSearch`.**  `CatalogueInv` is the types: what a search returns depends on the rows
  there are and not on how they came about.  The work is in the operators.  Sums are folds,
  hence recursive functions chosen by their equation; `SumsExist` builds such a function
  set by set (`SubsetInduction`: induction over the subsets of a finite set, stated with a
  set where the library has an operator), and `SumAdds`, `SumOfSome`, `SumBounded` say of sums
  what the proofs use.  Means are compared across the fraction, never divided.
  The badge is monotone because whoever is above a better anime is above the worse one too,
  and below a hundred anime one place more is at least one percent more.  `ScopeIs` states the
  scope once for ids of any kind.  For the whole searches, `SolePasses` goes through the filters
  one by one; the two badges agree because a franchise and its media are counted one for one
  (`OwnersAreAsMany`).
* **`RatingWrites`.**  `WatchInv` is an argument about row locks.  A request that may log the
  first watch of a media holds the lock of its rating until it commits (`FirstsAreNew`); one
  without the lock has read a completed rating, which has an event already
  (`ReadCompleted`, with `CompletedHasEvent` itself); and a history is wiped only with the
  completion that it backs (`WipesDowngraded`).  `CacheInv` follows one request from its
  read to its commit.
* **`WatchLists`.**  `ListsCounted` counts the lists and the requests that have counted them;
  together they are at most the limit and the overlap.  `NotesInv`: who has not flushed
  holds no row, no two requests hold the same, and what a request is about to write over
  an entry keeps its note or is the note it was given for this one.
* **`Accounts`.**  `Repairs`: what each pass of a start has repaired stays so through the
  later ones, which is why their order matters.  `TokensCounted`: an open token, or one not
  born yet, has admitted nobody, and the accounts it admitted and the registrations under
  way with it are together no more than the requests.
* **`JobAdmission`.**  `LimitsCounted` counts the rows and the requests that a check has let
  through; the second check lets through no more than the first.  `Reading`: the newest come first, so
  new rows only push the others back, and what the reader has not seen has a place behind
  the pages read (`PlacesGrow`, `PlaceIsIndex`).
* **`SearchVectors`.**  `VectorsInv` says of a document whose changes have not overlapped that
  the one under way has read the text there is (`WritersRead`, `SoleWriters`), and the same
  of the passes over all documents (`PassRead`).
* **`Discover`.**  The bag of a cycle is an order: what comes before a mood in it grows with
  its place (`BagOrdered`), and in an order of finitely many every place is that of one mood
  (`PlacesOfOrder`), so there is one to draw (`MoodIsDrawn`) and a cycle draws it once.  The last
  `Rest` of a cycle's plain order are those of its bag too, since the opening fits into what
  comes before them (`ClosesPlain`, which is where three times `Rest` is needed), and the next
  opening holds `Rest` moods and none of them (`OpeningIsFull`): `SitsOut`.  `SpinsInv` says
  that a spin with the row's lock holds the committed row or the one after it; `AnswersInv` that
  an answer is the bag's, or of a draw that an earlier release has shown, and that what was shown of
  the user's last draw would be shown again (`IsCurrent`).  A release that has again what one
  before it dropped shows what is stored, which its own bag may not give: it was shown before
  (`StoredIsShown`).

`ListsCounted` and `LimitsCounted` are the same argument, count first and insert later, and
`Counting` states it once (`Within`), and with it what several proofs need of the highest,
the lowest and the sum of finitely many numbers.  TLC checked each of
the strengthenings as an invariant before it was proved.  Each preservation proof has one
step per action; where an action is long it is a lemma of its own.

Two properties of `CatalogueSearch` turned out to be true of the small instance only, and say
more exactly now what holds.  A better anime's badge is strictly better while there are no
more than a hundred scored anime: a percentage tells no more of them apart.  And where
every franchise is one media the two searches agree if no media has votes without a score:
an anime's votes are those of its scored media, so a search by votes finds such a media
and not its anime.

`TypeCorrect`, `TerminalRowsStay`, `PointerStays` (without restores only a delete moves the pointer
off a dump, so the run is spent on the other properties), `SweepsMoveNoMedia`,
`OnlySeedBreaksSave` and `CutIsFinal` are proved and not spent a run on;
`TerminalIsFinal` also follows from the refinement that `worker` checks.

### 5.4 What stays with TLC

* All liveness (`JobsFinish` and its kin of `restore_liveness`, `sweep_liveness`): fairness
  and `ENABLED` are outside the proof system's reach.
* `NamedForOwn`: over every catalogue it would rest on the whole protocol of row and
  foreign-key locks between what a merge has read and what it writes; TLC explores it for
  two administrators on three anime.
* `UmbrellaMatchesMedia`: true of the catalogues `upkeep` starts from, and false of others (section
  6: a recap that an edge to the old anime had labelled).  Nothing the code asks of a
  catalogue rules them out, so there is no hypothesis to prove it under.

## 6. Where the code and its documentation disagree

Each of these is a statement of a comment, a document or a message of the repository,
written as a property that TLC finds violated; `tlc -config <name>.cfg <module>` prints
the trace, with the MC module of the module that defines the property.  The first is
among the runs of `PROJECT.json`; the others' configurations are kept beside it.

- **MediaKept** (`media_kept.cfg`, a bug,
  `src/phsar/app/services/merge_candidate_service.py:224`). A merge moves the media of the
  anime it drops in one statement and deletes that anime in another.  A media that another
  merge puts under it in between is not moved; the delete waits for that merge, and then
  cascades over the media (`src/phsar/app/models/media.py:167`, `ON DELETE CASCADE`) with its
  ratings.  src/phsar/app/services/merge_candidate_service.py:186-187 says "the other side is
  deleted, with its media re-parented onto the survivor".
- **BannerClearedAtStart** (`worker.cfg` with this property in place of its own, code and documentation differ, `src/phsar/app/services/job_worker.py:267`). The worker clears _scheduled_at in the finally of dispatch_one, when the sweep is over, so GET /maintenance/status reports a past window for the whole sweep; src/phsar/app/core/maintenance.py:11 says "the worker clears it the moment the job actually starts (the banner is for warning the user before the window, not during)".
- **OneWindowOwner** (`one_window_owner.cfg`, a bug, `src/phsar/app/services/backup_service.py:806`). restore_backup raises the flag only after its minutes-long snapshot, so the worker can claim a sweep in between and both own the flag: whoever leaves first opens the gate under the other. src/phsar/app/core/maintenance.py:18 says "only ONE code path drives a maintenance window at a time" because "the worker is blocked by `is_maintenance_active()` in `dispatch_one`".
- **WorkerDrivesItsOwnRow** (`audit_rows_return.cfg` with this property in place of its own, a bug, `src/phsar/app/services/job_worker.py:291`). A restore drops the jobs table and its sequence while the worker still holds an id; the re-issued id names another job (or the restore's own audit row) and mark_failed by id lands on it. src/phsar/app/services/backup_service.py:508 says "the live in-flight rows (if any) disappear alongside the rest of the rolled-back state".
- **AuditRowsReturn** (`audit_rows_return.cfg`, a bug, `src/phsar/app/services/backup_service.py:462`). A backup job that gets the write lock while a restore is between pg_restore and its merge drops the staging table pg_restore has just brought back, so the merge finds nothing. src/phsar/app/services/backup_service.py:449 says the table is "Created and dropped inside `_BACKUP_WRITE_LOCK` so concurrent backups can't race the name" and line 507 that "the merge below repopulates the audit rows".
- **PointerMovesToLive** (`pointer_after_restore.cfg`, a bug, `src/phsar/app/services/backup_service.py:522`). create_backup moves the pointer when the dump has been hashed, whatever has happened since pg_dump ran; a restore that took its snapshot before the backup got the lock can finish in between, and the pointer leaves the restored dump for one that holds the replaced state. src/phsar/app/services/backup_service.py:519 says "pg_dump just captured live state, so the resulting `metadata.filename` IS the dump that matches live".
- **PointerNamesADump** (`pointer_after_restore.cfg` with this property in place of its own, a bug, `src/phsar/app/services/backup_service.py:828`). restore_backup marks its target as current after pg_restore without looking whether the file still exists; a backup job that was running when the gate closed can evict it meanwhile. src/docs/features/backups.md:144 says "Deleting the pointed-at dump clears it."
- **DeleteFailsNoJob** (`reverify_delete.cfg`, a bug, `src/phsar/app/services/backup_service.py:383`). _set_meta_field checks the path before it waits for the lock; when the dump and its side-car are deleted during the wait, _rebuild_meta's stat raises FileNotFoundError, which reverify_backups does not catch (it catches BackupNotFoundError), and the job fails. src/docs/features/backups.md:118 says "a concurrent admin delete is respected rather than treated as corruption that fails the whole job".
- **NamesAreKept** (`name_lost.cfg`, a bug, `src/phsar/app/services/backup_service.py:399`). _rebuild_meta called from a listing suspends in pg_restore --list and then writes the side-car without _BACKUP_WRITE_LOCK; a name set between is overwritten, and with it the pin against retention. src/docs/features/backups.md:20 says "All write paths serialize on a module-level `asyncio.Lock` (single-worker assumption), including the sidecar read-modify-write."
- **DuplicateIsIdentical** (`reverify_delete.cfg` with this property in place of its own, a bug, `src/phsar/app/services/backup_service.py:329`). _find_duplicate compares content hashes and ignores the integrity of the dump it finds, so the copy that would replace a corrupted file is discarded. src/phsar/app/exceptions.py:443 says "This dump is identical to an existing backup: '{existing_metadata.filename}'."
- **UnchangedNotAccumulated** (`reverify_delete.cfg` with this property in place of its own, code and documentation differ, `src/phsar/app/services/backup_service.py:464`). The dump carries the finished jobs, and every backup job leaves one more of them, so two nightly backups of unchanged data never have the same hash. src/docs/features/backups.md:13 says "content-hash dedupe so an unchanged database doesn't accumulate identical archives".
- **ProbeRetriedNextSweep** (`sweep_liveness.cfg` with this property in place of its own, a bug, `src/phsar/app/daos/anime_dao.py:312`). Due media are selected by the media's own clocks only, and step 1 has already committed those when the probe fails, so the anime is not in the next sweep unless another of its media happens to be due (up to 90 or 180 days later). src/phsar/app/services/scrape_dispatcher.py:327 says "A probe failure leaves AnimeFreshness untouched so the tier query re-selects on the next sweep — without that split, a transient MAL outage during BFS would silently lose the announcement window", line 1036 that "the tier query reads last_checked_at"; no query reads AnimeFreshness.
- **ExcludedIsSaved** (`excluded_saved.cfg`, a bug, `src/phsar/app/services/scrape_dispatcher.py:1159`). _probe_relations_for_anime adds what a walk found to the sweep-wide exclusions before the next seed's walk; when that raises, the savepoint takes the rows back but not the exclusions, and a later franchise that lists the same entry skips it and stamps its probe clock. src/phsar/app/services/scrape_dispatcher.py:1110 says "every newly-saved mal_id is added so later seeds in the same sweep skip re-saving it".
- **FlaggedAreOut** (`sweep_catalogue.cfg` with this property in place of its own, a bug, `src/phsar/app/services/scrape_dispatcher.py:1145`). A main entry that was not due tonight is a seed of the probe, taken out of the exclusions and fetched; flagged Hentai (or of a kind that is skipped) by now, it goes into media_unwanted and its relations are not followed, while its row and its anime stay in the catalogue until it is due itself. src/phsar/app/services/scrape_dispatcher.py:912-914 says "the sweep must do the same or a flipped title lingers in the catalog. Remove the WHOLE anime + its media from the catalog and blacklist every member", src/docs/features/scraping.md:94-95 "The same predicate drives both the fresh-scrape skip and the sweep's removal path, so the two cannot diverge".
- **GoneLeavesBreaker** (`excluded_saved.cfg` with this property in place of its own, code and documentation differ, `src/phsar/app/services/scrape_dispatcher.py:547`). A batch of which every media 404s returns a RefreshResult, and the dispatcher resets consecutive_upstream_failures for any RefreshResult. src/docs/features/jobs.md:157 says of a 404 "It neither trips nor resets the circuit breaker".
- **AiringSequelsSurface** (`sweep_liveness.cfg` with this property in place of its own, code and documentation differ, `src/phsar/app/services/scrape_dispatcher.py:1079`). The sweep attaches new entries only in the probe, and the probe skips an anime with any airing media, so daily refreshes of a long-running show never surface a related entry (the season sweeps find only the current and next season's shows). src/phsar/app/services/scrape_dispatcher.py:1065 says "Tier 1 (currently airing) is re-checked daily so a sequel surfaces within a day anyway".
- **HitsAttached** (`cross_link_lost.cfg`, a bug, `src/phsar/app/services/mal_scraper.py:824`). The first root that meets a media of the catalogue puts it into visited_ids; a later root of the same scrape that links to it passes it over, records no cross-link, and its weak graph is dropped instead of attached. src/phsar/app/services/scrape_dispatcher.py:234 says "orphan-side-story graphs whose single cross-link resolves to an existing Anime → new Media rows attached".
- **DecidedAsWalked** (`cross_link_lost.cfg` with this property in place of its own, code and documentation differ, `src/phsar/app/services/search_service.py:72`). The walk judges a graph with every cross-link it met, the search with the blacklisted ones stripped: a weak graph whose one cross-link is blacklisted is kept by the first and dropped by the second, and its media stay claimed. src/phsar/app/services/mal_scraper.py:940-942 says the predicate "mirrors search_service's actual skip predicate so the two sites can't drift".
- **ReachedIsFollowed** (`cross_link_lost.cfg` with this property in place of its own, code and documentation differ, `src/phsar/app/services/mal_scraper.py:917`). The status of a node is raised in the table, but a node already taken off the queue as TERMINAL is not visited again: what it leads to over sequels is not followed from this root. src/phsar/app/services/mal_scraper.py:320 says "`max()` resolves multi-path arrivals to the most-permissive status".
- **AnchorHasAired** (`franchises.cfg` with this property in place of its own, code and documentation differ, `src/phsar/app/services/relation_classifier.py:262`). When no aired media passes the substance gate, every media of the graph is a candidate again, the announced ones included, and an announced TV show wins by its tier. src/phsar/app/services/relation_classifier.py:160-166 says "a franchise can't anchor on something that hasn't aired".
- **OnePendingSplit** (`media_kept.cfg` with this property in place of its own, code and documentation differ, `src/phsar/app/daos/split_candidate_dao.py:149`). The pending row is searched for before the insert, with no constraint behind it: a detection on demand and the one at the end of a split or merge each insert a row for the anime. src/phsar/app/daos/split_candidate_dao.py:124 says "Two pending rows for the same anime should never coexist".
- **RowTellsDecision** (`media_kept.cfg` with this property in place of its own, a bug, `src/phsar/app/daos/split_candidate_dao.py:158`). A detection that has found a row pending supersedes it by primary key once the admin who held it has committed: a split row becomes a dismissed one. src/docs/features/curation.md:26 says of the row lock that the second request gets the 409 "rather than a row whose status disagrees with what was done".
- **SplitsOnlyDisjoint** (`media_kept.cfg` with this property in place of its own, code and documentation differ, `src/phsar/app/services/split_candidate_service.py:256`). execute_split checks a cluster's anchor and substance on the cluster alone; a relation that has meanwhile joined it to the main story, or a member it has gained, goes unseen, and what is no longer a franchise of its own is cut out. src/phsar/app/services/split_candidate_service.py:210-214 promises to "Fail-loud on stale candidate".
- **UmbrellaMatchesMedia** (`media_kept.cfg` with this property in place of its own, code and documentation differ, `src/phsar/app/services/split_candidate_service.py:247`). The labels of a new anime come from the edges inside its cluster, and nothing reclassifies it: a media whose label an edge to the old anime decided keeps another label than reclassify_anime would give. src/phsar/app/services/split_candidate_service.py:201 says "reclassify both sides".
- **AllClassified** (`media_kept.cfg` with this property in place of its own, a bug, `src/phsar/app/services/merge_candidate_service.py:247`). The survivor's media are read with a plain SELECT and classified at once; only the UPDATEs that follow wait for another merge, and write what was decided before it. Two merges into one anime, each bringing media the other has not read, leave it with labels the classifier would not give its media: with Desks = {"trio"}, a season of the main chain stays a side story, because the merge that labelled it had not seen the first season, and the merge that brings the first season had not seen it. src/phsar/app/services/merge_candidate_service.py:241 says "Re-classify the consolidated media set".
- **ShownIsFound** (`search.cfg` with this property in place of its own, code and documentation differ, `src/phsar/app/daos/search_filters.py:447`). The filter compares the exact mean, the card shows it rounded to two digits, so a search from or up to the shown score can leave the card out. src/phsar/app/daos/anime_dao.py:502-503 says the filters "match the displayed avg".
- **TierRollsUpAlways** (`undated_tier.cfg`, code and documentation differ, `src/phsar/app/daos/anime_dao.py:174`). MAX ignores a media without aired_from, so an anime whose dated media are all old is counted as archival, although its undated media is in the long cycle, which is swept twice as often. src/phsar/app/daos/anime_dao.py:198 says "an anime inherits its most-urgent media's tier", line 201 "every member must qualify".
- **AnnouncementsOnlyUnaired** (`undated_tier.cfg` with this property in place of its own, code and documentation differ, `src/phsar/app/daos/search_filters.py:695`). An anime whose aired main story has no season falls through to its announcement. src/docs/features/search.md:201 says "announcements count only for an anime with nothing aired".
- **FirstWatchLoggedOnce** (`first_watch_bulk.cfg`, a bug, `src/phsar/app/services/rating_service.py:382`). bulk_upsert_ratings reads which media have events before it takes any row lock and hands the answer to _maybe_log_first_watch, so a single rating (or a second bulk rating) that commits in between leaves two first-watch events. src/phsar/app/services/rating_service.py:147 says "a re-rate of media that already has events never duplicates", and src/docs/features/ratings.md:70 "re-rating media that already has history never duplicates".
- **CacheMatchesRatings** (`cache_race.cfg`, a bug, `src/phsar/app/services/spoiler_service.py:221`). recompute_visibility_for_anime reads the ratings, computes the frontier, deletes and inserts with no lock per (user, anime): two overlapping ratings each miss the other's uncommitted row, and the cache keeps the frontier of one of them until the next rating of that anime. src/phsar/app/models/user_visible_media.py:4 says the cache is "Recomputed per-anime when a user rates or deletes a rating".
- **ListsLimited** (`personal.cfg` with this property in place of its own, code and documentation differ, `src/phsar/app/services/tag_service.py:86`). create_tag counts the user's lists and inserts in a later statement with no constraint behind the count, so requests that overlap each add one past TAGS_PER_USER_LIMIT. src/phsar/app/services/tag_service.py:28 calls the limit an "Anti-runaway ceiling".
- **ReassignKeeps** (`personal.cfg` with this property in place of its own, a bug, `src/phsar/app/services/tag_service.py:128`). delete_tag moves the entries it finds and deletes the list in later statements; an entry another request files on the list in between is not moved, and ON DELETE CASCADE removes it (src/phsar/app/models/watchlist.py:31). src/phsar/app/services/tag_service.py:119-120 says "the tag's entries move to the default 'Watchlist' tag first (nothing lost)".
- **UsedStays** (`upkeep.cfg` with this property in place of its own, code and documentation differ, `src/phsar/app/services/admin_service.py:56`). delete_registration_token reads used_at and deletes in two steps without a lock: a registration that commits in between marks the token, and the delete takes it all the same. src/phsar/app/services/admin_service.py:56-57 refuses a used token with CannotDeleteUsedTokenError.
- **MoppedUp** (`upkeep.cfg` with this property in place of its own, code and documentation differ, `src/phsar/app/seeders/user_seeder.py:76`). The start-up pass recomputes the accounts without a single cache row; an account that a scoped recompute has skipped keeps its other rows, and its stale ones, over every restart. src/phsar/app/seeders/user_seeder.py:65-67 says "It's also the mop-up for any non-restricted user a scoped recompute skipped on failure".
- **VectorsDescribe** (`upkeep.cfg` with this property in place of its own, a bug, `src/phsar/app/services/vector_embedding_service.py:149`). Of two overlapping changes of one document, or one beside the re-embedding, each encodes the text it has read and writes the columns it changes: the text is of both, the vector of the later one alone. src/phsar/app/services/vector_embedding_service.py:109-110 says that titles and description are encoded together, "so any title change invalidates it too".

## 7. Not modelled, and what comes next

| part | why |
|---|---|
| exports, statistics, completion | read and format; they write nothing |
| progress reporting | overwrites one JSON column that no other step reads |
| seeding of genres and carousels | runs alone before the first request; upserts by name |
| relation backfill | a background pass after the start, a savepoint per anime: it fills relations in and reclassifies, as `Curation`'s `Refresh` does |
| schemas, routers, migrations, front end | validation, routing, DDL, rendering; what a client may send is what every model lets a request be |
| scraper transport (rate limiter, retries, translation of MAL's values) | no state another step reads |
| genres, studios and titles a sweep or a decision rewrites | columns of a media that no property tells apart |
| search by description; the duration, watch-time, source, relation and season filters; sort orders of plain columns; the limit; eager loading; search settings | one column each, or a distance the database computes |
| `ensure_up_to_date_backup`, schema-revision stamps, disk and upload limits | a failing dump stands for the limits; the self-heal is a backup taken in the background after the start, by the same `create_backup` |
| names and colours of lists, password hashing, JWTs | not told apart by any property |

Worth modelling next: the relation backfill of a start beside the decisions of the admins, which
reclassify the same catalogue.
