---------------------------- MODULE JobAdmission ----------------------------
(***************************************************************************)
(* How scrapes get into the queue and are looked at there: a user's requests *)
(* (services/job_submission_service.py), the flock a season sweep leaves     *)
(* (seasonal_sweep_dispatcher.py), and an admin paging through the Jobs Log  *)
(* (daos/job_dao.py).                                                        *)
(*                                                                         *)
(* Every limit is a SELECT in the request's transaction, and the row that    *)
(* would exceed it an INSERT some awaits later.  What the worker does with a *)
(* row is JobWorker's: here one is taken, and ends, at a time.               *)
(***************************************************************************)
EXTENDS Integers, Sequences, FiniteSets

CONSTANTS
    People,         \* the users
    Operators,      \* those of them that are admins
    Titles,         \* the queries, one per show, as trimmed and lower-cased
    ActiveLimit,    \* JOBS_PER_USER_LIMIT
    DailyLimit,     \* JOBS_DAILY_LIMIT
    PageLimit,      \* how many rows a page of the Jobs Log has
    Submissions,    \* the requests that can be in flight at once
    MaxJobs         \* bound: how many jobs are ever enqueued

VARIABLES
    jobs,           \* the rows, in the order of their created_at, taken to be that of the commits
    window,         \* the index of the oldest row of the last 24 hours
    memory,         \* the index of the oldest row of the last JOBS_DEDUPE_HOURS
    saved,          \* the shows in the catalogue
    submitting,     \* what each request has counted
    reader          \* the admin who pages through the Jobs Log

jvars == <<jobs, window, memory, saved, submitting, reader>>

Active == {"queued", "running"}
Cancelled == [pc |-> "idle", user |-> "", title |-> ""]
Row(user, title, parent) == [user |-> user, title |-> title, parent |-> parent, status |-> "queued"]

\* A season sweep has no user, and its children have it as a parent; a backup is not
\* admitted by any limit and counts against one.
IsScrape(job) == job.title \in Titles
Of(user) == {i \in DOMAIN jobs : jobs[i].user = user}
ActiveOf(user) == {i \in Of(user) : jobs[i].status \in Active}
ScrapesToday(user) == {i \in Of(user) : IsScrape(jobs[i]) /\ i >= window}

\* Whoever asked: a failed one may be asked for again.
RecentScrapes(title) ==
    {i \in DOMAIN jobs : i >= memory /\ jobs[i].title = title /\ jobs[i].status # "failed"}

-----------------------------------------------------------------------------
(* A user's request *)

Submit(r, user, title) ==
    /\ submitting[r].pc = "idle" /\ Len(jobs) < MaxJobs
    /\ submitting' = [submitting EXCEPT ![r] = [pc |-> "active", user |-> user, title |-> title]]
    /\ UNCHANGED <<jobs, window, memory, saved, reader>>

\* The next check, or the end of the request when this one fails it.
Pass(r, check, next, ok) ==
    /\ submitting[r].pc = check
    /\ submitting' = [submitting EXCEPT ![r] = IF ok THEN [@ EXCEPT !.pc = next] ELSE Cancelled]
    /\ UNCHANGED <<jobs, window, memory, saved, reader>>

\* Mutant of CountActive: the running job is not counted.
CountQueued(r) ==
    Pass(r, "active", "today",
         Cardinality({i \in Of(submitting[r].user) : jobs[i].status = "queued"}) < ActiveLimit)

CountActive(r) ==
    Pass(r, "active", "today", Cardinality(ActiveOf(submitting[r].user)) < ActiveLimit)

CountToday(r) ==
    Pass(r, "today", "duplicate", \/ submitting[r].user \in Operators
                                  \/ Cardinality(ScrapesToday(submitting[r].user)) < DailyLimit)

FindDuplicate(r) == Pass(r, "duplicate", "insert", RecentScrapes(submitting[r].title) = {})

Insert(r) ==
    /\ submitting[r].pc = "insert" /\ Len(jobs) < MaxJobs
    /\ jobs' = Append(jobs, Row(submitting[r].user, submitting[r].title, 0))
    /\ submitting' = [submitting EXCEPT ![r] = Cancelled]
    /\ UNCHANGED <<window, memory, saved, reader>>

-----------------------------------------------------------------------------
(* The worker, and the season sweep it runs *)

Schedule(user, kind) ==
    /\ Len(jobs) < MaxJobs
    /\ jobs' = Append(jobs, Row(user, kind, 0))
    /\ UNCHANGED <<window, memory, saved, submitting, reader>>

Take ==
    LET queued == {i \in DOMAIN jobs : jobs[i].status = "queued"}
    IN  /\ \A i \in DOMAIN jobs : jobs[i].status # "running"
        /\ \E i \in queued : /\ \A j \in queued : i <= j
                            /\ jobs' = [jobs EXCEPT ![i].status = "running"]
        /\ UNCHANGED <<window, memory, saved, submitting, reader>>

\* One child per entry of the season the catalogue has not: what is still queued of an
\* earlier sweep is enqueued again.
Sweep(i, entries) ==
    LET fresh == entries \ saved
    IN  /\ jobs[i].status = "running" /\ jobs[i].title = "season"
        /\ Len(jobs) + Cardinality(fresh) <= MaxJobs
        /\ \E order \in [1 .. Cardinality(fresh) -> fresh] :
             /\ \A x, y \in DOMAIN order : x # y => order[x] # order[y]
             /\ jobs' = [jobs EXCEPT ![i].status = "succeeded"]
                        \o [x \in DOMAIN order |-> Row("system", order[x], i)]
        /\ UNCHANGED <<window, memory, saved, submitting, reader>>

\* A scrape saves its show, unless it is there already or something fails.
Scrape(i) ==
    /\ jobs[i].status = "running" /\ IsScrape(jobs[i])
    /\ \/ /\ jobs[i].title \notin saved /\ saved' = saved \cup {jobs[i].title}
          /\ jobs' = [jobs EXCEPT ![i].status = "succeeded"]
       \/ /\ jobs' = [jobs EXCEPT ![i].status = "failed"] /\ UNCHANGED saved
    /\ UNCHANGED <<window, memory, submitting, reader>>

EndBackup(i) ==
    /\ jobs[i].status = "running" /\ jobs[i].title = "backup"
    /\ \E status \in {"succeeded", "failed"} : jobs' = [jobs EXCEPT ![i].status = status]
    /\ UNCHANGED <<window, memory, saved, submitting, reader>>

\* A row leaves the window of the daily limit, and some days later that of duplicates.
Age ==
    /\ \/ window <= Len(jobs) /\ window' = window + 1 /\ UNCHANGED memory
       \/ memory < window /\ memory' = memory + 1 /\ UNCHANGED window
    /\ UNCHANGED <<jobs, saved, submitting, reader>>

-----------------------------------------------------------------------------
(* Looking at the rows *)

Newest(rows) == [k \in 1 .. Cardinality(rows) |->
                    CHOOSE i \in rows : Cardinality({j \in rows : j >= i}) = k]

\* Mutant of Listed: the children among the roots, the unfinished rows only.
ListedActive(parent) == {i \in DOMAIN jobs : jobs[i].status \in Active}

\* The rows under one parent, or with parent 0 those without.
Listed(parent) == {i \in DOMAIN jobs : jobs[i].parent = parent}

OpenLog(parent) ==
    /\ reader.pc = "away"
    /\ reader' = [pc |-> "reading", parent |-> parent, offset |-> 0, due |-> Listed(parent), read |-> {}]
    /\ UNCHANGED <<jobs, window, memory, saved, submitting>>

ReadPage ==
    LET all == Newest(Listed(reader.parent))
        page == {k \in DOMAIN all : reader.offset < k /\ k <= reader.offset + PageLimit}
    IN  /\ reader.pc = "reading"
        /\ reader' = [reader EXCEPT !.offset = @ + PageLimit, !.read = @ \cup {all[k] : k \in page},
                                    !.pc = IF Cardinality(page) < PageLimit THEN "done" ELSE @]
        /\ UNCHANGED <<jobs, window, memory, saved, submitting>>

-----------------------------------------------------------------------------
Init ==
    /\ jobs = <<>> /\ window = 1 /\ memory = 1 /\ saved = {}
    /\ submitting = [r \in Submissions |-> Cancelled]
    /\ reader = [pc |-> "away", parent |-> 0, offset |-> 0, due |-> {}, read |-> {}]

Next ==
    \/ \E r \in Submissions :
         \/ \E user \in People, title \in Titles : Submit(r, user, title)
         \/ CountActive(r) \/ CountToday(r) \/ FindDuplicate(r) \/ Insert(r)
    \/ Schedule("system", "season") \/ \E user \in Operators : Schedule(user, "backup")
    \/ Take \/ Age
    \/ \E i \in DOMAIN jobs : Scrape(i) \/ EndBackup(i) \/ \E entries \in SUBSET Titles : Sweep(i, entries)
    \/ \E parent \in 0 .. Len(jobs) : OpenLog(parent)
    \/ ReadPage

Spec == Init /\ [][Next]_jvars

-----------------------------------------------------------------------------
JobRow == [user : People \cup {"system"}, title : Titles \cup {"season", "backup"}, parent : Nat,
           status : {"queued", "running", "succeeded", "failed"}]

Submission == [pc : {"active", "today", "duplicate", "insert"}, user : People, title : Titles]

AdmissionTypeOK ==
    /\ jobs \in Seq(JobRow)
    /\ window \in Nat /\ memory \in Nat /\ saved \subseteq Titles
    /\ submitting \in [Submissions -> Submission \cup {Cancelled}]

\* What the code runs with: a page has a row, the operators are users, the system is none of them.
Configured ==
    /\ ActiveLimit \in Nat /\ DailyLimit \in Nat /\ PageLimit \in Nat \ {0} /\ MaxJobs \in Nat
    /\ IsFiniteSet(Submissions) /\ Submissions # {} /\ IsFiniteSet(Titles)
    /\ Operators \subseteq People /\ "system" \notin People

\* The limits on a user's queue are passed by no more than the requests that counted
\* together: each is a count some awaits before the insert (enqueue_user_scrape).
LimitsBounded == \A user \in People \ Operators :
    /\ Cardinality(ActiveOf(user)) <= ActiveLimit + Cardinality(Submissions) - 1
    /\ Cardinality(ScrapesToday(user)) <= DailyLimit + Cardinality(Submissions) - 1

\* Who pages through the log has read every row that was there when they began, whatever
\* was enqueued, taken or ended since (list_admin_paginated: newest first, by offset).
NoRowOverlooked == reader.pc = "done" => reader.due \subseteq reader.read
=============================================================================
