----------------------------- MODULE JobWorker -----------------------------
(***************************************************************************)
(* The background job system of the backend process: the jobs table, the    *)
(* HTTP handlers that enqueue into it, the single asyncio worker that drains *)
(* it, and the process-wide maintenance flag and banner time the worker and  *)
(* the handlers share (services/job_worker.py, daos/job_dao.py,              *)
(* routers/admin_jobs.py, core/maintenance.py, main.py).                     *)
(*                                                                         *)
(* A step of the model is what the code does between two awaits, so every   *)
(* interleaving of the worker task and the request handlers that the event  *)
(* loop can produce is a behaviour here.  The process can crash or be        *)
(* stopped at any await; the table survives, everything else does not.       *)
(***************************************************************************)
EXTENDS Integers, FiniteSets, Sequences

CONSTANTS
    MaxJobs,        \* bound: how many rows the jobs table can be given
    MaxTime,        \* bound: the clock runs from 0 to MaxTime
    MaxCrashes,     \* bound: crashes and shutdowns of the process
    MaxFaults,      \* bound: failed database round-trips
    Handlers,       \* the request handlers that can be in flight at once
    Endpoints,      \* which of the enqueueing endpoints are called
    Registered      \* the job kinds a dispatcher is registered for

SweepKinds == {"update_sweep", "seasonal_sweep", "upcoming_sweep"}
SeasonKinds == {"seasonal_sweep", "upcoming_sweep"}
WorkerKinds == SweepKinds \cup {"user_scrape", "backup"}
JobKinds == WorkerKinds \cup {"restore"}

SchedulerEndpoints == {"schedule-sweep", "schedule-seasonal",
                       "schedule-upcoming", "schedule-nightly"}
AllEndpoints == SchedulerEndpoints \cup {"jobs/scrape", "backups"}

ASSUME BoundsAssumption ==
    /\ MaxJobs \in Nat /\ MaxTime \in Nat /\ MaxCrashes \in Nat /\ MaxFaults \in Nat
    /\ Endpoints \subseteq AllEndpoints
    /\ Registered \subseteq WorkerKinds

VARIABLES
    rows,           \* the jobs table: a row or NoRow for every primary key
    seq,            \* the last primary key jobs_id_seq handed out
    pc,             \* where the worker task is ("down": no process)
    job,            \* the worker's local job_id and kind, NoJob outside dispatch
    failure,        \* the worker's local `failure` is not None
    fanned,         \* the season dispatcher has committed its children
    wakeup,         \* the _wakeup event is set
    stop,           \* the _stop event is set
    flag,           \* maintenance._active
    scheduled,      \* maintenance._scheduled_at, Never when None
    handlers,       \* the enqueueing requests in flight
    now,            \* wall-clock time
    crashes,        \* how often the process has gone down
    faults          \* how many database round-trips have failed

dbVars == <<rows, seq>>
workVars == <<job, failure, fanned>>
gateVars == <<flag, scheduled>>
eventVars == <<wakeup, stop>>
boundVars == <<crashes, faults>>
vars == <<dbVars, pc, workVars, gateVars, eventVars, handlers, now, boundVars>>

-----------------------------------------------------------------------------
(* The jobs table *)

JobIds == 1 .. MaxJobs
Times == 0 .. MaxTime
Never == -1
Statuses == {"queued", "running", "succeeded", "failed"}

\* `due` is not_before_at (0 stands for NULL: both are always in the past) and
\* `created` orders rows by created_at; rows of one transaction share it.
Row == [kind : JobKinds, status : Statuses, due : Times, created : JobIds]
NoRow == [kind |-> "none", status |-> "absent", due |-> 0, created |-> 0]
NoJob == [id |-> 0, kind |-> "none"]

NewRow(kind, due, created) ==
    [kind |-> kind, status |-> "queued", due |-> due, created |-> created]

Queued == {i \in JobIds : rows[i].status = "queued"}
Running == {i \in JobIds : rows[i].status = "running"}

\* The WHERE of claim_next_queued, and its ORDER BY created_at: rows of one
\* transaction tie, and the query breaks no tie.
Claimable == {i \in Queued : rows[i].due <= now}
Oldest == {i \in Claimable : \A k \in Claimable : rows[i].created <= rows[k].created}

SetStatus(i, s) == [rows EXCEPT ![i].status = s]

-----------------------------------------------------------------------------
(* Enqueueing requests *)

\* The jobs one request inserts, in order, each in a transaction of its own.  The
\* nightly endpoint decides from the UTC weekday and month which sweeps it adds.
Plans(e) ==
    CASE e = "jobs/scrape"       -> {<<"user_scrape">>}
      [] e = "backups"           -> {<<"backup">>}
      [] e = "schedule-sweep"    -> {<<"update_sweep">>}
      [] e = "schedule-seasonal" -> {<<"seasonal_sweep">>}
      [] e = "schedule-upcoming" -> {<<"upcoming_sweep">>}
      [] e = "schedule-nightly"  -> {<<"backup", "update_sweep">>,
                                     <<"backup", "update_sweep", "seasonal_sweep">>,
                                     <<"backup", "update_sweep", "upcoming_sweep">>}

Idle == [pc |-> "idle", todo |-> <<>>, delay |-> 0, due |-> 0]
Handler == [pc : {"idle", "insert", "announce"}, todo : Seq(WorkerKinds),
            delay : Times, due : Times]

\* Mutant of Request: the banner time is published before the insert is committed.
RequestBannerFirst(h, e, plan, delay) ==
    /\ pc # "down" /\ ~stop
    /\ handlers[h].pc = "idle"
    /\ ~flag \/ e \in SchedulerEndpoints
    /\ handlers' = [handlers EXCEPT ![h] = [pc |-> "insert", todo |-> plan,
                                            delay |-> delay, due |-> 0]]
    /\ scheduled' = IF now + delay <= MaxTime THEN now + delay ELSE scheduled
    /\ UNCHANGED <<dbVars, pc, workVars, flag, eventVars, now, boundVars>>

\* A request passes the maintenance gate once, on entry, unless its path is allowlisted.
Request(h, e, plan, delay) ==
    /\ pc # "down" /\ ~stop
    /\ handlers[h].pc = "idle"
    /\ ~flag \/ e \in SchedulerEndpoints
    /\ handlers' = [handlers EXCEPT ![h] = [pc |-> "insert", todo |-> plan,
                                            delay |-> delay, due |-> 0]]
    /\ UNCHANGED <<dbVars, pc, workVars, gateVars, eventVars, now, boundVars>>

\* INSERT and COMMIT of the next job; only sweeps are delayed.
Insert(h) ==
    LET kind == Head(handlers[h].todo)
        due == IF kind \in SweepKinds THEN now + handlers[h].delay ELSE 0
    IN  /\ handlers[h].pc = "insert"
        /\ seq < MaxJobs /\ due <= MaxTime
        /\ seq' = seq + 1
        /\ rows' = [rows EXCEPT ![seq + 1] = NewRow(kind, due, seq + 1)]
        /\ handlers' = [handlers EXCEPT ![h].pc = "announce", ![h].due = due]
        /\ UNCHANGED <<pc, workVars, gateVars, eventVars, now, boundVars>>

\* The insert fails: the request ends in a 500 and its later jobs are never inserted.
InsertFails(h) ==
    /\ handlers[h].pc = "insert"
    /\ faults < MaxFaults
    /\ faults' = faults + 1
    /\ handlers' = [handlers EXCEPT ![h] = Idle]
    /\ UNCHANGED <<dbVars, pc, workVars, gateVars, eventVars, now, crashes>>

Advance(request) ==
    IF Len(request.todo) = 1 THEN Idle
    ELSE [request EXCEPT !.pc = "insert", !.todo = Tail(request.todo)]

\* After the commit and the refresh: publish the banner time of a sweep, then notify().
Announce(h) ==
    /\ handlers[h].pc = "announce"
    /\ scheduled' = IF Head(handlers[h].todo) \in SweepKinds
                      THEN handlers[h].due ELSE scheduled
    /\ wakeup' = TRUE
    /\ handlers' = [handlers EXCEPT ![h] = Advance(@)]
    /\ UNCHANGED <<dbVars, pc, workVars, flag, stop, now, boundVars>>

-----------------------------------------------------------------------------
(* The worker: _run and dispatch_one *)

\* `while not self._stop.is_set()` ends.
LeaveLoop ==
    /\ pc = "loop" /\ stop
    /\ pc' = "exited"
    /\ UNCHANGED <<dbVars, workVars, gateVars, eventVars, handlers, now, boundVars>>

\* The maintenance flag is down.  Here nobody but the worker raises it, so that it is
\* always down; JobRestore adds the step for a raised flag (GateClosed).
GateOpen ==
    /\ pc = "loop" /\ ~stop /\ ~flag
    /\ pc' = "claiming"
    /\ UNCHANGED <<dbVars, workVars, gateVars, eventVars, handlers, now, boundVars>>

\* claim_next_queued and the commit of the claim.
Claim ==
    /\ pc = "claiming"
    /\ \E i \in Oldest :
         /\ rows' = SetStatus(i, "running")
         /\ job' = [id |-> i, kind |-> rows[i].kind]
    /\ pc' = "claimed"
    /\ UNCHANGED <<seq, failure, fanned, gateVars, eventVars, handlers, now, boundVars>>

\* The query finds nothing; closing the claim session is an await of its own.
QueueEmpty ==
    /\ pc = "claiming"
    /\ Claimable = {}
    /\ pc' = "draining"
    /\ UNCHANGED <<dbVars, workVars, gateVars, eventVars, handlers, now, boundVars>>

\* The claim session raises and dispatch_one with it: the claim is rolled back, or
\* it was committed and only the acknowledgement is lost.
ClaimError ==
    /\ pc = "claiming"
    /\ faults < MaxFaults
    /\ faults' = faults + 1
    /\ \/ UNCHANGED rows
       \/ \E i \in Oldest : rows' = SetStatus(i, "running")
    /\ pc' = "backoff"
    /\ UNCHANGED <<seq, workVars, gateVars, eventVars, handlers, now, crashes>>

\* dispatch_one returned False: clear the event, then wait for it.
FallAsleep ==
    /\ pc = "draining"
    /\ wakeup' = FALSE
    /\ pc' = "waiting"
    /\ UNCHANGED <<dbVars, workVars, gateVars, stop, handlers, now, boundVars>>

Wake ==
    /\ pc = "waiting" /\ wakeup
    /\ pc' = "loop"
    /\ UNCHANGED <<dbVars, workVars, gateVars, eventVars, handlers, now, boundVars>>

\* Mutant of FallbackPoll: the wait has no timeout.
FallbackPollOnlyWhenSet ==
    /\ pc = "waiting" /\ wakeup
    /\ pc' = "loop"
    /\ UNCHANGED <<dbVars, workVars, gateVars, eventVars, handlers, now, boundVars>>

\* The wait times out: 2s while the flag is up, 60s otherwise.
FallbackPoll ==
    /\ pc = "waiting"
    /\ pc' = "loop"
    /\ UNCHANGED <<dbVars, workVars, gateVars, eventVars, handlers, now, boundVars>>

\* The 5s pause after an exception left dispatch_one.
Retry ==
    /\ pc = "backoff"
    /\ pc' = "loop"
    /\ UNCHANGED <<dbVars, workVars, gateVars, eventVars, handlers, now, boundVars>>

\* Raise the flag for a sweep, before the work session opens.
Bracket ==
    /\ pc = "claimed"
    /\ flag' = (flag \/ job.kind \in SweepKinds)
    /\ pc' = "opening"
    /\ UNCHANGED <<dbVars, workVars, scheduled, eventVars, handlers, now, boundVars>>

\* The row is read back and its dispatcher is entered.
OpenWork ==
    /\ pc = "opening"
    /\ rows[job.id] # NoRow /\ job.kind \in Registered
    /\ pc' = "working"
    /\ UNCHANGED <<dbVars, workVars, gateVars, eventVars, handlers, now, boundVars>>

\* No dispatcher for the kind: the row is failed in the work session itself.
NoDispatcher ==
    /\ pc = "opening"
    /\ rows[job.id] # NoRow /\ job.kind \notin Registered
    /\ rows' = SetStatus(job.id, "failed")
    /\ pc' = "closing"
    /\ UNCHANGED <<seq, workVars, gateVars, eventVars, handlers, now, boundVars>>

\* The outer catch-all: the session plumbing raises before the dispatcher runs.
OpenError ==
    /\ pc = "opening"
    /\ faults < MaxFaults
    /\ faults' = faults + 1
    /\ failure' = TRUE
    /\ pc' = "closing"
    /\ UNCHANGED <<dbVars, job, fanned, gateVars, eventVars, handlers, now, crashes>>

\* A season sweep bulk-inserts its children, commits, and notifies, well before its
\* own row is marked; n is the number of season entries the catalogue lacks.
EnqueueChildren(n) ==
    LET children == seq + 1 .. seq + n
    IN  /\ pc = "working" /\ job.kind \in SeasonKinds /\ ~fanned
        /\ seq + n <= MaxJobs
        /\ rows' = [i \in JobIds |-> IF i \in children
                                       THEN NewRow("user_scrape", 0, seq + 1)
                                       ELSE rows[i]]
        /\ seq' = seq + n
        /\ fanned' = TRUE
        /\ wakeup' = TRUE
        /\ UNCHANGED <<pc, job, failure, gateVars, stop, handlers, now, boundVars>>

\* The dispatcher returns; mark_succeeded is committed.
Succeed ==
    /\ pc = "working"
    /\ rows[job.id] # NoRow
    /\ rows' = SetStatus(job.id, "succeeded")
    /\ pc' = "closing"
    /\ UNCHANGED <<seq, workVars, gateVars, eventVars, handlers, now, boundVars>>

\* Mutant of Fail: a failed job goes back to the queue.
FailRequeues ==
    /\ pc = "working"
    /\ rows' = SetStatus(job.id, "queued")
    /\ failure' = TRUE
    /\ pc' = "closing"
    /\ UNCHANGED <<seq, job, fanned, gateVars, eventVars, handlers, now, boundVars>>

\* The dispatcher raises, or the flush of mark_succeeded does: the work session is
\* rolled back and the outcome is still unwritten.
Fail ==
    /\ pc = "working"
    /\ failure' = TRUE
    /\ pc' = "closing"
    /\ UNCHANGED <<dbVars, job, fanned, gateVars, eventVars, handlers, now, boundVars>>

\* The commit of mark_succeeded lands but its acknowledgement, or the closing of the
\* work session, raises: the worker takes a job that succeeded for a failed one.
SucceedUnacked ==
    /\ pc = "working"
    /\ faults < MaxFaults
    /\ faults' = faults + 1
    /\ rows[job.id] # NoRow
    /\ rows' = SetStatus(job.id, "succeeded")
    /\ failure' = TRUE
    /\ pc' = "closing"
    /\ UNCHANGED <<seq, job, fanned, gateVars, eventVars, handlers, now, crashes>>

\* The flag, and the banner time if it points at the window just left.
LowerFlag ==
    IF job.kind \in SweepKinds
      THEN /\ flag' = FALSE
           /\ scheduled' = IF scheduled <= now THEN Never ELSE scheduled
      ELSE UNCHANGED gateVars

\* Mutant of LeaveBracket: the flag is lowered on the success path only.
LeaveBracketOnSuccess ==
    /\ pc = "closing"
    /\ IF failure THEN UNCHANGED gateVars ELSE LowerFlag
    /\ pc' = IF failure THEN "recording" ELSE "loop"
    /\ job' = IF failure THEN job ELSE NoJob
    /\ fanned' = FALSE
    /\ UNCHANGED <<dbVars, failure, eventVars, handlers, now, boundVars>>

\* Mutant of LeaveBracket: a raise or return in the finally skips the failure record.
LeaveBracketDropsFailure ==
    /\ pc = "closing"
    /\ LowerFlag
    /\ pc' = "loop" /\ job' = NoJob /\ fanned' = FALSE /\ failure' = FALSE
    /\ UNCHANGED <<dbVars, eventVars, handlers, now, boundVars>>

\* The finally of dispatch_one; a job with a failure still has it to record.
LeaveBracket ==
    /\ pc = "closing"
    /\ LowerFlag
    /\ pc' = IF failure THEN "recording" ELSE "loop"
    /\ job' = IF failure THEN job ELSE NoJob
    /\ fanned' = FALSE
    /\ UNCHANGED <<dbVars, failure, eventVars, handlers, now, boundVars>>

\* mark_failed in the fail session, on whatever row the id names now.
RecordFailure ==
    /\ pc = "recording"
    /\ rows' = IF rows[job.id] = NoRow THEN rows ELSE SetStatus(job.id, "failed")
    /\ pc' = "loop"
    /\ job' = NoJob
    /\ failure' = FALSE
    /\ UNCHANGED <<seq, fanned, gateVars, eventVars, handlers, now, boundVars>>

\* The fail session raises: logged, the row stays `running`.
RecordError ==
    /\ pc = "recording"
    /\ faults < MaxFaults
    /\ faults' = faults + 1
    /\ pc' = "loop"
    /\ job' = NoJob
    /\ failure' = FALSE
    /\ UNCHANGED <<dbVars, fanned, gateVars, eventVars, handlers, now, crashes>>

-----------------------------------------------------------------------------
(* The life of the process *)

\* Lifespan shutdown: the server has drained its requests, stop() sets both events.
Stop ==
    /\ pc # "down" /\ ~stop
    /\ crashes < MaxCrashes
    /\ \A h \in Handlers : handlers[h].pc = "idle"
    /\ stop' = TRUE
    /\ wakeup' = TRUE
    /\ UNCHANGED <<dbVars, pc, workVars, gateVars, handlers, now, boundVars>>

\* stop() has waited 10s: the task is cancelled at its await and only its finally runs.
CancelTask ==
    /\ stop /\ pc \notin {"down", "exited"}
    /\ IF pc \in {"opening", "working", "closing"} THEN LowerFlag ELSE UNCHANGED gateVars
    /\ pc' = "exited"
    /\ UNCHANGED <<dbVars, workVars, eventVars, handlers, now, boundVars>>

\* Everything in memory is gone.
Forget ==
    /\ pc' = "down"
    /\ job' = NoJob /\ failure' = FALSE /\ fanned' = FALSE
    /\ flag' = FALSE /\ scheduled' = Never
    /\ wakeup' = FALSE /\ stop' = FALSE
    /\ handlers' = [h \in Handlers |-> Idle]
    /\ crashes' = crashes + 1
    /\ UNCHANGED <<dbVars, now, faults>>

Shutdown == pc = "exited" /\ Forget

Crash == pc # "down" /\ crashes < MaxCrashes /\ Forget

\* Mutants of Restart: no reaping; reaping all but the queue.
RestartWith(reaped) ==
    /\ pc = "down"
    /\ rows' = reaped
    /\ pc' = "loop"
    /\ UNCHANGED <<seq, workVars, gateVars, eventVars, handlers, now, boundVars>>

RestartUnreaped == RestartWith(rows)
RestartReapsHistory ==
    RestartWith([i \in JobIds |-> IF i \in Queued \/ rows[i] = NoRow THEN rows[i]
                                  ELSE [rows[i] EXCEPT !.status = "failed"]])

\* Lifespan startup: reap_orphans, then job_worker.start().
Restart ==
    /\ pc = "down"
    /\ rows' = [i \in JobIds |-> IF rows[i].status = "running"
                                   THEN [rows[i] EXCEPT !.status = "failed"]
                                   ELSE rows[i]]
    /\ pc' = "loop"
    /\ UNCHANGED <<seq, workVars, gateVars, eventVars, handlers, now, boundVars>>

Tick ==
    /\ now < MaxTime
    /\ now' = now + 1
    /\ UNCHANGED <<dbVars, pc, workVars, gateVars, eventVars, handlers, boundVars>>

-----------------------------------------------------------------------------
(* The specification *)

Init ==
    /\ rows = [i \in JobIds |-> NoRow] /\ seq = 0
    /\ pc = "down" /\ job = NoJob /\ failure = FALSE /\ fanned = FALSE
    /\ flag = FALSE /\ scheduled = Never
    /\ wakeup = FALSE /\ stop = FALSE
    /\ handlers = [h \in Handlers |-> Idle]
    /\ now = 0 /\ crashes = 0 /\ faults = 0

HandlerStep(h) == Insert(h) \/ InsertFails(h) \/ Announce(h)

RequestStep ==
    \E h \in Handlers, e \in Endpoints : \E plan \in Plans(e), delay \in Times :
        Request(h, e, plan, delay)

WorkerStep ==
    \/ LeaveLoop \/ GateOpen
    \/ Claim \/ QueueEmpty \/ ClaimError \/ Retry
    \/ FallAsleep \/ Wake \/ FallbackPoll
    \/ Bracket \/ OpenWork \/ NoDispatcher \/ OpenError
    \/ \E n \in 1 .. MaxJobs : EnqueueChildren(n)
    \/ Succeed \/ Fail \/ SucceedUnacked
    \/ LeaveBracket \/ RecordFailure \/ RecordError

ProcessStep == Stop \/ CancelTask \/ Shutdown \/ Crash \/ Restart

Next ==
    \/ RequestStep
    \/ \E h \in Handlers : HandlerStep(h)
    \/ WorkerStep
    \/ ProcessStep
    \/ Tick

Spec == Init /\ [][Next]_vars

\* Nobody has to send a request, stop the process or crash it.  The event loop runs
\* every ready task, each dispatcher returns or raises (its HTTP calls have timeouts;
\* that pg_dump ends is assumed), the timers fire and the container is restarted.
Fairness ==
    /\ WF_vars(WorkerStep)
    /\ \A h \in Handlers : WF_vars(HandlerStep(h))
    /\ WF_vars(CancelTask) /\ WF_vars(Shutdown) /\ WF_vars(Restart)
    /\ WF_vars(Tick)

FairSpec == Spec /\ Fairness

-----------------------------------------------------------------------------
(* Properties *)

PCs == {"down", "loop", "claiming", "draining", "waiting", "backoff", "claimed",
        "opening", "working", "closing", "recording", "exited"}

\* Every variable keeps its type (Job columns, the worker's locals, the two events,
\* the two maintenance globals).
TypeOK ==
    /\ rows \in [JobIds -> Row \cup {NoRow}] /\ seq \in 0 .. MaxJobs
    /\ pc \in PCs
    /\ job \in [id : JobIds, kind : WorkerKinds] \cup {NoJob}
    /\ failure \in BOOLEAN /\ fanned \in BOOLEAN
    /\ flag \in BOOLEAN /\ scheduled \in Times \cup {Never}
    /\ wakeup \in BOOLEAN /\ stop \in BOOLEAN
    /\ handlers \in [Handlers -> Handler]
    /\ now \in Times /\ crashes \in 0 .. MaxCrashes /\ faults \in 0 .. MaxFaults

\* The worker has a job whose outcome it has not yet written.
Holding == \/ pc \in {"claimed", "opening", "working", "recording"}
           \/ pc = "closing" /\ failure

\* The worker is inside the try/finally that brackets a sweep.
InBracket == pc \in {"opening", "working", "closing"} /\ job.kind \in SweepKinds

\* While the process is up and no database round-trip has failed, the only running
\* row is the one the worker holds (or held when it was cancelled): no path out of
\* dispatch_one strands a job in `running`.
RunningIsHeld ==
    pc # "down" /\ faults = 0 =>
        Running \subseteq (IF Holding \/ pc = "exited" THEN {job.id} ELSE {})

\* The maintenance flag is up exactly while the worker is inside a sweep's bracket:
\* it is never left up by a failure, a cancellation or a restart (every endpoint
\* would answer 503 until the next one), and never down under a running sweep.
FlagMatchesBracket == flag <=> InBracket

\* A countdown on the banner always counts down to a sweep that is really queued for
\* that time: no failed insert, crash or finished window leaves a phantom one.
BannerHasWindow ==
    scheduled > now =>
        \E i \in Queued : rows[i].kind \in SweepKinds /\ rows[i].due = scheduled

\* A terminal row never changes again, unless it is the worker's own job, whose
\* success was committed but not acknowledged.
TerminalIsFinal ==
    [][\A i \in JobIds : rows[i].status \in {"succeeded", "failed"} =>
         rows'[i] = rows[i] \/ (failure /\ job.id = i)]_vars

\* core/maintenance.py on `_scheduled_at`: "the worker clears it the moment the job
\* actually starts (the banner is for warning the user before the window, not during)".
BannerClearedAtStart ==
    pc = "working" /\ job.kind \in SweepKinds => scheduled = Never \/ scheduled > now

\* The jobs table keeps the promise of JobLifecycle.
Lifecycle == INSTANCE JobLifecycle WITH
    status <- [i \in JobIds |-> rows[i].status],
    held <- IF Holding THEN job.id ELSE 0

ImplementsLifecycle == Lifecycle!LSpec

\* Every queued job is eventually claimed, although a notify() can be lost between
\* the claim query and _wakeup.clear(), and whatever crashes in between.
QueuedJobsStart == \A i \in JobIds : rows[i].status = "queued" ~> rows[i].status # "queued"

\* Every running job eventually has an outcome, by its dispatcher or by the reaper
\* of the next start, unless a database failure cost the worker its record.
RunningJobsEnd ==
    \A i \in JobIds : rows[i].status = "running" ~>
        (rows[i].status \in {"succeeded", "failed"} \/ faults > 0)

\* The maintenance gate always reopens.
GateReopens == flag ~> ~flag
=============================================================================
