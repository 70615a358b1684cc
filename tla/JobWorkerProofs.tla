-------------------------- MODULE JobWorkerProofs --------------------------
(***************************************************************************)
(* What holds of JobWorker for every number of jobs, handlers, crashes and  *)
(* faults: its types and its safety properties, and that it implements      *)
(* JobLifecycle; and of JobRestore, for every number of restores beside it:  *)
(* its types, that the maintenance gate is never left closed with nobody     *)
(* inside a window, and that the id sequence covers every row whatever a     *)
(* restore has put in the table.                                            *)
(*                                                                         *)
(* None of the properties is inductive on its own.  TInv, TableInv and       *)
(* BannerInv collect what a step needs to know of the state it leaves: that  *)
(* a dispatching worker holds a job, that no row lies beyond the sequence,   *)
(* that a request which still has something to do has a job to do it for.    *)
(* TInv is reused whole for JobRestore: a step of the composition is a step  *)
(* of Next, or one of the few that write the worker's variables from a       *)
(* restore.                                                                 *)
(***************************************************************************)
EXTENDS JobRestore, Counting, SequenceTheorems, TLAPS

-----------------------------------------------------------------------------
(* The inductive invariant *)

Dispatching == pc \in {"claimed", "opening", "working", "closing", "recording"}

\* A request in flight has a job left to insert or to announce.
TodoPending == \A h \in Handlers : handlers[h].pc # "idle" => handlers[h].todo # <<>>

\* Only kinds the worker can run wait in the queue.
QueuedAreWork == \A i \in JobIds : rows[i].status = "queued" => rows[i].kind \in WorkerKinds

\* A dispatching worker knows its job.
JobHeld == Dispatching => job # NoJob

\* A process that is stopping was counted by Stop, so it may still go down.
StopCounted == /\ pc = "exited" => stop
               /\ stop => crashes < MaxCrashes

TInv == TypeOK /\ TodoPending /\ QueuedAreWork /\ JobHeld /\ StopCounted

-----------------------------------------------------------------------------
(* Types *)

LEMMA ShortSequences ==
    ASSUME NEW S, NEW a \in S, NEW b \in S, NEW c \in S
    PROVE  /\ <<a>> \in Seq(S) /\ <<a>> # <<>>
           /\ <<a, b>> \in Seq(S) /\ <<a, b>> # <<>>
           /\ <<a, b, c>> \in Seq(S) /\ <<a, b, c>> # <<>>
  OBVIOUS

LEMMA TailNotEmpty ==
    ASSUME NEW S, NEW s \in Seq(S), s # <<>>, Len(s) # 1
    PROVE  Tail(s) # <<>>
  <1>1. Len(s) \in Nat /\ Len(s) # 0
    BY EmptySeq
  <1>2. Len(Tail(s)) = Len(s) - 1
    BY <1>1
  <1>3. Len(Tail(s)) # 0
    BY <1>1, <1>2
  <1>4. ASSUME Tail(s) = <<>> PROVE Len(Tail(s)) = 0
    BY <1>4, EmptySeq, Zenon
  <1> QED
    BY <1>3, <1>4

LEMMA PlansType ==
    ASSUME NEW e \in Endpoints, NEW plan \in Plans(e)
    PROVE  plan \in Seq(WorkerKinds) /\ plan # <<>>
  <1> USE ShortSequences DEF Plans, WorkerKinds, SweepKinds
  <1>1. CASE e = "jobs/scrape"
    BY <1>1
  <1>2. CASE e = "backups"
    BY <1>2
  <1>3. CASE e = "schedule-sweep"
    BY <1>3
  <1>4. CASE e = "schedule-seasonal"
    BY <1>4
  <1>5. CASE e = "schedule-upcoming"
    BY <1>5
  <1>6. CASE e = "schedule-nightly"
    <2>1. \/ plan = <<"backup", "update_sweep">>
          \/ plan = <<"backup", "update_sweep", "seasonal_sweep">>
          \/ plan = <<"backup", "update_sweep", "upcoming_sweep">>
      BY <1>6, Zenon
    <2>2. {"backup", "update_sweep", "seasonal_sweep", "upcoming_sweep"} \subseteq WorkerKinds
      OBVIOUS
    <2>3. CASE plan = <<"backup", "update_sweep">>
      BY <2>2, <2>3
    <2>4. CASE plan = <<"backup", "update_sweep", "seasonal_sweep">>
      BY <2>2, <2>4
    <2>5. CASE plan = <<"backup", "update_sweep", "upcoming_sweep">>
      BY <2>2, <2>5
    <2> QED
      BY <2>1, <2>3, <2>4, <2>5
  <1> QED
    BY <1>1, <1>2, <1>3, <1>4, <1>5, <1>6, BoundsAssumption DEF AllEndpoints, SchedulerEndpoints

\* Writing a terminal status keeps the table's type and its queue's kinds.
LEMMA SetStatusType ==
    ASSUME rows \in [JobIds -> Row \cup {NoRow}], QueuedAreWork,
           NEW id, NEW s \in {"running", "succeeded", "failed"}, rows[id] # NoRow
    PROVE  /\ SetStatus(id, s) \in [JobIds -> Row \cup {NoRow}]
           /\ \A i \in JobIds : SetStatus(id, s)[i].status = "queued" =>
                                  SetStatus(id, s)[i].kind \in WorkerKinds
  BY DEF SetStatus, Row, Statuses, QueuedAreWork

LEMMA TInvInit == Init => TInv
  <1> SUFFICES ASSUME Init PROVE TInv
    OBVIOUS
  <1> USE BoundsAssumption DEF Init
  <1>1. rows \in [JobIds -> Row \cup {NoRow}] /\ seq \in 0 .. MaxJobs
    OBVIOUS
  <1>2. handlers \in [Handlers -> Handler]
    BY DEF Idle, Handler, Times
  <1>3. now \in Times /\ crashes \in 0 .. MaxCrashes /\ faults \in 0 .. MaxFaults
    BY DEF Times
  <1>4. pc \in PCs /\ job \in [id : JobIds, kind : WorkerKinds] \cup {NoJob}
    BY DEF PCs
  <1>5. TypeOK
    BY <1>1, <1>2, <1>3, <1>4 DEF TypeOK
  <1>6. TodoPending /\ QueuedAreWork
    BY DEF TodoPending, QueuedAreWork, NoRow, Idle
  <1> QED
    BY <1>5, <1>6 DEF TInv, JobHeld, StopCounted, Dispatching

\* The process may go down whenever that is still counted.
LEMMA ForgetType == TInv /\ Forget /\ crashes < MaxCrashes => TInv'
  <1> SUFFICES ASSUME TInv, Forget, crashes < MaxCrashes PROVE TInv'
    OBVIOUS
  <1> USE BoundsAssumption
  <1>1. handlers' \in [Handlers -> Handler] /\ TodoPending'
    BY DEF Forget, Idle, Handler, Times, TodoPending
  <1>2. crashes' \in 0 .. MaxCrashes
    BY DEF Forget, TInv, TypeOK
  <1>3. TypeOK'
    BY <1>1, <1>2 DEF TInv, TypeOK, Forget, dbVars, PCs
  <1>4. QueuedAreWork'
    BY DEF TInv, QueuedAreWork, Forget, dbVars
  <1> QED
    BY <1>1, <1>3, <1>4 DEF TInv, Forget, JobHeld, Dispatching, StopCounted

LEMMA TInvNext == TInv /\ [Next]_vars => TInv'
  <1> SUFFICES ASSUME TInv, [Next]_vars PROVE TInv'
    OBVIOUS
  <1> USE BoundsAssumption
  <1> USE DEF TInv, TypeOK, TodoPending, QueuedAreWork, JobHeld, StopCounted, Dispatching
  <1> USE DEF dbVars, workVars, gateVars, eventVars, boundVars
  <1>1. ASSUME NEW h \in Handlers, NEW e \in Endpoints, NEW plan \in Plans(e),
               NEW delay \in Times, Request(h, e, plan, delay)
        PROVE  TInv'
    BY <1>1, PlansType DEF Request, Handler, Times
  <1>2. ASSUME NEW h \in Handlers, Insert(h) PROVE TInv'
    <2> DEFINE kind == Head(handlers[h].todo)
               due == IF kind \in SweepKinds THEN now + handlers[h].delay ELSE 0
    <2>1. kind \in WorkerKinds /\ due \in Times /\ seq + 1 \in JobIds
      BY <1>2 DEF Insert, Handler, Times, JobIds
    <2>2. NewRow(kind, due, seq + 1) \in Row
      BY <2>1 DEF NewRow, Row, JobKinds, Statuses
    <2>3. rows' \in [JobIds -> Row \cup {NoRow}]
      BY <1>2, <2>2 DEF Insert
    <2>4. handlers' \in [Handlers -> Handler] /\ TodoPending'
      BY <1>2, <2>1 DEF Insert, Handler
    <2>5. QueuedAreWork'
      BY <1>2, <2>1 DEF Insert, NewRow
    <2> QED
      BY <1>2, <2>1, <2>3, <2>4, <2>5 DEF Insert, JobIds
  <1>3. ASSUME NEW h \in Handlers, InsertFails(h) PROVE TInv'
    BY <1>3 DEF InsertFails, Handler, Idle, Times
  <1>4. ASSUME NEW h \in Handlers, Announce(h) PROVE TInv'
    <2>1. handlers[h].todo \in Seq(WorkerKinds) /\ handlers[h].todo # <<>>
      BY <1>4 DEF Announce, Handler
    <2>2. Tail(handlers[h].todo) \in Seq(WorkerKinds)
      BY <2>1
    <2>3. Len(handlers[h].todo) # 1 => Tail(handlers[h].todo) # <<>>
      BY <2>1, TailNotEmpty
    <2>4. Advance(handlers[h]) \in Handler
          /\ (Advance(handlers[h]).pc # "idle" => Advance(handlers[h]).todo # <<>>)
      <3>1. CASE Len(handlers[h].todo) = 1
        BY <3>1 DEF Advance, Handler, Idle, Times
      <3>2. CASE Len(handlers[h].todo) # 1
        BY <2>2, <2>3, <3>2 DEF Advance, Handler
      <3> QED
        BY <3>1, <3>2
    <2>5. handlers' = [handlers EXCEPT ![h] = Advance(handlers[h])]
      BY <1>4 DEF Announce
    <2>6. scheduled' \in Times \cup {Never}
      BY <1>4 DEF Announce, Handler
    <2>7. handlers' \in [Handlers -> Handler] /\ TodoPending'
      BY <2>4, <2>5
    <2> QED
      BY <1>4, <2>6, <2>7 DEF Announce
  <1>5. CASE LeaveLoop
    BY <1>5 DEF LeaveLoop, PCs
  <1>6. CASE GateOpen
    BY <1>6 DEF GateOpen, PCs
  <1>7. CASE QueueEmpty
    BY <1>7 DEF QueueEmpty, PCs
  <1>8. CASE FallAsleep
    BY <1>8 DEF FallAsleep, PCs
  <1>9. CASE Wake
    BY <1>9 DEF Wake, PCs
  <1>10. CASE FallbackPoll
    BY <1>10 DEF FallbackPoll, PCs
  <1>11. CASE Retry
    BY <1>11 DEF Retry, PCs
  <1>12. CASE Bracket
    BY <1>12 DEF Bracket, PCs
  <1>13. CASE OpenWork
    BY <1>13 DEF OpenWork, PCs
  <1>14. CASE Tick
    BY <1>14 DEF Tick, Times
  <1>15. CASE UNCHANGED vars
    BY <1>15 DEF vars
  <1>16. CASE Claim
    <2> PICK i \in Oldest : rows' = SetStatus(i, "running") /\ job' = [id |-> i, kind |-> rows[i].kind]
      BY <1>16 DEF Claim
    <2>1. i \in JobIds /\ rows[i] \in Row /\ rows[i].kind \in WorkerKinds
      BY DEF Oldest, Claimable, Queued, NoRow
    <2>2. rows' \in [JobIds -> Row \cup {NoRow}] /\ QueuedAreWork'
      BY <2>1 DEF SetStatus, Row, Statuses
    <2> QED
      BY <1>16, <2>1, <2>2 DEF Claim, PCs, NoJob, JobIds
  <1>17. CASE ClaimError
    <2>1. CASE UNCHANGED rows
      BY <1>17, <2>1 DEF ClaimError, PCs
    <2>2. ASSUME NEW i \in Oldest, rows' = SetStatus(i, "running") PROVE TInv'
      <3>1. i \in JobIds /\ rows[i] \in Row
        BY DEF Oldest, Claimable, Queued, NoRow
      <3>2. rows' \in [JobIds -> Row \cup {NoRow}] /\ QueuedAreWork'
        BY <2>2, <3>1 DEF SetStatus, Row, Statuses
      <3> QED
        BY <1>17, <3>2 DEF ClaimError, PCs
    <2> QED
      BY <1>17, <2>1, <2>2 DEF ClaimError
  <1>18. CASE OpenError
    BY <1>18 DEF OpenError, PCs
  <1>19. CASE Fail
    BY <1>19 DEF Fail, PCs
  <1>20. CASE RecordError
    <2>1. faults' \in 0 .. MaxFaults
      BY <1>20 DEF RecordError
    <2>2. pc' \in PCs /\ UNCHANGED rows
      BY <1>20 DEF RecordError, PCs
    <2> QED
      BY <1>20, <2>1, <2>2 DEF RecordError
  <1>21. CASE LeaveBracket
    BY <1>21 DEF LeaveBracket, LowerFlag, PCs, Times
  <1>22. CASE Stop
    BY <1>22 DEF Stop, PCs
  <1>23. CASE CancelTask
    BY <1>23 DEF CancelTask, LowerFlag, PCs, Times
  <1>24. CASE NoDispatcher
    <2>1. rows' \in [JobIds -> Row \cup {NoRow}] /\ QueuedAreWork'
      BY <1>24, SetStatusType DEF NoDispatcher
    <2> QED
      BY <1>24, <2>1 DEF NoDispatcher, PCs
  <1>25. CASE Succeed
    <2>1. rows' \in [JobIds -> Row \cup {NoRow}] /\ QueuedAreWork'
      BY <1>25, SetStatusType DEF Succeed
    <2> QED
      BY <1>25, <2>1 DEF Succeed, PCs
  <1>26. CASE SucceedUnacked
    <2>1. rows' \in [JobIds -> Row \cup {NoRow}] /\ QueuedAreWork'
      BY <1>26, SetStatusType DEF SucceedUnacked
    <2> QED
      BY <1>26, <2>1 DEF SucceedUnacked, PCs
  <1>27. CASE RecordFailure
    <2>1. rows' \in [JobIds -> Row \cup {NoRow}] /\ QueuedAreWork'
      BY <1>27, SetStatusType DEF RecordFailure
    <2> QED
      BY <1>27, <2>1 DEF RecordFailure, PCs
  <1>28. CASE Shutdown
    BY <1>28, ForgetType DEF Shutdown
  <1>29. CASE Crash
    BY <1>29, ForgetType DEF Crash
  <1>30. CASE Restart
    <2>1. rows' \in [JobIds -> Row \cup {NoRow}] /\ QueuedAreWork'
      BY <1>30 DEF Restart, Row, Statuses, NoRow
    <2> QED
      BY <1>30, <2>1 DEF Restart, PCs
  <1>31. ASSUME NEW n \in 1 .. MaxJobs, EnqueueChildren(n) PROVE TInv'
    <2>1. NewRow("user_scrape", 0, seq + 1) \in Row
      BY <1>31 DEF EnqueueChildren, NewRow, Row, JobKinds, WorkerKinds, Statuses, Times, JobIds
    <2>2. rows' \in [JobIds -> Row \cup {NoRow}] /\ QueuedAreWork'
      BY <1>31, <2>1 DEF EnqueueChildren, NewRow, WorkerKinds
    <2> QED
      BY <1>31, <2>2 DEF EnqueueChildren, PCs
  <1> QED
    BY <1>1, <1>2, <1>3, <1>4, <1>5, <1>6, <1>7, <1>8, <1>9, <1>10, <1>11,
       <1>12, <1>13, <1>14, <1>15, <1>16, <1>17, <1>18, <1>19, <1>20, <1>21, <1>22,
       <1>23, <1>24, <1>25, <1>26, <1>27, <1>28, <1>29, <1>30, <1>31
    DEF Next, RequestStep, HandlerStep, WorkerStep, ProcessStep

\* Every behaviour of the job system keeps the types of TypeOK.
THEOREM TypeCorrect == Spec => []TypeOK
  <1>1. TInv => TypeOK
    BY DEF TInv
  <1> QED
    BY TInvInit, TInvNext, <1>1, PTL DEF Spec

-----------------------------------------------------------------------------
(* No job is stranded in `running` *)

LEMMA RunningStep == TInv /\ RunningIsHeld /\ [Next]_vars => RunningIsHeld'
  <1> SUFFICES ASSUME TInv, RunningIsHeld, [Next]_vars PROVE RunningIsHeld'
    OBVIOUS
  <1> USE DEF TInv, TypeOK, RunningIsHeld, Running, Holding, dbVars, workVars, boundVars
  <1>1. ASSUME NEW h \in Handlers, NEW e \in Endpoints, NEW plan \in Plans(e), NEW delay \in Times, Request(h, e, plan, delay)
        PROVE  RunningIsHeld'
    BY <1>1 DEF Request
  <1>2. ASSUME NEW h \in Handlers, Insert(h)
        PROVE  RunningIsHeld'
    BY <1>2 DEF Insert, NewRow
  <1>3. ASSUME NEW h \in Handlers, InsertFails(h)
        PROVE  RunningIsHeld'
    BY <1>3 DEF InsertFails
  <1>4. ASSUME NEW h \in Handlers, Announce(h)
        PROVE  RunningIsHeld'
    BY <1>4 DEF Announce
  <1>5. CASE LeaveLoop
    BY <1>5 DEF LeaveLoop
  <1>6. CASE GateOpen
    BY <1>6 DEF GateOpen
  <1>7. CASE Claim
    <2> PICK i \in Oldest : rows' = SetStatus(i, "running") /\ job' = [id |-> i, kind |-> rows[i].kind]
      BY <1>7 DEF Claim
    <2> QED
      BY <1>7 DEF Claim, SetStatus
  <1>8. CASE QueueEmpty
    BY <1>8 DEF QueueEmpty
  <1>9. CASE ClaimError
    BY <1>9 DEF ClaimError
  <1>10. CASE Retry
    BY <1>10 DEF Retry
  <1>11. CASE FallAsleep
    BY <1>11 DEF FallAsleep
  <1>12. CASE Wake
    BY <1>12 DEF Wake
  <1>13. CASE FallbackPoll
    BY <1>13 DEF FallbackPoll
  <1>14. CASE Bracket
    BY <1>14 DEF Bracket
  <1>15. CASE OpenWork
    BY <1>15 DEF OpenWork
  <1>16. CASE NoDispatcher
    BY <1>16 DEF NoDispatcher, SetStatus
  <1>17. CASE OpenError
    BY <1>17 DEF OpenError
  <1>18. ASSUME NEW n \in 1 .. MaxJobs, EnqueueChildren(n)
        PROVE  RunningIsHeld'
    BY <1>18 DEF EnqueueChildren, NewRow
  <1>19. CASE Succeed
    BY <1>19 DEF Succeed, SetStatus
  <1>20. CASE Fail
    BY <1>20 DEF Fail
  <1>21. CASE SucceedUnacked
    BY <1>21 DEF SucceedUnacked, SetStatus
  <1>22. CASE LeaveBracket
    BY <1>22 DEF LeaveBracket
  <1>23. CASE RecordFailure
    BY <1>23 DEF RecordFailure, SetStatus, NoRow
  <1>24. CASE RecordError
    BY <1>24 DEF RecordError
  <1>25. CASE Stop
    BY <1>25 DEF Stop
  <1>26. CASE CancelTask
    BY <1>26 DEF CancelTask
  <1>27. CASE Shutdown
    BY <1>27 DEF Shutdown, Forget
  <1>28. CASE Crash
    BY <1>28 DEF Crash, Forget
  <1>29. CASE Restart
    BY <1>29 DEF Restart
  <1>30. CASE Tick
    BY <1>30 DEF Tick
  <1>31. CASE UNCHANGED vars
    BY <1>31 DEF vars
  <1> QED
    BY <1>1, <1>2, <1>3, <1>4, <1>5, <1>6, <1>7, <1>8, <1>9, <1>10, <1>11,
       <1>12, <1>13, <1>14, <1>15, <1>16, <1>17, <1>18, <1>19, <1>20, <1>21, <1>22,
       <1>23, <1>24, <1>25, <1>26, <1>27, <1>28, <1>29, <1>30, <1>31
    DEF Next, RequestStep, HandlerStep, WorkerStep, ProcessStep

-----------------------------------------------------------------------------
(* The maintenance flag *)

LEMMA FlagStep == TInv /\ FlagMatchesBracket /\ [Next]_vars => FlagMatchesBracket'
  <1> SUFFICES ASSUME TInv, FlagMatchesBracket, [Next]_vars PROVE FlagMatchesBracket'
    OBVIOUS
  <1> USE DEF TInv, TypeOK, FlagMatchesBracket, InBracket, gateVars, workVars
  <1>1. ASSUME NEW h \in Handlers, NEW e \in Endpoints, NEW plan \in Plans(e), NEW delay \in Times, Request(h, e, plan, delay)
        PROVE  FlagMatchesBracket'
    BY <1>1 DEF Request
  <1>2. ASSUME NEW h \in Handlers, Insert(h)
        PROVE  FlagMatchesBracket'
    BY <1>2 DEF Insert
  <1>3. ASSUME NEW h \in Handlers, InsertFails(h)
        PROVE  FlagMatchesBracket'
    BY <1>3 DEF InsertFails
  <1>4. ASSUME NEW h \in Handlers, Announce(h)
        PROVE  FlagMatchesBracket'
    BY <1>4 DEF Announce
  <1>5. CASE LeaveLoop
    BY <1>5 DEF LeaveLoop
  <1>6. CASE GateOpen
    BY <1>6 DEF GateOpen
  <1>7. CASE Claim
    BY <1>7 DEF Claim
  <1>8. CASE QueueEmpty
    BY <1>8 DEF QueueEmpty
  <1>9. CASE ClaimError
    BY <1>9 DEF ClaimError
  <1>10. CASE Retry
    BY <1>10 DEF Retry
  <1>11. CASE FallAsleep
    BY <1>11 DEF FallAsleep
  <1>12. CASE Wake
    BY <1>12 DEF Wake
  <1>13. CASE FallbackPoll
    BY <1>13 DEF FallbackPoll
  <1>14. CASE Bracket
    BY <1>14 DEF Bracket
  <1>15. CASE OpenWork
    BY <1>15 DEF OpenWork
  <1>16. CASE NoDispatcher
    BY <1>16 DEF NoDispatcher
  <1>17. CASE OpenError
    BY <1>17 DEF OpenError
  <1>18. ASSUME NEW n \in 1 .. MaxJobs, EnqueueChildren(n)
        PROVE  FlagMatchesBracket'
    BY <1>18 DEF EnqueueChildren
  <1>19. CASE Succeed
    BY <1>19 DEF Succeed
  <1>20. CASE Fail
    BY <1>20 DEF Fail
  <1>21. CASE SucceedUnacked
    BY <1>21 DEF SucceedUnacked
  <1>22. CASE LeaveBracket
    BY <1>22 DEF LeaveBracket, LowerFlag
  <1>23. CASE RecordFailure
    BY <1>23 DEF RecordFailure
  <1>24. CASE RecordError
    BY <1>24 DEF RecordError
  <1>25. CASE Stop
    BY <1>25 DEF Stop
  <1>26. CASE CancelTask
    BY <1>26 DEF CancelTask, LowerFlag
  <1>27. CASE Shutdown
    BY <1>27 DEF Shutdown, Forget
  <1>28. CASE Crash
    BY <1>28 DEF Crash, Forget
  <1>29. CASE Restart
    BY <1>29 DEF Restart
  <1>30. CASE Tick
    BY <1>30 DEF Tick
  <1>31. CASE UNCHANGED vars
    BY <1>31 DEF vars
  <1> QED
    BY <1>1, <1>2, <1>3, <1>4, <1>5, <1>6, <1>7, <1>8, <1>9, <1>10, <1>11,
       <1>12, <1>13, <1>14, <1>15, <1>16, <1>17, <1>18, <1>19, <1>20, <1>21, <1>22,
       <1>23, <1>24, <1>25, <1>26, <1>27, <1>28, <1>29, <1>30, <1>31
    DEF Next, RequestStep, HandlerStep, WorkerStep, ProcessStep

-----------------------------------------------------------------------------
(* The worker's own row *)

\* No row lies beyond the sequence.
RowsBelowSeq == \A i \in JobIds : i > seq => rows[i] = NoRow

\* The row a dispatching worker holds is in the table, and running until its
\* outcome is committed.
HeldRow ==
    Dispatching =>
        /\ job.id <= seq
        /\ rows[job.id] # NoRow
        /\ rows[job.id].status # "queued"
        /\ pc \in {"claimed", "opening", "working"} => rows[job.id].status = "running"

\* A failure is pending only between the dispatcher and its record.
FailurePending == /\ failure => pc \in {"closing", "recording", "exited"}
                  /\ pc = "recording" => failure

TableInv == RowsBelowSeq /\ HeldRow /\ FailurePending

LEMMA TableStep == TInv /\ TableInv /\ [Next]_vars => TableInv'
  <1> SUFFICES ASSUME TInv, TableInv, [Next]_vars PROVE TableInv'
    OBVIOUS
  <1> USE DEF TInv, TypeOK, TableInv, RowsBelowSeq, HeldRow, FailurePending, Dispatching, JobHeld,
              dbVars, workVars
  <1>1. ASSUME NEW h \in Handlers, NEW e \in Endpoints, NEW plan \in Plans(e), NEW delay \in Times, Request(h, e, plan, delay)
        PROVE  TableInv'
    BY <1>1 DEF Request
  <1>2. ASSUME NEW h \in Handlers, Insert(h)
        PROVE  TableInv'
    BY <1>2 DEF Insert, NewRow, JobIds
  <1>3. ASSUME NEW h \in Handlers, InsertFails(h)
        PROVE  TableInv'
    BY <1>3 DEF InsertFails
  <1>4. ASSUME NEW h \in Handlers, Announce(h)
        PROVE  TableInv'
    BY <1>4 DEF Announce
  <1>5. CASE LeaveLoop
    BY <1>5 DEF LeaveLoop
  <1>6. CASE GateOpen
    BY <1>6 DEF GateOpen
  <1>7. CASE Claim
    <2> PICK i \in Oldest : rows' = SetStatus(i, "running") /\ job' = [id |-> i, kind |-> rows[i].kind]
      BY <1>7 DEF Claim
    <2> QED
      BY <1>7 DEF Claim, SetStatus, Oldest, Claimable, Queued, NoRow, JobIds
  <1>8. CASE QueueEmpty
    BY <1>8 DEF QueueEmpty
  <1>9. CASE ClaimError
    <2>1. RowsBelowSeq'
      <3>1. CASE UNCHANGED rows
        BY <1>9, <3>1 DEF ClaimError
      <3>2. ASSUME NEW i \in Oldest, rows' = SetStatus(i, "running") PROVE RowsBelowSeq'
        BY <1>9, <3>2 DEF ClaimError, SetStatus, Oldest, Claimable, Queued, NoRow
      <3> QED
        BY <1>9, <3>1, <3>2 DEF ClaimError
    <2>2. HeldRow' /\ FailurePending'
      BY <1>9 DEF ClaimError
    <2> QED
      BY <2>1, <2>2
  <1>10. CASE Retry
    BY <1>10 DEF Retry
  <1>11. CASE FallAsleep
    BY <1>11 DEF FallAsleep
  <1>12. CASE Wake
    BY <1>12 DEF Wake
  <1>13. CASE FallbackPoll
    BY <1>13 DEF FallbackPoll
  <1>14. CASE Bracket
    BY <1>14 DEF Bracket
  <1>15. CASE OpenWork
    BY <1>15 DEF OpenWork
  <1>16. CASE NoDispatcher
    BY <1>16 DEF NoDispatcher, SetStatus, NoRow
  <1>17. CASE OpenError
    BY <1>17 DEF OpenError
  <1>18. ASSUME NEW n \in 1 .. MaxJobs, EnqueueChildren(n)
        PROVE  TableInv'
    BY <1>18 DEF EnqueueChildren, NewRow, JobIds
  <1>19. CASE Succeed
    BY <1>19 DEF Succeed, SetStatus, NoRow
  <1>20. CASE Fail
    BY <1>20 DEF Fail
  <1>21. CASE SucceedUnacked
    BY <1>21 DEF SucceedUnacked, SetStatus, NoRow
  <1>22. CASE LeaveBracket
    BY <1>22 DEF LeaveBracket
  <1>23. CASE RecordFailure
    BY <1>23 DEF RecordFailure, SetStatus, NoRow
  <1>24. CASE RecordError
    BY <1>24 DEF RecordError
  <1>25. CASE Stop
    BY <1>25 DEF Stop
  <1>26. CASE CancelTask
    BY <1>26 DEF CancelTask
  <1>27. CASE Shutdown
    BY <1>27 DEF Shutdown, Forget
  <1>28. CASE Crash
    BY <1>28 DEF Crash, Forget
  <1>29. CASE Restart
    BY <1>29 DEF Restart, NoRow
  <1>30. CASE Tick
    BY <1>30 DEF Tick
  <1>31. CASE UNCHANGED vars
    BY <1>31 DEF vars
  <1> QED
    BY <1>1, <1>2, <1>3, <1>4, <1>5, <1>6, <1>7, <1>8, <1>9, <1>10, <1>11,
       <1>12, <1>13, <1>14, <1>15, <1>16, <1>17, <1>18, <1>19, <1>20, <1>21, <1>22,
       <1>23, <1>24, <1>25, <1>26, <1>27, <1>28, <1>29, <1>30, <1>31
    DEF Next, RequestStep, HandlerStep, WorkerStep, ProcessStep

-----------------------------------------------------------------------------
(* The banner *)

IsWindow(i, time) == i \in Queued /\ rows[i].kind \in SweepKinds /\ rows[i].due = time

\* A sweep inserted but not announced yet cannot have left the queue before its time.
WindowAnnounced ==
    \A h \in Handlers :
        /\ handlers[h].pc = "announce"
        /\ Head(handlers[h].todo) \in SweepKinds
        /\ handlers[h].due > now
        => \E i \in JobIds : IsWindow(i, handlers[h].due)

BannerInv == BannerHasWindow /\ WindowAnnounced

\* Windows still to come survive every step.
LEMMA WindowsSurvive ==
    TInv /\ TableInv /\ [Next]_vars =>
        \A i \in JobIds, time \in Times : IsWindow(i, time) /\ time > now' => IsWindow(i, time)'
  <1> SUFFICES ASSUME TInv, TableInv, [Next]_vars, NEW i \in JobIds, NEW time \in Times,
                      IsWindow(i, time), time > now'
               PROVE  IsWindow(i, time)'
    OBVIOUS
  <1> USE DEF TInv, TypeOK, TableInv, RowsBelowSeq, HeldRow, Dispatching, IsWindow, Queued, dbVars
  <1>1. ASSUME NEW h \in Handlers, NEW e \in Endpoints, NEW plan \in Plans(e), NEW delay \in Times, Request(h, e, plan, delay)
        PROVE  IsWindow(i, time)'
    BY <1>1 DEF Request
  <1>2. ASSUME NEW h \in Handlers, Insert(h)
        PROVE  IsWindow(i, time)'
    BY <1>2 DEF Insert, NewRow, JobIds, NoRow
  <1>3. ASSUME NEW h \in Handlers, InsertFails(h)
        PROVE  IsWindow(i, time)'
    BY <1>3 DEF InsertFails
  <1>4. ASSUME NEW h \in Handlers, Announce(h)
        PROVE  IsWindow(i, time)'
    BY <1>4 DEF Announce
  <1>5. CASE LeaveLoop
    BY <1>5 DEF LeaveLoop
  <1>6. CASE GateOpen
    BY <1>6 DEF GateOpen
  <1>7. CASE Claim
    BY <1>7 DEF Claim, Oldest, Claimable, Times, SetStatus
  <1>8. CASE QueueEmpty
    BY <1>8 DEF QueueEmpty
  <1>9. CASE ClaimError
    BY <1>9 DEF ClaimError, Oldest, Claimable, Times, SetStatus
  <1>10. CASE Retry
    BY <1>10 DEF Retry
  <1>11. CASE FallAsleep
    BY <1>11 DEF FallAsleep
  <1>12. CASE Wake
    BY <1>12 DEF Wake
  <1>13. CASE FallbackPoll
    BY <1>13 DEF FallbackPoll
  <1>14. CASE Bracket
    BY <1>14 DEF Bracket
  <1>15. CASE OpenWork
    BY <1>15 DEF OpenWork
  <1>16. CASE NoDispatcher
    BY <1>16 DEF NoDispatcher, SetStatus
  <1>17. CASE OpenError
    BY <1>17 DEF OpenError
  <1>18. ASSUME NEW n \in 1 .. MaxJobs, EnqueueChildren(n)
        PROVE  IsWindow(i, time)'
    BY <1>18 DEF EnqueueChildren, NewRow, JobIds, NoRow
  <1>19. CASE Succeed
    BY <1>19 DEF Succeed, SetStatus
  <1>20. CASE Fail
    BY <1>20 DEF Fail
  <1>21. CASE SucceedUnacked
    BY <1>21 DEF SucceedUnacked, SetStatus
  <1>22. CASE LeaveBracket
    BY <1>22 DEF LeaveBracket
  <1>23. CASE RecordFailure
    BY <1>23 DEF RecordFailure, SetStatus
  <1>24. CASE RecordError
    BY <1>24 DEF RecordError
  <1>25. CASE Stop
    BY <1>25 DEF Stop
  <1>26. CASE CancelTask
    BY <1>26 DEF CancelTask
  <1>27. CASE Shutdown
    BY <1>27 DEF Shutdown, Forget
  <1>28. CASE Crash
    BY <1>28 DEF Crash, Forget
  <1>29. CASE Restart
    BY <1>29 DEF Restart
  <1>30. CASE Tick
    BY <1>30 DEF Tick
  <1>31. CASE UNCHANGED vars
    BY <1>31 DEF vars
  <1> QED
    BY <1>1, <1>2, <1>3, <1>4, <1>5, <1>6, <1>7, <1>8, <1>9, <1>10, <1>11,
       <1>12, <1>13, <1>14, <1>15, <1>16, <1>17, <1>18, <1>19, <1>20, <1>21, <1>22,
       <1>23, <1>24, <1>25, <1>26, <1>27, <1>28, <1>29, <1>30, <1>31
    DEF Next, RequestStep, HandlerStep, WorkerStep, ProcessStep

\* A step that publishes no banner time and commits no sweep keeps both facts.
QuietStep ==
    /\ scheduled' \in {scheduled, Never}
    /\ now' >= now
    /\ \A h \in Handlers : handlers'[h] = handlers[h] \/ handlers'[h].pc # "announce"

LEMMA BannerKept ==
    ASSUME TInv, TableInv, BannerInv, [Next]_vars, QuietStep
    PROVE  BannerInv'
  <1>1. TypeOK /\ TypeOK'
    BY TInvNext DEF TInv
  <1>2. BannerHasWindow'
    <2> SUFFICES ASSUME scheduled' > now'
                 PROVE  \E i \in JobIds : IsWindow(i, scheduled)'
      BY DEF BannerHasWindow, IsWindow, Queued
    <2>1. scheduled' = scheduled /\ scheduled \in Times /\ scheduled > now
      BY <1>1 DEF QuietStep, TypeOK, Times, Never
    <2>2. PICK i \in JobIds : IsWindow(i, scheduled)
      BY <2>1 DEF BannerInv, BannerHasWindow, IsWindow, Queued
    <2> QED
      BY <2>1, <2>2, WindowsSurvive DEF IsWindow
  <1>3. WindowAnnounced'
    <2> SUFFICES ASSUME NEW h \in Handlers, handlers'[h].pc = "announce",
                        Head(handlers'[h].todo) \in SweepKinds, handlers'[h].due > now'
                 PROVE  \E i \in JobIds : IsWindow(i, handlers[h].due)'
      BY DEF WindowAnnounced
    <2>1. handlers'[h] = handlers[h] /\ handlers[h].due \in Times /\ handlers[h].due > now
      BY <1>1 DEF QuietStep, TypeOK, Handler, Times
    <2>2. PICK i \in JobIds : IsWindow(i, handlers[h].due)
      BY <2>1 DEF BannerInv, WindowAnnounced
    <2> QED
      BY <2>1, <2>2, WindowsSurvive DEF IsWindow
  <1> QED
    BY <1>2, <1>3 DEF BannerInv

LEMMA BannerStep == TInv /\ TableInv /\ BannerInv /\ [Next]_vars => BannerInv'
  <1> SUFFICES ASSUME TInv, TableInv, BannerInv, [Next]_vars PROVE BannerInv'
    OBVIOUS
  <1> USE DEF gateVars
  <1>1. ASSUME NEW h \in Handlers, NEW e \in Endpoints, NEW plan \in Plans(e), NEW delay \in Times, Request(h, e, plan, delay)
        PROVE  BannerInv'
    BY <1>1, BannerKept DEF Request, QuietStep, TInv, TypeOK, Times, Idle
  <1>2. ASSUME NEW h \in Handlers, Insert(h)
        PROVE  BannerInv'
    <2> DEFINE kind == Head(handlers[h].todo)
               due == IF kind \in SweepKinds THEN now + handlers[h].delay ELSE 0
    <2>1. seq + 1 \in JobIds
      BY <1>2, BoundsAssumption DEF Insert, TInv, TypeOK, JobIds
    <2>2. rows'[seq + 1] = [kind |-> kind, status |-> "queued", due |-> due, created |-> seq + 1]
      <3>1. rows' = [rows EXCEPT ![seq + 1] = NewRow(kind, due, seq + 1)]
        BY <1>2, Zenon DEF Insert
      <3> QED
        BY <2>1, <3>1, Zenon DEF NewRow, TInv, TypeOK
    <2>3. BannerHasWindow'
      <3> SUFFICES ASSUME scheduled' > now' PROVE \E i \in JobIds : IsWindow(i, scheduled)'
        BY DEF BannerHasWindow, IsWindow, Queued
      <3>1. scheduled' = scheduled /\ now' = now /\ scheduled \in Times
        BY <1>2 DEF Insert, TInv, TypeOK, Times, Never
      <3>2. PICK i \in JobIds : IsWindow(i, scheduled)
        BY <3>1 DEF BannerInv, BannerHasWindow, IsWindow, Queued
      <3> QED
        BY <3>1, <3>2, WindowsSurvive DEF IsWindow
    <2>4. WindowAnnounced'
      <3> SUFFICES ASSUME NEW g \in Handlers, handlers'[g].pc = "announce",
                          Head(handlers'[g].todo) \in SweepKinds, handlers'[g].due > now'
                   PROVE  \E i \in JobIds : IsWindow(i, handlers[g].due)'
        BY DEF WindowAnnounced
      <3>1. now' = now /\ handlers' = [handlers EXCEPT ![h].pc = "announce", ![h].due = due]
        BY <1>2 DEF Insert
      <3>2. CASE g = h
        <4>1. Head(handlers'[g].todo) = kind /\ handlers'[g].due = due
          BY <3>1, <3>2 DEF TInv, TypeOK, Handler
        <4> QED
          BY <2>1, <2>2, <3>2, <4>1 DEF IsWindow, Queued
      <3>3. CASE g # h
        <4>1. handlers'[g] = handlers[g] /\ handlers[g].due \in Times
          BY <3>1, <3>3 DEF TInv, TypeOK, Handler
        <4>2. PICK i \in JobIds : IsWindow(i, handlers[g].due)
          BY <3>1, <4>1 DEF BannerInv, WindowAnnounced
        <4> QED
          BY <3>1, <4>1, <4>2, WindowsSurvive DEF IsWindow
      <3> QED
        BY <3>2, <3>3
    <2> QED
      BY <2>3, <2>4 DEF BannerInv
  <1>3. ASSUME NEW h \in Handlers, InsertFails(h)
        PROVE  BannerInv'
    BY <1>3, BannerKept DEF InsertFails, QuietStep, TInv, TypeOK, Times, Idle
  <1>4. ASSUME NEW h \in Handlers, Announce(h)
        PROVE  BannerInv'
    <2>1. now' = now /\ UNCHANGED rows
      BY <1>4 DEF Announce, dbVars
    <2>2. \A g \in Handlers : handlers'[g] = handlers[g] \/ handlers'[g].pc # "announce"
      BY <1>4 DEF Announce, Advance, Idle, TInv, TypeOK, Handler
    <2>3. CASE Head(handlers[h].todo) \in SweepKinds
      <3>1. scheduled' = handlers[h].due
        BY <1>4, <2>3 DEF Announce
      <3>2. WindowAnnounced'
        BY <2>1, <2>2 DEF BannerInv, WindowAnnounced, IsWindow, Queued
      <3>3. BannerHasWindow'
        BY <1>4, <2>1, <2>3, <3>1
        DEF Announce, BannerInv, WindowAnnounced, BannerHasWindow, IsWindow, Queued
      <3> QED
        BY <3>2, <3>3 DEF BannerInv
    <2>4. CASE Head(handlers[h].todo) \notin SweepKinds
      <3>1. QuietStep
        BY <1>4, <2>1, <2>2, <2>4 DEF Announce, QuietStep, TInv, TypeOK, Times
      <3> QED
        BY <3>1, BannerKept
    <2> QED
      BY <2>3, <2>4
  <1>5. CASE LeaveLoop
    BY <1>5, BannerKept DEF LeaveLoop, QuietStep, TInv, TypeOK, Times
  <1>6. CASE GateOpen
    BY <1>6, BannerKept DEF GateOpen, QuietStep, TInv, TypeOK, Times
  <1>7. CASE Claim
    BY <1>7, BannerKept DEF Claim, QuietStep, TInv, TypeOK, Times
  <1>8. CASE QueueEmpty
    BY <1>8, BannerKept DEF QueueEmpty, QuietStep, TInv, TypeOK, Times
  <1>9. CASE ClaimError
    BY <1>9, BannerKept DEF ClaimError, QuietStep, TInv, TypeOK, Times
  <1>10. CASE Retry
    BY <1>10, BannerKept DEF Retry, QuietStep, TInv, TypeOK, Times
  <1>11. CASE FallAsleep
    BY <1>11, BannerKept DEF FallAsleep, QuietStep, TInv, TypeOK, Times
  <1>12. CASE Wake
    BY <1>12, BannerKept DEF Wake, QuietStep, TInv, TypeOK, Times
  <1>13. CASE FallbackPoll
    BY <1>13, BannerKept DEF FallbackPoll, QuietStep, TInv, TypeOK, Times
  <1>14. CASE Bracket
    BY <1>14, BannerKept DEF Bracket, QuietStep, TInv, TypeOK, Times
  <1>15. CASE OpenWork
    BY <1>15, BannerKept DEF OpenWork, QuietStep, TInv, TypeOK, Times
  <1>16. CASE NoDispatcher
    BY <1>16, BannerKept DEF NoDispatcher, QuietStep, TInv, TypeOK, Times
  <1>17. CASE OpenError
    BY <1>17, BannerKept DEF OpenError, QuietStep, TInv, TypeOK, Times
  <1>18. ASSUME NEW n \in 1 .. MaxJobs, EnqueueChildren(n)
        PROVE  BannerInv'
    BY <1>18, BannerKept DEF EnqueueChildren, QuietStep, TInv, TypeOK, Times
  <1>19. CASE Succeed
    BY <1>19, BannerKept DEF Succeed, QuietStep, TInv, TypeOK, Times
  <1>20. CASE Fail
    BY <1>20, BannerKept DEF Fail, QuietStep, TInv, TypeOK, Times
  <1>21. CASE SucceedUnacked
    BY <1>21, BannerKept DEF SucceedUnacked, QuietStep, TInv, TypeOK, Times
  <1>22. CASE LeaveBracket
    BY <1>22, BannerKept DEF LeaveBracket, QuietStep, TInv, TypeOK, Times, LowerFlag
  <1>23. CASE RecordFailure
    BY <1>23, BannerKept DEF RecordFailure, QuietStep, TInv, TypeOK, Times
  <1>24. CASE RecordError
    BY <1>24, BannerKept DEF RecordError, QuietStep, TInv, TypeOK, Times
  <1>25. CASE Stop
    BY <1>25, BannerKept DEF Stop, QuietStep, TInv, TypeOK, Times
  <1>26. CASE CancelTask
    BY <1>26, BannerKept DEF CancelTask, QuietStep, TInv, TypeOK, Times, LowerFlag
  <1>27. CASE Shutdown
    BY <1>27, BannerKept DEF Shutdown, QuietStep, TInv, TypeOK, Times, Forget, Idle
  <1>28. CASE Crash
    BY <1>28, BannerKept DEF Crash, QuietStep, TInv, TypeOK, Times, Forget, Idle
  <1>29. CASE Restart
    BY <1>29, BannerKept DEF Restart, QuietStep, TInv, TypeOK, Times
  <1>30. CASE Tick
    BY <1>30, BannerKept DEF Tick, QuietStep, TInv, TypeOK, Times
  <1>31. CASE UNCHANGED vars
    BY <1>31, BannerKept DEF vars, QuietStep, TInv, TypeOK, Times
  <1> QED
    BY <1>1, <1>2, <1>3, <1>4, <1>5, <1>6, <1>7, <1>8, <1>9, <1>10, <1>11,
       <1>12, <1>13, <1>14, <1>15, <1>16, <1>17, <1>18, <1>19, <1>20, <1>21, <1>22,
       <1>23, <1>24, <1>25, <1>26, <1>27, <1>28, <1>29, <1>30, <1>31
    DEF Next, RequestStep, HandlerStep, WorkerStep, ProcessStep

-----------------------------------------------------------------------------
(* Terminal rows *)

LEMMA TerminalStep ==
    ASSUME TInv, TableInv, [Next]_vars,
           NEW i \in JobIds, rows[i].status \in {"succeeded", "failed"}
    PROVE  rows'[i] = rows[i] \/ (failure /\ job.id = i)
  <1> USE DEF TInv, TypeOK, TableInv, RowsBelowSeq, HeldRow, FailurePending, Dispatching, dbVars
  <1>1. ASSUME NEW h \in Handlers, NEW e \in Endpoints, NEW plan \in Plans(e), NEW delay \in Times, Request(h, e, plan, delay)
        PROVE  rows'[i] = rows[i] \/ (failure /\ job.id = i)
    BY <1>1 DEF Request
  <1>2. ASSUME NEW h \in Handlers, Insert(h)
        PROVE  rows'[i] = rows[i] \/ (failure /\ job.id = i)
    BY <1>2 DEF Insert, NewRow, JobIds, NoRow
  <1>3. ASSUME NEW h \in Handlers, InsertFails(h)
        PROVE  rows'[i] = rows[i] \/ (failure /\ job.id = i)
    BY <1>3 DEF InsertFails
  <1>4. ASSUME NEW h \in Handlers, Announce(h)
        PROVE  rows'[i] = rows[i] \/ (failure /\ job.id = i)
    BY <1>4 DEF Announce
  <1>5. CASE LeaveLoop
    BY <1>5 DEF LeaveLoop
  <1>6. CASE GateOpen
    BY <1>6 DEF GateOpen
  <1>7. CASE Claim
    BY <1>7 DEF Claim, Oldest, Claimable, Queued, SetStatus
  <1>8. CASE QueueEmpty
    BY <1>8 DEF QueueEmpty
  <1>9. CASE ClaimError
    BY <1>9 DEF ClaimError, Oldest, Claimable, Queued, SetStatus
  <1>10. CASE Retry
    BY <1>10 DEF Retry
  <1>11. CASE FallAsleep
    BY <1>11 DEF FallAsleep
  <1>12. CASE Wake
    BY <1>12 DEF Wake
  <1>13. CASE FallbackPoll
    BY <1>13 DEF FallbackPoll
  <1>14. CASE Bracket
    BY <1>14 DEF Bracket
  <1>15. CASE OpenWork
    BY <1>15 DEF OpenWork
  <1>16. CASE NoDispatcher
    BY <1>16 DEF NoDispatcher, SetStatus
  <1>17. CASE OpenError
    BY <1>17 DEF OpenError
  <1>18. ASSUME NEW n \in 1 .. MaxJobs, EnqueueChildren(n)
        PROVE  rows'[i] = rows[i] \/ (failure /\ job.id = i)
    BY <1>18 DEF EnqueueChildren, NewRow, JobIds, NoRow
  <1>19. CASE Succeed
    BY <1>19 DEF Succeed, SetStatus
  <1>20. CASE Fail
    BY <1>20 DEF Fail
  <1>21. CASE SucceedUnacked
    BY <1>21 DEF SucceedUnacked, SetStatus
  <1>22. CASE LeaveBracket
    BY <1>22 DEF LeaveBracket
  <1>23. CASE RecordFailure
    BY <1>23 DEF RecordFailure, SetStatus
  <1>24. CASE RecordError
    BY <1>24 DEF RecordError
  <1>25. CASE Stop
    BY <1>25 DEF Stop
  <1>26. CASE CancelTask
    BY <1>26 DEF CancelTask
  <1>27. CASE Shutdown
    BY <1>27 DEF Shutdown, Forget
  <1>28. CASE Crash
    BY <1>28 DEF Crash, Forget
  <1>29. CASE Restart
    BY <1>29 DEF Restart
  <1>30. CASE Tick
    BY <1>30 DEF Tick
  <1>31. CASE UNCHANGED vars
    BY <1>31 DEF vars
  <1> QED
    BY <1>1, <1>2, <1>3, <1>4, <1>5, <1>6, <1>7, <1>8, <1>9, <1>10, <1>11,
       <1>12, <1>13, <1>14, <1>15, <1>16, <1>17, <1>18, <1>19, <1>20, <1>21, <1>22,
       <1>23, <1>24, <1>25, <1>26, <1>27, <1>28, <1>29, <1>30, <1>31
    DEF Next, RequestStep, HandlerStep, WorkerStep, ProcessStep

-----------------------------------------------------------------------------
(* The theorems *)

LEMMA InvariantsInit ==
    Init => TInv /\ RunningIsHeld /\ FlagMatchesBracket /\ TableInv /\ BannerInv
  <1>1. Init => RunningIsHeld /\ FlagMatchesBracket
    BY DEF Init, RunningIsHeld, FlagMatchesBracket, InBracket
  <1>2. Init => TableInv
    BY DEF Init, TableInv, RowsBelowSeq, HeldRow, FailurePending, Dispatching
  <1>3. Init => BannerInv
    BY DEF Init, BannerInv, BannerHasWindow, WindowAnnounced, Never, Idle
  <1> QED
    BY <1>1, <1>2, <1>3, TInvInit

LEMMA WorkerInvariant == Spec => [](TInv /\ TableInv)
  BY InvariantsInit, TInvNext, TableStep, PTL DEF Spec

\* No path out of dispatch_one strands a job in `running` while the process is up
\* and the database answers, whatever crashes, cancellations and restarts happen.
THEOREM NoStrandedJob == Spec => []RunningIsHeld
  BY InvariantsInit, TInvNext, RunningStep, PTL DEF Spec

\* The maintenance flag is up exactly while a sweep runs: no failure, cancellation or
\* restart leaves the whole application answering 503.
THEOREM MaintenanceFlag == Spec => []FlagMatchesBracket
  BY InvariantsInit, TInvNext, FlagStep, PTL DEF Spec

\* The banner never counts down to a sweep that is not queued for that time.
THEOREM NoPhantomBanner == Spec => []BannerHasWindow
  <1>1. BannerInv => BannerHasWindow
    BY DEF BannerInv
  <1> QED
    BY InvariantsInit, TInvNext, TableStep, BannerStep, <1>1, PTL DEF Spec

\* History is append-only: a terminal row changes only by the worker's late failure record.
THEOREM TerminalRowsStay == Spec => TerminalIsFinal
  <1>1. TInv /\ TableInv /\ [Next]_vars =>
          [\A i \in JobIds : rows[i].status \in {"succeeded", "failed"} =>
             rows'[i] = rows[i] \/ (failure /\ job.id = i)]_vars
    BY TerminalStep
  <1> QED
    BY WorkerInvariant, <1>1, PTL DEF Spec, TerminalIsFinal

-----------------------------------------------------------------------------
(* JobWorker implements JobLifecycle: every step of the job system is a step of *)
(* the promise made to the readers of the jobs table, or leaves what they see   *)
(* alone.                                                                      *)

\* The refinement mapping of `Lifecycle`, named.
Status == [i \in JobIds |-> rows[i].status]
Held == IF Holding THEN job.id ELSE 0

LStutter == Status' = Status /\ Held' = Held

\* The actions of JobLifecycle under the mapping, as facts about Status and Held.
LEMMA MappedSteps ==
    /\ LStutter => UNCHANGED Lifecycle!lvars
    /\ \A S \in SUBSET JobIds :
          /\ S # {} /\ \A j \in S : Status[j] = "absent"
          /\ Status' = [j \in JobIds |-> IF j \in S THEN "queued" ELSE Status[j]]
          /\ Held' = Held
          => Lifecycle!LNext
    /\ \A j \in JobIds :
          /\ Held = 0 /\ Status[j] = "queued"
          /\ Status' = [Status EXCEPT ![j] = "running"]
          /\ Held' \in {0, j}
          => Lifecycle!LNext
    /\ \A j \in JobIds, o \in {"succeeded", "failed"} :
          /\ Held = j /\ Held' = 0
          /\ Status' = [Status EXCEPT ![j] = o]
          => Lifecycle!LNext
    /\ \A j \in JobIds :
          /\ Held = j /\ Held' = Held /\ Status[j] = "running"
          /\ Status' = [Status EXCEPT ![j] = "succeeded"]
          => Lifecycle!LNext
    /\ Held' = 0 /\ Status' = Status => Lifecycle!LNext \/ UNCHANGED Lifecycle!lvars
    /\ /\ Held = 0 /\ Held' = 0
       /\ Status' = [j \in JobIds |-> IF Status[j] = "running" THEN "failed" ELSE Status[j]]
       => Lifecycle!LNext
  <1> USE DEF Status, Held, Lifecycle!LNext, Lifecycle!lvars
  <1>1. LStutter => UNCHANGED Lifecycle!lvars
    BY DEF LStutter
  <1>2. ASSUME NEW S \in SUBSET JobIds, S # {}, \A j \in S : Status[j] = "absent",
               Status' = [j \in JobIds |-> IF j \in S THEN "queued" ELSE Status[j]],
               Held' = Held
        PROVE  Lifecycle!LNext
    BY <1>2 DEF Lifecycle!Create
  <1>3. ASSUME NEW j \in JobIds, Held = 0, Status[j] = "queued",
               Status' = [Status EXCEPT ![j] = "running"], Held' \in {0, j}
        PROVE  Lifecycle!LNext
    BY <1>3 DEF Lifecycle!Start, Lifecycle!Lose
  <1>4. ASSUME NEW j \in JobIds, NEW o \in {"succeeded", "failed"}, Held = j, Held' = 0,
               Status' = [Status EXCEPT ![j] = o]
        PROVE  Lifecycle!LNext
    BY <1>4 DEF Lifecycle!Finish, Lifecycle!Terminal
  <1>5. ASSUME NEW j \in JobIds, Held = j, Held' = Held, Status[j] = "running",
               Status' = [Status EXCEPT ![j] = "succeeded"]
        PROVE  Lifecycle!LNext
    BY <1>5 DEF Lifecycle!Unacknowledged
  <1>6. ASSUME Held' = 0, Status' = Status PROVE Lifecycle!LNext \/ UNCHANGED Lifecycle!lvars
    BY <1>6 DEF Lifecycle!Abandon
  <1>7. ASSUME Held = 0, Held' = 0,
               Status' = [j \in JobIds |-> IF Status[j] = "running" THEN "failed" ELSE Status[j]]
        PROVE  Lifecycle!LNext
    BY <1>7 DEF Lifecycle!Reap
  <1> QED
    BY <1>1, <1>2, <1>3, <1>4, <1>5, <1>6, <1>7

LEMMA StatusOfSetStatus ==
    ASSUME TypeOK, NEW i \in JobIds, NEW s, rows' = SetStatus(i, s)
    PROVE  Status' = [Status EXCEPT ![i] = s]
  <1>1. rows[i] \in Row \cup {NoRow}
    BY DEF TypeOK
  <1>2. rows'[i].status = s
    BY <1>1 DEF TypeOK, SetStatus, Row, NoRow
  <1>3. \A j \in JobIds : j # i => rows'[j] = rows[j]
    BY DEF TypeOK, SetStatus
  <1> QED
    BY <1>2, <1>3 DEF Status

LEMMA RefinementStep ==
    TInv /\ TableInv /\ [Next]_vars => Lifecycle!LNext \/ UNCHANGED Lifecycle!lvars
  <1> DEFINE Goal == Lifecycle!LNext \/ UNCHANGED Lifecycle!lvars
  <1> SUFFICES ASSUME TInv, TableInv, [Next]_vars PROVE Goal
    OBVIOUS
  <1> HIDE DEF Goal
  <1>0. LStutter => Goal
    BY MappedSteps DEF Goal
  <1> USE DEF TInv, TypeOK, TableInv, HeldRow, FailurePending, Dispatching, JobHeld,
              Status, Held, Holding, dbVars, workVars
  <1>1. ASSUME NEW h \in Handlers, NEW e \in Endpoints, NEW plan \in Plans(e), NEW delay \in Times, Request(h, e, plan, delay)
        PROVE  Goal
    BY <1>1, <1>0 DEF Request, LStutter
  <1>2. ASSUME NEW h \in Handlers, Insert(h)
        PROVE  Goal
    <2>1. seq + 1 \in JobIds /\ Status[seq + 1] = "absent"
      BY <1>2, BoundsAssumption DEF Insert, RowsBelowSeq, NoRow, JobIds
    <2>2. rows' = [rows EXCEPT ![seq + 1] = rows'[seq + 1]] /\ rows'[seq + 1].status = "queued"
      BY <1>2, <2>1 DEF Insert, NewRow
    <2>3. Status' = [j \in JobIds |-> IF j \in {seq + 1} THEN "queued" ELSE Status[j]]
      BY <2>1, <2>2
    <2>4. Held' = Held
      BY <1>2 DEF Insert
    <2> QED
      BY <2>1, <2>3, <2>4, MappedSteps DEF Goal
  <1>3. ASSUME NEW h \in Handlers, InsertFails(h)
        PROVE  Goal
    BY <1>3, <1>0 DEF InsertFails, LStutter
  <1>4. ASSUME NEW h \in Handlers, Announce(h)
        PROVE  Goal
    BY <1>4, <1>0 DEF Announce, LStutter
  <1>5. CASE LeaveLoop
    BY <1>5, <1>0 DEF LeaveLoop, LStutter
  <1>6. CASE GateOpen
    BY <1>6, <1>0 DEF GateOpen, LStutter
  <1>7. CASE Claim
    <2> PICK i \in Oldest : rows' = SetStatus(i, "running") /\ job' = [id |-> i, kind |-> rows[i].kind]
      BY <1>7 DEF Claim
    <2>1. i \in JobIds /\ Status[i] = "queued" /\ Held = 0
      BY <1>7 DEF Claim, Oldest, Claimable, Queued
    <2>2. Status' = [Status EXCEPT ![i] = "running"]
      BY <2>1, StatusOfSetStatus
    <2>3. Held' = i
      BY <1>7 DEF Claim
    <2> QED
      BY <2>1, <2>2, <2>3, MappedSteps DEF Goal
  <1>8. CASE QueueEmpty
    BY <1>8, <1>0 DEF QueueEmpty, LStutter
  <1>9. CASE ClaimError
    <2>1. Held = 0 /\ Held' = 0
      BY <1>9 DEF ClaimError
    <2>2. CASE UNCHANGED rows
      BY <1>0, <2>1, <2>2 DEF LStutter
    <2>3. ASSUME NEW i \in Oldest, rows' = SetStatus(i, "running") PROVE Goal
      <3>1. i \in JobIds /\ Status[i] = "queued"
        BY DEF Oldest, Claimable, Queued
      <3>2. Status' = [Status EXCEPT ![i] = "running"]
        BY <2>3, <3>1, StatusOfSetStatus
      <3> QED
        BY <2>1, <3>1, <3>2, MappedSteps DEF Goal
    <2> QED
      BY <1>9, <2>2, <2>3 DEF ClaimError
  <1>10. CASE Retry
    BY <1>10, <1>0 DEF Retry, LStutter
  <1>11. CASE FallAsleep
    BY <1>11, <1>0 DEF FallAsleep, LStutter
  <1>12. CASE Wake
    BY <1>12, <1>0 DEF Wake, LStutter
  <1>13. CASE FallbackPoll
    BY <1>13, <1>0 DEF FallbackPoll, LStutter
  <1>14. CASE Bracket
    BY <1>14, <1>0 DEF Bracket, LStutter
  <1>15. CASE OpenWork
    BY <1>15, <1>0 DEF OpenWork, LStutter
  <1>16. CASE NoDispatcher
    <2>1. job.id \in JobIds /\ Held = job.id /\ Held' = 0
      BY <1>16 DEF NoDispatcher, NoJob
    <2>2. Status' = [Status EXCEPT ![job.id] = "failed"]
      BY <1>16, <2>1, StatusOfSetStatus DEF NoDispatcher
    <2> QED
      BY <2>1, <2>2, MappedSteps DEF Goal
  <1>17. CASE OpenError
    BY <1>17, <1>0 DEF OpenError, LStutter
  <1>18. ASSUME NEW n \in 1 .. MaxJobs, EnqueueChildren(n)
        PROVE  Goal
    <2> DEFINE children == seq + 1 .. seq + n
    <2>0. seq \in Nat /\ n \in Nat /\ n >= 1 /\ seq + n <= MaxJobs
      BY <1>18, BoundsAssumption DEF EnqueueChildren
    <2>1. children \in SUBSET JobIds /\ seq + 1 \in children
      BY <2>0, BoundsAssumption DEF JobIds
    <2>2. \A j \in children : Status[j] = "absent"
      BY <1>18, <2>1 DEF RowsBelowSeq, NoRow, JobIds
    <2>3. Status' = [j \in JobIds |-> IF j \in children THEN "queued" ELSE Status[j]]
      BY <1>18 DEF EnqueueChildren, NewRow
    <2>4. Held' = Held
      BY <1>18 DEF EnqueueChildren
    <2> QED
      BY <2>1, <2>2, <2>3, <2>4, MappedSteps DEF Goal
  <1>19. CASE Succeed
    <2>1. job.id \in JobIds /\ Held = job.id /\ Held' = 0
      BY <1>19 DEF Succeed, NoJob
    <2>2. Status' = [Status EXCEPT ![job.id] = "succeeded"]
      BY <1>19, <2>1, StatusOfSetStatus DEF Succeed
    <2> QED
      BY <2>1, <2>2, MappedSteps DEF Goal
  <1>20. CASE Fail
    BY <1>20, <1>0 DEF Fail, LStutter
  <1>21. CASE SucceedUnacked
    <2>1. job.id \in JobIds /\ Held = job.id /\ Held' = Held /\ Status[job.id] = "running"
      BY <1>21 DEF SucceedUnacked, NoJob
    <2>2. Status' = [Status EXCEPT ![job.id] = "succeeded"]
      BY <1>21, <2>1, StatusOfSetStatus DEF SucceedUnacked
    <2> QED
      BY <2>1, <2>2, MappedSteps DEF Goal
  <1>22. CASE LeaveBracket
    BY <1>22, <1>0 DEF LeaveBracket, LStutter
  <1>23. CASE RecordFailure
    <2>1. job.id \in JobIds /\ Held = job.id /\ Held' = 0
      BY <1>23 DEF RecordFailure, NoJob
    <2>2. Status' = [Status EXCEPT ![job.id] = "failed"]
      BY <1>23, <2>1, StatusOfSetStatus DEF RecordFailure
    <2> QED
      BY <2>1, <2>2, MappedSteps DEF Goal
  <1>24. CASE RecordError
    <2>1. Held' = 0 /\ Status' = Status
      BY <1>24 DEF RecordError
    <2> QED
      BY <2>1, MappedSteps DEF Goal
  <1>25. CASE Stop
    BY <1>25, <1>0 DEF Stop, LStutter
  <1>26. CASE CancelTask
    <2>1. Held' = 0 /\ Status' = Status
      BY <1>26 DEF CancelTask
    <2> QED
      BY <2>1, MappedSteps DEF Goal
  <1>27. CASE Shutdown
    <2>1. Held' = 0 /\ Status' = Status
      BY <1>27 DEF Shutdown, Forget
    <2> QED
      BY <2>1, MappedSteps DEF Goal
  <1>28. CASE Crash
    <2>1. Held' = 0 /\ Status' = Status
      BY <1>28 DEF Crash, Forget
    <2> QED
      BY <2>1, MappedSteps DEF Goal
  <1>29. CASE Restart
    <2>1. Held = 0 /\ Held' = 0
      BY <1>29 DEF Restart
    <2>2. Status' = [j \in JobIds |-> IF Status[j] = "running" THEN "failed" ELSE Status[j]]
      BY <1>29 DEF Restart
    <2> QED
      BY <2>1, <2>2, MappedSteps DEF Goal
  <1>30. CASE Tick
    BY <1>30, <1>0 DEF Tick, LStutter
  <1>31. CASE UNCHANGED vars
    BY <1>31, <1>0 DEF vars, LStutter
  <1> QED
    BY <1>1, <1>2, <1>3, <1>4, <1>5, <1>6, <1>7, <1>8, <1>9, <1>10, <1>11,
       <1>12, <1>13, <1>14, <1>15, <1>16, <1>17, <1>18, <1>19, <1>20, <1>21, <1>22,
       <1>23, <1>24, <1>25, <1>26, <1>27, <1>28, <1>29, <1>30, <1>31
    DEF Next, RequestStep, HandlerStep, WorkerStep, ProcessStep

\* The job system keeps the promise of JobLifecycle: a job is started at most once and
\* alone, and only the worker that holds it gives it an outcome.
THEOREM WorkerImplementsLifecycle == Spec => ImplementsLifecycle
  <1>1. Init => Lifecycle!LInit
    BY DEF Init, Lifecycle!LInit, NoRow, Holding
  <1>2. TInv /\ TableInv /\ [Next]_vars => [Lifecycle!LNext]_Lifecycle!lvars
    BY RefinementStep
  <1> QED
    BY WorkerInvariant, <1>1, <1>2, PTL DEF Spec, ImplementsLifecycle, Lifecycle!LSpec

-----------------------------------------------------------------------------
(* The worker beside restores: the inductive invariant *)

\* A dump, and a staging table, carry finished jobs only: a merge cannot queue one.
Finished(table) == \A i \in DOMAIN table : table[i].status # "queued"

OnlyFinished ==
    /\ Finished(newest.rows)
    /\ Finished(staging)
    /\ \A r \in Restores : Finished(target[r].rows)

RInv == TInv /\ RTypeOK /\ OnlyFinished

-----------------------------------------------------------------------------
(* Dumps and their ids *)

\* The first id a merge can give out after the highest one in a table.
LEMMA HighestIdBounds ==
    ASSUME NEW table
    PROVE  /\ HighestId(table) \in Nat \ {0}
           /\ \A i \in JobIds : table[i] # NoRow => i <= HighestId(table)
  <1> DEFINE S == {1} \cup {i \in JobIds : table[i] # NoRow}
  <1>1. S \subseteq 0 .. (MaxJobs + 1) /\ S # {} /\ MaxJobs + 1 \in Nat /\ 0 \notin S
    BY BoundsAssumption DEF JobIds
  <1>2. Max(S) \in S /\ \A y \in S : y <= Max(S)
    <2> HIDE DEF S
    <2> QED
      BY <1>1, MaxOfBounded
  <1>3. HighestId(table) = Max(S)
    BY DEF HighestId
  <1> QED
    BY <1>1, <1>2, <1>3

-----------------------------------------------------------------------------
(* Types *)

LEMMA TerminalRowsType ==
    ASSUME TypeOK
    PROVE  /\ TerminalRows \in [JobIds -> Row \cup {NoRow}] /\ Finished(TerminalRows)
           /\ Snapshot \in Dump /\ Finished(Snapshot.rows)
  <1>1. TerminalRows \in [JobIds -> Row \cup {NoRow}]
    BY DEF TerminalRows, TypeOK
  <1>2. Finished(TerminalRows)
    BY DEF TerminalRows, Finished, Terminal, NoRow
  <1> QED
    BY <1>1, <1>2 DEF Snapshot, Dump, TypeOK

LEMMA InstallDumpType == InstallDump \in Dump /\ Finished(InstallDump.rows)
  <1>1. NoRows \in [JobIds -> Row \cup {NoRow}] /\ Finished(NoRows)
    BY DEF NoRows, Finished, NoRow
  <1> QED
    BY <1>1, BoundsAssumption DEF InstallDump, Dump

LEMMA RInvInit == RInit => RInv
  <1> SUFFICES ASSUME RInit PROVE RInv
    OBVIOUS
  <1> USE DEF RInit
  <1>1. TInv
    BY TInvInit
  <1>2. RTypeOK
    <2>1. TypeOK
      BY <1>1 DEF TInv
    <2>2. newest \in Dump /\ target \in [Restores -> Dump]
      BY InstallDumpType
    <2>3. restores \in 0 .. MaxRestores /\ requests \in 0 .. MaxRequests
      BY RestoreAssumption
    <2> QED
      BY <2>1, <2>2, <2>3 DEF RTypeOK
  <1>3. OnlyFinished
    BY InstallDumpType DEF OnlyFinished, Finished, NoStaging
  <1> QED
    BY <1>1, <1>2, <1>3 DEF RInv

\* What a restore writes of the worker's variables, apart from the worker's own steps.
RestoreWrites ==
    \/ UNCHANGED vars
    \/ GateClosed \/ Vanished
    \/ \E r \in Restores :
          \/ SnapshotTaken(r) \/ PgRestore(r) \/ PgRestoreFails(r)
          \/ MergeAudit(r) \/ LiftGate(r)

LEMMA ComposedSteps == [RNext]_allVars => Next \/ RestoreWrites
  <1> USE DEF RestoreWrites, allVars, Next
  <1>1. CASE \E r \in Restores : RestoreStep(r)
    <2> PICK r \in Restores : RestoreStep(r)
      BY <1>1
    <2>1. \/ UNCHANGED vars
          \/ SnapshotTaken(r) \/ PgRestore(r) \/ PgRestoreFails(r)
          \/ MergeAudit(r) \/ LiftGate(r)
      BY DEF RestoreStep, SnapshotStage, SnapshotFails, StampLink, MergeSkipped
    <2> QED
      BY <2>1
  <1>2. CASE \E r \in Restores, d \in {InstallDump, newest} : RestoreRequest(r, d)
    BY <1>2 DEF RestoreRequest
  <1>3. CASE BackupStage \/ \E ok \in BOOLEAN : BackupUnstage(ok)
    BY <1>3 DEF BackupStage, BackupUnstage
  <1>4. CASE ComposedWorkerStep
    BY <1>4 DEF ComposedWorkerStep
  <1>5. CASE ComposedStop \/ ComposedCancel \/ ComposedRestart \/ ComposedDown
    BY <1>5 DEF ComposedStop, ComposedCancel, ComposedRestart, ComposedDown, ProcessStep
  <1> QED
    BY <1>1, <1>2, <1>3, <1>4, <1>5 DEF RNext

\* A merge appends a finished row, after finished rows from the staging table.
LEMMA MergeAuditRows ==
    ASSUME RInv, NEW r \in Restores, MergeAudit(r)
    PROVE  /\ rows' \in [JobIds -> Row \cup {NoRow}] /\ seq' \in JobIds
           /\ \A i \in JobIds : rows'[i].status = "queued" => rows'[i] = rows[i]
           /\ \A i \in JobIds : rows'[i] # NoRow => i <= seq' \/ (rows[i] # NoRow /\ i > seq)
  <1> DEFINE merging == rpc[r] = "stamped" /\ staging # NoStaging
             table == IF merging THEN Merged ELSE rows
             id == (IF merging THEN HighestId(table) ELSE seq) + 1
             outcome == IF rpc[r] = "stamped" THEN "succeeded" ELSE "failed"
  <1>1. id <= MaxJobs /\ rows' = [table EXCEPT ![id] = RestoreRow(outcome, id)] /\ seq' = id
    BY DEF MergeAudit
  <1>2. rows \in [JobIds -> Row \cup {NoRow}] /\ seq \in Nat
    BY DEF RInv, TInv, TypeOK
  <1>3. table \in [JobIds -> Row \cup {NoRow}]
    BY <1>2 DEF RInv, RTypeOK, Merged
  <1>4. id \in JobIds
    BY <1>1, <1>2, HighestIdBounds, BoundsAssumption DEF JobIds
  <1>5. RestoreRow(outcome, id) \in Row /\ RestoreRow(outcome, id).status # "queued"
    BY <1>4, BoundsAssumption DEF RestoreRow, Row, JobKinds, Statuses, Times
  <1>6. \A i \in JobIds : table[i].status = "queued" => table[i] = rows[i]
    BY <1>2, <1>3 DEF RInv, RTypeOK, OnlyFinished, Finished, Merged
  <1>7. \A i \in JobIds : table[i] # NoRow => i <= id \/ (rows[i] # NoRow /\ i > seq)
    <2>1. CASE merging
      BY <2>1, HighestIdBounds DEF JobIds
    <2>2. CASE ~merging
      BY <1>2, <2>2 DEF JobIds
    <2> QED
      BY <2>1, <2>2
  <1> HIDE DEF table, id, outcome
  <1> QED
    BY <1>1, <1>3, <1>4, <1>5, <1>6, <1>7 DEF JobIds

\* The worker's invariant does not depend on being the only one that writes the table.
LEMMA TInvComposed == RInv /\ [RNext]_allVars => TInv'
  <1> SUFFICES ASSUME RInv, [RNext]_allVars PROVE TInv'
    OBVIOUS
  <1> USE DEF RInv
  <1>1. CASE Next
    BY <1>1, TInvNext
  <1> USE DEF TInv, TypeOK, TodoPending, QueuedAreWork, JobHeld, StopCounted, Dispatching,
              dbVars, workVars, gateVars, eventVars, boundVars, PCs
  <1>2. CASE UNCHANGED vars
    BY <1>2 DEF vars
  <1>3. CASE GateClosed
    BY <1>3 DEF GateClosed
  <1>4. CASE Vanished
    BY <1>4 DEF Vanished
  <1>5. ASSUME NEW r \in Restores, SnapshotTaken(r) \/ LiftGate(r) PROVE TInv'
    <2>1. flag' \in BOOLEAN
      BY <1>5 DEF SnapshotTaken, LiftGate
    <2>2. UNCHANGED <<dbVars, pc, workVars, scheduled, eventVars, handlers, now, boundVars>>
      BY <1>5, Zenon DEF SnapshotTaken, LiftGate
    <2> QED
      BY <2>1, <2>2
  <1>6. ASSUME NEW r \in Restores, PgRestore(r) \/ PgRestoreFails(r) PROVE TInv'
    <2>1. target[r].seq \in 0 .. MaxJobs
      BY DEF RTypeOK, Dump
    <2>2. NoRows \in [JobIds -> Row \cup {NoRow}] /\ \A i \in JobIds : NoRows[i].status # "queued"
      BY DEF NoRows, NoRow
    <2> QED
      BY <1>6, <2>1, <2>2 DEF PgRestore, PgRestoreFails, Replace
  <1>7. ASSUME NEW r \in Restores, MergeAudit(r) PROVE TInv'
    <2>1. rows' \in [JobIds -> Row \cup {NoRow}] /\ QueuedAreWork'
      BY <1>7, MergeAuditRows
    <2>2. seq' \in 0 .. MaxJobs
      BY <1>7, MergeAuditRows DEF JobIds
    <2> QED
      BY <1>7, <2>1, <2>2 DEF MergeAudit
  <1> QED
    BY <1>1, <1>2, <1>3, <1>4, <1>5, <1>6, <1>7, ComposedSteps DEF RestoreWrites

LEMMA RestoreTypes == RInv /\ [RNext]_allVars => RTypeOK' /\ OnlyFinished'
  <1> SUFFICES ASSUME RInv, [RNext]_allVars PROVE RTypeOK' /\ OnlyFinished'
    OBVIOUS
  <1>1. TypeOK'
    BY TInvComposed DEF TInv
  <1>2. /\ TerminalRows \in [JobIds -> Row \cup {NoRow}] /\ Finished(TerminalRows)
        /\ Snapshot \in Dump /\ Finished(Snapshot.rows)
    BY TerminalRowsType DEF RInv, TInv
  <1>3. Finished(NoStaging)
    BY DEF Finished, NoStaging
  <1> USE DEF RInv, RTypeOK, OnlyFinished, restoreVars
  <1>4. CASE BackupStage
    BY <1>1, <1>2, <1>4 DEF BackupStage
  <1>5. ASSUME NEW ok \in BOOLEAN, BackupUnstage(ok) PROVE RTypeOK' /\ OnlyFinished'
    BY <1>1, <1>2, <1>3, <1>5 DEF BackupUnstage
  <1>6. ASSUME NEW r \in Restores, NEW d \in {InstallDump, newest}, RestoreRequest(r, d)
        PROVE  RTypeOK' /\ OnlyFinished'
    <2>1. d \in Dump /\ Finished(d.rows)
      BY InstallDumpType
    <2>2. target' \in [Restores -> Dump] /\ \A q \in Restores : Finished(target'[q].rows)
      BY <1>6, <2>1 DEF RestoreRequest
    <2>3. rpc' \in [Restores -> {"idle", "locking", "dumping", "window", "restored",
                                 "stamped", "broken", "merged"}]
      BY <1>6 DEF RestoreRequest
    <2>4. restores' \in 0 .. MaxRestores
      BY <1>6, RestoreAssumption DEF RestoreRequest
    <2> QED
      BY <1>1, <1>6, <2>2, <2>3, <2>4 DEF RestoreRequest
  <1>7. ASSUME NEW r \in Restores, SnapshotStage(r) \/ SnapshotTaken(r) \/ SnapshotFails(r)
        PROVE  RTypeOK' /\ OnlyFinished'
    BY <1>1, <1>2, <1>3, <1>7 DEF SnapshotStage, SnapshotTaken, SnapshotFails
  <1>8. ASSUME NEW r \in Restores, PgRestore(r) \/ PgRestoreFails(r)
        PROVE  RTypeOK' /\ OnlyFinished'
    <2>1. target[r].rows \in [JobIds -> Row \cup {NoRow}] /\ Finished(target[r].rows)
      BY DEF Dump
    <2> QED
      BY <1>1, <1>8, <2>1 DEF PgRestore, PgRestoreFails, Replace
  <1>9. ASSUME NEW r \in Restores, MergeAudit(r) PROVE RTypeOK' /\ OnlyFinished'
    BY <1>1, <1>3, <1>9 DEF MergeAudit
  <1>10. ASSUME NEW r \in Restores,
                MergeSkipped(r) \/ LiftGate(r) \/ \E found \in BOOLEAN : StampLink(r, found)
         PROVE  RTypeOK' /\ OnlyFinished'
    BY <1>1, <1>10 DEF MergeSkipped, LiftGate, StampLink
  <1>11. CASE ComposedWorkerStep
    BY <1>1, <1>11 DEF ComposedWorkerStep
  <1>12. CASE GateClosed \/ Vanished \/ ComposedStop \/ ComposedCancel \/ ComposedRestart
    BY <1>1, <1>12 DEF GateClosed, Vanished, ComposedStop, ComposedCancel, ComposedRestart
  <1>13. CASE ComposedDown
    BY <1>1, <1>13 DEF ComposedDown
  <1>14. CASE /\ RequestStep
              /\ requests < MaxRequests /\ requests' = requests + 1
              /\ UNCHANGED <<newest, staging, lock, backup, rpc, target, restores, wiped>>
    BY <1>1, <1>14, RestoreAssumption
  <1>15. CASE UNCHANGED restoreVars
    BY <1>1, <1>15
  <1> QED
    BY <1>4, <1>5, <1>6, <1>7, <1>8, <1>9, <1>10, <1>11, <1>12, <1>13, <1>14, <1>15
    DEF RNext, RestoreStep, allVars

LEMMA RInvNext == RInv /\ [RNext]_allVars => RInv'
  BY TInvComposed, RestoreTypes DEF RInv

\* Every behaviour of the worker and the restores together keeps the types of RTypeOK.
THEOREM RestoreTypeCorrect == RSpec => []RTypeOK
  <1>1. RInv => RTypeOK
    BY DEF RInv
  <1> QED
    BY RInvInit, RInvNext, <1>1, PTL DEF RSpec

-----------------------------------------------------------------------------
(* The gate *)

\* A step of the worker raises the flag in its bracket only, and leaves the bracket of
\* a sweep with the flag down.
LEMMA WorkerGate ==
    ASSUME TypeOK, [Next]_vars
    PROVE  flag' => InBracket' \/ (flag /\ ~InBracket)
  <1> USE DEF InBracket, TypeOK, dbVars, workVars, gateVars, eventVars, boundVars
  <1>1. ASSUME NEW h \in Handlers, NEW e \in Endpoints, NEW plan \in Plans(e),
               NEW delay \in Times, Request(h, e, plan, delay)
        PROVE  UNCHANGED <<pc, job, flag>>
    BY <1>1 DEF Request
  <1>2. ASSUME NEW h \in Handlers, HandlerStep(h) PROVE UNCHANGED <<pc, job, flag>>
    BY <1>2 DEF HandlerStep, Insert, InsertFails, Announce
  <1>3. CASE Tick \/ UNCHANGED vars
    BY <1>3 DEF Tick, vars
  <1>4. CASE LeaveLoop \/ GateOpen \/ Claim \/ QueueEmpty \/ ClaimError \/ Retry
              \/ FallAsleep \/ Wake \/ FallbackPoll
    BY <1>4 DEF LeaveLoop, GateOpen, Claim, QueueEmpty, ClaimError, Retry,
                FallAsleep, Wake, FallbackPoll
  <1>5. CASE Bracket
    BY <1>5 DEF Bracket
  <1>6. CASE OpenWork \/ NoDispatcher \/ OpenError
    BY <1>6 DEF OpenWork, NoDispatcher, OpenError
  <1>7. ASSUME NEW n \in 1 .. MaxJobs, EnqueueChildren(n) PROVE UNCHANGED <<pc, job, flag>>
    BY <1>7 DEF EnqueueChildren
  <1>8. CASE Succeed \/ Fail \/ SucceedUnacked
    BY <1>8 DEF Succeed, Fail, SucceedUnacked
  <1>9. CASE LeaveBracket
    BY <1>9 DEF LeaveBracket, LowerFlag
  <1>10. CASE RecordFailure \/ RecordError
    BY <1>10 DEF RecordFailure, RecordError
  <1>11. CASE CancelTask
    BY <1>11 DEF CancelTask, LowerFlag
  <1>12. CASE Stop \/ Shutdown \/ Crash \/ Restart
    BY <1>12 DEF Stop, Shutdown, Crash, Forget, Restart
  <1> QED
    BY <1>1, <1>2, <1>3, <1>4, <1>5, <1>6, <1>7, <1>8, <1>9, <1>10, <1>11, <1>12
    DEF Next, RequestStep, WorkerStep, ProcessStep

LEMMA GateInit == RInit => GateHasOwner
  BY DEF RInit, Init, GateHasOwner

LEMMA GateStep == RInv /\ GateHasOwner /\ [RNext]_allVars => GateHasOwner'
  <1> SUFFICES ASSUME RInv, GateHasOwner, [RNext]_allVars PROVE GateHasOwner'
    OBVIOUS
  <1> USE DEF RInv, RTypeOK, GateHasOwner, InWindow
  <1>1. ASSUME [Next]_vars, UNCHANGED rpc PROVE GateHasOwner'
    <2>1. flag' => InBracket' \/ (flag /\ ~InBracket)
      BY <1>1, WorkerGate
    <2> QED
      BY <1>1, <2>1
  <1>2. ASSUME UNCHANGED vars, \A q \in Restores : InWindow(q) => InWindow(q)'
        PROVE  GateHasOwner'
    BY <1>2 DEF vars, InBracket, gateVars, workVars
  <1>3. CASE GateClosed \/ Vanished
    BY <1>3 DEF GateClosed, Vanished, InBracket, gateVars, workVars, restoreVars
  <1>4. CASE BackupStage \/ \E ok \in BOOLEAN : BackupUnstage(ok)
    BY <1>2, <1>4 DEF BackupStage, BackupUnstage
  <1>5. ASSUME NEW r \in Restores, NEW d, RestoreRequest(r, d) PROVE GateHasOwner'
    BY <1>2, <1>5 DEF RestoreRequest
  <1>6. ASSUME NEW r \in Restores, SnapshotStage(r) \/ SnapshotFails(r) PROVE GateHasOwner'
    BY <1>2, <1>6 DEF SnapshotStage, SnapshotFails
  <1>7. ASSUME NEW r \in Restores, SnapshotTaken(r) PROVE GateHasOwner'
    BY <1>7 DEF SnapshotTaken
  <1>8. ASSUME NEW r \in Restores, PgRestore(r) \/ PgRestoreFails(r) \/ MergeAudit(r)
        PROVE  GateHasOwner'
    BY <1>8 DEF PgRestore, PgRestoreFails, MergeAudit
  <1>9. ASSUME NEW r \in Restores, MergeSkipped(r) \/ \E found \in BOOLEAN : StampLink(r, found)
        PROVE  GateHasOwner'
    BY <1>2, <1>9 DEF MergeSkipped, StampLink
  <1>10. ASSUME NEW r \in Restores, LiftGate(r) PROVE GateHasOwner'
    BY <1>10 DEF LiftGate
  <1>11. CASE ComposedDown
    BY <1>11 DEF ComposedDown, Shutdown, Crash, Forget
  <1>12. CASE ComposedWorkerStep \/ ComposedStop \/ ComposedCancel \/ ComposedRestart
    BY <1>1, <1>12
    DEF ComposedWorkerStep, ComposedStop, ComposedCancel, ComposedRestart,
        Next, ProcessStep, restoreVars
  <1>13. CASE \/ RequestStep /\ UNCHANGED rpc
              \/ ((\E h \in Handlers : HandlerStep(h)) \/ Tick) /\ UNCHANGED restoreVars
    BY <1>1, <1>13 DEF Next, restoreVars
  <1>14. CASE UNCHANGED allVars
    BY <1>2, <1>14 DEF allVars, restoreVars
  <1> QED
    BY <1>3, <1>4, <1>5, <1>6, <1>7, <1>8, <1>9, <1>10, <1>11, <1>12, <1>13, <1>14
    DEF RNext, RestoreStep

\* However the window of a restore overlaps a sweep, another restore, a failure or a
\* crash, the flag is never left up with nobody inside a window to lower it.
THEOREM GateIsOwned == RSpec => []GateHasOwner
  BY RInvInit, RInvNext, GateInit, GateStep, PTL DEF RSpec

-----------------------------------------------------------------------------
(* The id sequence *)

\* Writing a status gives the table no row it did not have.
LEMMA SetStatusKeeps ==
    ASSUME NEW id, NEW s, rows[id] # NoRow, rows \in [JobIds -> Row \cup {NoRow}]
    PROVE  \A i \in JobIds : SetStatus(id, s)[i] # NoRow => rows[i] # NoRow
  BY DEF SetStatus

\* The worker and the handlers add rows at the sequence's end only.
LEMMA WorkerSequence ==
    ASSUME TypeOK, SequenceCoversRows, [Next]_vars
    PROVE  SequenceCoversRows'
  <1> USE DEF SequenceCoversRows, dbVars
  <1>1. ASSUME UNCHANGED dbVars PROVE SequenceCoversRows'
    BY <1>1
  <1>2. ASSUME seq' = seq, \A i \in JobIds : rows'[i] # NoRow => rows[i] # NoRow
        PROVE  SequenceCoversRows'
    BY <1>2
  <1>3. ASSUME NEW h \in Handlers, NEW e \in Endpoints, NEW plan \in Plans(e),
               NEW delay \in Times, Request(h, e, plan, delay)
        PROVE  SequenceCoversRows'
    BY <1>1, <1>3 DEF Request
  <1>4. ASSUME NEW h \in Handlers, Insert(h) PROVE SequenceCoversRows'
    <2>1. seq' = seq + 1 /\ \A i \in JobIds : i # seq + 1 => rows'[i] = rows[i]
      BY <1>4 DEF Insert, TypeOK
    <2> QED
      BY <2>1 DEF TypeOK, JobIds
  <1>5. ASSUME NEW h \in Handlers, InsertFails(h) \/ Announce(h) PROVE SequenceCoversRows'
    BY <1>1, <1>5 DEF InsertFails, Announce
  <1>6. CASE LeaveLoop \/ GateOpen \/ QueueEmpty \/ Retry \/ FallAsleep \/ Wake \/ FallbackPoll
              \/ Bracket \/ OpenWork \/ OpenError \/ Fail \/ LeaveBracket \/ RecordError
    BY <1>1, <1>6
    DEF LeaveLoop, GateOpen, QueueEmpty, Retry, FallAsleep, Wake, FallbackPoll,
        Bracket, OpenWork, OpenError, Fail, LeaveBracket, RecordError
  <1>7. CASE Claim \/ ClaimError
    <2>1. \A i \in Oldest : i \in JobIds /\ rows[i] # NoRow
      BY DEF Oldest, Claimable, Queued, NoRow
    <2>2. seq' = seq /\ (rows' = rows \/ \E i \in Oldest : rows' = SetStatus(i, "running"))
      BY <1>7 DEF Claim, ClaimError
    <2> QED
      BY <1>2, <2>1, <2>2, SetStatusKeeps DEF TypeOK
  <1>8. CASE NoDispatcher \/ Succeed \/ SucceedUnacked
    <2>1. /\ seq' = seq /\ rows[job.id] # NoRow
          /\ rows' = SetStatus(job.id, "failed") \/ rows' = SetStatus(job.id, "succeeded")
      BY <1>8 DEF NoDispatcher, Succeed, SucceedUnacked
    <2> QED
      BY <1>2, <2>1, SetStatusKeeps DEF TypeOK
  <1>9. CASE RecordFailure
    BY <1>2, <1>9, SetStatusKeeps DEF RecordFailure, TypeOK
  <1>10. ASSUME NEW n \in 1 .. MaxJobs, EnqueueChildren(n) PROVE SequenceCoversRows'
    <2>1. seq' = seq + n /\ \A i \in JobIds : i \notin seq + 1 .. seq + n => rows'[i] = rows[i]
      BY <1>10 DEF EnqueueChildren
    <2> QED
      BY <2>1 DEF TypeOK, JobIds
  <1>11. CASE Restart
    BY <1>2, <1>11 DEF Restart, NoRow, TypeOK
  <1>12. CASE Stop \/ CancelTask \/ Shutdown \/ Crash
    BY <1>1, <1>12 DEF Stop, CancelTask, Shutdown, Crash, Forget
  <1>13. CASE Tick \/ UNCHANGED vars
    BY <1>1, <1>13 DEF Tick, vars
  <1> QED
    BY <1>3, <1>4, <1>5, <1>6, <1>7, <1>8, <1>9, <1>10, <1>11, <1>12, <1>13
    DEF Next, RequestStep, HandlerStep, WorkerStep, ProcessStep

LEMMA SequenceInit == RInit => SequenceCoversRows
  BY DEF RInit, Init, SequenceCoversRows

LEMMA SequenceStep == RInv /\ SequenceCoversRows /\ [RNext]_allVars => SequenceCoversRows'
  <1> SUFFICES ASSUME RInv, SequenceCoversRows, [RNext]_allVars PROVE SequenceCoversRows'
    OBVIOUS
  <1>1. TypeOK
    BY DEF RInv, TInv
  <1>2. CASE Next \/ UNCHANGED vars
    BY <1>1, <1>2, WorkerSequence
  <1>3. CASE GateClosed \/ Vanished
    BY <1>3 DEF GateClosed, Vanished, dbVars, SequenceCoversRows
  <1>4. ASSUME NEW r \in Restores, SnapshotTaken(r) \/ LiftGate(r) PROVE SequenceCoversRows'
    BY <1>4 DEF SnapshotTaken, LiftGate, dbVars, SequenceCoversRows
  <1>5. ASSUME NEW r \in Restores, PgRestore(r) \/ PgRestoreFails(r) PROVE SequenceCoversRows'
    <2>1. CASE Replace(target[r])
      BY <2>1 DEF Replace, NoRows, SequenceCoversRows
    <2>2. CASE UNCHANGED <<rows, seq>>
      BY <2>2 DEF SequenceCoversRows
    <2> QED
      BY <1>5, <2>1, <2>2 DEF PgRestore, PgRestoreFails
  <1>6. ASSUME NEW r \in Restores, MergeAudit(r) PROVE SequenceCoversRows'
    BY <1>1, <1>6, MergeAuditRows DEF SequenceCoversRows, JobIds, TypeOK
  <1> QED
    BY <1>2, <1>3, <1>4, <1>5, <1>6, ComposedSteps DEF RestoreWrites

\* Whatever is restored, merged and inserted, the next id jobs_id_seq hands out names no
\* row of the table.
THEOREM SequenceIsAhead == RSpec => []SequenceCoversRows
  BY RInvInit, RInvNext, SequenceInit, SequenceStep, PTL DEF RSpec
=============================================================================
