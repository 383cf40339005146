--------------------------- MODULE JobQueueProofs ---------------------------
(***************************************************************************)
(* The queue's safety for every set of jobs, runs, customers and workers,  *)
(* every max_attempts and every number of faults.                          *)
(***************************************************************************)
EXTENDS JobQueue, TLAPS

USE QueueConstants DEF QueueConstants

\* A job has at most one owner: the strengthening of HandlerExclusive that also
\* speaks of workers whose handler has returned but whose update is to come.
OneOwner ==
    \A v, w \in Workers : Owns(v) /\ Owns(w) /\ holding[v] = holding[w] => v = w

\* No worker survives the daemon.
DownIsIdle == ~up => \A w \in Workers : holding[w] = NoJob

IInv == TypeOK /\ OneOwner /\ OwnerKeepsRow /\ DownIsIdle

-----------------------------------------------------------------------------
(* Types *)

\* Every step of a worker keeps the types of the tables and of the workers.
LEMMA WorkerStepType ==
    ASSUME TypeOK, NEW w \in Workers, WorkerStep(w)
    PROVE  TypeOK'
<1> USE DEF TypeOK, Results, JobStates, Cancellable, Waiting, ClosedStates, Idle, Running
<1>1. ASSUME NEW j \in Jobs, ClaimJob(w, j) PROVE TypeOK'
  <2>1. attempts'[j] \in Nat /\ attempts'[j] <= MaxAttempts[j]
    BY <1>1 DEF ClaimJob, Least
  <2>2. \A k \in Jobs : k # j => attempts'[k] = attempts[k]
    BY <1>1 DEF ClaimJob
  <2>3. attempts' \in [Jobs -> Nat]
    BY <1>1, <2>1 DEF ClaimJob
  <2>4. QED BY <1>1, <2>1, <2>2, <2>3 DEF ClaimJob
<1>2. ASSUME NEW r \in {"done", "error", "permanent"}, HandlerReturns(w, r) PROVE TypeOK'
  BY <1>2 DEF HandlerReturns, jobVars
<1>3. CASE SuppressJob(w)
  BY <1>3 DEF SuppressJob
<1>4. CASE DeferJob(w)
  BY <1>4 DEF DeferJob
<1>5. CASE CompleteJob(w)
  BY <1>5 DEF CompleteJob, Release
<1>6. CASE FailJob(w)
  BY <1>6 DEF FailJob, FailedState, Release
<1>7. CASE FailJobPermanently(w)
  BY <1>7 DEF FailJobPermanently, Release
<1>8. CASE UpdateLost(w)
  BY <1>8 DEF UpdateLost, Release, jobVars
<1>9. QED
  BY <1>1, <1>2, <1>3, <1>4, <1>5, <1>6, <1>7, <1>8 DEF WorkerStep

\* A bulk update of jobs and runs keeps their types.
LEMMA MoveTypes ==
    ASSUME TypeOK, NEW J, NEW from, NEW to \in JobStates
    PROVE  MoveJobs(J, from, to) => jobState' \in [Jobs -> JobStates]
BY DEF MoveJobs, TypeOK

\* The same for the column of the runs.
LEMMA MoveRunTypes ==
    ASSUME TypeOK, NEW R, NEW from, NEW to \in RunStates
    PROVE  MoveRuns(R, from, to) => runState' \in [Runs -> RunStates]
BY DEF MoveRuns, TypeOK

\* Every control of the operator, cancellation and producer keeps the types.
LEMMA ControlStepType ==
    ASSUME TypeOK, ControlStep
    PROVE  TypeOK'
<1> USE DEF jobVars, workerVars
<1>1. ASSUME NEW r \in Runs, StartRun(r) PROVE TypeOK'
  BY <1>1 DEF StartRun, TypeOK, RunStates
<1>2. ASSUME NEW R, PauseRuns(R) PROVE TypeOK'
  <2>1. "paused" \in JobStates /\ "paused" \in RunStates
    BY DEF JobStates, RunStates, Cancellable
  <2>2. QED BY <1>2, <2>1, MoveTypes, MoveRunTypes DEF PauseRuns, TypeOK
<1>3. ASSUME NEW R, ResumeRuns(R) PROVE TypeOK'
  <2>1. "scheduled" \in JobStates /\ "active" \in RunStates
    BY DEF JobStates, RunStates, Cancellable
  <2>2. QED BY <1>3, <2>1, MoveTypes, MoveRunTypes DEF ResumeRuns, TypeOK
<1>4. ASSUME NEW R, NEW J, CancelRuns(R, J) PROVE TypeOK'
  <2>1. "cancelled" \in JobStates /\ "cancelled" \in RunStates
    BY DEF JobStates, RunStates
  <2>2. QED BY <1>4, <2>1, MoveTypes, MoveRunTypes DEF CancelRuns, TypeOK
<1>5. ASSUME NEW J \in Batches, EnqueueJobs(J) PROVE TypeOK'
  <2>1. "scheduled" \in JobStates
    BY DEF JobStates, Cancellable
  <2>2. J \subseteq Jobs
    BY DEF Batches, CampaignBatches
  <2>3. QED BY <1>5, <2>1, <2>2, MoveTypes DEF EnqueueJobs, TypeOK
<1>6. ASSUME NEW j \in Jobs, ReplayFailedJob(j) PROVE TypeOK'
  <2>1. attempts' \in [Jobs -> Nat]
    BY <1>6 DEF ReplayFailedJob, TypeOK
  <2>2. \A k \in Jobs : attempts'[k] <= MaxAttempts[k]
    BY <1>6 DEF ReplayFailedJob, TypeOK
  <2>3. QED BY <1>6, <2>1, <2>2 DEF ReplayFailedJob, TypeOK, JobStates, Cancellable
<1>7. QED
  BY <1>1, <1>2, <1>3, <1>4, <1>5, <1>6
     DEF ControlStep, PauseWorkflow, ResumeWorkflow, CancelWorkflow, PauseDefinition,
         ActivateDefinition, CancelCustomerWork, CancelCampaignJobs, CancelEverything

\* Time, a crash and a restart keep the types.
LEMMA TimeStepType ==
    ASSUME TypeOK, TimeStep
    PROVE  TypeOK'
<1> USE DEF jobVars, workerVars
<1>1. ASSUME NEW j \in Jobs, AvailableAtReached(j) PROVE TypeOK'
  BY <1>1 DEF AvailableAtReached, TypeOK
<1>2. ASSUME NEW j \in Jobs, LeaseAges(j) PROVE TypeOK'
  BY <1>2 DEF LeaseAges, TypeOK
<1>3. CASE Crash
  <2>1. faults' \in 0..MaxFaults
    BY <1>3 DEF Crash, TypeOK
  <2>2. holding' \in [Workers -> Jobs \cup {NoJob}] /\ claimed' \in [Workers -> Nat]
    BY <1>3 DEF Crash
  <2>3. result' \in [Workers -> Results]
    BY <1>3 DEF Crash, Results
  <2>4. QED BY <1>3, <2>1, <2>2, <2>3 DEF Crash, TypeOK
<1>4. CASE Restart
  <2>1. jobState' \in [Jobs -> JobStates]
    BY <1>4, MoveTypes DEF Restart, RecoverStaleJobs, JobStates, Cancellable
  <2>2. QED BY <1>4, <2>1 DEF Restart, RecoverStaleJobs, TypeOK
<1>5. QED
  BY <1>1, <1>2, <1>3, <1>4 DEF TimeStep

\* Every column keeps to its values: in particular attempts stays within
\* max_attempts and a lease column never names a job that does not exist.
THEOREM TypeCorrect == Spec => []TypeOK
<1>1. Init => TypeOK
  BY DEF Init, TypeOK, JobStates, RunStates, Results
<1>2. TypeOK /\ [Next]_vars => TypeOK'
  <2> SUFFICES ASSUME TypeOK, [Next]_vars PROVE TypeOK'
    OBVIOUS
  <2>1. CASE UNCHANGED vars
    BY <2>1 DEF vars, TypeOK
  <2>2. QED
    BY <2>1, WorkerStepType, ControlStepType, TimeStepType DEF Next
<1>3. QED BY <1>1, <1>2, PTL DEF Spec

-----------------------------------------------------------------------------
(* One owner per job *)

\* The step of a worker: it can disturb no other worker's job, because it writes
\* only the row it owns, a row in Waiting, or, after a deferral, a running row
\* that it can only complete.
LEMMA WorkerStepInv ==
    ASSUME IInv, NEW w \in Workers, WorkerStep(w)
    PROVE  OneOwner' /\ OwnerKeepsRow' /\ DownIsIdle'
<1> USE DEF IInv, Owns, OneOwner, OwnerKeepsRow, DownIsIdle, TypeOK, Idle, Running
<1>1. ASSUME NEW j \in Jobs, ClaimJob(w, j)
      PROVE  OneOwner' /\ OwnerKeepsRow' /\ DownIsIdle'
  <2>1. \A v \in Workers : Owns(v) => holding[v] # j
    BY <1>1 DEF ClaimJob, Waiting
  <2>2. \A v \in Workers : v # w => /\ holding'[v] = holding[v]
                                    /\ result'[v] = result[v]
                                    /\ claimed'[v] = claimed[v]
    BY <1>1 DEF ClaimJob
  <2>3. \A k \in Jobs : k # j => jobState'[k] = jobState[k] /\ attempts'[k] = attempts[k]
    BY <1>1 DEF ClaimJob
  <2>4. holding'[w] = j /\ jobState'[j] = "running" /\ claimed'[w] = attempts'[j] /\ up'
    BY <1>1 DEF ClaimJob
  <2>5. OneOwner'
    BY <2>1, <2>2, <2>4
  <2>6. OwnerKeepsRow'
    BY <2>1, <2>2, <2>3, <2>4
  <2>7. QED BY <2>4, <2>5, <2>6
<1>2. ASSUME NEW r \in {"done", "error", "permanent"}, HandlerReturns(w, r)
      PROVE  OneOwner' /\ OwnerKeepsRow' /\ DownIsIdle'
  BY <1>2 DEF HandlerReturns, jobVars
<1>3. CASE SuppressJob(w)
  BY <1>3 DEF SuppressJob
<1>4. CASE DeferJob(w)
  BY <1>4 DEF DeferJob
<1>5. CASE CompleteJob(w)
  BY <1>5 DEF CompleteJob, Release
<1>6. CASE FailJob(w)
  BY <1>6 DEF FailJob, Release
<1>7. CASE FailJobPermanently(w)
  BY <1>7 DEF FailJobPermanently, Release
<1>8. CASE UpdateLost(w)
  BY <1>8 DEF UpdateLost, Release, jobVars
<1>9. QED
  BY <1>1, <1>2, <1>3, <1>4, <1>5, <1>6, <1>7, <1>8 DEF WorkerStep

\* What a bulk update that selects no running, completed or closed row can do.
LEMMA MoveFrame ==
    ASSUME NEW J, NEW from, NEW to, MoveJobs(J, from, to), to \notin {"running", "completed"},
           from \cap ({"running", "completed"} \cup ClosedStates) = {}
    PROVE  \A j \in Jobs :
              /\ jobState[j] \in {"running", "completed"} \cup ClosedStates => jobState'[j] = jobState[j]
              /\ jobState'[j] \in {"running", "completed"} => jobState'[j] = jobState[j]
BY DEF MoveJobs

\* Controls and cancellations select only rows nobody owns and that are not closed.
LEMMA ControlFrame ==
    ASSUME TypeOK, ControlStep
    PROVE  /\ UNCHANGED <<holding, claimed, result, up, faults>>
           /\ \A j \in Jobs :
                /\ jobState[j] \in {"running", "completed"} \cup ClosedStates => jobState'[j] = jobState[j]
                /\ jobState[j] \in {"running", "completed"} => attempts'[j] = attempts[j]
                /\ jobState'[j] \in {"running", "completed"} => jobState'[j] = jobState[j]
<1> USE DEF jobVars, workerVars, ClosedStates
<1> DEFINE Frame == /\ UNCHANGED <<holding, claimed, result, up, faults>>
                    /\ \A j \in Jobs :
                         /\ jobState[j] \in {"running", "completed"} \cup ClosedStates => jobState'[j] = jobState[j]
                         /\ jobState[j] \in {"running", "completed"} => attempts'[j] = attempts[j]
                         /\ jobState'[j] \in {"running", "completed"} => jobState'[j] = jobState[j]
<1>1. ASSUME NEW r \in Runs, StartRun(r) PROVE Frame
  BY <1>1 DEF StartRun
<1>2. ASSUME NEW R, PauseRuns(R) PROVE Frame
  BY <1>2, MoveFrame DEF PauseRuns, Waiting
<1>3. ASSUME NEW R, ResumeRuns(R) PROVE Frame
  BY <1>3, MoveFrame DEF ResumeRuns
<1>4. ASSUME NEW R, NEW J, CancelRuns(R, J) PROVE Frame
  BY <1>4, MoveFrame DEF CancelRuns, Cancellable
<1>5. ASSUME NEW J, EnqueueJobs(J) PROVE Frame
  BY <1>5, MoveFrame DEF EnqueueJobs
<1>6. ASSUME NEW j \in Jobs, ReplayFailedJob(j) PROVE Frame
  BY <1>6 DEF ReplayFailedJob, TypeOK
<1>7. QED
  BY <1>1, <1>2, <1>3, <1>4, <1>5, <1>6
     DEF ControlStep, PauseWorkflow, ResumeWorkflow, CancelWorkflow, PauseDefinition,
         ActivateDefinition, CancelCustomerWork, CancelCampaignJobs, CancelEverything

\* No control touches the row an owner relies on.
LEMMA ControlStepInv ==
    ASSUME IInv, ControlStep
    PROVE  OneOwner' /\ OwnerKeepsRow' /\ DownIsIdle'
BY ControlFrame DEF IInv, TypeOK, Owns, OneOwner, OwnerKeepsRow, DownIsIdle

\* A crash takes every worker with it, and the recovery of stale leases runs
\* before the new ones start.
LEMMA TimeStepInv ==
    ASSUME IInv, TimeStep
    PROVE  OneOwner' /\ OwnerKeepsRow' /\ DownIsIdle'
<1> USE DEF IInv, Owns, OneOwner, OwnerKeepsRow, DownIsIdle, jobVars, workerVars
<1>1. ASSUME NEW j \in Jobs, AvailableAtReached(j)
      PROVE  OneOwner' /\ OwnerKeepsRow' /\ DownIsIdle'
  BY <1>1 DEF AvailableAtReached
<1>2. ASSUME NEW j \in Jobs, LeaseAges(j)
      PROVE  OneOwner' /\ OwnerKeepsRow' /\ DownIsIdle'
  BY <1>2 DEF LeaseAges
<1>3. CASE Crash
  BY <1>3 DEF Crash
<1>4. CASE Restart
  BY <1>4 DEF Restart
<1>5. QED
  BY <1>1, <1>2, <1>3, <1>4 DEF TimeStep

\* The conjunction of types, one owner per job and owned rows holds at first ...
LEMMA IInvInit == Init => IInv
BY DEF Init, IInv, OneOwner, OwnerKeepsRow, DownIsIdle, Owns, TypeOK, JobStates, RunStates, Results

\* ... and every step keeps it.
LEMMA IInvStep ==
    ASSUME IInv, [Next]_vars
    PROVE  IInv'
<1>1. CASE UNCHANGED vars
  BY <1>1 DEF vars, IInv, OneOwner, OwnerKeepsRow, DownIsIdle, Owns, TypeOK
<1>2. CASE Next
  <2>1. TypeOK'
    BY <1>2, WorkerStepType, ControlStepType, TimeStepType DEF Next, IInv
  <2>2. QED
    BY <1>2, <2>1, WorkerStepInv, ControlStepInv, TimeStepInv DEF Next, IInv
<1>3. QED BY <1>1, <1>2

\* Types, one owner per job and owned rows hold in every reachable state.
THEOREM IInvInductive == Spec => []IInv
<1>1. IInv /\ [Next]_vars => IInv'
  BY IInvStep
<1>2. QED BY IInvInit, <1>1, PTL DEF Spec

\* No two workers execute handlers of one job at the same time.
THEOREM HandlersAreExclusive == Spec => []HandlerExclusive
<1>1. IInv => HandlerExclusive
  BY DEF IInv, OneOwner, HandlerExclusive, Owns, Running
<1>2. QED BY <1>1, IInvInductive, PTL

\* Nobody but a worker that deferred the same job touches the row of an owner.
THEOREM OwnersKeepTheirRow == Spec => []OwnerKeepsRow
<1>1. IInv => OwnerKeepsRow
  BY DEF IInv
<1>2. QED BY <1>1, IInvInductive, PTL

-----------------------------------------------------------------------------
(* Orphans, closed jobs and the implementation of ExclusiveWork *)

\* Until the first fault, whoever leased a running job still owns it.
THEOREM NoOrphans == Spec => []NoOrphanWithoutFault
<1>1. Init => NoOrphanWithoutFault
  BY DEF Init, NoOrphanWithoutFault
<1>2. IInv /\ NoOrphanWithoutFault /\ [Next]_vars => NoOrphanWithoutFault'
  <2> SUFFICES ASSUME IInv, NoOrphanWithoutFault, [Next]_vars PROVE NoOrphanWithoutFault'
    OBVIOUS
  <2> USE DEF NoOrphanWithoutFault, Owns, IInv, TypeOK
  <2>1. ASSUME NEW w \in Workers, WorkerStep(w) PROVE NoOrphanWithoutFault'
    <3> USE DEF Idle, Running
    <3>1. ASSUME NEW j \in Jobs, ClaimJob(w, j) PROVE NoOrphanWithoutFault'
      BY <3>1 DEF ClaimJob
    <3>2. ASSUME NEW r \in {"done", "error", "permanent"}, HandlerReturns(w, r)
          PROVE NoOrphanWithoutFault'
      BY <3>2 DEF HandlerReturns, jobVars
    <3>3. CASE SuppressJob(w)
      BY <3>3 DEF SuppressJob
    <3>4. CASE DeferJob(w)
      BY <3>4 DEF DeferJob
    <3>5. CASE CompleteJob(w)
      BY <3>5 DEF CompleteJob, Release
    <3>6. CASE FailJob(w)
      BY <3>6 DEF FailJob, FailedState, Release
    <3>7. CASE FailJobPermanently(w)
      BY <3>7 DEF FailJobPermanently, Release
    <3>8. CASE UpdateLost(w)
      BY <3>8 DEF UpdateLost
    <3>9. QED
      BY <2>1, <3>1, <3>2, <3>3, <3>4, <3>5, <3>6, <3>7, <3>8 DEF WorkerStep
  <2>2. CASE ControlStep
    BY <2>2, ControlFrame
  <2>3. CASE TimeStep
    BY <2>3 DEF TimeStep, AvailableAtReached, LeaseAges, Crash, Restart, RecoverStaleJobs,
                MoveJobs, workerVars, jobVars
  <2>4. CASE UNCHANGED vars
    BY <2>4 DEF vars
  <2>5. QED BY <2>1, <2>2, <2>3, <2>4 DEF Next
<1>3. QED BY <1>1, <1>2, IInvInductive, PTL DEF Spec

\* A step reopens no closed job, because the updates by id alone are made by
\* owners and an owner's row is not closed.
LEMMA ClosedStep ==
    ASSUME IInv, [Next]_vars
    PROVE  \A j \in Jobs : jobState[j] \in ClosedStates => jobState'[j] = jobState[j]
<1> USE DEF IInv, TypeOK, OwnerKeepsRow, Owns, ClosedStates
<1>1. ASSUME NEW w \in Workers, WorkerStep(w)
      PROVE  \A j \in Jobs : jobState[j] \in ClosedStates => jobState'[j] = jobState[j]
  BY <1>1 DEF WorkerStep, ClaimJob, HandlerReturns, SuppressJob, DeferJob, CompleteJob, FailJob,
              FailJobPermanently, UpdateLost, Release, Running, Idle, Waiting, jobVars
<1>2. CASE ControlStep
  BY <1>2, ControlFrame
<1>3. CASE TimeStep
  BY <1>3 DEF TimeStep, AvailableAtReached, LeaseAges, Crash, Restart, RecoverStaleJobs,
              MoveJobs, jobVars
<1>4. CASE UNCHANGED vars
  BY <1>4 DEF vars
<1>5. QED BY <1>1, <1>2, <1>3, <1>4 DEF Next

\* Cancelled and suppressed jobs stay cancelled and suppressed.
THEOREM ClosedJobsStayClosed == Spec => ClosedForGood
<1>1. IInv /\ [Next]_vars =>
        [\A j \in Jobs : jobState[j] \in ClosedStates => jobState'[j] = jobState[j]]_vars
  BY ClosedStep
<1>2. QED BY <1>1, IInvInductive, PTL DEF Spec, ClosedForGood

\* A cancelled run stays cancelled.
LEMMA CancelledRunStays ==
    ASSUME [Next]_vars
    PROVE  \A r \in Runs : runState[r] = "cancelled" => runState'[r] = "cancelled"
<1>1. ASSUME NEW R, NEW from, NEW to, "cancelled" \notin from, MoveRuns(R, from, to)
      PROVE  \A r \in Runs : runState[r] = "cancelled" => runState'[r] = "cancelled"
  BY <1>1 DEF MoveRuns
<1>2. CASE UNCHANGED vars
  BY <1>2 DEF vars
<1>3. ASSUME NEW w \in Workers, WorkerStep(w) PROVE UNCHANGED runState
  BY <1>3 DEF WorkerStep, ClaimJob, HandlerReturns, SuppressJob, DeferJob, CompleteJob,
              FailJob, FailJobPermanently, UpdateLost
<1>4. CASE TimeStep
  BY <1>4 DEF TimeStep, AvailableAtReached, LeaseAges, Crash, Restart
<1>5. CASE ControlStep
  <2>1. CASE \E R : PauseRuns(R) \/ ResumeRuns(R) \/ \E J : CancelRuns(R, J)
    BY <2>1, <1>1 DEF PauseRuns, ResumeRuns, CancelRuns, LiveRun
  <2>2. ASSUME NEW r \in Runs, StartRun(r)
        PROVE  \A x \in Runs : runState[x] = "cancelled" => runState'[x] = "cancelled"
    BY <2>2 DEF StartRun
  <2>3. ASSUME (\E J \in Batches : EnqueueJobs(J)) \/ \E j \in Jobs : ReplayFailedJob(j)
        PROVE  UNCHANGED runState
    BY <2>3 DEF EnqueueJobs, ReplayFailedJob
  <2>4. QED
    BY <1>5, <2>1, <2>2, <2>3
       DEF ControlStep, PauseWorkflow, ResumeWorkflow, CancelWorkflow, PauseDefinition,
           ActivateDefinition, CancelCustomerWork, CancelCampaignJobs, CancelEverything
<1>6. QED BY <1>2, <1>3, <1>4, <1>5 DEF Next


\* Only CompleteJob completes a job.
LEMMA CompletedByWorker ==
    ASSUME TypeOK, [Next]_vars
    PROVE  \A j \in Jobs : jobState'[j] = "completed" /\ jobState[j] # "completed" =>
             /\ jobState[j] = "running"
             /\ \E w \in Workers : holding[w] = j /\ result[w] \in {"done", "released"}
<1> USE DEF TypeOK
<1>1. ASSUME NEW w \in Workers, WorkerStep(w), NEW j \in Jobs,
             jobState'[j] = "completed", jobState[j] # "completed"
      PROVE  jobState[j] = "running" /\ holding[w] = j /\ result[w] \in {"done", "released"}
  BY <1>1 DEF WorkerStep, ClaimJob, HandlerReturns, SuppressJob, DeferJob, CompleteJob, FailJob,
              FailJobPermanently, UpdateLost, FailedState, jobVars, Idle, Running
<1>2. CASE ControlStep
  BY <1>2, ControlFrame
<1>3. CASE TimeStep
  BY <1>3 DEF TimeStep, AvailableAtReached, LeaseAges, Crash, Restart, RecoverStaleJobs, MoveJobs, jobVars
<1>4. CASE UNCHANGED vars
  BY <1>4 DEF vars
<1>5. QED BY <1>1, <1>2, <1>3, <1>4 DEF Next


\* Apart from a claim, no step starts a handler or changes the job of one.
LEMMA OnlyClaimsStart ==
    ASSUME IInv, [Next]_vars,
           ~ \E w \in Workers, j \in Jobs : ClaimJob(w, j)
    PROVE  \A w \in Workers : Running(w)' => Running(w) /\ holding'[w] = holding[w]
<1> USE DEF IInv, TypeOK, Running
<1>1. ASSUME NEW v \in Workers, WorkerStep(v)
      PROVE  \A w \in Workers : Running(w)' => Running(w) /\ holding'[w] = holding[w]
  BY <1>1 DEF WorkerStep, HandlerReturns, SuppressJob, DeferJob, CompleteJob, FailJob,
              FailJobPermanently, UpdateLost, Release, Idle
<1>2. CASE ControlStep
  BY <1>2, ControlFrame
<1>3. CASE TimeStep
  BY <1>3 DEF TimeStep, AvailableAtReached, LeaseAges, Crash, Restart, workerVars
<1>4. CASE UNCHANGED vars
  BY <1>4 DEF vars
<1>5. QED BY <1>1, <1>2, <1>3, <1>4 DEF Next

\* A step of the queue is a step of ExclusiveWork.
LEMMA StepImplements ==
    ASSUME IInv, IInv', [Next]_vars
    PROVE  [Work!Next]_(Work!vars)
<1> USE DEF handledBy, closedJobs
<1>1. ASSUME NEW w \in Workers, NEW j \in Jobs, ClaimJob(w, j)
      PROVE  Work!Start(w, j)
  <2>1. handledBy[w] = NoJob /\ j \notin closedJobs
    BY <1>1 DEF ClaimJob, Idle, Running, Waiting, ClosedStates
  <2>2. \A v \in Workers : handledBy[v] # j
    BY <1>1 DEF ClaimJob, Running, Waiting, IInv, OwnerKeepsRow, Owns
  <2>3. handledBy' = [handledBy EXCEPT ![w] = j]
    BY <1>1 DEF ClaimJob, Running, IInv, TypeOK
  <2>4. closedJobs' = closedJobs
    BY <1>1 DEF ClaimJob, Waiting, ClosedStates, IInv, TypeOK
  <2>5. QED BY <2>1, <2>2, <2>3, <2>4 DEF Work!Start
<1>2. ASSUME ~ \E w \in Workers, j \in Jobs : ClaimJob(w, j)
      PROVE  \E W \in SUBSET Workers, J \in SUBSET Jobs : Work!StopAndClose(W, J)
  <2> DEFINE Stopped == {w \in Workers : ~ Running(w)'}
  <2>1. handledBy' = [w \in Workers |-> IF w \in Stopped THEN NoJob ELSE handledBy[w]]
    BY <1>2, OnlyClaimsStart
  <2>2. closedJobs' = closedJobs \cup closedJobs'
    BY ClosedStep
  <2>3. \A w \in Workers : handledBy'[w] \notin closedJobs'
    BY DEF IInv, OwnerKeepsRow, Owns, Running, ClosedStates
  <2>4. PICK J \in SUBSET Jobs : J = closedJobs'
    OBVIOUS
  <2>5. PICK W \in SUBSET Workers : W = Stopped
    OBVIOUS
  <2>6. Work!StopAndClose(W, J)
    BY <2>1, <2>2, <2>3, <2>4, <2>5 DEF Work!StopAndClose
  <2>7. QED BY <2>6
<1>3. QED BY <1>1, <1>2 DEF Work!Next

\* The queue implements ExclusiveWork: one handler per job, none for a closed job.
THEOREM QueueImplementsExclusiveWork == Spec => ImplementsExclusiveWork
<1>1. Init => Work!Init
  BY DEF Init, Work!Init, handledBy, closedJobs, Running, ClosedStates
<1>2. IInv /\ IInv' /\ [Next]_vars => [Work!Next]_(Work!vars)
  BY StepImplements
<1>3. QED BY <1>1, <1>2, IInvInductive, PTL DEF Spec, ImplementsExclusiveWork, Work!Spec

-----------------------------------------------------------------------------
(* Paused jobs *)

\* A job of a run is inserted after the run.
JobsHaveRuns == \A j \in Jobs : jobState[j] # "absent" /\ RunOf[j] # None => runState[RunOf[j]] # "absent"

PauseInv == JobsHaveRuns /\ PausedWithItsRun

\* Workers write to rows that exist, and pause none.
LEMMA WorkerWrites ==
    ASSUME IInv, NEW w \in Workers, WorkerStep(w), NEW j \in Jobs, jobState'[j] # jobState[j]
    PROVE  jobState[j] # "absent" /\ jobState'[j] # "paused"
BY DEF IInv, TypeOK, OwnerKeepsRow, Owns, WorkerStep, ClaimJob, HandlerReturns, SuppressJob, DeferJob,
       CompleteJob, FailJob, FailedState, FailJobPermanently, UpdateLost, Release, Running, Idle, Waiting, jobVars

\* Enqueues and the moves of runs with their jobs keep the paused with the paused.
LEMMA ControlPauses ==
    ASSUME IInv, PauseInv, ControlStep
    PROVE  PauseInv'
<1> USE DEF jobVars, PauseInv, JobsHaveRuns, PausedWithItsRun
<1>1. ASSUME NEW r \in Runs, StartRun(r) PROVE PauseInv'
  BY <1>1 DEF StartRun, IInv, TypeOK
<1>2. ASSUME NEW J \in Batches, EnqueueJobs(J) PROVE PauseInv'
  BY <1>2 DEF EnqueueJobs, MoveJobs
<1>3. ASSUME NEW j \in Jobs, ReplayFailedJob(j) PROVE PauseInv'
  BY <1>3 DEF ReplayFailedJob, IInv, TypeOK
<1>4. ASSUME NEW R \in SUBSET Runs, PauseRuns(R) PROVE PauseInv'
  BY <1>4 DEF PauseRuns, MoveRuns, MoveJobs, JobsOfRuns, Waiting, IInv, TypeOK, RunStates
<1>5. ASSUME NEW R, ResumeRuns(R) PROVE PauseInv'
  BY <1>5 DEF ResumeRuns, MoveRuns, MoveJobs, JobsOfRuns, IInv, TypeOK, RunStates
<1>6. ASSUME NEW R, NEW J, CancelRuns(R, J) PROVE PauseInv'
  BY <1>6 DEF CancelRuns, MoveRuns, MoveJobs, Cancellable, LiveRun, IInv, TypeOK, RunStates
<1>7. QED
  BY <1>1, <1>2, <1>3, <1>4, <1>5, <1>6 DEF ControlStep, RunsNamed, PauseWorkflow, ResumeWorkflow, CancelWorkflow,
     PauseDefinition, ActivateDefinition, CancelCustomerWork, CancelEverything, CancelCampaignJobs

\* No job is left paused under a run that goes on.
THEOREM PausedJobsHavePausedRuns == Spec => []PausedWithItsRun
<1>1. Init => PauseInv
  BY DEF Init, PauseInv, JobsHaveRuns, PausedWithItsRun
<1>2. IInv /\ PauseInv /\ [Next]_vars => PauseInv'
  <2> SUFFICES ASSUME IInv, PauseInv, [Next]_vars PROVE PauseInv'
    OBVIOUS
  <2>1. CASE UNCHANGED vars
    BY <2>1 DEF vars, PauseInv, JobsHaveRuns, PausedWithItsRun
  <2>2. ASSUME NEW w \in Workers, WorkerStep(w) PROVE PauseInv'
    <3>1. UNCHANGED runState
      BY <2>2 DEF WorkerStep, ClaimJob, HandlerReturns, SuppressJob, DeferJob, CompleteJob, FailJob,
         FailJobPermanently, UpdateLost, jobVars
    <3>2. \A j \in Jobs : jobState'[j] # jobState[j] => jobState[j] # "absent" /\ jobState'[j] # "paused"
      BY <2>2, WorkerWrites
    <3>3. QED BY <3>1, <3>2 DEF PauseInv, JobsHaveRuns, PausedWithItsRun
  <2>3. CASE TimeStep
    BY <2>3 DEF TimeStep, AvailableAtReached, LeaseAges, Crash, Restart, RecoverStaleJobs, MoveJobs,
       jobVars, PauseInv, JobsHaveRuns, PausedWithItsRun
  <2>4. QED BY <2>1, <2>2, <2>3, ControlPauses DEF Next
<1>3. PauseInv => PausedWithItsRun
  BY DEF PauseInv
<1>4. QED BY <1>1, <1>2, <1>3, IInvInductive, PTL DEF Spec

=============================================================================
