------------------------------ MODULE JobQueue ------------------------------
(***************************************************************************)
(* The durable job queue: the tables scheduled_jobs and workflow_runs, the *)
(* worker loops that lease jobs from it, and the operator's controls.      *)
(*                                                                         *)
(* Store opens SQLite with one connection, so every statement and every    *)
(* transaction is one atomic step; everything a worker does in several     *)
(* statements is several actions here and interleaves with the others.     *)
(* A job is named by its idempotency key.  What a handler does is left to  *)
(* the modules that refine this one (Sender): here it may return any       *)
(* result, and make the two writes to its own job row that handlers make.  *)
(*                                                                         *)
(* Time is abstracted to the two comparisons the code makes with it:       *)
(* due holds the jobs with available_at <= now, stale those with           *)
(* locked_at < now - 10 minutes.                                           *)
(***************************************************************************)
EXTENDS Naturals, FiniteSets

CONSTANTS
    Jobs,           \* the idempotency keys of scheduled_jobs
    Workers,        \* the goroutines running jobLoop
    Runs,           \* the keys of workflow_runs
    Customers,      \* the customers that runs and send jobs belong to
    Names,          \* workflow names
    NoJob,          \* an idle worker's job
    None,           \* absent run of a job, absent customer of a job
    RunOf,          \* scheduled_jobs.workflow_run_id
    CustomerOf,     \* payload.customer_id of a send_whatsapp job
    CustomerOfRun,  \* workflow_runs.customer_id
    NameOf,         \* workflow_runs.workflow_name
    MaxAttempts,    \* scheduled_jobs.max_attempts
    MaxFaults,      \* bound on the crashes and lost updates of a behaviour
    LostUpdates,    \* may the final update of a lease fail (I/O, cancelled context)?
    PromptRestart   \* may the daemon restart before its leases are stale?

ASSUME QueueConstants ==
    /\ NoJob \notin Jobs
    /\ None \notin Runs \cup Customers
    /\ RunOf \in [Jobs -> Runs \cup {None}]
    /\ CustomerOf \in [Jobs -> Customers \cup {None}]
    /\ CustomerOfRun \in [Runs -> Customers]
    /\ NameOf \in [Runs -> Names]
    /\ MaxAttempts \in [Jobs -> Nat \ {0}]
    /\ MaxFaults \in Nat
    /\ LostUpdates \in BOOLEAN
    /\ PromptRestart \in BOOLEAN

VARIABLES
    jobState,   \* scheduled_jobs.state; "absent" before the row exists
    attempts,   \* scheduled_jobs.attempts, saturated at max_attempts
    due,        \* jobs whose available_at has been reached
    stale,      \* jobs whose locked_at lies more than 10 minutes back
    runState,   \* workflow_runs.state; "absent" before the row exists
    up,         \* is the daemon running?
    holding,    \* the job a worker claimed and has not finished with
    claimed,    \* job.Attempts in the worker's memory
    result,     \* what the worker's handler returned
    faults      \* crashes and lost updates so far

jobVars    == <<jobState, attempts, due, stale>>
workerVars == <<holding, claimed, result>>
vars       == <<jobState, attempts, due, stale, runState, up, holding, claimed, result, faults>>

\* Mutant of Waiting: ClaimJob also takes leased jobs.
WaitingOrLeased == {"scheduled", "retry", "running"}

\* Mutant of Cancellable: cancellations take the row from a running handler.
CancellableOrLeased == {"scheduled", "retry", "paused", "running"}

Waiting     == {"scheduled", "retry"}               \* what ClaimJob selects
Cancellable == {"scheduled", "retry", "paused"}     \* what cancellations select
JobStates   == Cancellable \cup {"absent", "running", "completed", "failed", "cancelled", "suppressed"}
RunStates   == {"absent", "active", "paused", "cancelled"}
LiveRun     == {"active", "paused"}

\* "none": the handler is executing.  "done", "error", "permanent": it returned
\* nil, an ordinary error, a noRetryError.  "released": it returned nil after
\* deferring or suppressing its own job.
Results == {"none", "done", "error", "permanent", "released"}

Least(a, b) == IF a < b THEN a ELSE b

TypeOK ==
    /\ jobState \in [Jobs -> JobStates]
    /\ attempts \in [Jobs -> Nat]
    /\ \A j \in Jobs : attempts[j] <= MaxAttempts[j]
    /\ due \subseteq Jobs
    /\ stale \subseteq Jobs
    /\ runState \in [Runs -> RunStates]
    /\ up \in BOOLEAN
    /\ holding \in [Workers -> Jobs \cup {NoJob}]
    /\ claimed \in [Workers -> Nat]
    /\ result \in [Workers -> Results]
    /\ faults \in 0..MaxFaults

Init ==
    /\ jobState = [j \in Jobs |-> "absent"]
    /\ attempts = [j \in Jobs |-> 0]
    /\ due = {}
    /\ stale = {}
    /\ runState = [r \in Runs |-> "absent"]
    /\ up = TRUE
    /\ holding = [w \in Workers |-> NoJob]
    /\ claimed = [w \in Workers |-> 0]
    /\ result = [w \in Workers |-> "none"]
    /\ faults = 0

(* Bulk updates *)

JobsOfRuns(R) == {j \in Jobs : RunOf[j] \in R}

\* Moves the jobs of J that are in one of the states "from" to the state "to".
MoveJobs(J, from, to) ==
    jobState' = [j \in Jobs |-> IF j \in J /\ jobState[j] \in from THEN to ELSE jobState[j]]

MoveRuns(R, from, to) ==
    runState' = [r \in Runs |-> IF r \in R /\ runState[r] \in from THEN to ELSE runState[r]]

-----------------------------------------------------------------------------
(* Producers of runs and jobs *)

\* The INSERT of a run by an event handler; its steps follow one by one.
StartRun(r) ==
    /\ up
    /\ runState[r] = "absent"
    /\ runState' = [runState EXCEPT ![r] = "active"]
    /\ UNCHANGED <<jobVars, workerVars, up, faults>>

\* EnqueueJob for one key, or the activation of a campaign for all its recipients
\* in one transaction; for now or for later.  ON CONFLICT DO NOTHING once a key
\* exists.  Nothing looks at the state a run has by then.
EnqueueJobs(J) ==
    /\ up
    /\ \A j \in J : RunOf[j] # None => runState[RunOf[j]] # "absent"
    /\ MoveJobs(J, {"absent"}, "scheduled")
    /\ due' \in {due, due \cup {j \in J : jobState[j] = "absent"}}
    /\ UNCHANGED <<attempts, stale, runState, workerVars, up, faults>>

CampaignBatches == SUBSET {j \in Jobs : RunOf[j] = None}
Batches == {{j} : j \in Jobs} \cup CampaignBatches

-----------------------------------------------------------------------------
(* Workers *)

Idle(w)    == holding[w] = NoJob
Running(w) == holding[w] # NoJob /\ result[w] = "none"

\* ClaimJob: one transaction selects a due job and leases it.  The order among
\* due jobs is abstracted to a free choice.
ClaimJob(w, j) ==
    /\ up
    /\ Idle(w)
    /\ jobState[j] \in Waiting
    /\ j \in due
    /\ jobState' = [jobState EXCEPT ![j] = "running"]
    /\ attempts' = [attempts EXCEPT ![j] = Least(@ + 1, MaxAttempts[j])]
    /\ stale' = stale \ {j}
    /\ holding' = [holding EXCEPT ![w] = j]
    /\ claimed' = [claimed EXCEPT ![w] = attempts'[j]]
    /\ result' = [result EXCEPT ![w] = "none"]
    /\ UNCHANGED <<due, runState, up, faults>>

\* processJob returns without having touched its own job row.
HandlerReturns(w, r) ==
    /\ Running(w)
    /\ result' = [result EXCEPT ![w] = r]
    /\ UNCHANGED <<jobVars, runState, holding, claimed, up, faults>>

\* cancelJobAsSuppressed: an update by id alone; the handler then returns nil.
SuppressJob(w) ==
    /\ Running(w)
    /\ jobState' = [jobState EXCEPT ![holding[w]] = "suppressed"]
    /\ result' = [result EXCEPT ![w] = "released"]
    /\ UNCHANGED <<attempts, due, stale, runState, holding, claimed, up, faults>>

\* DeferJob: back to scheduled for a later time, or an error when the job is no
\* longer running.
DeferJob(w) ==
    LET j == holding[w] IN
    /\ Running(w)
    /\ \/ /\ jobState[j] = "running"
          /\ jobState' = [jobState EXCEPT ![j] = "scheduled"]
          /\ due' = due \ {j}
          /\ stale' = stale \ {j}
          /\ result' = [result EXCEPT ![w] = "released"]
       \/ /\ jobState[j] # "running"
          /\ result' = [result EXCEPT ![w] = "error"]
          /\ UNCHANGED <<jobState, due, stale>>
    /\ UNCHANGED <<attempts, runState, holding, claimed, up, faults>>

\* The worker is done with its job and will poll again.
Release(w) ==
    /\ holding' = [holding EXCEPT ![w] = NoJob]
    /\ claimed' = [claimed EXCEPT ![w] = 0]
    /\ result' = [result EXCEPT ![w] = "none"]

\* CompleteJob: guarded by state='running', by id and not by lease.
CompleteJob(w) ==
    LET j == holding[w] IN
    /\ ~Idle(w)
    /\ result[w] \in {"done", "released"}
    /\ \/ /\ jobState[j] = "running"
          /\ jobState' = [jobState EXCEPT ![j] = "completed"]
          /\ stale' = stale \ {j}
       \/ /\ jobState[j] # "running"
          /\ UNCHANGED <<jobState, stale>>
    /\ Release(w)
    /\ UNCHANGED <<attempts, due, runState, up, faults>>

\* Mutants of FailedState: a state the schema does not have; a retry that keeps the lease.
FailedStateUnknown(w) == IF claimed[w] >= MaxAttempts[holding[w]] THEN "dead" ELSE "retry"
FailedStateLeased(w)  == IF claimed[w] >= MaxAttempts[holding[w]] THEN "failed" ELSE "running"

\* FailJob: an update by id alone.  The backoff is at least two seconds, so the
\* job is not due right after it.
FailedState(w) == IF claimed[w] >= MaxAttempts[holding[w]] THEN "failed" ELSE "retry"

FailJob(w) ==
    /\ ~Idle(w)
    /\ result[w] = "error"
    /\ jobState' = [jobState EXCEPT ![holding[w]] = FailedState(w)]
    /\ due' = due \ {holding[w]}
    /\ stale' = stale \ {holding[w]}
    /\ Release(w)
    /\ UNCHANGED <<attempts, runState, up, faults>>

\* FailJobPermanently: an update by id alone.
FailJobPermanently(w) ==
    /\ ~Idle(w)
    /\ result[w] = "permanent"
    /\ jobState' = [jobState EXCEPT ![holding[w]] = "failed"]
    /\ stale' = stale \ {holding[w]}
    /\ Release(w)
    /\ UNCHANGED <<attempts, due, runState, up, faults>>

\* The last update of a lease returns an error, which jobLoop logs or drops
\* before it polls again: the row keeps what it had.
UpdateLost(w) ==
    /\ LostUpdates
    /\ faults < MaxFaults
    /\ ~Idle(w)
    /\ result[w] # "none"
    /\ Release(w)
    /\ faults' = faults + 1
    /\ UNCHANGED <<jobVars, runState, up>>

-----------------------------------------------------------------------------
(* Operator controls and cancellations, one transaction each *)

PauseRuns(R) ==
    /\ up
    /\ MoveRuns(R, {"active"}, "paused")
    /\ MoveJobs(JobsOfRuns(R), Waiting, "paused")
    /\ UNCHANGED <<attempts, due, stale, workerVars, up, faults>>

\* Mutant of ResumeRuns: the runs are resumed without their retried jobs.
ResumeScheduledOnly(R) ==
    /\ up
    /\ MoveRuns(R, {"paused"}, "active")
    /\ jobState' = [j \in Jobs |-> IF j \in JobsOfRuns(R) /\ jobState[j] = "paused" /\ attempts[j] = 0
                                   THEN "scheduled" ELSE jobState[j]]
    /\ UNCHANGED <<attempts, due, stale, workerVars, up, faults>>

\* A paused job's available_at is kept, or raised to now when it has passed.
ResumeRuns(R) ==
    /\ up
    /\ MoveRuns(R, {"paused"}, "active")
    /\ MoveJobs(JobsOfRuns(R), {"paused"}, "scheduled")
    /\ UNCHANGED <<attempts, due, stale, workerVars, up, faults>>

CancelRuns(R, J) ==
    /\ up
    /\ MoveRuns(R, LiveRun, "cancelled")
    /\ MoveJobs(J, Cancellable, "cancelled")
    /\ UNCHANGED <<attempts, due, stale, workerVars, up, faults>>

PauseWorkflow(r)  == runState[r] = "active" /\ PauseRuns({r})
ResumeWorkflow(r) == runState[r] = "paused" /\ ResumeRuns({r})
CancelWorkflow(r) == runState[r] \in LiveRun /\ CancelRuns({r}, JobsOfRuns({r}))

RunsNamed(n) == {r \in Runs : NameOf[r] = n}

\* pauseWorkflowDefinition and activateWorkflow on the runs and jobs of a name.
PauseDefinition(n)    == PauseRuns(RunsNamed(n))
ActivateDefinition(n) == ResumeRuns(RunsNamed(n))

\* CancelCustomerWork: the customer's runs, their jobs, and the send jobs
\* addressed to the customer, which include campaign jobs.
CustomerRuns(c) == {r \in Runs : CustomerOfRun[r] = c}
CustomerJobs(c) == JobsOfRuns(CustomerRuns(c)) \cup {j \in Jobs : CustomerOf[j] = c}

CancelCustomerWork(c) == CancelRuns(CustomerRuns(c), CustomerJobs(c))

\* cancelCampaign: the jobs of one campaign, none of which has a run.
CancelCampaignJobs(J) == CancelRuns({}, J)

\* The app/uninstalled webhook cancels everything that is not running.
CancelEverything == CancelRuns(Runs, Jobs)

\* ReplayFailedJob; the message ledger's veto is Sender's to add.
ReplayFailedJob(j) ==
    /\ up
    /\ jobState[j] = "failed"
    /\ jobState' = [jobState EXCEPT ![j] = "scheduled"]
    /\ attempts' = [attempts EXCEPT ![j] = 0]
    /\ due' = due \cup {j}
    /\ stale' = stale \ {j}
    /\ UNCHANGED <<runState, workerVars, up, faults>>

-----------------------------------------------------------------------------
(* Time, crash and restart *)

AvailableAtReached(j) ==
    /\ jobState[j] \in Cancellable
    /\ j \notin due
    /\ due' = due \cup {j}
    /\ UNCHANGED <<jobState, attempts, stale, runState, workerVars, up, faults>>

LeaseAges(j) ==
    /\ jobState[j] = "running"
    /\ j \notin stale
    /\ stale' = stale \cup {j}
    /\ UNCHANGED <<jobState, attempts, due, runState, workerVars, up, faults>>

\* A kill, a power loss, or SIGTERM: main does not wait for Processor.Run, and
\* the cancelled context fails the updates still to come.
Crash ==
    /\ up
    /\ faults < MaxFaults
    /\ up' = FALSE
    /\ holding' = [w \in Workers |-> NoJob]
    /\ claimed' = [w \in Workers |-> 0]
    /\ result' = [w \in Workers |-> "none"]
    /\ faults' = faults + 1
    /\ UNCHANGED <<jobVars, runState>>

\* Mutant of RecoverStaleJobs: nothing is recovered.
RecoverNothing == UNCHANGED <<jobState, due, stale>>

\* Processor.Run: RecoverStaleJobs once, before the first worker starts.
RecoverStaleJobs ==
    LET expired == {j \in stale : jobState[j] = "running"} IN
    /\ MoveJobs(expired, {"running"}, "retry")
    /\ due' = due \cup expired
    /\ stale' = stale \ expired

Restart ==
    /\ ~up
    /\ PromptRestart \/ \A j \in Jobs : jobState[j] = "running" => j \in stale
    /\ up' = TRUE
    /\ RecoverStaleJobs
    /\ UNCHANGED <<attempts, runState, workerVars, faults>>

-----------------------------------------------------------------------------
WorkerStep(w) ==
    \/ \E j \in Jobs : ClaimJob(w, j)
    \/ \E r \in {"done", "error", "permanent"} : HandlerReturns(w, r)
    \/ SuppressJob(w)
    \/ DeferJob(w)
    \/ CompleteJob(w)
    \/ FailJob(w)
    \/ FailJobPermanently(w)
    \/ UpdateLost(w)

ControlStep ==
    \/ \E r \in Runs : StartRun(r) \/ PauseWorkflow(r) \/ ResumeWorkflow(r) \/ CancelWorkflow(r)
    \/ \E n \in Names : PauseDefinition(n) \/ ActivateDefinition(n)
    \/ \E c \in Customers : CancelCustomerWork(c)
    \/ CancelEverything
    \/ \E J \in CampaignBatches : CancelCampaignJobs(J)
    \/ \E J \in Batches : EnqueueJobs(J)
    \/ \E j \in Jobs : ReplayFailedJob(j)

TimeStep ==
    \/ \E j \in Jobs : AvailableAtReached(j) \/ LeaseAges(j)
    \/ Crash
    \/ Restart

Next == (\E w \in Workers : WorkerStep(w)) \/ ControlStep \/ TimeStep

Spec == Init /\ [][Next]_vars

\* The scheduling the code provides: tickers poll for ever, every handler
\* returns (its HTTP calls have timeouts), a deferral moves a job to an instant
\* its window allows, and ORDER BY available_at serves the oldest job first, so
\* that a due job is overtaken only finitely often.
Fairness ==
    /\ \A w \in Workers : WF_vars(CompleteJob(w) \/ FailJob(w) \/ FailJobPermanently(w))
    /\ \A j \in Jobs :
        /\ SF_vars(\E w \in Workers : ClaimJob(w, j))
        /\ SF_vars(\E w \in Workers, r \in {"done", "error", "permanent"} :
                      holding[w] = j /\ HandlerReturns(w, r))
        /\ WF_vars(AvailableAtReached(j))
        /\ WF_vars(LeaseAges(j))
    /\ WF_vars(Restart)

FairSpec == Spec /\ Fairness

-----------------------------------------------------------------------------
(* Properties *)

\* A worker whose next write to its job row is still to come.
Owns(w) == holding[w] # NoJob /\ result[w] # "released"

\* Two workers never execute handlers of the same job at the same time, although
\* CompleteJob, FailJob and the suppression of a job name the row by id only and
\* a deferred job can be leased again before its first worker is done with it.
HandlerExclusive ==
    \A v, w \in Workers : v # w /\ Running(v) /\ Running(w) => holding[v] # holding[w]

\* No cancellation, pause or late update of another worker takes a row from the
\* worker that owns it, except that a worker that deferred the job may complete
\* it behind the back of the one that leased it next.
OwnerKeepsRow ==
    \A w \in Workers : Owns(w) => /\ jobState[holding[w]] \in {"running", "completed"}
                                  /\ claimed[w] = attempts[holding[w]]

\* Only a crash or a lost update leaves a lease without a worker.
NoOrphanWithoutFault ==
    faults = 0 => \A j \in Jobs : jobState[j] = "running" =>
                                    \E w \in Workers : Owns(w) /\ holding[w] = j

\* A job is never left paused under a run that goes on, where only a pause of the whole
\* workflow and its activation would free it: not by any order of pauses, resumptions,
\* deferrals, retries and late enqueues.
PausedWithItsRun ==
    \A j \in Jobs : jobState[j] = "paused" =>
        RunOf[j] # None /\ runState[RunOf[j]] \in {"paused", "cancelled"}

\* A cancelled or suppressed job stays so: the unconditional updates of FailJob
\* and FailJobPermanently never bring one back.
ClosedStates  == {"cancelled", "suppressed"}
ClosedForGood ==
    [][\A j \in Jobs : jobState[j] \in ClosedStates => jobState'[j] = jobState[j]]_vars

\* The queue implements ExclusiveWork.
handledBy == [w \in Workers |-> IF Running(w) THEN holding[w] ELSE NoJob]
closedJobs == {j \in Jobs : jobState[j] \in ClosedStates}

Work == INSTANCE ExclusiveWork WITH handling <- handledBy, closed <- closedJobs

ImplementsExclusiveWork == Work!Spec

Pending(j) == jobState[j] \in Waiting \cup {"running"}
Settled(j) == jobState[j] \in {"paused", "completed", "failed"} \cup ClosedStates

\* A lease of the running daemon that no worker serves.
Abandoned(j) == up /\ jobState[j] = "running" /\ \A w \in Workers : holding[w] # j

\* Every job that is waiting or leased is settled in the end, or paused by the
\* operator, unless a lost update abandons its lease; when the last fault has been,
\* those not abandoned are settled, the ones of a crashed daemon included, provided
\* that the restart finds the leases stale.
EveryJobSettles ==
    \A j \in Jobs :
        /\ Pending(j) ~> Settled(j) \/ Abandoned(j)
        /\ Pending(j) /\ ~Abandoned(j) /\ faults = MaxFaults ~> Settled(j)

\* docs/architecture.md, "Stale leases are recovered after a restart": a lease
\* that nobody serves in the running daemon is given up once it is stale.
StaleLeaseRecovered ==
    \A j \in Jobs : Abandoned(j) /\ j \in stale ~> jobState[j] # "running"

=============================================================================
