---------------------------- MODULE SenderProofs ----------------------------
(***************************************************************************)
(* The sender implements the job queue and inherits what is proved of it;  *)
(* on that rest the theorems about the message ledger, for every set of    *)
(* jobs, workers, customers and campaigns, every cap and every number of   *)
(* faults.                                                                 *)
(***************************************************************************)
EXTENDS Sender, FiniteSetTheorems, TLAPS

QueueFacts == INSTANCE JobQueueProofs

USE SenderConstants DEF SenderConstants

-----------------------------------------------------------------------------
(* The refinement *)

\* A statement of sendWhatsApp, or of the loop around it, is a step of the queue's
\* worker, a cancellation of the customer's work, or leaves the queue alone.
LEMMA SendStepRefines ==
    ASSUME Queue!TypeOK, NEW w \in Workers, SendStep(w)
    PROVE  Queue!WorkerStep(w) \/ UNCHANGED queueVars \/ \E c \in Customers : Queue!CancelCustomerWork(c)
<1> USE DEF Queue!WorkerStep, Return, Goto, At
<1>1. ASSUME NEW j \in Jobs, Claim(w, j) PROVE Queue!WorkerStep(w)
  BY <1>1 DEF Claim
<1>2. CASE HandlerFails(w)
  BY <1>2 DEF HandlerFails
<1>3. CASE CheckCustomer(w)
  BY <1>3 DEF CheckCustomer
<1>4. CASE CheckScope(w) \/ CheckConditions(w) \/ Reserve(w)
  BY <1>4 DEF CheckScope, CheckConditions, Reserve
<1>5. CASE DeferForQuietHours(w)
  BY <1>5 DEF DeferForQuietHours
<1>6. CASE ReadRow(w)
  BY <1>6 DEF ReadRow
<1>7. CASE CallAccepted(w) \/ CallUnanswered(w) \/ CallUnusable(w) \/ CallRefused(w)
  BY <1>7 DEF CallAccepted, CallUnanswered, CallUnusable, CallRefused
<1>8. CASE RecordAccepted(w) \/ RecordUnknown(w) \/ RecordRejected(w)
  BY <1>8 DEF RecordAccepted, RecordUnknown, RecordRejected
<1>9. CASE SuppressCustomer(w) \/ GiveUp(w)
  BY <1>9 DEF SuppressCustomer, GiveUp
<1>10. CASE CancelCustomer(w)
  <2>1. CustomerOf[holding[w]] \in Customers
    BY <1>10 DEF CancelCustomer, Queue!Running, Queue!TypeOK
  <2>2. QED BY <1>10, <2>1 DEF CancelCustomer
<1>11. CASE Suppress(w) \/ Finish(w)
  BY <1>11 DEF Suppress, Finish
<1>12. QED
  BY <1>1, <1>2, <1>3, <1>4, <1>5, <1>6, <1>7, <1>8, <1>9, <1>10, <1>11 DEF SendStep

\* Everybody else drives the queue through its controls, or not at all.
LEMMA OtherStepRefines ==
    ASSUME OtherStep
    PROVE  Queue!ControlStep \/ Queue!TimeStep \/ UNCHANGED queueVars
<1> USE DEF Queue!ControlStep, Queue!TimeStep
<1>1. ASSUME NEW m \in Campaigns, ActivateCampaign(m) \/ CancelCampaign(m)
      PROVE  Queue!ControlStep
  <2>1. CampaignJobs(m) \in Queue!CampaignBatches
    BY DEF CampaignJobs, Queue!CampaignBatches, Queue!QueueConstants
  <2>2. {j \in CampaignJobs(m) : RetryOf[j] = None} \in Queue!Batches
    BY <2>1 DEF Queue!Batches, Queue!CampaignBatches
  <2>3. QED BY <1>1, <2>1, <2>2 DEF ActivateCampaign, CancelCampaign
<1>2. ASSUME NEW j \in Jobs, EnqueueStep(j) \/ EnqueueDeliveryRetry(j) \/ Replay(j)
      PROVE  Queue!ControlStep
  <2>1. {j} \in Queue!Batches
    BY DEF Queue!Batches
  <2>2. QED BY <1>2, <2>1 DEF EnqueueStep, EnqueueDeliveryRetry, Replay
<1>3. ASSUME NEW j \in Jobs, WindowPasses(j) PROVE UNCHANGED queueVars
  BY <1>3 DEF WindowPasses
<1>4. ASSUME NEW c \in Customers, CancelCustomerWork(c) \/ OptOut(c) \/ OptOutByMeta(c) \/ OptIn(c)
      PROVE  Queue!ControlStep \/ UNCHANGED queueVars
  BY <1>4 DEF CancelCustomerWork, OptOut, OptOutByMeta, OptIn
<1>5. CASE RunControl
  BY <1>5 DEF RunControl
<1>6. CASE TimePasses \/ Crash \/ Restart
  BY <1>6 DEF TimePasses, Crash, Restart
<1>7. QED BY <1>1, <1>2, <1>3, <1>4, <1>5, <1>6 DEF OtherStep

\* Every step of the sender is a step of the queue or stutters there.
LEMMA StepRefines ==
    ASSUME Queue!TypeOK, [Next]_vars
    PROVE  [Queue!Next]_(Queue!vars)
<1>1. Queue!vars = queueVars /\ (UNCHANGED queueVars => UNCHANGED Queue!vars)
  BY DEF Queue!vars, queueVars
<1>2. CASE UNCHANGED vars
  BY <1>2 DEF vars, queueVars, Queue!vars
<1>3. ASSUME NEW w \in Workers, SendStep(w) PROVE [Queue!Next]_(Queue!vars)
  BY <1>1, <1>3, SendStepRefines DEF Queue!Next, Queue!ControlStep
<1>4. CASE OtherStep
  BY <1>1, <1>4, OtherStepRefines DEF Queue!Next
<1>5. QED BY <1>2, <1>3, <1>4 DEF Next

-----------------------------------------------------------------------------
(* What is proved of the queue, for the sender's queue *)

\* The two instances of JobQueue are the same specification.
LEMMA SameQueue ==
    /\ QueueFacts!QueueConstants
    /\ Queue!Init <=> QueueFacts!Init
    /\ Queue!Next <=> QueueFacts!Next
    /\ UNCHANGED Queue!vars <=> UNCHANGED QueueFacts!vars
<1>1. QueueFacts!QueueConstants
  BY DEF Queue!QueueConstants, QueueFacts!QueueConstants
<1>2. Queue!Init <=> QueueFacts!Init
  BY DEF Queue!Init, QueueFacts!Init
<1>3. UNCHANGED Queue!vars <=> UNCHANGED QueueFacts!vars
  BY DEF Queue!vars, QueueFacts!vars
<1>4. Queue!Next <=> QueueFacts!Next
  BY DEF Queue!Next, Queue!vars, Queue!jobVars, Queue!workerVars, Queue!WorkerStep,
         Queue!ControlStep, Queue!TimeStep, Queue!ClaimJob, Queue!HandlerReturns,
         Queue!SuppressJob, Queue!DeferJob, Queue!CompleteJob, Queue!FailJob,
         Queue!FailJobPermanently, Queue!UpdateLost, Queue!StartRun, Queue!PauseWorkflow,
         Queue!ResumeWorkflow, Queue!CancelWorkflow, Queue!PauseDefinition,
         Queue!ActivateDefinition, Queue!CancelCustomerWork, Queue!CancelEverything,
         Queue!CancelCampaignJobs, Queue!EnqueueJobs, Queue!ReplayFailedJob,
         Queue!AvailableAtReached, Queue!LeaseAges, Queue!Crash, Queue!Restart,
         Queue!RecoverStaleJobs, Queue!PauseRuns, Queue!ResumeRuns, Queue!CancelRuns,
         Queue!MoveJobs, Queue!MoveRuns, Queue!JobsOfRuns, Queue!RunsNamed, Queue!CustomerRuns,
         Queue!CustomerJobs, Queue!Batches, Queue!CampaignBatches, Queue!Idle, Queue!Running,
         Queue!Release, Queue!FailedState, Queue!Waiting, Queue!Cancellable, Queue!LiveRun,
         Queue!Least, QueueFacts!Next, QueueFacts!vars, QueueFacts!jobVars,
         QueueFacts!workerVars, QueueFacts!WorkerStep, QueueFacts!ControlStep,
         QueueFacts!TimeStep, QueueFacts!ClaimJob, QueueFacts!HandlerReturns,
         QueueFacts!SuppressJob, QueueFacts!DeferJob, QueueFacts!CompleteJob, QueueFacts!FailJob,
         QueueFacts!FailJobPermanently, QueueFacts!UpdateLost, QueueFacts!StartRun,
         QueueFacts!PauseWorkflow, QueueFacts!ResumeWorkflow, QueueFacts!CancelWorkflow,
         QueueFacts!PauseDefinition, QueueFacts!ActivateDefinition,
         QueueFacts!CancelCustomerWork, QueueFacts!CancelEverything,
         QueueFacts!CancelCampaignJobs, QueueFacts!EnqueueJobs, QueueFacts!ReplayFailedJob,
         QueueFacts!AvailableAtReached, QueueFacts!LeaseAges, QueueFacts!Crash,
         QueueFacts!Restart, QueueFacts!RecoverStaleJobs, QueueFacts!PauseRuns,
         QueueFacts!ResumeRuns, QueueFacts!CancelRuns, QueueFacts!MoveJobs, QueueFacts!MoveRuns,
         QueueFacts!JobsOfRuns, QueueFacts!RunsNamed, QueueFacts!CustomerRuns,
         QueueFacts!CustomerJobs, QueueFacts!Batches, QueueFacts!CampaignBatches,
         QueueFacts!Idle, QueueFacts!Running, QueueFacts!Release, QueueFacts!FailedState,
         QueueFacts!Waiting, QueueFacts!Cancellable, QueueFacts!LiveRun, QueueFacts!Least
<1>5. QED BY <1>1, <1>2, <1>3, <1>4

\* The invariant of the queue in the sender's terms.
LEMMA QueueInv ==
    ASSUME QueueFacts!IInv
    PROVE  /\ Queue!TypeOK
           /\ \A v, w \in Workers : Queue!Owns(v) /\ Queue!Owns(w) /\ holding[v] = holding[w] => v = w
BY DEF QueueFacts!IInv, QueueFacts!TypeOK, QueueFacts!OneOwner, QueueFacts!Owns, Queue!TypeOK, Queue!Owns,
       QueueFacts!JobStates, QueueFacts!RunStates, QueueFacts!Results, QueueFacts!Cancellable,
       Queue!JobStates, Queue!RunStates, Queue!Results, Queue!Cancellable

\* A step of the sender keeps the queue's invariant, the closed jobs and the cancelled runs.
LEMMA QueueStep ==
    ASSUME QueueFacts!IInv, [Next]_vars
    PROVE  /\ QueueFacts!IInv'
           /\ \A j \in Jobs : jobState[j] = "suppressed" => jobState'[j] = "suppressed"
           /\ \A r \in Runs : runState[r] = "cancelled" => runState'[r] = "cancelled"
<1>1. [QueueFacts!Next]_(QueueFacts!vars)
  BY StepRefines, QueueInv, SameQueue
<1>2. QueueFacts!IInv'
  BY <1>1, SameQueue, QueueFacts!IInvStep
<1>3. \A j \in Jobs : jobState[j] \in QueueFacts!ClosedStates => jobState'[j] = jobState[j]
  BY <1>1, SameQueue, QueueFacts!ClosedStep
<1>4. \A r \in Runs : runState[r] = "cancelled" => runState'[r] = "cancelled"
  BY <1>1, SameQueue, QueueFacts!CancelledRunStays
<1>5. QED BY <1>2, <1>3, <1>4 DEF QueueFacts!ClosedStates

\* The queue's invariant holds throughout the sender's behaviours.
THEOREM QueueInvariant == Spec => []QueueFacts!IInv
<1>1. Init => QueueFacts!IInv
  BY SameQueue, QueueFacts!IInvInit DEF Init
<1>2. QueueFacts!IInv /\ [Next]_vars => QueueFacts!IInv'
  BY QueueStep
<1>3. QED BY <1>1, <1>2, PTL DEF Spec

\* The sender implements the job queue.
THEOREM SenderImplementsQueue == Spec => QueueSpec
<1>1. Init => Queue!Init
  BY DEF Init
<1>2. QueueFacts!IInv /\ [Next]_vars => [Queue!Next]_(Queue!vars)
  BY StepRefines, QueueInv
<1>3. QED BY <1>1, <1>2, QueueInvariant, PTL DEF Spec, QueueSpec, Queue!Spec

-----------------------------------------------------------------------------
(* The inductive invariant of the ledger *)

Sending == {"call", "accepted", "unknown", "rejected"}

\* Between the read of the row and the recording of Meta's answer the row has no Meta ID.
NotYetAccepted(w) ==
    Queue!Running(w) /\ pc[w] \in Sending => message[holding[w]] # "accepted"

\* The program counter is off unless a handler is executing.
OffIsOver(w) == pc[w] # "off" => Queue!Running(w)

\* nil is returned only with the Meta ID stored, or after the handler's own write.
DoneIsAccepted(w) ==
    holding[w] # NoJob /\ result[w] = "done" => message[holding[w]] = "accepted"

\* Without a run there is no deferral: that write was the suppression.
ReleasedIsSuppressed(w) ==
    holding[w] # NoJob /\ result[w] = "released" /\ RunOf[holding[w]] = None
        => jobState[holding[w]] = "suppressed"

WorkerInv(w) == OffIsOver(w) /\ NotYetAccepted(w) /\ DoneIsAccepted(w) /\ ReleasedIsSuppressed(w)

\* The check that stops a late worker is still to come, or was the last step.
LateStops(w) ==
    w \in late => /\ Queue!Running(w)
                  /\ \/ pc[w] = "start" /\ Over(holding[w])
                     \/ pc[w] = "scope" /\ Ended(holding[w])
                     \/ pc[w] = "suppress"

\* An acceptance is in the ledger, in the memory of its worker, or lost.
Recorded(j) == message[j] = "accepted" \/ \E w \in Workers : At(w, "accepted") /\ holding[w] = j

AcceptedOrLost(j) == accepted[j] # 0 /\ j \notin lost => accepted[j] = 1 /\ Recorded(j)

CompletedIsAccepted(j) == RunOf[j] = None /\ jobState[j] = "completed" => message[j] = "accepted"

SenderInv ==
    /\ QueueFacts!IInv
    /\ TypeOK
    /\ \A w \in Workers : WorkerInv(w)
    /\ \A w \in Workers : LateStops(w)
    /\ \A j \in Jobs : AcceptedOrLost(j)
    /\ \A j \in Jobs : CompletedIsAccepted(j)

-----------------------------------------------------------------------------
(* The steps of sendWhatsApp *)

\* What a statement of a worker leaves alone: the other workers, the rows of other
\* keys, and a Meta ID once it is stored.
Frame(w) ==
    /\ \A v \in Workers : v # w => /\ UNCHANGED <<holding[v], result[v], pc[v]>>
                                   /\ v \in late' <=> v \in late
    /\ \A j \in Jobs : \/ UNCHANGED <<message[j], accepted[j]>> /\ (j \in lost' <=> j \in lost)
                       \/ j = holding[w] /\ Queue!Running(w)
    /\ \A j \in Jobs : message[j] = "accepted" => message'[j] = "accepted"
    /\ lost \subseteq lost'

SenderTypes ==
    /\ pc \in [Workers -> Steps]
    /\ message \in [Jobs -> MessageStates]
    /\ inWindow \subseteq Jobs
    /\ eligible \in [Customers -> BOOLEAN]
    /\ campaign \in [Campaigns -> {"draft", "scheduled", "cancelled"}]
    /\ gate \in BOOLEAN
    /\ accepted \in [Jobs -> 0..2]
    /\ lost \subseteq Jobs
    /\ late \subseteq Workers

\* The statements that only look at the ledger or only reserve.
CheckStep(w) ==
    \/ \E j \in Jobs : Claim(w, j)
    \/ HandlerFails(w) \/ CheckCustomer(w) \/ CheckScope(w) \/ DeferForQuietHours(w)
    \/ CheckConditions(w) \/ Reserve(w) \/ ReadRow(w)

\* The call, and what follows it.
CallStep(w) ==
    \/ CallAccepted(w) \/ CallUnanswered(w) \/ CallUnusable(w) \/ CallRefused(w)
    \/ RecordAccepted(w) \/ RecordUnknown(w) \/ RecordRejected(w)
    \/ SuppressCustomer(w) \/ CancelCustomer(w) \/ GiveUp(w)
    \/ Suppress(w)
    \/ Finish(w)

\* A check keeps the invariant of its own worker, and everything of the others.
LEMMA CheckStepInv ==
    ASSUME SenderInv, NEW w \in Workers, CheckStep(w)
    PROVE  Frame(w) /\ WorkerInv(w)' /\ SenderTypes'
<1> USE DEF SenderInv, WorkerInv, OffIsOver, NotYetAccepted, DoneIsAccepted, ReleasedIsSuppressed, Frame, SenderTypes,
            TypeOK, Queue!TypeOK, Queue!Running, Sending, Steps, MessageStates, At, Goto, Leave, Return, Queue!HandlerReturns,
            queueVars, ledgerVars, envVars, Queue!jobVars
<1>1. ASSUME NEW j \in Jobs, Claim(w, j) PROVE Frame(w) /\ WorkerInv(w)' /\ SenderTypes'
  BY <1>1 DEF Claim, Queue!ClaimJob, Queue!Idle, Queue!QueueConstants
<1>2. CASE HandlerFails(w)
  BY <1>2 DEF HandlerFails
<1>3. CASE CheckCustomer(w)
  BY <1>3 DEF CheckCustomer
<1>4. CASE CheckScope(w)
  BY <1>4 DEF CheckScope
<1>5. CASE DeferForQuietHours(w)
  BY <1>5 DEF DeferForQuietHours, Queue!DeferJob
<1>6. CASE CheckConditions(w)
  BY <1>6 DEF CheckConditions
<1>7. CASE Reserve(w)
  BY <1>7 DEF Reserve
<1>8. CASE ReadRow(w)
  BY <1>8 DEF ReadRow
<1>9. QED BY <1>1, <1>2, <1>3, <1>4, <1>5, <1>6, <1>7, <1>8 DEF CheckStep

\* So do the call and what follows it.
LEMMA CallStepInv ==
    ASSUME SenderInv, NEW w \in Workers, CallStep(w)
    PROVE  Frame(w) /\ WorkerInv(w)' /\ SenderTypes'
<1> USE DEF SenderInv, WorkerInv, OffIsOver, NotYetAccepted, DoneIsAccepted, ReleasedIsSuppressed, Frame, SenderTypes,
            TypeOK, Queue!TypeOK, Queue!Running, Sending, Steps, MessageStates, At, Goto, Leave, Return, Queue!HandlerReturns,
            queueVars, ledgerVars, envVars, Queue!jobVars
<1>1. CASE CallAccepted(w)
  BY <1>1 DEF CallAccepted, MetaAccepts, Queue!Least
<1>2. CASE CallUnanswered(w)
  BY <1>2 DEF CallUnanswered, MetaAccepts, Queue!Least
<1>3. CASE CallUnusable(w)
  BY <1>3 DEF CallUnusable, MetaAccepts, Queue!Least
<1>4. CASE CallRefused(w)
  BY <1>4 DEF CallRefused
<1>5. CASE RecordAccepted(w)
  BY <1>5 DEF RecordAccepted
<1>6. CASE RecordUnknown(w)
  BY <1>6 DEF RecordUnknown
<1>7. CASE RecordRejected(w)
  BY <1>7 DEF RecordRejected
<1>8. CASE SuppressCustomer(w)
  BY <1>8 DEF SuppressCustomer
<1>9. CASE CancelCustomer(w)
  BY <1>9 DEF CancelCustomer, Queue!CancelCustomerWork, Queue!CancelRuns, Queue!workerVars
<1>10. CASE GiveUp(w)
  BY <1>10 DEF GiveUp
<1>11. CASE Suppress(w)
  BY <1>11 DEF Suppress, Queue!SuppressJob
<1>12. CASE Finish(w)
  BY <1>12 DEF Finish, Queue!CompleteJob, Queue!FailJob, Queue!FailJobPermanently, Queue!UpdateLost,
               Queue!Release, Queue!Idle
<1>13. QED
  BY <1>1, <1>2, <1>3, <1>4, <1>5, <1>6, <1>7, <1>8, <1>9, <1>10, <1>11, <1>12 DEF CallStep

\* Hence every statement of the handler.
LEMMA SendStepInv ==
    ASSUME SenderInv, NEW w \in Workers, SendStep(w)
    PROVE  Frame(w) /\ WorkerInv(w)' /\ SenderTypes'
BY CheckStepInv, CallStepInv DEF SendStep, CheckStep, CallStep

\* The worker that takes a step keeps the record of what Meta accepted ...
LEMMA OwnAcceptance ==
    ASSUME SenderInv, NEW w \in Workers, SendStep(w), Queue!Running(w), NEW j \in Jobs, j = holding[w]
    PROVE  AcceptedOrLost(j)'
<1> USE DEF AcceptedOrLost, Recorded, At, Goto, queueVars, ledgerVars, Queue!Running
<1>1. message[j] = "accepted" => message'[j] = "accepted"
  BY SendStepInv DEF Frame
<1>2. \A v \in Workers : At(v, "accepted") /\ holding[v] = j => v = w
  BY QueueInv DEF SenderInv, Queue!Owns
<1>3. accepted[j] \in 0..2 /\ message \in [Jobs -> MessageStates] /\ pc \in [Workers -> Steps]
      /\ accepted \in [Jobs -> 0..2]
  BY DEF SenderInv, TypeOK
<1>4. CASE CallAccepted(w)
  <2>1. message[j] # "accepted" /\ pc[w] = "call"
    BY <1>4 DEF SenderInv, WorkerInv, NotYetAccepted, Sending, CallAccepted
  <2>2. j \notin lost => accepted[j] = 0
    BY <2>1, <1>2 DEF SenderInv
  <2>3. accepted[j] = 0 => accepted'[j] = 1
    BY <1>4, <1>3 DEF CallAccepted, MetaAccepts, Queue!Least
  <2>4. At(w, "accepted")' /\ holding'[w] = j /\ lost' = lost
    BY <1>4, <1>3 DEF CallAccepted
  <2>5. QED BY <2>2, <2>3, <2>4
<1>5. CASE CallUnanswered(w)
  <2>1. CASE j \in lost'
    BY <2>1
  <2>2. CASE UNCHANGED <<accepted, lost>>
    <3>1. pc[w] = "call"
      BY <1>5 DEF CallUnanswered
    <3>2. AcceptedOrLost(j) /\ ~\E v \in Workers : At(v, "accepted") /\ holding[v] = j
      BY <3>1, <1>2 DEF SenderInv
    <3>3. QED BY <2>2, <3>2, <1>1
  <2>3. QED BY <1>5, <2>1, <2>2 DEF CallUnanswered
<1>6. CASE CallUnusable(w)
  BY <1>6 DEF CallUnusable
<1>7. CASE RecordAccepted(w)
  BY <1>7, <1>2, <1>3 DEF RecordAccepted, SenderInv
<1>8. CASE ~(CallAccepted(w) \/ CallUnanswered(w) \/ CallUnusable(w) \/ RecordAccepted(w))
  <2>1. UNCHANGED <<accepted, lost>> /\ pc[w] # "accepted"
    <3>1. ASSUME NEW k \in Jobs, Claim(w, k) PROVE FALSE
      BY <3>1 DEF Claim, Queue!ClaimJob, Queue!Idle
    <3>2. CASE HandlerFails(w) \/ CheckCustomer(w) \/ CheckScope(w) \/ DeferForQuietHours(w)
               \/ CheckConditions(w) \/ Reserve(w) \/ ReadRow(w)
      BY <3>2 DEF HandlerFails, CheckCustomer, CheckScope, DeferForQuietHours, CheckConditions, Reserve, ReadRow
    <3>3. CASE CallRefused(w) \/ RecordUnknown(w) \/ RecordRejected(w) \/ SuppressCustomer(w)
               \/ CancelCustomer(w) \/ GiveUp(w) \/ Suppress(w)
      BY <3>3 DEF CallRefused, RecordUnknown, RecordRejected, SuppressCustomer, CancelCustomer, GiveUp, Suppress
    <3>4. ~Finish(w)
      BY DEF Finish, Queue!CompleteJob, Queue!FailJob, Queue!FailJobPermanently, Queue!UpdateLost
    <3>5. QED BY <1>8, <3>1, <3>2, <3>3, <3>4 DEF SendStep
  <2>2. QED BY <2>1, <1>1, <1>2 DEF SenderInv
<1>9. QED BY <1>4, <1>5, <1>6, <1>7, <1>8

\* ... and nobody else disturbs it.
LEMMA SendAcceptance ==
    ASSUME SenderInv, NEW w \in Workers, SendStep(w), NEW j \in Jobs
    PROVE  AcceptedOrLost(j)'
<1>1. CASE j = holding[w] /\ Queue!Running(w)
  BY <1>1, OwnAcceptance
<1>2. CASE ~(j = holding[w] /\ Queue!Running(w))
  <2>1. UNCHANGED <<message[j], accepted[j]>> /\ (j \in lost' <=> j \in lost)
    BY <1>2, SendStepInv DEF Frame
  <2>2. ASSUME NEW v \in Workers, At(v, "accepted"), holding[v] = j
        PROVE  At(v, "accepted")' /\ holding'[v] = j
    BY <1>2, <2>2, SendStepInv DEF Frame, At, Queue!Running
  <2>3. QED BY <2>1, <2>2 DEF SenderInv, AcceptedOrLost, Recorded
<1>3. QED BY <1>1, <1>2

\* The other workers keep what concerns them: no two of them run the same job.
LEMMA OthersInv ==
    ASSUME SenderInv, NEW w \in Workers, SendStep(w), NEW v \in Workers, v # w
    PROVE  WorkerInv(v)'
<1> Frame(w)
  BY SendStepInv
<1>1. /\ UNCHANGED <<holding[v], result[v], pc[v]>>
      /\ \A j \in Jobs : message[j] = "accepted" => message'[j] = "accepted"
      /\ \A j \in Jobs : message'[j] = message[j] \/ (j = holding[w] /\ Queue!Running(w))
  BY DEF Frame
<1>2. holding[v] # NoJob => holding[v] \in Jobs
  BY DEF SenderInv, TypeOK, Queue!TypeOK
<1>3. Queue!Running(v) /\ Queue!Running(w) => holding[v] # holding[w]
  BY QueueInv DEF SenderInv, Queue!Owns, Queue!Running
<1>4. \A j \in Jobs : jobState[j] = "suppressed" => jobState'[j] = "suppressed"
  BY QueueStep DEF SenderInv, Next
<1>5. NotYetAccepted(v)'
  <2>1. NotYetAccepted(v)
    BY DEF SenderInv, WorkerInv
  <2>2. Queue!Running(v) => message'[holding[v]] = message[holding[v]]
    BY <1>1, <1>2, <1>3 DEF Queue!Running
  <2>3. Queue!Running(v)' => Queue!Running(v)
    BY <1>1 DEF Queue!Running
  <2>4. QED BY <1>1, <2>1, <2>2, <2>3 DEF NotYetAccepted, Sending
<1>6. DoneIsAccepted(v)'
  BY <1>1, <1>2 DEF SenderInv, WorkerInv, DoneIsAccepted
<1>7. ReleasedIsSuppressed(v)'
  BY <1>1, <1>2, <1>4 DEF SenderInv, WorkerInv, ReleasedIsSuppressed
<1>8. OffIsOver(v)'
  BY <1>1 DEF SenderInv, WorkerInv, OffIsOver, Queue!Running
<1>9. QED BY <1>5, <1>6, <1>7, <1>8 DEF WorkerInv

\* A cancelled run or campaign is over for good; a customer comes back by OptIn only.
LEMMA OverStays ==
    ASSUME SenderInv, [Next]_vars, NEW j \in Jobs
    PROVE  /\ Ended(j) => Ended(j)'
           /\ Over(j) => Over(j)' \/ OptIn(CustomerOf[j])
<1>1. \A r \in Runs : runState[r] = "cancelled" => runState'[r] = "cancelled"
  BY QueueStep DEF SenderInv
<1>2. ASSUME NEW m \in Campaigns, campaign[m] = "cancelled"
      PROVE  campaign'[m] = "cancelled"
  <2>1. ASSUME NEW w \in Workers, SendStep(w) PROVE UNCHANGED campaign
    BY <2>1 DEF SendStep, Claim, HandlerFails, CheckCustomer, CheckScope, DeferForQuietHours, CheckConditions,
         Reserve, ReadRow, CallAccepted, CallUnanswered, CallUnusable, CallRefused, RecordAccepted,
         RecordUnknown, RecordRejected, SuppressCustomer, CancelCustomer, GiveUp, Suppress, Finish, envVars
  <2>2. ASSUME NEW n \in Campaigns, ActivateCampaign(n) \/ CancelCampaign(n) PROVE campaign'[m] = "cancelled"
    BY <2>2, <1>2 DEF ActivateCampaign, CancelCampaign, SenderInv, TypeOK
  <2>3. CASE OtherStep /\ ~\E n \in Campaigns : ActivateCampaign(n) \/ CancelCampaign(n)
    BY <2>3, <1>2 DEF OtherStep, EnqueueStep, EnqueueDeliveryRetry, Replay, WindowPasses, CancelCustomerWork,
         OptOut, OptOutByMeta, OptIn, RunControl, TimePasses, Crash, Restart, envVars
  <2>4. QED BY <2>1, <2>2, <2>3, <1>2 DEF Next, vars, envVars
<1>3. ASSUME NEW c \in Customers, ~eligible[c], eligible'[c]
      PROVE  OptIn(c)
  <2>1. ASSUME NEW w \in Workers, SendStep(w) PROVE FALSE
    <3>1. CASE SuppressCustomer(w)
      BY <3>1, <1>3 DEF SuppressCustomer, SenderInv, TypeOK
    <3>2. CASE ~SuppressCustomer(w)
      BY <2>1, <3>2, <1>3 DEF SendStep, Claim, HandlerFails, CheckCustomer, CheckScope, DeferForQuietHours,
           CheckConditions, Reserve, ReadRow, CallAccepted, CallUnanswered, CallUnusable, CallRefused,
           RecordAccepted, RecordUnknown, RecordRejected, CancelCustomer, GiveUp, Suppress, Finish, envVars
    <3>3. QED BY <3>1, <3>2
  <2>2. ASSUME NEW d \in Customers, OptOut(d) \/ OptOutByMeta(d) PROVE FALSE
    BY <2>2, <1>3 DEF OptOut, OptOutByMeta, SenderInv, TypeOK
  <2>3. ASSUME NEW d \in Customers, OptIn(d) PROVE d = c
    BY <2>3, <1>3 DEF OptIn, SenderInv, TypeOK
  <2>4. CASE OtherStep /\ ~\E d \in Customers : OptOut(d) \/ OptOutByMeta(d) \/ OptIn(d)
    BY <2>4, <1>3 DEF OtherStep, ActivateCampaign, CancelCampaign, EnqueueStep, EnqueueDeliveryRetry, Replay,
         WindowPasses, CancelCustomerWork, RunControl, TimePasses, Crash, Restart, envVars
  <2>5. QED BY <2>1, <2>2, <2>3, <2>4, <1>3 DEF Next, vars, envVars
<1>4. Ended(j) => Ended(j)'
  BY <1>1, <1>2 DEF Ended, Queue!QueueConstants
<1>5. QED BY <1>3, <1>4 DEF Over

-----------------------------------------------------------------------------
(* Late workers *)

\* A worker's own step: the claim makes it late, the checks stop it.
LEMMA OwnLateness ==
    ASSUME SenderInv, NEW w \in Workers, SendStep(w)
    PROVE  LateStops(w)'
<1> USE DEF LateStops, At, Goto, Leave, Return, queueVars, ledgerVars, envVars, Queue!Running
<1>1. pc \in [Workers -> Steps] /\ late \subseteq Workers /\ LateStops(w)
  BY DEF SenderInv, TypeOK
<1>2. ASSUME NEW j \in Jobs, Claim(w, j) PROVE LateStops(w)'
  <2>1. holding \in [Workers -> Jobs \cup {NoJob}] /\ result \in [Workers -> Queue!Results]
    BY DEF SenderInv, TypeOK, Queue!TypeOK
  <2>2. Over(j)' <=> Over(j)
    BY <1>2 DEF Claim, Queue!ClaimJob, Over, Ended
  <2>3. Queue!Running(w)' /\ holding'[w] = j /\ pc'[w] = "start"
    BY <1>1, <1>2, <2>1 DEF Claim, Queue!ClaimJob, Queue!QueueConstants
  <2>4. w \in late' => Over(j)
    BY <1>1, <1>2 DEF Claim
  <2>5. QED BY <2>2, <2>3, <2>4
<1>3. CASE HandlerFails(w) \/ DeferForQuietHours(w) \/ Suppress(w) \/ GiveUp(w)
  BY <1>1, <1>3 DEF HandlerFails, DeferForQuietHours, Suppress, GiveUp
<1>4. CASE CheckCustomer(w)
  BY <1>1, <1>4 DEF CheckCustomer, Over, Ended
<1>5. CASE CheckScope(w)
  BY <1>1, <1>5 DEF CheckScope, InScope, Ended
<1>6. CASE CheckConditions(w) \/ Reserve(w) \/ ReadRow(w)
  BY <1>1, <1>6 DEF CheckConditions, Reserve, ReadRow
<1>7. CASE CallAccepted(w) \/ CallUnanswered(w) \/ CallUnusable(w) \/ CallRefused(w)
  BY <1>1, <1>7 DEF CallAccepted, CallUnanswered, CallUnusable, CallRefused
<1>8. CASE RecordAccepted(w) \/ RecordUnknown(w) \/ RecordRejected(w) \/ SuppressCustomer(w) \/ CancelCustomer(w)
  BY <1>1, <1>8 DEF RecordAccepted, RecordUnknown, RecordRejected, SuppressCustomer, CancelCustomer
<1>9. CASE Finish(w)
  BY <1>1, <1>9 DEF Finish, Queue!CompleteJob, Queue!FailJob, Queue!FailJobPermanently, Queue!UpdateLost
<1>10. QED BY <1>2, <1>3, <1>4, <1>5, <1>6, <1>7, <1>8, <1>9 DEF SendStep

\* Another's step leaves a late worker where it is, and what it will be stopped by.
LEMMA OthersLateness ==
    ASSUME SenderInv, NEW w \in Workers, SendStep(w), NEW v \in Workers, v # w
    PROVE  LateStops(v)'
<1> Frame(w)
  BY SendStepInv
<1>1. UNCHANGED <<holding[v], result[v], pc[v]>> /\ (v \in late' <=> v \in late)
  BY DEF Frame
<1>2. holding[v] # NoJob => holding[v] \in Jobs
  BY DEF SenderInv, TypeOK, Queue!TypeOK
<1>3. ASSUME NEW j \in Jobs PROVE (Over(j) => Over(j)') /\ (Ended(j) => Ended(j)')
  <2>1. Ended(j) => Ended(j)'
    BY OverStays DEF Next
  <2>2. ~eligible[CustomerOf[j]] => ~eligible'[CustomerOf[j]]
    <3>1. CASE SuppressCustomer(w)
      BY <3>1 DEF SuppressCustomer, SenderInv, TypeOK
    <3>2. CASE ~SuppressCustomer(w)
      BY <3>2 DEF SendStep, Claim, HandlerFails, CheckCustomer, CheckScope, DeferForQuietHours,
         CheckConditions, Reserve, ReadRow, CallAccepted, CallUnanswered, CallUnusable, CallRefused,
         RecordAccepted, RecordUnknown, RecordRejected, CancelCustomer, GiveUp, Suppress, Finish, envVars
    <3>3. QED BY <3>1, <3>2
  <2>3. QED BY <2>1, <2>2 DEF Over
<1>4. LateStops(v)
  BY DEF SenderInv
<1>5. QED BY <1>1, <1>2, <1>3, <1>4 DEF LateStops, Queue!Running

-----------------------------------------------------------------------------
(* Everybody else *)

\* Outside the handlers only a crash touches the workers, and nobody the rows.
LEMMA OtherFrame ==
    ASSUME SenderInv, OtherStep
    PROVE  /\ SenderTypes'
           /\ UNCHANGED <<message, accepted>>
           /\ late' \subseteq late
           /\ Crash \/ UNCHANGED <<holding, result, pc, lost>>
<1> USE DEF SenderInv, TypeOK, SenderTypes, ledgerVars, envVars, queueVars, Unhandled, Queue!workerVars
<1>1. ASSUME NEW m \in Campaigns, ActivateCampaign(m) \/ CancelCampaign(m)
      PROVE  SenderTypes' /\ UNCHANGED <<message, accepted, holding, result, pc, lost, late>>
  BY <1>1 DEF ActivateCampaign, CancelCampaign, Queue!EnqueueJobs, Queue!CancelCampaignJobs, Queue!CancelRuns
<1>2. ASSUME NEW j \in Jobs, EnqueueStep(j) \/ EnqueueDeliveryRetry(j) \/ Replay(j) \/ WindowPasses(j)
      PROVE  SenderTypes' /\ UNCHANGED <<message, accepted, holding, result, pc, lost, late>>
  BY <1>2 DEF EnqueueStep, EnqueueDeliveryRetry, Replay, WindowPasses, Queue!EnqueueJobs, Queue!ReplayFailedJob
<1>3. ASSUME NEW c \in Customers, CancelCustomerWork(c) \/ OptOut(c) \/ OptOutByMeta(c) \/ OptIn(c)
      PROVE  SenderTypes' /\ late' \subseteq late /\ UNCHANGED <<message, accepted, holding, result, pc, lost>>
  BY <1>3 DEF CancelCustomerWork, OptOut, OptOutByMeta, OptIn, Queue!CancelCustomerWork, Queue!CancelRuns
<1>4. CASE RunControl
  <2>1. UNCHANGED <<holding, result>>
    BY <1>4 DEF RunControl, Queue!StartRun, Queue!PauseWorkflow, Queue!ResumeWorkflow, Queue!CancelWorkflow,
       Queue!PauseDefinition, Queue!ActivateDefinition, Queue!CancelEverything, Queue!PauseRuns,
       Queue!ResumeRuns, Queue!CancelRuns
  <2>2. QED BY <1>4, <2>1 DEF RunControl
<1>5. CASE TimePasses \/ Restart
  BY <1>5 DEF TimePasses, Restart, Queue!AvailableAtReached, Queue!LeaseAges, Queue!Restart
<1>6. CASE Crash
  <2>1. \A w \in Workers : pc[w] = "accepted" => holding[w] \in Jobs
    BY DEF WorkerInv, OffIsOver, Queue!Running, Queue!TypeOK
  <2>2. QED BY <1>6, <2>1 DEF Crash, Steps
<1>7. QED BY <1>1, <1>2, <1>3, <1>4, <1>5, <1>6 DEF OtherStep

\* A crash leaves no worker to be wrong about, and loses what was not stored.
LEMMA CrashInv ==
    ASSUME SenderInv, Crash
    PROVE  /\ \A w \in Workers : WorkerInv(w)' /\ LateStops(w)'
           /\ \A j \in Jobs : AcceptedOrLost(j)'
<1>1. \A w \in Workers : holding'[w] = NoJob /\ pc'[w] = "off"
  BY DEF Crash, Queue!Crash
<1>2. \A w \in Workers : WorkerInv(w)' /\ LateStops(w)'
  BY <1>1 DEF Crash, WorkerInv, OffIsOver, NotYetAccepted, DoneIsAccepted, ReleasedIsSuppressed, LateStops,
              Queue!Running
<1>3. ASSUME NEW j \in Jobs PROVE AcceptedOrLost(j)'
  <2>1. UNCHANGED <<message, accepted>>
    BY DEF Crash
  <2>2. \A w \in Workers : At(w, "accepted") => holding[w] \in lost'
    BY DEF Crash, At
  <2>3. j \in lost => j \in lost'
    BY DEF Crash
  <2>4. QED BY <2>1, <2>2, <2>3 DEF SenderInv, AcceptedOrLost, Recorded
<1>4. QED BY <1>2, <1>3

\* What happens outside the handlers keeps the workers' part of the invariant.
LEMMA OtherWorkersInv ==
    ASSUME SenderInv, OtherStep, NEW w \in Workers
    PROVE  WorkerInv(w)'
<1>1. CASE Crash
  BY <1>1, CrashInv
<1>2. CASE ~Crash
  <2>1. UNCHANGED <<message, holding, result, pc>>
    BY <1>2, OtherFrame
  <2>2. \A j \in Jobs : jobState[j] = "suppressed" => jobState'[j] = "suppressed"
    BY QueueStep DEF SenderInv, Next
  <2>3. holding[w] # NoJob => holding[w] \in Jobs
    BY DEF SenderInv, TypeOK, Queue!TypeOK
  <2>4. QED
    BY <2>1, <2>2, <2>3 DEF SenderInv, WorkerInv, OffIsOver, NotYetAccepted, DoneIsAccepted,
       ReleasedIsSuppressed, Queue!Running, Sending
<1>3. QED BY <1>1, <1>2

\* Consent given again ends the lateness of those it concerns.
LEMMA OtherLateness ==
    ASSUME SenderInv, OtherStep, NEW w \in Workers
    PROVE  LateStops(w)'
<1>1. CASE Crash
  BY <1>1, CrashInv
<1>2. CASE ~Crash
  <2>1. UNCHANGED <<holding, result, pc>> /\ late' \subseteq late
    BY <1>2, OtherFrame
  <2>2. LateStops(w) /\ (holding[w] # NoJob => holding[w] \in Jobs)
    BY DEF SenderInv, TypeOK, Queue!TypeOK
  <2>3. Queue!Running(w) => /\ Ended(holding[w]) => Ended(holding[w])'
                            /\ Over(holding[w]) => Over(holding[w])' \/ OptIn(CustomerOf[holding[w]])
    BY <2>1, <2>2, OverStays DEF Next, Queue!Running, Over, Ended
  <2>4. w \in late' /\ OptIn(CustomerOf[holding[w]]) => Ended(holding[w])
    BY <2>1 DEF OptIn
  <2>5. QED BY <2>1, <2>2, <2>3, <2>4 DEF LateStops, Queue!Running, Over
<1>3. QED BY <1>1, <1>2

\* Every step keeps the invariant.
LEMMA SenderInvStep ==
    ASSUME SenderInv, [Next]_vars
    PROVE  SenderInv'
<1>1. CASE UNCHANGED vars
  BY <1>1, QueueStep DEF SenderInv, vars, queueVars, ledgerVars, envVars, TypeOK, Queue!TypeOK, WorkerInv, OffIsOver,
     NotYetAccepted, DoneIsAccepted, ReleasedIsSuppressed, LateStops, Over, Ended, AcceptedOrLost, Recorded,
     CompletedIsAccepted, At, Queue!Running, Sending
<1>2. CASE Next
  <2>1. QueueFacts!IInv' /\ Queue!TypeOK'
    <3>1. QueueFacts!IInv'
      BY QueueStep DEF SenderInv
    <3>2. QED
      BY <3>1 DEF QueueFacts!IInv, QueueFacts!TypeOK, Queue!TypeOK, QueueFacts!JobStates, QueueFacts!RunStates,
         QueueFacts!Results, QueueFacts!Cancellable, Queue!JobStates, Queue!RunStates, Queue!Results, Queue!Cancellable
  <2>2. SenderTypes'
    BY <1>2, SendStepInv, OtherFrame DEF Next
  <2>3. TypeOK'
    BY <2>1, <2>2 DEF TypeOK, SenderTypes
  <2>4. \A w \in Workers : WorkerInv(w)'
    BY <1>2, SendStepInv, OthersInv, OtherWorkersInv DEF Next
  <2>5. \A w \in Workers : LateStops(w)'
    BY <1>2, OwnLateness, OthersLateness, OtherLateness DEF Next
  <2>6. ASSUME NEW j \in Jobs PROVE AcceptedOrLost(j)'
    <3>1. CASE Crash
      BY <3>1, CrashInv
    <3>2. CASE OtherStep /\ ~Crash
      <4>1. UNCHANGED <<message, accepted, holding, result, pc, lost>>
        BY <3>2, OtherFrame
      <4>2. QED BY <4>1 DEF SenderInv, AcceptedOrLost, Recorded, At, Queue!Running
    <3>3. QED BY <1>2, <3>1, <3>2, SendAcceptance DEF Next
  <2>7. ASSUME NEW j \in Jobs PROVE CompletedIsAccepted(j)'
    <3>1. message[j] = "accepted" => message'[j] = "accepted"
      BY <1>2, SendStepInv, OtherFrame DEF Next, Frame
    <3>2. ASSUME RunOf[j] = None, jobState'[j] = "completed", jobState[j] # "completed"
          PROVE  message[j] = "accepted"
      <4>1. [QueueFacts!Next]_(QueueFacts!vars) /\ QueueFacts!TypeOK
        BY StepRefines, QueueInv, SameQueue DEF SenderInv, QueueFacts!IInv
      <4>2. /\ jobState[j] = "running"
            /\ \E w \in Workers : holding[w] = j /\ result[w] \in {"done", "released"}
        BY <3>2, <4>1, SameQueue, QueueFacts!CompletedByWorker
      <4>3. j # NoJob
        BY DEF Queue!QueueConstants
      <4>4. QED BY <3>2, <4>2, <4>3 DEF SenderInv, WorkerInv, DoneIsAccepted, ReleasedIsSuppressed
    <3>3. QED BY <3>1, <3>2 DEF SenderInv, CompletedIsAccepted
  <2>8. QED BY <2>1, <2>3, <2>4, <2>5, <2>6, <2>7 DEF SenderInv
<1>3. QED BY <1>1, <1>2

\* The invariant holds in every reachable state.
THEOREM SenderInvariant == Spec => []SenderInv
<1>1. Init => SenderInv
  <2> SUFFICES ASSUME Init PROVE SenderInv
    OBVIOUS
  <2>1. QueueFacts!IInv /\ Queue!TypeOK
    BY SameQueue, QueueFacts!IInvInit, QueueInv DEF Init
  <2>2. QED
    BY <2>1 DEF Init, Queue!Init, SenderInv, TypeOK, WorkerInv, OffIsOver, NotYetAccepted, DoneIsAccepted,
       ReleasedIsSuppressed, LateStops, AcceptedOrLost, CompletedIsAccepted, Steps, MessageStates, Queue!Running
<1>2. SenderInv /\ [Next]_vars => SenderInv'
  BY SenderInvStep
<1>3. QED BY <1>1, <1>2, PTL DEF Spec

-----------------------------------------------------------------------------
(* The properties of the ledger *)

\* Every variable keeps its type, the queue's variables included.
THEOREM SenderTypeCorrect == Spec => []TypeOK
<1>1. SenderInv => TypeOK
  BY DEF SenderInv
<1>2. QED BY <1>1, SenderInvariant, PTL

\* No worker is about to send a message whose Meta ID is stored.
THEOREM NeverResent == Spec => []RecordedNeverResent
<1>1. SenderInv => RecordedNeverResent
  BY DEF SenderInv, RecordedNeverResent, WorkerInv, NotYetAccepted, Sending, At
<1>2. QED BY <1>1, SenderInvariant, PTL

\* A second acceptance needs the loss of the first.
THEOREM DuplicatesComeFromLoss == Spec => []DuplicateOnlyAfterLoss
<1>1. SenderInv => DuplicateOnlyAfterLoss
  BY DEF SenderInv, DuplicateOnlyAfterLoss, AcceptedOrLost
<1>2. QED BY <1>1, SenderInvariant, PTL

\* A completed campaign job has its Meta ID.
THEOREM CompletedIsSent == Spec => []CompletedMeansAccepted
<1>1. SenderInv => CompletedMeansAccepted
  BY DEF SenderInv, CompletedMeansAccepted, CompletedIsAccepted
<1>2. QED BY <1>1, SenderInvariant, PTL

\* Work that was over when it was claimed never passes the checks.
THEOREM StoppedWorkStops == Spec => []StoppedWorkNotSent
<1>1. SenderInv => StoppedWorkNotSent
  BY DEF SenderInv, TypeOK, StoppedWorkNotSent, LateStops
<1>2. QED BY <1>1, SenderInvariant, PTL

-----------------------------------------------------------------------------
(* The frequency cap *)

WindowInv ==
    /\ IsFiniteSet(inWindow)
    /\ \A c \in Customers, n \in Nat : Cardinality(Counted(c, n)) <= n

\* Only the reservation adds a message to the window, and it counts first.
LEMMA ReserveInv ==
    ASSUME TypeOK, TypeOK', WindowInv, NEW w \in Workers, Reserve(w)
    PROVE  WindowInv'
<1> DEFINE j == holding[w]
<1>1. CASE UNCHANGED inWindow
  BY <1>1 DEF WindowInv, Counted
<1>2. CASE ~CapReached(j) /\ inWindow' = inWindow \cup {j}
  <2>1. IsFiniteSet(inWindow')
    BY <1>2, FS_AddElement DEF WindowInv
  <2>2. ASSUME NEW c \in Customers, NEW n \in Nat PROVE Cardinality(Counted(c, n)') <= n
    <3>1. IsFiniteSet(Counted(c, n)) /\ Cardinality(Counted(c, n)) \in Nat /\ Cardinality(Counted(c, n)) <= n
      BY FS_Subset, FS_CardinalityType DEF Counted, WindowInv
    <3>2. CASE CustomerOf[j] # c \/ RetryOf[j] # None \/ ~(CapOf[j] <= n)
      <4>1. Counted(c, n)' = Counted(c, n)
        BY <1>2, <3>2 DEF Counted
      <4>2. QED BY <3>1, <4>1
    <3>3. CASE CustomerOf[j] = c /\ RetryOf[j] = None /\ CapOf[j] <= n
      <4> DEFINE others == Counted(c, n) \ {j}
      <4>1. Counted(c, n)' = others \cup {j}
        BY <1>2, <3>3 DEF Counted
      <4>2. IsFiniteSet(OthersInWindow(j)) /\ others \subseteq OthersInWindow(j)
        BY <3>3, FS_Subset DEF OthersInWindow, Counted, WindowInv
      <4>3. /\ IsFiniteSet(others)
            /\ Cardinality(others) \in Nat
            /\ Cardinality(OthersInWindow(j)) \in Nat
            /\ Cardinality(others) <= Cardinality(OthersInWindow(j))
        BY <4>2, FS_Subset, FS_CardinalityType
      <4>4. Cardinality(OthersInWindow(j)) < CapOf[j] /\ CapOf[j] \in Nat
        <5>1. j \in Jobs
          BY <1>2 DEF TypeOK
        <5>2. QED BY <1>2, <3>3, <4>3, <5>1, SenderConstants DEF CapReached
      <4>5. Cardinality(others \cup {j}) = Cardinality(others) + 1
        BY <4>3, FS_AddElement
      <4>6. QED BY <3>3, <4>1, <4>3, <4>4, <4>5
    <3>4. QED BY <3>2, <3>3
  <2>3. QED BY <2>1, <2>2 DEF WindowInv, Counted
<1>3. QED BY <1>1, <1>2 DEF Reserve, ledgerVars

\* Of the jobs whose cap is n or less at most n have a first attempt for a customer
\* within the window.
THEOREM CapHolds == Spec => []FrequencyCap
<1>1. Init => WindowInv
  <2> SUFFICES ASSUME Init PROVE WindowInv
    OBVIOUS
  <2>1. IsFiniteSet(inWindow)
    BY FS_EmptySet DEF Init
  <2>2. ASSUME NEW c \in Customers, NEW n \in Nat PROVE Cardinality(Counted(c, n)) <= n
    <3>1. Counted(c, n) = {}
      BY DEF Init, Counted
    <3>2. QED BY <3>1, FS_EmptySet
  <2>3. QED BY <2>1, <2>2 DEF WindowInv
<1>2. TypeOK /\ TypeOK' /\ WindowInv /\ [Next]_vars => WindowInv'
  <2> SUFFICES ASSUME TypeOK, TypeOK', WindowInv, [Next]_vars PROVE WindowInv'
    OBVIOUS
  <2>1. ASSUME inWindow' \subseteq inWindow PROVE WindowInv'
    <3>1. IsFiniteSet(inWindow')
      BY <2>1, FS_Subset DEF WindowInv
    <3>2. ASSUME NEW c \in Customers, NEW n \in Nat PROVE Cardinality(Counted(c, n)') <= n
      <4>1. /\ IsFiniteSet(Counted(c, n)) /\ Counted(c, n)' \subseteq Counted(c, n)
            /\ Cardinality(Counted(c, n)) <= n
        BY <2>1, FS_Subset DEF Counted, WindowInv
      <4>2. /\ Cardinality(Counted(c, n)') <= Cardinality(Counted(c, n))
            /\ Cardinality(Counted(c, n)) \in Nat /\ Cardinality(Counted(c, n)') \in Nat
        BY <4>1, FS_Subset, FS_CardinalityType
      <4>3. QED BY <4>1, <4>2
    <3>3. QED BY <3>1, <3>2 DEF WindowInv, Counted
  <2>2. ASSUME NEW w \in Workers, SendStep(w), ~Reserve(w) PROVE UNCHANGED inWindow
    BY <2>2 DEF SendStep, Claim, HandlerFails, CheckCustomer, CheckScope, DeferForQuietHours, CheckConditions,
       ReadRow, CallAccepted, CallUnanswered, CallUnusable, CallRefused, RecordAccepted, RecordUnknown,
       RecordRejected, SuppressCustomer, CancelCustomer, GiveUp, Suppress, Finish, ledgerVars
  <2>3. OtherStep => inWindow' \subseteq inWindow
    BY DEF OtherStep, ActivateCampaign, CancelCampaign, EnqueueStep, EnqueueDeliveryRetry, Replay, WindowPasses,
       CancelCustomerWork, OptOut, OptOutByMeta, OptIn, RunControl, TimePasses, Crash, Restart, Unhandled, ledgerVars
  <2>4. UNCHANGED vars => UNCHANGED inWindow
    BY DEF vars, ledgerVars
  <2>5. QED BY <2>1, <2>2, <2>3, <2>4, ReserveInv DEF Next
<1>3. WindowInv => FrequencyCap
  BY SenderConstants DEF WindowInv, FrequencyCap
<1>4. QED BY <1>1, <1>2, <1>3, SenderTypeCorrect, PTL DEF Spec

-----------------------------------------------------------------------------
(* The promise of Delivery *)

\* A worker that is to store a Meta ID has got it from Meta.
AnswersAreReal == \A w \in Workers : At(w, "accepted") => accepted[holding[w]] # 0

\* What a statement other than the call and the recording of its answer does to the
\* ledger is not Delivery's concern.
LEMMA LedgerFrame ==
    ASSUME SenderInv, NEW w \in Workers, SendStep(w),
           ~(CallAccepted(w) \/ CallUnanswered(w) \/ CallUnusable(w) \/ RecordAccepted(w))
    PROVE  /\ UNCHANGED <<accepted, storedKeys, lost>>
           /\ At(w, "accepted")' => FALSE
<1> USE DEF SenderInv, TypeOK, At, Goto, Leave, Return, Queue!Running, Queue!HandlerReturns, queueVars, ledgerVars, envVars
<1>1. ASSUME UNCHANGED <<accepted, message, lost>> PROVE UNCHANGED <<accepted, storedKeys, lost>>
  BY <1>1 DEF storedKeys
<1>2. ASSUME NEW j \in Jobs, Claim(w, j) PROVE UNCHANGED <<accepted, message, lost>> /\ pc'[w] = "start"
  BY <1>2 DEF Claim
<1>3. CASE CheckStep(w)
  <2>1. CASE Reserve(w)
    <3>1. UNCHANGED <<accepted, lost>> /\ pc'[w] \in {"suppress", "row", "oldRow"}
      BY <2>1 DEF Reserve
    <3>2. UNCHANGED storedKeys
      BY <2>1 DEF Reserve, storedKeys
    <3>3. QED BY <3>1, <3>2
  <2>2. CASE ~Reserve(w)
    <3>1. UNCHANGED <<accepted, message, lost>> /\ pc'[w] # "accepted"
      BY <1>2, <1>3, <2>2 DEF CheckStep, HandlerFails, CheckCustomer, CheckScope, DeferForQuietHours,
         CheckConditions, ReadRow
    <3>2. QED BY <1>1, <3>1
  <2>3. QED BY <2>1, <2>2
<1>4. CASE CallRefused(w) \/ SuppressCustomer(w) \/ CancelCustomer(w) \/ GiveUp(w) \/ Suppress(w)
  <2>1. UNCHANGED <<accepted, message, lost>> /\ pc'[w] # "accepted"
    BY <1>4 DEF CallRefused, SuppressCustomer, CancelCustomer, GiveUp, Suppress
  <2>2. QED BY <1>1, <2>1
<1>5. CASE Finish(w)
  <2>1. UNCHANGED <<accepted, message, lost, pc>> /\ holding'[w] = NoJob
    BY <1>5 DEF Finish, Queue!CompleteJob, Queue!FailJob, Queue!FailJobPermanently, Queue!UpdateLost,
       Queue!Release, Queue!TypeOK
  <2>2. QED BY <1>1, <2>1
<1>6. CASE RecordUnknown(w) \/ RecordRejected(w)
  <2>1. message[holding[w]] # "accepted" /\ holding[w] \in Jobs
    BY <1>6 DEF RecordUnknown, RecordRejected, WorkerInv, NotYetAccepted, Sending, Queue!TypeOK
  <2>2. UNCHANGED <<accepted, lost>> /\ pc'[w] # "accepted"
    BY <1>6 DEF RecordUnknown, RecordRejected
  <2>3. UNCHANGED storedKeys
    BY <1>6, <2>1 DEF RecordUnknown, RecordRejected, storedKeys
  <2>4. QED BY <2>2, <2>3
<1>7. QED BY <1>3, <1>4, <1>5, <1>6 DEF SendStep, CheckStep

\* The call and the recording are steps of Delivery.
LEMMA SendKeepsDelivery ==
    ASSUME SenderInv, AnswersAreReal, NEW w \in Workers, SendStep(w)
    PROVE  [MessageLedger!Next]_(MessageLedger!vars) /\ AnswersAreReal'
<1> USE DEF At, MessageLedger!vars, MessageLedger!Next
<1> DEFINE j == holding[w]
<1>1. CASE ~(CallAccepted(w) \/ CallUnanswered(w) \/ CallUnusable(w) \/ RecordAccepted(w))
  <2>1. UNCHANGED <<accepted, storedKeys, lost>> /\ ~At(w, "accepted")'
    BY <1>1, LedgerFrame
  <2>2. AnswersAreReal'
    BY <2>1, SendStepInv DEF Frame, AnswersAreReal, Queue!Running
  <2>3. QED BY <2>1, <2>2
<1>2. CASE CallAccepted(w) \/ CallUnanswered(w) \/ CallUnusable(w) \/ RecordAccepted(w)
  <2>1. Queue!Running(w) /\ j \in Jobs /\ pc[w] \in {"call", "accepted"}
    BY <1>2 DEF CallAccepted, CallUnanswered, CallUnusable, RecordAccepted, Queue!Running, SenderInv, TypeOK, Queue!TypeOK
  <2>2. j \notin storedKeys
    BY <2>1 DEF storedKeys, SenderInv, WorkerInv, NotYetAccepted, Sending
  <2>3. \A v \in Workers : Queue!Running(v) /\ holding[v] = j => v = w
    BY <2>1, QueueInv DEF SenderInv, Queue!Owns, Queue!Running
  <2>4. /\ accepted \in [Jobs -> 0..2] /\ message \in [Jobs -> MessageStates]
        /\ pc \in [Workers -> Steps]
    BY DEF SenderInv, TypeOK
  <2>5. ASSUME pc[w] = "call" PROVE accepted[j] = 0 \/ j \in lost
    BY <2>1, <2>2, <2>3, <2>5 DEF SenderInv, AcceptedOrLost, Recorded, storedKeys
  <2>6. ASSUME pc[w] = "call", MetaAccepts(j), UNCHANGED message, lost' \in {lost, lost \cup {j}}
        PROVE  MessageLedger!Accept(j) /\ accepted'[j] # 0
    <3>1. UNCHANGED storedKeys
      BY <2>6 DEF storedKeys
    <3>2. Queue!Least(accepted[j] + 1, 2) = IF accepted[j] = 0 THEN 1 ELSE 2
      <4>1. accepted[j] \in 0..2
        BY <2>1, <2>4
      <4>2. QED BY <4>1 DEF Queue!Least
    <3>3. accepted' = [accepted EXCEPT ![j] = Queue!Least(accepted[j] + 1, 2)]
      BY <2>6 DEF MetaAccepts
    <3>4. accepted' = [accepted EXCEPT ![j] = IF accepted[j] = 0 THEN 1 ELSE 2]
      BY <3>2, <3>3, Zenon
    <3>5. accepted'[j] # 0
      BY <2>1, <2>4, <3>4
    <3>6. QED BY <2>2, <2>5, <2>6, <3>1, <3>4, <3>5 DEF MessageLedger!Accept
  <2>7. \A v \in Workers : v # w /\ At(v, "accepted")' => accepted'[holding'[v]] # 0
    <3> SUFFICES ASSUME NEW v \in Workers, v # w, At(v, "accepted")' PROVE accepted'[holding'[v]] # 0
      OBVIOUS
    <3>1. At(v, "accepted") /\ holding'[v] = holding[v] /\ holding[v] \in Jobs
      BY SendStepInv DEF Frame, Queue!Running, SenderInv, TypeOK, Queue!TypeOK
    <3>2. accepted'[holding[v]] = accepted[holding[v]]
      BY <3>1, <2>3, SendStepInv DEF Frame
    <3>3. QED BY <3>1, <3>2 DEF AnswersAreReal
  <2>8. CASE CallAccepted(w)
    <3>1. MessageLedger!Accept(j) /\ accepted'[j] # 0
      BY <2>6, <2>8 DEF CallAccepted
    <3>2. holding' = holding
      BY <2>8 DEF CallAccepted, Goto, queueVars
    <3>3. QED BY <2>1, <2>7, <3>1, <3>2 DEF AnswersAreReal
  <2>9. CASE CallUnanswered(w)
    <3>1. pc'[w] = "unknown"
      BY <2>4, <2>9 DEF CallUnanswered, Goto
    <3>2. MessageLedger!Accept(j) \/ UNCHANGED MessageLedger!vars
      BY <2>6, <2>9 DEF CallUnanswered, storedKeys
    <3>3. QED BY <2>1, <2>7, <3>1, <3>2 DEF AnswersAreReal
  <2>10. CASE CallUnusable(w)
    <3>1. pc'[w] = "off"
      BY <2>4, <2>10 DEF CallUnusable, Return, Leave
    <3>2. MessageLedger!Accept(j)
      BY <2>6, <2>10 DEF CallUnusable
    <3>3. QED BY <2>1, <2>7, <3>1, <3>2 DEF AnswersAreReal
  <2>11. CASE RecordAccepted(w)
    <3>1. pc'[w] = "off" /\ accepted[j] # 0
      BY <2>4, <2>11 DEF RecordAccepted, Return, Leave, AnswersAreReal
    <3>2. CASE message' = [message EXCEPT ![j] = "accepted"] /\ UNCHANGED lost
      <4>1. storedKeys' = storedKeys \cup {j}
        BY <2>1, <2>4, <3>2 DEF storedKeys
      <4>2. MessageLedger!Store(j)
        BY <2>11, <3>1, <3>2, <4>1 DEF RecordAccepted, MessageLedger!Store
      <4>3. QED BY <2>1, <2>7, <3>1, <4>2 DEF AnswersAreReal
    <3>3. CASE lost' = lost \cup {j} /\ UNCHANGED message
      <4>1. MessageLedger!Forget({j})
        BY <2>2, <2>11, <3>1, <3>3 DEF RecordAccepted, MessageLedger!Forget, storedKeys
      <4>2. {j} \in SUBSET Jobs
        BY <2>1
      <4>3. QED BY <2>7, <3>1, <4>1, <4>2 DEF AnswersAreReal
    <3>4. QED BY <2>11, <3>2, <3>3 DEF RecordAccepted
  <2>12. QED BY <1>2, <2>8, <2>9, <2>10, <2>11
<1>3. QED BY <1>1, <1>2

\* Of everybody else, only a crash concerns the ledger: it forgets what was not stored.
LEMMA OthersKeepDelivery ==
    ASSUME SenderInv, AnswersAreReal, OtherStep
    PROVE  [MessageLedger!Next]_(MessageLedger!vars) /\ AnswersAreReal'
<1> USE DEF MessageLedger!vars, MessageLedger!Next
<1>1. CASE Crash
  <2> DEFINE K == {holding[w] : w \in {v \in Workers : pc[v] = "accepted"}}
  <2>1. ASSUME NEW w \in Workers, pc[w] = "accepted"
        PROVE  holding[w] \in Jobs /\ accepted[holding[w]] # 0 /\ message[holding[w]] # "accepted"
    BY <2>1 DEF SenderInv, WorkerInv, OffIsOver, NotYetAccepted, Sending, AnswersAreReal, At,
       Queue!Running, TypeOK, Queue!TypeOK
  <2>2. K \in SUBSET Jobs /\ \A k \in K : accepted[k] # 0 /\ k \notin storedKeys
    BY <2>1 DEF storedKeys
  <2>3. MessageLedger!Forget(K)
    BY <1>1, <2>2 DEF Crash, MessageLedger!Forget, storedKeys
  <2>4. AnswersAreReal'
    BY <1>1 DEF Crash, AnswersAreReal, At
  <2>5. QED BY <2>2, <2>3, <2>4
<1>2. CASE ~Crash
  <2>1. UNCHANGED <<accepted, message, lost, pc, holding, result>>
    BY <1>2, OtherFrame
  <2>2. UNCHANGED MessageLedger!vars
    BY <2>1 DEF storedKeys
  <2>3. AnswersAreReal'
    BY <2>1 DEF AnswersAreReal, At, Queue!Running
  <2>4. QED BY <2>2, <2>3
<1>3. QED BY <1>1, <1>2

\* The sender implements Delivery.
THEOREM SenderKeepsDelivery == Spec => KeepsDelivery
<1>1. Init => MessageLedger!Init /\ AnswersAreReal
  BY DEF Init, MessageLedger!Init, storedKeys, AnswersAreReal, At
<1>2. SenderInv /\ AnswersAreReal /\ [Next]_vars
        => [MessageLedger!Next]_(MessageLedger!vars) /\ AnswersAreReal'
  <2>1. UNCHANGED vars /\ AnswersAreReal => UNCHANGED MessageLedger!vars /\ AnswersAreReal'
    BY DEF vars, queueVars, ledgerVars, MessageLedger!vars, storedKeys, AnswersAreReal, At, Queue!Running
  <2>2. QED BY <2>1, SendKeepsDelivery, OthersKeepDelivery DEF Next
<1>3. QED BY <1>1, <1>2, SenderInvariant, PTL DEF Spec, KeepsDelivery, MessageLedger!Spec

\* In particular a stored Meta ID is for good, and Meta is not called again for its key.
THEOREM StoredIsForGood ==
    Spec => [][\A j \in storedKeys : j \in storedKeys' /\ accepted'[j] = accepted[j]]_vars
<1>1. TypeOK /\ [MessageLedger!Next]_(MessageLedger!vars)
        => [\A j \in storedKeys : j \in storedKeys' /\ accepted'[j] = accepted[j]]_vars
  <2> SUFFICES ASSUME TypeOK, [MessageLedger!Next]_(MessageLedger!vars), NEW j \in storedKeys
               PROVE  j \in storedKeys' /\ accepted'[j] = accepted[j]
    OBVIOUS
  <2>1. j \in Jobs /\ accepted \in [Jobs -> 0..2]
    BY DEF TypeOK, storedKeys
  <2>2. ASSUME NEW k \in Jobs, MessageLedger!Accept(k) PROVE j \in storedKeys' /\ accepted'[j] = accepted[j]
    BY <2>1, <2>2 DEF MessageLedger!Accept
  <2>3. QED
    BY <2>2 DEF MessageLedger!Next, MessageLedger!vars, MessageLedger!Store, MessageLedger!Forget
<1>2. QED BY <1>1, SenderKeepsDelivery, SenderTypeCorrect, PTL DEF KeepsDelivery, MessageLedger!Spec

-----------------------------------------------------------------------------
(* Delivery retries *)

\* A delivery retry exists only for a message whose Meta ID is stored.
RetriesFollow == \A j \in Jobs : RetryOf[j] # None /\ jobState[j] # "absent" => message[RetryOf[j]] = "accepted"

\* The handler inserts no row.
LEMMA SendInsertsNothing ==
    ASSUME SenderInv, NEW w \in Workers, SendStep(w), NEW j \in Jobs, jobState[j] = "absent"
    PROVE  jobState'[j] = "absent"
<1>1. [QueueFacts!Next]_(QueueFacts!vars) /\ QueueFacts!IInv
  BY StepRefines, QueueInv, SameQueue DEF SenderInv, Next
<1>2. Queue!WorkerStep(w) \/ UNCHANGED queueVars \/ \E c \in Customers : Queue!CancelCustomerWork(c)
  BY SendStepRefines, QueueInv DEF SenderInv
<1>3. /\ Queue!TypeOK
      /\ \A v \in Workers : Queue!Owns(v) => jobState[holding[v]] \in {"running", "completed"}
  BY <1>1, QueueInv DEF QueueFacts!IInv, QueueFacts!OwnerKeepsRow, QueueFacts!Owns, Queue!Owns
<1>4. CASE UNCHANGED queueVars
  BY <1>4 DEF queueVars
<1>5. ASSUME NEW c \in Customers, Queue!CancelCustomerWork(c) PROVE jobState'[j] = "absent"
  BY <1>5 DEF Queue!CancelCustomerWork, Queue!CancelRuns, Queue!MoveJobs, Queue!Cancellable
<1>6. CASE Queue!WorkerStep(w)
  BY <1>3, <1>6 DEF Queue!TypeOK, Queue!Owns, Queue!WorkerStep, Queue!ClaimJob, Queue!HandlerReturns,
     Queue!SuppressJob, Queue!DeferJob, Queue!CompleteJob, Queue!FailJob, Queue!FailJobPermanently,
     Queue!UpdateLost, Queue!Release, Queue!Running, Queue!Idle, Queue!Waiting, Queue!jobVars
<1>7. QED BY <1>2, <1>4, <1>5, <1>6

\* Only the failure callback inserts a delivery retry.
LEMMA WhoInserts ==
    ASSUME SenderInv, OtherStep, NEW j \in Jobs, RetryOf[j] # None, jobState[j] = "absent",
           jobState'[j] # "absent"
    PROVE  EnqueueDeliveryRetry(j)
<1> USE DEF Queue!MoveJobs, queueVars, Queue!jobVars, Unhandled
<1>1. RunOf[j] = None
  OBVIOUS
<1>2. ASSUME NEW m \in Campaigns, ActivateCampaign(m) \/ CancelCampaign(m) PROVE FALSE
  BY <1>2 DEF ActivateCampaign, CancelCampaign, Queue!EnqueueJobs, Queue!CancelCampaignJobs, Queue!CancelRuns,
     Queue!Cancellable
<1>3. ASSUME NEW k \in Jobs, EnqueueStep(k) \/ Replay(k) \/ WindowPasses(k) PROVE FALSE
  BY <1>1, <1>3 DEF EnqueueStep, Replay, WindowPasses, Queue!EnqueueJobs, Queue!ReplayFailedJob,
     SenderInv, TypeOK, Queue!TypeOK
<1>4. ASSUME NEW c \in Customers, CancelCustomerWork(c) \/ OptOut(c) \/ OptOutByMeta(c) \/ OptIn(c) PROVE FALSE
  BY <1>4 DEF CancelCustomerWork, OptOut, OptOutByMeta, OptIn, Queue!CancelCustomerWork, Queue!CancelRuns,
     Queue!Cancellable
<1>5. CASE RunControl
  <2>1. ASSUME NEW R, Queue!PauseRuns(R) \/ Queue!ResumeRuns(R) PROVE FALSE
    BY <2>1 DEF Queue!PauseRuns, Queue!ResumeRuns, Queue!Waiting
  <2>2. ASSUME NEW R, NEW J, Queue!CancelRuns(R, J) PROVE FALSE
    BY <2>2 DEF Queue!CancelRuns, Queue!Cancellable
  <2>3. ASSUME NEW r \in Runs, Queue!StartRun(r) PROVE FALSE
    BY <2>3 DEF Queue!StartRun
  <2>4. QED
    BY <1>5, <2>1, <2>2, <2>3 DEF RunControl, Queue!PauseWorkflow, Queue!ResumeWorkflow, Queue!CancelWorkflow,
       Queue!PauseDefinition, Queue!ActivateDefinition, Queue!CancelEverything
<1>6. CASE TimePasses \/ Crash \/ Restart
  BY <1>6 DEF TimePasses, Crash, Restart, Queue!AvailableAtReached, Queue!LeaseAges, Queue!Crash, Queue!Restart,
     Queue!RecoverStaleJobs
<1>7. PICK k \in Jobs : EnqueueDeliveryRetry(k)
  BY <1>2, <1>3, <1>4, <1>5, <1>6 DEF OtherStep
<1>8. k = j
  BY <1>7 DEF EnqueueDeliveryRetry, Queue!EnqueueJobs
<1>9. QED BY <1>7, <1>8

\* A delivery retry and the message it repeats are never on their way together.
THEOREM RetriesFollowAcceptance == Spec => []RetryAfterOriginal
<1>1. Init => RetriesFollow
  BY DEF Init, Queue!Init, RetriesFollow
<1>2. SenderInv /\ RetriesFollow /\ [Next]_vars => RetriesFollow'
  <2> SUFFICES ASSUME SenderInv, RetriesFollow, [Next]_vars, NEW j \in Jobs, RetryOf[j] # None,
                      jobState'[j] # "absent"
               PROVE  message'[RetryOf[j]] = "accepted"
    BY DEF RetriesFollow
  <2>1. RetryOf[j] \in Jobs
    OBVIOUS
  <2>2. CASE UNCHANGED vars
    BY <2>2 DEF vars, queueVars, ledgerVars, RetriesFollow
  <2>3. ASSUME NEW w \in Workers, SendStep(w) PROVE message'[RetryOf[j]] = "accepted"
    <3>1. jobState[j] # "absent"
      BY <2>3, SendInsertsNothing
    <3>2. QED BY <2>1, <2>3, <3>1, SendStepInv DEF Frame, RetriesFollow
  <2>4. CASE OtherStep
    <3>1. message' = message
      BY <2>4, OtherFrame
    <3>2. CASE jobState[j] = "absent"
      BY <2>4, <3>1, <3>2, WhoInserts DEF EnqueueDeliveryRetry
    <3>3. QED BY <3>1, <3>2 DEF RetriesFollow
  <2>5. QED BY <2>2, <2>3, <2>4 DEF Next
<1>3. SenderInv /\ RetriesFollow => RetryAfterOriginal
  <2> SUFFICES ASSUME SenderInv, RetriesFollow, NEW j \in Jobs, RetryOf[j] # None, jobState[j] # "absent",
                      NEW w \in Workers, At(w, "call")
               PROVE  holding[w] # RetryOf[j]
    BY DEF RetriesFollow, RetryAfterOriginal
  <2>1. message[RetryOf[j]] = "accepted"
    BY DEF RetriesFollow
  <2>2. QED BY <2>1 DEF SenderInv, WorkerInv, NotYetAccepted, Sending, At
<1>4. QED BY <1>1, <1>2, <1>3, SenderInvariant, PTL DEF Spec

=============================================================================
