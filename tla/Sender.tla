------------------------------- MODULE Sender -------------------------------
(***************************************************************************)
(* The handler of send_whatsapp jobs, statement by statement, on top of    *)
(* the job queue: the checks before a send, the reservation in the message *)
(* ledger (outbound_messages), the call to Meta and the recording of its   *)
(* answer, interleaved with opt-outs, cancellations, replays and crashes.  *)
(*                                                                         *)
(* The row of outbound_messages has the job's idempotency key, so message  *)
(* is a function of the job.  "accepted" stands for every row that has a   *)
(* Meta message ID, whatever later status callbacks did to its state.      *)
(***************************************************************************)
EXTENDS Naturals, FiniteSets

CONSTANTS Jobs, Workers, Runs, Customers, Names, NoJob, None, RunOf, CustomerOf,
          CustomerOfRun, NameOf, MaxAttempts, MaxFaults, LostUpdates, PromptRestart

CONSTANTS
    Campaigns,      \* the keys of campaigns
    CampaignOf,     \* payload.campaign_id of a job, or None
    RetryOf,        \* the job whose delivery a delivery retry repeats, or None
    CapOf           \* payload.frequency_messages of a job

VARIABLES jobState, attempts, due, stale, runState, up, holding, claimed, result, faults

VARIABLES
    pc,             \* the next statement of the worker's sendWhatsApp
    message,        \* outbound_messages.state by key, "none" before the row exists
    inWindow,       \* keys whose attempted_at lies within the frequency window, which is
                    \* the same for all jobs here
    eligible,       \* opted in, not suppressed and not invalid
    campaign,       \* campaigns.state
    gate,           \* outbound sending gate of the running daemon
    accepted,       \* how often Meta accepted a message for the key; 2 is "more than once"
    lost,           \* keys for which an acceptance by Meta went unrecorded
    late            \* workers that claimed a job that was over: its run, its campaign or the consent

Queue == INSTANCE JobQueue

queueVars  == <<jobState, attempts, due, stale, runState, up, holding, claimed, result, faults>>
ledgerVars == <<message, inWindow, accepted, lost>>
envVars    == <<eligible, campaign, gate>>
vars       == <<queueVars, ledgerVars, envVars, pc, late>>

ASSUME SenderConstants ==
    /\ Queue!QueueConstants
    /\ None \notin Campaigns
    /\ CampaignOf \in [Jobs -> Campaigns \cup {None}]
    /\ RetryOf \in [Jobs -> Jobs \cup {None}]
    /\ CustomerOf \in [Jobs -> Customers]
    /\ \A j \in Jobs : RunOf[j] = None \/ CampaignOf[j] = None
    /\ \A j \in Jobs : RetryOf[j] # None => /\ CampaignOf[j] = CampaignOf[RetryOf[j]]
                                            /\ CampaignOf[j] # None
                                            /\ CustomerOf[j] = CustomerOf[RetryOf[j]]
    /\ CapOf \in [Jobs -> Nat \ {0}]

MessageStates == {"none", "attempted", "unknown", "failed", "accepted"}
Steps == {"off", "start", "scope", "window", "reserve", "row", "oldRow", "call",
          "accepted", "unknown", "rejected", "optOut", "cancelWork", "giveUp", "suppress"}

TypeOK ==
    /\ Queue!TypeOK
    /\ pc \in [Workers -> Steps]
    /\ message \in [Jobs -> MessageStates]
    /\ inWindow \subseteq Jobs
    /\ eligible \in [Customers -> BOOLEAN]
    /\ campaign \in [Campaigns -> {"draft", "scheduled", "cancelled"}]
    /\ gate \in BOOLEAN
    /\ accepted \in [Jobs -> 0..2]
    /\ lost \subseteq Jobs
    /\ late \subseteq Workers

Init ==
    /\ Queue!Init
    /\ pc = [w \in Workers |-> "off"]
    /\ message = [j \in Jobs |-> "none"]
    /\ inWindow = {}
    /\ eligible = [c \in Customers |-> TRUE]
    /\ campaign = [m \in Campaigns |-> "draft"]
    /\ gate = TRUE
    /\ accepted = [j \in Jobs |-> 0]
    /\ lost = {}
    /\ late = {}

-----------------------------------------------------------------------------
(* sendWhatsApp.  A step that only moves the program counter is At(w, from)   *)
(* and Goto(w, to); one that ends the handler is Return or Suppress.          *)

At(w, step)   == Queue!Running(w) /\ pc[w] = step
Goto(w, step) == pc' = [pc EXCEPT ![w] = step] /\ UNCHANGED <<queueVars, late>>
Leave(w)      == pc' = [pc EXCEPT ![w] = "off"] /\ late' = late \ {w}
Return(w, r)  == Queue!HandlerReturns(w, r) /\ Leave(w)

Ended(j) ==
    \/ RunOf[j] # None /\ runState[RunOf[j]] = "cancelled"
    \/ CampaignOf[j] # None /\ campaign[CampaignOf[j]] = "cancelled"

Over(j) == Ended(j) \/ ~eligible[CustomerOf[j]]

Claim(w, j) ==
    /\ Queue!ClaimJob(w, j)
    /\ pc' = [pc EXCEPT ![w] = "start"]
    /\ late' = IF Over(j) THEN late \cup {w} ELSE late \ {w}
    /\ UNCHANGED <<ledgerVars, envVars>>

\* A read that fails, a payload or a template that does not parse.
HandlerFails(w) ==
    /\ \E step \in {"start", "scope", "window", "reserve", "row", "oldRow"} : At(w, step)
    /\ Return(w, "error")
    /\ UNCHANGED <<ledgerVars, envVars>>

\* Mutant of CheckCustomer: the customer row is read for the number only.
CheckGateOnly(w) ==
    /\ At(w, "start")
    /\ \/ ~gate /\ Return(w, "error")
       \/ gate /\ Goto(w, "scope")
    /\ UNCHANGED <<ledgerVars, envVars>>

\* The outbound gate, then the customer row.
CheckCustomer(w) ==
    /\ At(w, "start")
    /\ \/ ~gate /\ Return(w, "error")
       \/ gate /\ Goto(w, IF eligible[CustomerOf[holding[w]]] THEN "scope" ELSE "suppress")
    /\ UNCHANGED <<ledgerVars, envVars>>

\* Mutant of InScope: the run's and the campaign's state are not read.
InScopeAlways(j) == TRUE

InScope(j) ==
    /\ RunOf[j] # None => runState[RunOf[j]] = "active"
    /\ CampaignOf[j] # None => campaign[CampaignOf[j]] = "scheduled"

\* The run's or the campaign's row.
CheckScope(w) ==
    /\ At(w, "scope")
    /\ Goto(w, IF InScope(holding[w]) THEN "window" ELSE "suppress")
    /\ UNCHANGED <<ledgerVars, envVars>>

\* Quiet hours defer a workflow job; campaign payloads carry none.
DeferForQuietHours(w) ==
    /\ At(w, "window")
    /\ RunOf[holding[w]] # None
    /\ Queue!DeferJob(w)
    /\ Leave(w)
    /\ UNCHANGED <<ledgerVars, envVars>>

\* evaluateStepConditions on the customer's orders, whose outcome is free here.
\* Only delivery retries and workflow steps have conditions.
CheckConditions(w) ==
    /\ At(w, "window")
    /\ \/ Goto(w, "reserve")
       \/ (RunOf[holding[w]] # None \/ RetryOf[holding[w]] # None) /\ Goto(w, "suppress")
    /\ UNCHANGED <<ledgerVars, envVars>>

\* The reservation: one transaction counts the customer's other messages of the
\* window and inserts the row, or finds the row of an earlier attempt.
OthersInWindow(j) ==
    {k \in inWindow : k # j /\ CustomerOf[k] = CustomerOf[j]}

\* Mutant of CapReached: off by one.
CapExceeded(j) == RetryOf[j] = None /\ Cardinality(OthersInWindow(j)) > CapOf[j]

CapReached(j) == RetryOf[j] = None /\ Cardinality(OthersInWindow(j)) >= CapOf[j]

Reserve(w) ==
    LET j == holding[w] IN
    /\ At(w, "reserve")
    /\ \/ /\ CapReached(j)
          /\ Goto(w, "suppress")
          /\ UNCHANGED ledgerVars
       \/ /\ ~CapReached(j)
          /\ message[j] = "none"
          /\ message' = [message EXCEPT ![j] = "attempted"]
          /\ inWindow' = inWindow \cup {j}
          /\ Goto(w, "row")
          /\ UNCHANGED <<accepted, lost>>
       \/ /\ ~CapReached(j)
          /\ message[j] # "none"
          /\ Goto(w, "oldRow")
          /\ UNCHANGED ledgerVars
    /\ UNCHANGED envVars

\* Mutant of ReadRow: the Meta ID of an earlier attempt is not looked at.
ReadRowForgetful(w) ==
    /\ At(w, "row") \/ At(w, "oldRow")
    /\ \/ pc[w] = "oldRow" /\ Return(w, "permanent")
       \/ Goto(w, "call")
    /\ UNCHANGED <<ledgerVars, envVars>>

\* The row is read back: a Meta ID ends the job, parameters that differ from the
\* first attempt's end it for good.  Then the tracked link is stored.
ReadRow(w) ==
    /\ At(w, "row") \/ At(w, "oldRow")
    /\ \/ message[holding[w]] = "accepted" /\ Return(w, "done")
       \/ message[holding[w]] # "accepted" /\ pc[w] = "oldRow" /\ Return(w, "permanent")
       \/ message[holding[w]] # "accepted" /\ Goto(w, "call")
    /\ UNCHANGED <<ledgerVars, envVars>>

-----------------------------------------------------------------------------
(* The call to Meta and its outcomes *)

MetaAccepts(j) == accepted' = [accepted EXCEPT ![j] = Queue!Least(@ + 1, 2)]

\* A usable answer with a message ID.
CallAccepted(w) ==
    /\ At(w, "call")
    /\ MetaAccepts(holding[w])
    /\ Goto(w, "accepted")
    /\ UNCHANGED <<message, inWindow, lost, envVars>>

\* A transport error: Meta may or may not have accepted the message.
CallUnanswered(w) ==
    /\ At(w, "call")
    /\ \/ MetaAccepts(holding[w]) /\ lost' = lost \cup {holding[w]}
       \/ UNCHANGED <<accepted, lost>>
    /\ Goto(w, "unknown")
    /\ UNCHANGED <<message, inWindow, envVars>>

\* Accepted, but the body breaks off, does not decode or has no message ID, or a
\* gateway answers 5xx in Meta's place: an ordinary error.
CallUnusable(w) ==
    /\ At(w, "call")
    /\ MetaAccepts(holding[w])
    /\ lost' = lost \cup {holding[w]}
    /\ Return(w, "error")
    /\ UNCHANGED <<message, inWindow, envVars>>

\* Refused: transient, throttled and server errors are retried, others are final.
CallRefused(w) ==
    /\ At(w, "call")
    /\ Return(w, "error") \/ Goto(w, "rejected")
    /\ UNCHANGED <<ledgerVars, envVars>>

\* Mutant of RecordAccepted: the error of the update is dropped.
RecordAcceptedSilently(w) ==
    /\ At(w, "accepted")
    /\ \/ message' = [message EXCEPT ![holding[w]] = "accepted"] /\ UNCHANGED lost
       \/ LostUpdates /\ lost' = lost \cup {holding[w]} /\ UNCHANGED message
    /\ Return(w, "done")
    /\ UNCHANGED <<inWindow, accepted, envVars>>

\* The Meta ID is stored; when that update fails its error is returned.
RecordAccepted(w) ==
    /\ At(w, "accepted")
    /\ \/ /\ message' = [message EXCEPT ![holding[w]] = "accepted"]
          /\ Return(w, "done")
          /\ UNCHANGED lost
       \/ /\ LostUpdates
          /\ lost' = lost \cup {holding[w]}
          /\ Return(w, "error")
          /\ UNCHANGED message
    /\ UNCHANGED <<inWindow, accepted, envVars>>

\* State 'unknown', an error of the update being ignored, and noRetryError.
RecordUnknown(w) ==
    /\ At(w, "unknown")
    /\ \/ message' = [message EXCEPT ![holding[w]] = "unknown"]
       \/ LostUpdates /\ UNCHANGED message
    /\ Return(w, "permanent")
    /\ UNCHANGED <<inWindow, accepted, lost, envVars>>

\* State 'failed'; codes 131026 and 131050 then suppress the customer.
RecordRejected(w) ==
    /\ At(w, "rejected")
    /\ \/ message' = [message EXCEPT ![holding[w]] = "failed"]
       \/ LostUpdates /\ UNCHANGED message
    /\ Goto(w, "optOut") \/ Goto(w, "giveUp")
    /\ UNCHANGED <<inWindow, accepted, lost, envVars>>

\* SuppressForMetaFailure: the customer row, then the customer's other work.
SuppressCustomer(w) ==
    /\ At(w, "optOut")
    /\ eligible' = [eligible EXCEPT ![CustomerOf[holding[w]]] = FALSE]
    /\ Goto(w, "cancelWork")
    /\ UNCHANGED <<ledgerVars, campaign, gate>>

CancelCustomer(w) ==
    /\ At(w, "cancelWork")
    /\ Queue!CancelCustomerWork(CustomerOf[holding[w]])
    /\ pc' = [pc EXCEPT ![w] = "giveUp"]
    /\ UNCHANGED <<ledgerVars, envVars, late>>

\* An error of SuppressForMetaFailure is logged.
GiveUp(w) ==
    /\ At(w, "giveUp") \/ (LostUpdates /\ At(w, "cancelWork"))
    /\ Return(w, "permanent")
    /\ UNCHANGED <<ledgerVars, envVars>>

\* Mutant of Suppress: the handler reports an error after suppressing its job.
SuppressAndFail(w) ==
    /\ At(w, "suppress")
    /\ jobState' = [jobState EXCEPT ![holding[w]] = "suppressed"]
    /\ result' = [result EXCEPT ![w] = "error"]
    /\ Leave(w)
    /\ UNCHANGED <<attempts, due, stale, runState, up, holding, claimed, faults>>
    /\ UNCHANGED <<ledgerVars, envVars>>

Suppress(w) ==
    /\ At(w, "suppress")
    /\ Queue!SuppressJob(w)
    /\ Leave(w)
    /\ UNCHANGED <<ledgerVars, envVars>>

\* jobLoop records the handler's result.
Finish(w) ==
    /\ \/ Queue!CompleteJob(w)
       \/ Queue!FailJob(w)
       \/ Queue!FailJobPermanently(w)
       \/ Queue!UpdateLost(w)
    /\ UNCHANGED <<ledgerVars, envVars, pc, late>>

-----------------------------------------------------------------------------
(* Everybody else *)

Unhandled == UNCHANGED <<ledgerVars, pc, late>>

CampaignJobs(m) == {j \in Jobs : CampaignOf[j] = m}

\* activateCampaign: the recipients' jobs and the state, in one transaction.
ActivateCampaign(m) ==
    /\ campaign[m] = "draft"
    /\ Queue!EnqueueJobs({j \in CampaignJobs(m) : RetryOf[j] = None})
    /\ campaign' = [campaign EXCEPT ![m] = "scheduled"]
    /\ UNCHANGED <<eligible, gate>>
    /\ Unhandled

\* cancelCampaign: the state and the jobs LIKE 'campaign:ID:%', in one transaction.
CancelCampaign(m) ==
    /\ campaign[m] \in {"draft", "scheduled"}
    /\ campaign' = [campaign EXCEPT ![m] = "cancelled"]
    /\ Queue!CancelCampaignJobs(CampaignJobs(m))
    /\ UNCHANGED <<eligible, gate>>
    /\ Unhandled

\* The steps of a workflow run.
EnqueueStep(j) ==
    /\ RunOf[j] # None
    /\ Queue!EnqueueJobs({j})
    /\ UNCHANGED envVars
    /\ Unhandled

\* enqueueCampaignDeliveryRetryTx: a failure callback for an accepted message.
EnqueueDeliveryRetry(j) ==
    /\ RetryOf[j] # None
    /\ message[RetryOf[j]] = "accepted"
    /\ Queue!EnqueueJobs({j})
    /\ UNCHANGED envVars
    /\ Unhandled

RunControl ==
    /\ \/ \E r \in Runs : \/ Queue!StartRun(r)
                          \/ Queue!PauseWorkflow(r)
                          \/ Queue!ResumeWorkflow(r)
                          \/ Queue!CancelWorkflow(r)
       \/ \E n \in Names : Queue!PauseDefinition(n) \/ Queue!ActivateDefinition(n)
       \/ Queue!CancelEverything
    /\ UNCHANGED envVars
    /\ Unhandled

\* ReplayFailedJob refuses a row that has a Meta ID or is 'unknown'.
Replayable(j) == message[j] \notin {"accepted", "unknown"}

Replay(j) ==
    /\ Replayable(j)
    /\ Queue!ReplayFailedJob(j)
    /\ UNCHANGED envVars
    /\ Unhandled

\* Somebody cancels the customer's work: a refund, cancellation or return of an order,
\* or an opt-out, in a transaction after the one that stored it.
CancelCustomerWork(c) ==
    /\ Queue!CancelCustomerWork(c)
    /\ UNCHANGED envVars
    /\ Unhandled

\* A STOP reply or a Shopify opt-out: the customer row.
OptOut(c) ==
    /\ up
    /\ eligible' = [eligible EXCEPT ![c] = FALSE]
    /\ UNCHANGED <<queueVars, campaign, gate>>
    /\ Unhandled

\* A failure callback with code 131026 or 131050: both in one transaction.
OptOutByMeta(c) ==
    /\ eligible' = [eligible EXCEPT ![c] = FALSE]
    /\ Queue!CancelCustomerWork(c)
    /\ UNCHANGED <<campaign, gate>>
    /\ Unhandled

\* Consent given again, by an import or by Shopify.
OptIn(c) ==
    /\ up
    /\ eligible' = [eligible EXCEPT ![c] = TRUE]
    /\ late' = {w \in late : CustomerOf[holding[w]] = c => Ended(holding[w])}
    /\ UNCHANGED <<queueVars, ledgerVars, campaign, gate, pc>>

WindowPasses(j) ==
    /\ j \in inWindow
    /\ inWindow' = inWindow \ {j}
    /\ UNCHANGED <<queueVars, message, accepted, lost, envVars, pc, late>>

\* Ages are read by a restart only: an instance without faults leaves them out.
TimePasses ==
    /\ \E j \in Jobs : \/ Queue!AvailableAtReached(j)
                       \/ MaxFaults > 0 /\ Queue!LeaseAges(j)
    /\ UNCHANGED envVars
    /\ Unhandled

\* A crash forgets an acceptance that was not stored.
Crash ==
    /\ Queue!Crash
    /\ lost' = lost \cup {holding[w] : w \in {v \in Workers : pc[v] = "accepted"}}
    /\ pc' = [w \in Workers |-> "off"]
    /\ late' = {}
    /\ UNCHANGED <<message, inWindow, accepted, eligible, campaign, gate>>

\* The gate is part of the configuration the daemon starts with.
Restart ==
    /\ Queue!Restart
    /\ gate' \in BOOLEAN
    /\ UNCHANGED <<eligible, campaign>>
    /\ Unhandled

-----------------------------------------------------------------------------
SendStep(w) ==
    \/ \E j \in Jobs : Claim(w, j)
    \/ HandlerFails(w) \/ CheckCustomer(w) \/ CheckScope(w) \/ DeferForQuietHours(w)
    \/ CheckConditions(w) \/ Reserve(w) \/ ReadRow(w)
    \/ CallAccepted(w) \/ CallUnanswered(w) \/ CallUnusable(w) \/ CallRefused(w)
    \/ RecordAccepted(w) \/ RecordUnknown(w) \/ RecordRejected(w)
    \/ SuppressCustomer(w) \/ CancelCustomer(w) \/ GiveUp(w)
    \/ Suppress(w)
    \/ Finish(w)

OtherStep ==
    \/ \E m \in Campaigns : ActivateCampaign(m) \/ CancelCampaign(m)
    \/ \E j \in Jobs : EnqueueStep(j) \/ EnqueueDeliveryRetry(j) \/ Replay(j) \/ WindowPasses(j)
    \/ \E c \in Customers : CancelCustomerWork(c) \/ OptOut(c) \/ OptOutByMeta(c) \/ OptIn(c)
    \/ RunControl
    \/ TimePasses
    \/ Crash
    \/ Restart

Next == (\E w \in Workers : SendStep(w)) \/ OtherStep

Spec == Init /\ [][Next]_vars

-----------------------------------------------------------------------------
(* Properties *)

\* Once a Meta ID is stored for a key, no worker is ever about to send it again:
\* not after a crash, a stale lease, a lost completion or a replay.
RecordedNeverResent ==
    \A w \in Workers : At(w, "call") => message[holding[w]] # "accepted"

\* Meta accepts a message twice for one key only if its first acceptance was
\* never stored: a crash, a failed update, a transport error or an unusable answer.
DuplicateOnlyAfterLoss ==
    \A j \in Jobs : accepted[j] = 2 => j \in lost

\* The jobs with a cap of at most n whose messages to the customer lie within the window,
\* delivery retries, which are exempt, aside.
Counted(c, n) == {j \in inWindow : CustomerOf[j] = c /\ RetryOf[j] = None /\ CapOf[j] <= n}

\* The reservation holds the cap against concurrent workers: of the jobs whose cap is n
\* or less at most n are attempted for the first time for a customer within a window,
\* whatever jobs with a higher cap are sent beside them.
FrequencyCap ==
    \A c \in Customers, j \in Jobs : Cardinality(Counted(c, CapOf[j])) <= CapOf[j]

\* A job claimed after its run or campaign was cancelled, or after its customer opted
\* out and not in again, is not sent, even when it escaped the cancellation because it
\* was running at the time.  An opt-out later than the claim may come too late.
StoppedWorkNotSent ==
    \A w \in late : pc[w] \notin {"window", "reserve", "row", "oldRow", "call"}

\* A campaign job is completed only with a Meta ID in the ledger.
CompletedMeansAccepted ==
    \A j \in Jobs : RunOf[j] = None /\ jobState[j] = "completed" => message[j] = "accepted"

\* The sender's queue is the job queue.
QueueSpec == Queue!Spec

\* The delivery retry of a message exists only once the message has its Meta ID, which
\* is for good: whatever happens to the first job, the two are never on their way at
\* the same time.
RetryAfterOriginal ==
    \A j \in Jobs : RetryOf[j] # None /\ jobState[j] # "absent" =>
        /\ message[RetryOf[j]] = "accepted"
        /\ \A w \in Workers : At(w, "call") => holding[w] # RetryOf[j]

\* Whatever crashes, replays, stale leases and retries do, the ledger keeps the promise
\* of Delivery: its Meta IDs are for good, and what it has one of is not sent again.
storedKeys     == {j \in Jobs : message[j] = "accepted"}
MessageLedger  == INSTANCE Delivery WITH Keys <- Jobs, stored <- storedKeys
KeepsDelivery  == MessageLedger!Spec

\* docs/runbook.md:219-220, "Unknown or possibly accepted provider states are
\* deliberately not replayable": a job is replayed only if Meta cannot have accepted it.
ReplayNeverDuplicates ==
    [][\A j \in Jobs : jobState[j] = "failed" /\ jobState'[j] = "scheduled" => accepted[j] = 0]_vars

=============================================================================
