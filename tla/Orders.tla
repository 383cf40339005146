-------------------------------- MODULE Orders --------------------------------
(***************************************************************************)
(* The synchronisation of one customer's orders (upsertOrder) and what it  *)
(* does to the customer's workflow runs: an order that is undone or that   *)
(* converts cancels them, a delivered one starts them.  Several workers    *)
(* hold snapshots of the same order, of different age, and every statement *)
(* after the commit interleaves with the others and with the operator.     *)
(*                                                                         *)
(* Runs and jobs are those of JobQueue, all of one customer; that the jobs *)
(* are served is left to Sender.  An order is fetched because of a webhook *)
(* or because its last change lies in the window of the next               *)
(* reconciliation, which reaches back SEEDHIBAAT_RECONCILE_OVERLAP before  *)
(* the last successful one: a day by default, longer than any handler runs.*)
(***************************************************************************)
EXTENDS Naturals, FiniteSets

CONSTANTS
    Customer,       \* the customer
    Orders,         \* the customer's orders
    Workers,        \* the goroutines running jobLoop
    Steps,          \* the jobs of the steps of Runs
    Runs,           \* a run for each workflow whose audience an order matches
    Names,          \* workflow names
    None,           \* no run in hand
    RunOf,          \* scheduled_jobs.workflow_run_id
    NameOf,         \* workflow_runs.workflow_name
    TriggerOf,      \* workflow_runs.trigger_id
    Converts,       \* the names whose conversion an order matches
    MaxChanges,     \* bound on the changes of an order at Shopify
    MaxFaults       \* bound on the crashes and failing statements of a behaviour

VARIABLES
    jobState,       \* scheduled_jobs.state
    runState,       \* workflow_runs.state
    shop,           \* the order at Shopify
    window,         \* orders that a webhook or a reconciliation will fetch
    row,            \* orders: the columns read again
    attributed,     \* conversions
    kept,           \* orders whose last DELETE from conversions failed
    active,         \* workflow_definitions.active
    sync,           \* what each worker is doing to which order
    faults

ASSUME OrdersConstants ==
    /\ TriggerOf \in [Runs -> Orders]
    /\ NameOf \in [Runs -> Names]
    /\ RunOf \in [Steps -> Runs]
    /\ Converts \in [Orders -> SUBSET Names]
    /\ MaxChanges \in [Orders -> Nat]
    /\ MaxFaults \in Nat
    /\ None \notin Runs \cup Orders \cup Steps \cup {Customer}

queueVars == <<jobState, runState>>
shopVars  == <<shop, window>>
rowVars   == <<row, attributed, kept>>
vars      == <<queueVars, shopVars, rowVars, active, sync, faults>>

Waiting   == {"scheduled"}     \* no job is served here, hence none retried
JobStates == Waiting \cup {"absent", "paused", "cancelled"}
LiveRun   == {"active", "paused"}
RunStates == LiveRun \cup {"absent", "cancelled"}

\* status: a return is open, or the order is cancelled or refunded.  n counts the changes.
Snapshot(o) == [n : 0..MaxChanges[o], delivered : BOOLEAN, status : {"open", "returned", "undone"}]
Undone(s)   == s.status # "open"

NoRow   == [known |-> FALSE, delivered |-> FALSE, undone |-> FALSE, returned |-> FALSE]
Resting == [at |-> "rest"]

\* The statements of upsertOrder after its transaction, in order.
Stages == {"fetched", "consent", "unattribute", "cancel", "candidates", "convert",
           "attribute", "definitions", "start", "steps"}

Syncs == {Resting} \cup
         UNION {[at : Stages, order : {o}, seen : Snapshot(o), last : BOOLEAN,
                 first : BOOLEAN, runs : SUBSET Runs, run : Runs \cup {None}] : o \in Orders}

TypeOK ==
    /\ jobState \in [Steps -> JobStates]
    /\ runState \in [Runs -> RunStates]
    /\ DOMAIN shop = Orders
    /\ \A o \in Orders : shop[o] \in Snapshot(o)
    /\ window \subseteq Orders
    /\ row \in [Orders -> [known : BOOLEAN, delivered : BOOLEAN, undone : BOOLEAN, returned : BOOLEAN]]
    /\ attributed \subseteq Orders
    /\ kept \subseteq Orders
    /\ active \subseteq Names
    /\ sync \in [Workers -> Syncs]
    /\ faults \in 0..MaxFaults

Init ==
    /\ jobState = [j \in Steps |-> "absent"]
    /\ runState = [r \in Runs |-> "absent"]
    /\ shop = [o \in Orders |-> [n |-> 0, delivered |-> FALSE, status |-> "open"]]
    /\ window = Orders
    /\ row = [o \in Orders |-> NoRow]
    /\ attributed = {}
    /\ kept = {}
    /\ active = Names
    /\ sync = [w \in Workers |-> Resting]
    /\ faults = 0

-----------------------------------------------------------------------------
(* The updates of JobQueue: the runs of R and their jobs *)

MoveRuns(R, from, to, fromJob, toJob) ==
    /\ runState' = [r \in Runs |-> IF r \in R /\ runState[r] \in from THEN to ELSE runState[r]]
    /\ jobState' = [j \in Steps |-> IF RunOf[j] \in R /\ jobState[j] \in fromJob THEN toJob
                                                                         ELSE jobState[j]]

PauseRuns(R)       == MoveRuns(R, {"active"}, "paused", Waiting, "paused")
ResumeRuns(R)      == MoveRuns(R, {"paused"}, "active", {"paused"}, "scheduled")
CancelRuns(R)      == MoveRuns(R, LiveRun, "cancelled", Waiting \cup {"paused"}, "cancelled")
CancelCustomerWork == CancelRuns(Runs)

-----------------------------------------------------------------------------
(* Shopify and the reasons to fetch *)

\* Delivery, cancellation, refund, or a return that opens or is declined.  A refund
\* and a cancellation are for good.
ShopifyChanges(o) ==
    /\ shop[o].n < MaxChanges[o]
    /\ \E s \in Snapshot(o) :
        /\ s.n = shop[o].n + 1
        /\ shop[o].status = "undone" => s.status = "undone"
        /\ shop[o].delivered => s.delivered
        /\ s.delivered # shop[o].delivered \/ s.status # shop[o].status
        /\ shop' = [shop EXCEPT ![o] = s]
    /\ window' = window \cup {o}
    /\ UNCHANGED <<queueVars, rowVars, active, sync, faults>>

At(w, stage) == sync[w].at = stage
Order(w)     == sync[w].order
Seen(w)      == sync[w].seen

\* Mutant of PastOverlap: an overlap of zero.
NoOverlap(o) == TRUE

\* The overlap outlasts every handler: when the last reconciliation with o in its
\* window fetches o, no worker holds an older snapshot of it.
PastOverlap(o) ==
    \A w \in Workers : sync[w] # Resting /\ Order(w) = o => Seen(w) = shop[o]

\* OrderByID, or a page of reconcileOrders.
Fetch(w, o) ==
    /\ At(w, "rest")
    /\ o \in window
    /\ sync' = [sync EXCEPT ![w] = [at |-> "fetched", order |-> o, seen |-> shop[o],
                                    last |-> PastOverlap(o), first |-> FALSE,
                                    runs |-> {}, run |-> None]]
    /\ UNCHANGED <<queueVars, shopVars, rowVars, active, faults>>

-----------------------------------------------------------------------------
(* upsertOrder *)

Goto(w, stage) == sync' = [sync EXCEPT ![w].at = stage]

\* Mutant of End: the watermark is the time of the end, not of the beginning.
EndAtItsEnd(w) ==
    /\ sync' = [sync EXCEPT ![w] = Resting]
    /\ \/ UNCHANGED window
       \/ /\ sync[w].last
          /\ window' = window \ {Order(w)}

\* The handler returns nil.  If it was a reconciliation past the overlap, the
\* watermark that it stores may leave the order behind.
End(w) ==
    /\ sync' = [sync EXCEPT ![w] = Resting]
    /\ \/ UNCHANGED window
       \/ /\ sync[w].last
          /\ Seen(w) = shop[Order(w)]
          /\ window' = window \ {Order(w)}

\* The transaction.  Nothing compares the age of the snapshot with that of the row;
\* only return_recorded_at, once set, is kept.
Commit(w) ==
    LET o == Order(w) s == Seen(w) IN
    /\ At(w, "fetched")
    /\ row' = [row EXCEPT ![o] = [known |-> TRUE, delivered |-> s.delivered,
                                  undone |-> s.status = "undone",
                                  returned |-> @.returned \/ s.status = "returned"]]
    /\ sync' = [sync EXCEPT ![w].at = "consent",
                            ![w].first = s.delivered /\ ~row[o].delivered]
    /\ UNCHANGED <<queueVars, shopVars, attributed, kept, active, faults>>

\* Mutant of CheckConsent: a refunded order is treated like any other.
CheckConsentOnly(w) ==
    /\ At(w, "consent")
    /\ CancelCustomerWork \/ UNCHANGED queueVars
    /\ Goto(w, "candidates")
    /\ UNCHANGED <<shopVars, rowVars, active, faults>>

\* The consent the customer has by now, which Consent determines.
CheckConsent(w) ==
    /\ At(w, "consent")
    /\ CancelCustomerWork \/ UNCHANGED queueVars
    /\ Goto(w, IF Undone(Seen(w)) THEN "unattribute" ELSE "candidates")
    /\ UNCHANGED <<shopVars, rowVars, active, faults>>

\* The error of the DELETE is ignored.
Unattribute(w) ==
    /\ At(w, "unattribute")
    /\ \/ /\ attributed' = attributed \ {Order(w)}
          /\ kept' = kept \ {Order(w)}
          /\ UNCHANGED faults
       \/ /\ faults < MaxFaults
          /\ kept' = kept \cup {Order(w)}
          /\ faults' = faults + 1
          /\ UNCHANGED attributed
    /\ Goto(w, "cancel")
    /\ UNCHANGED <<queueVars, shopVars, row, active>>

\* Mutant of CancelForUndone: the order's attribution goes, the work stays.
KeepWorkOfUndone(w) ==
    /\ At(w, "cancel")
    /\ End(w)
    /\ UNCHANGED <<queueVars, shop, rowVars, active, faults>>

CancelForUndone(w) ==
    /\ At(w, "cancel")
    /\ CancelCustomerWork
    /\ End(w)
    /\ UNCHANGED <<shop, rowVars, active, faults>>

\* cancelConvertedWorkflows: the live runs are read first and cancelled one by one.
ReadCandidates(w) ==
    /\ At(w, "candidates")
    /\ sync' = [sync EXCEPT ![w].at = "convert",
                            ![w].runs = {r \in Runs : /\ runState[r] \in LiveRun
                                                      /\ NameOf[r] \in Converts[Order(w)]}]
    /\ UNCHANGED <<queueVars, shopVars, rowVars, active, faults>>

\* CancelWorkflow reports a run that somebody else has ended as an error, and with it
\* the whole sync fails, to be retried.
CancelConverted(w) ==
    /\ At(w, "convert")
    /\ \E r \in sync[w].runs :
        \/ /\ runState[r] \in LiveRun
           /\ CancelRuns({r})
           /\ sync' = [sync EXCEPT ![w].runs = @ \ {r}]
        \/ /\ runState[r] \notin LiveRun
           /\ sync' = [sync EXCEPT ![w] = Resting]
           /\ UNCHANGED queueVars
    /\ UNCHANGED <<shopVars, rowVars, active, faults>>

Converted(w) ==
    /\ At(w, "convert")
    /\ sync[w].runs = {}
    /\ Goto(w, "attribute")
    /\ UNCHANGED <<queueVars, shopVars, rowVars, active, faults>>

\* attributeConversion: to a message the customer has read, if there is one.
Attribute(w) ==
    /\ At(w, "attribute")
    /\ attributed' \in {attributed, attributed \cup {Order(w)}}
    /\ IF sync[w].first THEN Goto(w, "definitions") /\ UNCHANGED window ELSE End(w)
    /\ UNCHANGED <<queueVars, shop, row, kept, active, faults>>

\* startDeliveredWorkflows: the active definitions are read once.
ReadDefinitions(w) ==
    /\ At(w, "definitions")
    /\ sync' = [sync EXCEPT ![w].at = "start",
                            ![w].runs = {r \in Runs : TriggerOf[r] = Order(w) /\ NameOf[r] \in active}]
    /\ UNCHANGED <<queueVars, shopVars, rowVars, active, faults>>

\* The run, unless the customer has not consented or the run exists.
StartRun(w) ==
    /\ At(w, "start")
    /\ \E r \in sync[w].runs :
        \/ /\ runState[r] = "absent"
           /\ runState' = [runState EXCEPT ![r] = "active"]
           /\ UNCHANGED jobState
           /\ sync' = [sync EXCEPT ![w].at = "steps", ![w].run = r, ![w].runs = @ \ {r}]
        \/ /\ UNCHANGED queueVars
           /\ sync' = [sync EXCEPT ![w].runs = @ \ {r}]
    /\ UNCHANGED <<shopVars, rowVars, active, faults>>

\* Steps of the run in hand that are still to be enqueued, in no particular order.
Missing(r) == {j \in Steps : RunOf[j] = r /\ jobState[j] = "absent"}

EnqueueStep(w) ==
    /\ At(w, "steps")
    /\ \E j \in Missing(sync[w].run) : jobState' = [jobState EXCEPT ![j] = "scheduled"]
    /\ UNCHANGED <<runState, shopVars, rowVars, active, sync, faults>>

\* Mutant of RunFilled: the steps end when the run is no longer active.
RunFilledOrStopped(w) == Missing(sync[w].run) = {} \/ runState[sync[w].run] # "active"

RunFilled(w) == Missing(sync[w].run) = {}

NextRun(w) ==
    /\ At(w, "steps")
    /\ RunFilled(w)
    /\ sync' = [sync EXCEPT ![w].at = "start", ![w].run = None]
    /\ UNCHANGED <<queueVars, shopVars, rowVars, active, faults>>

Started(w) ==
    /\ At(w, "start")
    /\ sync[w].runs = {}
    /\ End(w)
    /\ UNCHANGED <<queueVars, shop, rowVars, active, faults>>

-----------------------------------------------------------------------------
(* Failures and the operator *)

\* A statement fails and the job is retried, or the daemon goes down and abandons
\* what its workers W were doing.
SyncsFail(W) ==
    /\ faults < MaxFaults
    /\ \A w \in W : sync[w] # Resting
    /\ sync' = [w \in Workers |-> IF w \in W THEN Resting ELSE sync[w]]
    /\ faults' = faults + 1
    /\ UNCHANGED <<queueVars, shopVars, rowVars, active>>

\* pauseWorkflowDefinition and activateWorkflow, one transaction each.
PauseDefinition(n) ==
    /\ PauseRuns({r \in Runs : NameOf[r] = n})
    /\ active' = active \ {n}
    /\ UNCHANGED <<shopVars, rowVars, sync, faults>>

ActivateDefinition(n) ==
    /\ ResumeRuns({r \in Runs : NameOf[r] = n})
    /\ active' = active \cup {n}
    /\ UNCHANGED <<shopVars, rowVars, sync, faults>>

-----------------------------------------------------------------------------
Upsert(w) ==
    \/ Commit(w) \/ CheckConsent(w)
    \/ Unattribute(w) \/ CancelForUndone(w)
    \/ ReadCandidates(w) \/ CancelConverted(w) \/ Converted(w)
    \/ Attribute(w)
    \/ ReadDefinitions(w) \/ StartRun(w) \/ EnqueueStep(w) \/ NextRun(w) \/ Started(w)

Next ==
    \/ \E o \in Orders : ShopifyChanges(o)
    \/ \E w \in Workers, o \in Orders : Fetch(w, o)
    \/ \E w \in Workers : Upsert(w)
    \/ \E W \in SUBSET Workers \ {{}} : SyncsFail(W)
    \/ \E n \in Names : PauseDefinition(n) \/ ActivateDefinition(n)

\* Handlers run to their end, and while an order is in the window reconciliations
\* go on fetching it, also when no other worker is at it.
Spec ==
    /\ Init /\ [][Next]_vars
    /\ \A w \in Workers : WF_vars(Upsert(w))
    /\ \A o \in Orders : SF_vars(PastOverlap(o) /\ \E w \in Workers : Fetch(w, o))

-----------------------------------------------------------------------------
(* Properties *)

\* What a synchronisation does to runs and jobs are steps of the job queue, whose own
\* workers serve none of the jobs here.
idle      == [w \in {} |-> None]
Queue     == INSTANCE JobQueue WITH
                Jobs <- Steps, Workers <- {}, NoJob <- None, Customers <- {Customer},
                CustomerOf <- [j \in Steps |-> Customer], CustomerOfRun <- [r \in Runs |-> Customer],
                MaxAttempts <- [j \in Steps |-> 1], MaxFaults <- 0,
                LostUpdates <- FALSE, PromptRestart <- FALSE,
                attempts <- [j \in Steps |-> 0], due <- {}, stale <- {}, up <- TRUE,
                holding <- idle, claimed <- idle, result <- idle, faults <- 0
QueueSpec == Queue!Spec

\* Without a failing statement every run has all its steps once the worker that
\* started it is done with it, whatever is cancelled or paused meanwhile: a run that
\* ON CONFLICT keeps from being started again is never left with a part of them.
RunsAreComplete ==
    faults = 0 => \A r \in Runs : \/ runState[r] = "absent"
                                  \/ Missing(r) = {}
                                  \/ \E w \in Workers : At(w, "steps") /\ sync[w].run = r

\* The orders table has what Shopify has.
RowAgrees(o) ==
    /\ row[o].known
    /\ row[o].delivered = shop[o].delivered
    /\ row[o].undone = (shop[o].status = "undone")

\* The runs the order had started are cancelled and its attribution is removed,
\* unless the last DELETE failed.
IsUndone(o) ==
    /\ o \in attributed => o \in kept
    /\ \A r \in Runs : TriggerOf[r] = o => runState[r] \notin LiveRun

\* Nothing is left to do for the order: its row agrees, no worker holds an older
\* snapshot that it could still write over it or start runs for, and if it is undone,
\* so is what it did.
Settled(o) ==
    /\ RowAgrees(o)
    /\ \A w \in Workers : sync[w] # Resting /\ Order(w) = o => Seen(w) = shop[o]
    /\ shop[o].status = "undone" => IsUndone(o)

\* An order that no webhook and no reconciliation will fetch any more needs no fetch.
WhatLeavesIsSettled == \A o \in Orders \ window : Settled(o)

\* An order for which nothing is left to do stays so until it changes at Shopify:
\* no worker, failure or operator takes it back.
SettledForGood ==
    [][\A o \in Orders : Settled(o) /\ shop'[o] = shop[o] => Settled(o)']_vars

\* A refund or cancellation has in the end, and for good, undone what its order did,
\* although a worker with an older snapshot may start or attribute runs after the first
\* cancellation.
UndoneOrderIsUndone ==
    \A o \in Orders : shop[o].status = "undone" ~> []IsUndone(o)

\* The orders table converges to Shopify, although it is written without looking at
\* the age of what it replaces.
RowsConverge == \A o \in Orders : <>[]RowAgrees(o)

=============================================================================
