------------------------------- MODULE Restock -------------------------------
(***************************************************************************)
(* The synchronisation of a product's stock (upsertProduct) and the        *)
(* workflow that a restock starts for its buyers (startInventoryWorkflows).*)
(* Workers hold snapshots of different age; the transaction that stores    *)
(* the quantity decides whether it was a restock, and the runs are started *)
(* after it, statement by statement.  An order comes with the quantity of  *)
(* each line's variant, which upsertOrder stores as well; what else it     *)
(* stores of the order is a change of the customers in Audience.           *)
(*                                                                         *)
(* The product has one variant.  Of several, any one that is back in stock *)
(* makes the transaction a restock of the product.                         *)
(*                                                                         *)
(* A restock that is noticed has a trigger ID of its own, made of the      *)
(* product and the time.                                                   *)
(***************************************************************************)
EXTENDS Audience

CONSTANTS
    Workers,        \* the goroutines running jobLoop
    StepCount,      \* steps of the workflow
    MaxTriggers,    \* bound on the restocks noticed
    MaxChanges      \* bound on the changes of the stock at Shopify

ASSUME RestockConstants == {StepCount, MaxTriggers, MaxChanges} \subseteq Nat \ {0}

VARIABLES
    shelf,          \* the stock at Shopify: in or out, after n changes
    worker,         \* what each worker has got to
    active,         \* workflow_definitions.active
    triggers,       \* restocks noticed so far
    run,            \* workflow_runs.state by trigger and customer
    filled,         \* how many steps of a run are enqueued
    applied,        \* the age of the newest snapshot stored, of the product or of an order
    restocks,       \* changes from out to in at Shopify
    outdated,       \* snapshots stored after a newer one
    eager,          \* customers that were eligible buyers ever since a trigger
    done,           \* triggers whose worker finished, the workflow being active
    overtaken       \* triggers whose worker had read the definition when it was paused

stockVars  == <<shelf, worker, active>>
runVars    == <<triggers, run, filled>>
stockGhost == <<applied, restocks, outdated, eager, done, overtaken>>
allRestock == <<stockVars, runVars, stockGhost>>

Triggers  == 1..MaxTriggers
NoTrigger == 0
RunStates == {"none", "active", "paused", "cancelled"}
Snapshot  == [in : BOOLEAN, n : 0..MaxChanges]
Phases    == {"idle", "fetched", "fetchedOrder", "triggered", "buyers", "choose", "start", "steps"}
Resting   == [at |-> "idle", seen |-> [in |-> FALSE, n |-> 0], trigger |-> NoTrigger,
              left |-> {}, for |-> {}]

RestockTypeOK ==
    /\ shelf \in Snapshot
    /\ worker \in [Workers -> [at : Phases, seen : Snapshot, trigger : Triggers \cup {NoTrigger},
                               left : SUBSET Customers, for : SUBSET Customers]]
    /\ active \in BOOLEAN
    /\ triggers \in 0..MaxTriggers
    /\ run \in [Triggers \X Customers -> RunStates]
    /\ filled \in [Triggers \X Customers -> 0..StepCount]
    /\ applied \in 0..MaxChanges
    /\ restocks \in 0..MaxChanges
    /\ outdated \in Nat
    /\ eager \in [Triggers -> SUBSET Customers]
    /\ done \subseteq Triggers
    /\ overtaken \subseteq Triggers

RestockInit ==
    /\ shelf \in {[in |-> b, n |-> 0] : b \in BOOLEAN}
    /\ worker = [w \in Workers |-> Resting]
    /\ active = TRUE
    /\ triggers = 0
    /\ run = [r \in Triggers \X Customers |-> "none"]
    /\ filled = [r \in Triggers \X Customers |-> 0]
    /\ applied = 0
    /\ restocks = 0
    /\ outdated = 0
    /\ eager = [t \in Triggers |-> {}]
    /\ done = {}
    /\ overtaken = {}

EligibleBuyers == {c \in Buyers : status[c] = "opted_in"}

-----------------------------------------------------------------------------
(* Stock *)

ShelfChanges ==
    /\ shelf.n < MaxChanges
    /\ shelf' = [in |-> ~shelf.in, n |-> shelf.n + 1]
    /\ restocks' = IF shelf.in THEN restocks ELSE restocks + 1
    /\ UNCHANGED <<audienceVars, worker, active, runVars, applied, outdated, eager, done, overtaken>>

Doing(w, phase) == worker[w].at = phase
Step(w, phase)  == worker' = [worker EXCEPT ![w].at = phase]

\* ProductByID, an inventory item, or a page of a reconciliation.
FetchProduct(w) ==
    /\ Doing(w, "idle")
    /\ worker' = [worker EXCEPT ![w].at = "fetched", ![w].seen = shelf]
    /\ UNCHANGED <<audienceVars, shelf, active, runVars, stockGhost>>

\* An order by its ID, or a page of them.
FetchOrder(w) ==
    /\ Doing(w, "idle")
    /\ worker' = [worker EXCEPT ![w].at = "fetchedOrder", ![w].seen = shelf]
    /\ UNCHANGED <<audienceVars, shelf, active, runVars, stockGhost>>

\* The quantity of a snapshot replaces what is stored: no ages are compared.
Stores(s) ==
    /\ stored' = IF s.in THEN "in" ELSE "out"
    /\ applied' = IF s.n > applied THEN s.n ELSE applied
    /\ outdated' = IF s.n < applied THEN outdated + 1 ELSE outdated

\* upsertOrder for an order of the product.  It compares the quantity with nothing, so
\* that it may undo a restock or hide one.  The page may have another such order.
UpsertOrderStock(w) ==
    /\ Doing(w, "fetchedOrder")
    /\ Stores(worker[w].seen)
    /\ worker' \in {worker, [worker EXCEPT ![w] = Resting]}
    /\ UNCHANGED <<status, phone, orders, moves, shelf, active, runVars, restocks, eager, done, overtaken>>

\* Mutant of Transition: whatever is in stock, and was not there before or is new.
TransitionFromAny(s) == s.in

\* A variant that is not stored yet has no previous quantity; the quantity of one that
\* is may be that of an order.
Transition(s) == stored = "out" /\ s.in

\* The transaction of upsertProduct.
UpsertProduct(w) ==
    LET s == worker[w].seen IN
    /\ Doing(w, "fetched")
    /\ Transition(s) => triggers < MaxTriggers
    /\ Stores(s)
    /\ IF Transition(s)
       THEN /\ triggers' = triggers + 1
            /\ worker' = [worker EXCEPT ![w] = [Resting EXCEPT !.at = "triggered", !.trigger = triggers + 1]]
            /\ eager' = [eager EXCEPT ![triggers + 1] = EligibleBuyers]
       ELSE /\ worker' = [worker EXCEPT ![w] = Resting]
            /\ UNCHANGED <<triggers, eager>>
    /\ UNCHANGED <<status, phone, orders, moves, shelf, active, run, filled, restocks, done, overtaken>>

-----------------------------------------------------------------------------
(* startInventoryWorkflows *)

ReadDefinition(w) ==
    /\ Doing(w, "triggered")
    /\ IF active THEN Step(w, "buyers") ELSE worker' = [worker EXCEPT ![w] = Resting]
    /\ UNCHANGED <<audienceVars, shelf, active, runVars, stockGhost>>

ReadBuyers(w) ==
    /\ Doing(w, "buyers")
    /\ worker' = [worker EXCEPT ![w].at = "choose", ![w].left = Buyers]
    /\ UNCHANGED <<audienceVars, shelf, active, runVars, stockGhost>>

\* Mutant of ChooseBuyer: a customer without consent ends the loop.
ChooseBuyerOrStop(w) ==
    /\ Doing(w, "choose")
    /\ \E c \in worker[w].left :
        worker' = IF status[c] = "opted_in"
                  THEN [worker EXCEPT ![w].at = "start", ![w].left = @ \ {c}, ![w].for = {c}]
                  ELSE [worker EXCEPT ![w].left = {}]
    /\ UNCHANGED <<audienceVars, shelf, active, runVars, stockGhost>>

\* The customer's consent, read in a statement of its own.
ChooseBuyer(w) ==
    /\ Doing(w, "choose")
    /\ \E c \in worker[w].left :
        worker' = IF status[c] = "opted_in"
                  THEN [worker EXCEPT ![w].at = "start", ![w].left = @ \ {c}, ![w].for = {c}]
                  ELSE [worker EXCEPT ![w].left = @ \ {c}]
    /\ UNCHANGED <<audienceVars, shelf, active, runVars, stockGhost>>

RunOf(w) == <<worker[w].trigger, CHOOSE c \in worker[w].for : TRUE>>

\* The foreign key wants the customer.
InsertRun(w) ==
    /\ Doing(w, "start")
    /\ Exists(RunOf(w)[2])
    /\ run' = [run EXCEPT ![RunOf(w)] = "active"]
    /\ Step(w, "steps")
    /\ UNCHANGED <<audienceVars, shelf, active, triggers, filled, stockGhost>>

\* The foreign key wants the run.
EnqueueStep(w) ==
    /\ Doing(w, "steps")
    /\ run[RunOf(w)] # "none"
    /\ filled[RunOf(w)] < StepCount
    /\ filled' = [filled EXCEPT ![RunOf(w)] = @ + 1]
    /\ UNCHANGED <<audienceVars, stockVars, triggers, run, stockGhost>>

RunFilled(w) ==
    /\ Doing(w, "steps")
    /\ filled[RunOf(w)] = StepCount
    /\ worker' = [worker EXCEPT ![w].at = "choose", ![w].for = {}]
    /\ UNCHANGED <<audienceVars, shelf, active, runVars, stockGhost>>

Started(w) ==
    /\ Doing(w, "choose")
    /\ worker[w].left = {}
    /\ worker' = [worker EXCEPT ![w] = Resting]
    /\ done' = done \cup {worker[w].trigger}
    /\ UNCHANGED <<audienceVars, shelf, active, runVars, applied, restocks, outdated, eager, overtaken>>

\* A statement fails, or the daemon goes down.  The job is retried and fetches anew,
\* but the quantity is stored: the restock is not noticed again.
SyncFails(w) ==
    /\ ~Doing(w, "idle")
    /\ worker' = [worker EXCEPT ![w] = Resting]
    /\ UNCHANGED <<audienceVars, shelf, active, runVars, stockGhost>>

-----------------------------------------------------------------------------
(* The operator, and the changes of the customers *)

Reading(w) == worker[w].at \in {"buyers", "choose", "start", "steps"}

\* Mutant of PauseDefinition: the definition without its runs.
PauseDefinitionOnly ==
    /\ active
    /\ active' = FALSE
    /\ overtaken' = overtaken \cup {worker[w].trigger : w \in {v \in Workers : Reading(v)}}
    /\ UNCHANGED <<audienceVars, shelf, worker, runVars, applied, restocks, outdated, eager, done>>

PauseDefinition ==
    /\ active
    /\ active' = FALSE
    /\ run' = [r \in Triggers \X Customers |-> IF run[r] = "active" THEN "paused" ELSE run[r]]
    /\ overtaken' = overtaken \cup {worker[w].trigger : w \in {v \in Workers : Reading(v)}}
    /\ UNCHANGED <<audienceVars, shelf, worker, triggers, filled, applied, restocks, outdated, eager, done>>

ActivateDefinition ==
    /\ ~active
    /\ active' = TRUE
    /\ run' = [r \in Triggers \X Customers |-> IF run[r] = "paused" THEN "active" ELSE run[r]]
    /\ overtaken' = {}
    /\ UNCHANGED <<audienceVars, shelf, worker, triggers, filled, applied, restocks, outdated, eager, done>>

LiveRuns(c) == {t \in Triggers : run[<<t, c>>] \in {"active", "paused"}}

\* CancelCustomerWork.
CancelRuns(c) ==
    run' = [r \in Triggers \X Customers |->
                IF r[2] = c /\ run[r] \in {"active", "paused"} THEN "cancelled" ELSE run[r]]

BuyersMove == eager' = [t \in Triggers |-> eager[t] \cap EligibleBuyers']

\* redactCustomerAndOrders deletes the runs and their jobs.
RedactRuns(c) ==
    /\ run' = [r \in Triggers \X Customers |-> IF r[2] = c THEN "none" ELSE run[r]]
    /\ filled' = [r \in Triggers \X Customers |-> IF r[2] = c THEN 0 ELSE filled[r]]

RestockStep ==
    \/ ShelfChanges
    \/ \E w \in Workers :
        \/ FetchProduct(w) \/ UpsertProduct(w) \/ FetchOrder(w) \/ UpsertOrderStock(w)
        \/ ReadDefinition(w) \/ ReadBuyers(w)
        \/ ChooseBuyer(w) \/ InsertRun(w) \/ EnqueueStep(w) \/ RunFilled(w)
        \/ Started(w) \/ SyncFails(w)
    \/ PauseDefinition \/ ActivateDefinition

-----------------------------------------------------------------------------
(* Properties *)

\* A restock whose worker came to its end has started the whole workflow for everybody
\* who was an eligible buyer throughout, whoever else of the buyers was not.
RestockReachesBuyers ==
    \A t \in done : \A c \in eager[t] : run[<<t, c>>] # "none" /\ filled[<<t, c>>] = StepCount

\* The workflow starts no more often than the stock was replenished and snapshots, of
\* the product or of an order, were stored after a newer one: each of the latter may
\* fake a restock.
TriggersAreRestocks == triggers <= restocks + outdated

\* While the definition is paused no run is active, but for the runs of a worker that
\* had read it before.
PausedStartsNothing ==
    ~active => \A t \in Triggers \ overtaken, c \in Customers : run[<<t, c>>] # "active"

=============================================================================
