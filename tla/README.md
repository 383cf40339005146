# Seedhibaat, specified

Seedhibaat is one daemon (`seedhibaatd`) that synchronises a Shopify shop into
SQLite and sends WhatsApp messages through Meta's API: the steps of workflows
that a delivery or a restock starts, and the recipients of campaigns that an
operator activates. A Python client may send messages of its own and reports
them to the daemon's ledger. This directory holds TLA+ modules of the daemon's
state and of the statements that change it, the TLC runs that check them on
small instances, and TLAPS proofs for instances of any size.

## The system

`Store` opens SQLite with `SetMaxOpenConns(1)` (internal/store/store.go:38).
Every statement outside a transaction, and every transaction, is therefore one
atomic step, and nothing larger is: between two statements of a handler any
other goroutine may run. This fixes the grain of all modules: **one action per
transaction or lone statement**, local computation merged into the statement
before it, and each call to a remote service an action of its own. Foreign keys
are on (store.go:33) and appear as guards.

| Part | State | Operations | Hard behaviour | Modules |
|---|---|---|---|---|
| Durable queue (`store/queue.go`) | `scheduled_jobs`, `workflow_runs` | enqueue, claim, complete, defer, fail, recover; pause, resume, cancel, replay | updates by id without a lease token, leases without a worker, cancellations of leased jobs | ExclusiveWork, JobQueue |
| Worker loops (`processor.go`) | the job in hand | poll, dispatch, finish | N workers (default 4), lost updates, SIGTERM that waits for nobody | JobQueue, Sender, Inbox |
| Sender (`sender.go`, `meta/client.go`) | `outbound_messages` | check, defer, reserve, call, record | crash between call and record, ambiguous answers, races with opt-outs | Delivery, Sender |
| Webhook inbox (`store/webhooks.go`, `processor.go`) | `webhook_events` | record, claim, handle, finish | redelivery, partly handled events, events nobody owns | Inbox |
| Receipts (`processor.go`) | `outbound_messages`, `message_events` | status callback, delivery retry | late, repeated, reordered callbacks | Receipts |
| Consent (`shopify_sync.go`, `processor.go`, `external.go`, `http.go`) | consent columns of `customers` | sync, STOP, Meta's codes, import | seven writers, snapshots applied out of order | Consent |
| External ledger (`store/external.go`, `http.go`, `cli.py`) | `outbound_messages` | reserve, record, suppress | clients that die, answers that are lost, replays of a file, callbacks on the same rows | SpendOnce, ExternalLedger |
| Orders and triggers (`shopify_sync.go`) | `orders`, `conversions`, `workflow_runs` | upsert, cancel converted, attribute, start runs | a dozen statements per sync, stale snapshots, pauses in between | Orders |
| Stock and restocks (`shopify_sync.go`) | `variants`, `workflow_runs` | upsert, notice a restock, start runs | a transition that is noticed once and may be faked, a loop over buyers | Restock |
| Segments (`segment/segment.go`) | none of their own | validate, preview | their result changes between two requests | Audience |
| Campaigns (`http.go`) | `campaigns`, `campaign_recipients` | create, activate, cancel | an audience frozen row by row and checked before the transaction that uses it | Campaigns |
| Workflow definitions (`workflow/definition.go`, `http.go`) | `workflow_definitions` | simulate, activate, pause | quiet hours past midnight, a pause while a worker starts runs | Schedule, Restock, Orders |
| Redaction, retention (`shopify_sync.go`, `store/retention.go`) | all tables | delete, scrub | activations and workers that still hold what was deleted | Outreach |
| Reconciliation (`processor.go`, `store/sync.go`) | `sync_cursors` | hourly job, watermark | failure half way | Orders (window only) |
| Shopify client, dashboard, links, backups, configuration, maintenance commands | none of interest | | I/O, read-only queries, cryptography | none |

The parts interact through the database only. Shopify and Meta post webhooks
into the inbox; its loop enqueues jobs, or updates messages and customers
itself; workers synchronise from Shopify, or send; a synchronisation may cancel
jobs and start runs; the operator's HTTP calls change runs, jobs, campaigns
and definitions at any moment; the client's calls write the same ledger.

## Modules

```
ExclusiveWork  abstract: who may execute a job
   ^ implements
JobQueue       jobs, runs, leases, controls              -- JobQueueProofs
   ^ implements         ^ implements
Sender               Orders                              -- SenderProofs, OrdersProofs
   |                    upsertOrder, its runs and steps
   v implements
Delivery       abstract: when a message may be sent again

Consent        a row of customers                        -- ConsentProofs
   ^ implements         ^ implements
Inbox                ExternalLedger                      -- InboxProofs, ExternalLedgerProofs
   | callbacks: Receipts, in both
                        v implements
                     SpendOnce   abstract: one call to Meta for each reserved message

Audience       customers, orders, stock; segments over them
   |-- Campaigns   create, activate, cancel
   |-- Restock     stock, and the runs it starts
Schedule       when a step is due and sent               -- ScheduleProofs
   \__ composed, with redactions and retention, in
Outreach                                                 -- OutreachProofs
```

**ExclusiveWork** is the abstract specification of the queue: at most one
handler executes a job, and a closed job is never handled again.

**JobQueue** has every update of `scheduled_jobs` and `workflow_runs`; the deletions
of a redaction are in Outreach. `due`
stands for `available_at <= now`, `stale` for `locked_at < now - 10 min`: the two
comparisons the code makes. A job is its idempotency key, and "absent" before
the row exists. A worker's life is `ClaimJob`, the handler's own writes
(`SuppressJob`, `DeferJob`) or `HandlerReturns`, and the last update of
`jobLoop` (`CompleteJob`, `FailJob`, `FailJobPermanently`), which is by id only
and may be lost (`UpdateLost`). The handler is free here; Sender fixes it.
`attempts` saturates at `max_attempts`, where the code only asks whether it
has been reached.

**Sender** is `sendWhatsApp` statement by statement. `pc` is the next
statement. The model keeps the ledger row by key, the window of the frequency
cap, whether the customer is eligible, the campaign's state and the outbound
gate. Each job has a cap of its own, as its payload has; the length of the window
is one for all. Meta may accept, refuse with each class of code, not answer (and have
accepted or not), or answer unusably. `accepted`, `lost` and `late` only
observe: what Meta accepted, whether an acceptance went unrecorded, and
who claimed a job that was already over. **Delivery** is what the message ledger
promises of all this: a message whose Meta ID is stored is not sent again, a
stored ID stays, and a message that Meta may have accepted is sent again only
when that acceptance was lost.

**Consent** is one row of `customers`, the customer's statement at Shopify,
and what each worker has fetched and not yet applied. Times are instants on a
bounded clock. Consent stated by tags, or natively without a timestamp, has no time
of its own and is stamped when it is applied, as `consentFromTags` and
`nullableConsentTimestamp` do. `stopAt`, `optInAt` and
`synced` only observe.

**Receipts** is `recordMetaStatus`: a set of recorded fingerprints, the state
column with its ranking, the timestamp columns and the delivery retry. The
fingerprint is the message, the status and the timestamp; callbacks of one status
and error code have one timestamp in the model, others differ in it.

**Inbox** is `RecordWebhook`, the loop, and the handlers of Meta's events on
top of Consent and Receipts. The handlers of Shopify's topics, which enqueue a
job, are `HandleOther`. `owed` observes the STOP replies whose cancellation is
still to come.

**ExternalLedger** is `ReserveExternalMessage` and `RecordExternalMessage` with
the suppression that the HTTP handler calls after the transaction, and the two
kinds of client that `store/external.go` describes: one reserves, calls Meta
and reports; the other's sends are lines of a file that `run_ledger_sync`
replays in any order and as often as wanted. Only the second is in this
repository's Python code; the first is modelled from what the two functions
ask of it, and `CallMeta`, `ClientDies` and `SendUnreserved` are external.
A client may die at any point, and an answer of the daemon may be lost, so
that it reports again. Meta's callbacks move the rows through the operators of Receipts
and the customer through those of Consent. `told` observes the outcomes the
daemon has taken. **SpendOnce** is what a reserving client is promised.

**Orders** is `upsertOrder` for one customer: what is fetched, the
transaction, and each statement after it, up to the last step of the last run
it starts. `window` abstracts `since = watermark - overlap`: an order is
fetched again until a reconciliation has succeeded that fetched its last
change, at a time when every earlier handler of it had ended. `Settled` says of an
order that nothing is left to do for it: its row agrees with Shopify, no worker
holds an older snapshot, and if it is undone, so are its runs and its attribution.
`kept` observes the `DELETE` whose error the code drops.

**Audience** has what a segment looks at, the customers' rows, numbers and
orders and the stock of one product, and `Preview`, the one SELECT of
`segment.Preview` for each kind, exclusion and `require_consent`. Its actions
are what other parts may do to these rows between two statements. The age at
which the retention removes a number is not that at which an order ceases to be
recent for a segment; a synchronisation brings the number back.

**Campaigns** is `createCampaign` (the preview, the draft, one INSERT for each
recipient, and a client that may go away between any two), `activateCampaign`
(the read of the draft, the list, the second preview, the transaction) and
`cancelCampaign`. The request of an operator is where it has got to and what it
holds. `reviewed`, `gone`, `moved`, `late` and `escaped` only observe: whom the
operator was shown, who of them was redacted or never inserted, whether the
audience changed under an activation, which jobs came after their customer's
redaction, and which were running when their campaign was cancelled.

**Restock** is the product part of `upsertProduct` and `startInventoryWorkflows`:
a snapshot fetched, the transaction that sees a transition from 0 to more, the
read of the definitions, the read of the buyers, and for each buyer the read of
the consent, the run and its steps. The stored quantity has a second writer: an
order is fetched with the quantity of each line's variant, and `upsertOrder`
(shopify_sync.go:92) stores it, whatever its age and without looking for a
transition. An old order may so take a restock back, which the next snapshot of
the product then finds anew, and a new one may hide a restock. The product has one
variant: of several, each transition counts for itself, and one in a transaction
suffices. `applied`, `restocks`, `outdated`, `eager`,
`done` and `overtaken` only observe.

**Schedule** is time: an instant is a day and a minute, `NextAllowedTime` the
function of `workflow/definition.go`, `Planned` what both `startDeliveredWorkflows`
and `simulateWorkflow` compute, `Defer` and `AttemptFails` the sender's and the
queue's ways to move a step. The properties do not use the function they check:
they speak of the set of disturbed minutes, walked from one end of the window to the other.

**Outreach** composes the last four: a redaction is one transaction over
recipients, jobs and runs; a change of the stock may change a segment; retention
removes numbers of customers without a live run.

Each `MC` module gives the constants their values. The definitions marked
"Mutant of" in the modules are wrong on purpose: substituted for the definition
they name, each makes a property of a run fail. No other definition uses them.

## Runs

| Run | Shows | Instance |
|---|---|---|
| `queue` | types, owners keep their rows, a paused job has a run that is paused or over, no orphans without faults, closed jobs stay closed, ExclusiveWork (one handler per job), and every job settles or is paused | 2 workers, a workflow step, a job without a run, 1 fault, updates that may be lost |
| `queue_lease` | **finding**: a young lease is never recovered | 1 job, 2 workers, 1 crash |
| `sender_recipient` | Delivery: a recorded send is not repeated, a duplicate needs a lost acceptance; completed means accepted; a delivery retry and its original are never both on their way | a recipient and its delivery retry, 2 workers, 1 fault |
| `sender_pair` | the frequency cap under races; stopped work is not sent; Sender implements JobQueue | a campaign and a workflow step for 1 customer, cap 1, 2 workers, pause, resume, cancel, quiet hours |
| `sender_replay` | **finding**: a possibly accepted send can be replayed | 1 job |
| `ledger` | reserved messages are spent once (SpendOnce); rows tell the best outcome; replays undo nothing; opted out implies suppressed; opted in, with a number Meta delivers to, is stated; snapshots converge | 2 clients, a reserved message and a line of the file, 2 workers, clock 0..2 |
| `ledger_mark` | **finding**: a reported undeliverable number is not marked | 2 clients, no crash, no lost answer |
| `consent_stop` | **finding**: an older opt-in undoes a STOP | 2 workers, clock 0..2 |
| `inbox` | a processed STOP has cancelled the work; no event is left behind without a fault; the state is the best status | 2 events of any content, 2 tries, 1 fault |
| `inbox_stuck` | **finding**: an event can stay in processing | 1 event |
| `orders` | runs are complete; what leaves the window is settled, and stays so until the order changes; a refund is final; rows converge | 2 workers, 1 order, 2 changes, 1 run, 1 fault |
| `outreach` | campaigns: scheduled as reviewed, eligible when scheduled, cancelled for good, redacted without jobs; restocks: buyers are reached, triggers are restocks, a pause starts nothing; schedule: outside quiet hours, due when allowed, not before simulated, steps in order | 2 customers, 2 operators, 1 campaign of a back-in-stock segment, 2 workers, 2 changes of the stock, 2 of the customers; 2 steps on a day of 4 minutes |

**Bounds.** Two workers, operators or clients suffice for every race of two
holders of one row. Two jobs of different kind meet every selection of a bulk
update (in it, outside it). One fault (`MaxFaults`) is enough for each hazard
listed, since each needs one lost write; two faults in a row add only a
repetition of the first. Two attempts (`MaxAttempts`, `MaxTries`) tell "retried"
from "exhausted". A clock of three instants (`MaxTime`) orders a statement, a
STOP and a second statement in every way. Two changes of an order
(`MaxChanges` in Orders) give delivery followed by a refund, the longest path
on which a stale snapshot still starts something; two of the stock (`MaxChanges`
in Restock) give a restock and a sale, or the reverse, and three ages of a
snapshot, of the product or of an order; two triggers (`MaxTriggers`) a true and a faked one; two changes of
the customers (`MaxMoves`) one before and one after any statement. In `orders`
the order itself counts as the conversion of the workflow it starts, so that
one order meets both branches. `CapOf` is 1 for every job, where an off-by-one shows at once. A
day of four minutes has windows of every position, length and wrap; two days
(`MaxDay`) let a wait cross midnight into the next window.

Three runs are cut to the product of what interacts. `MCExternalLedger!Bound`
explores the races of snapshots while the ledger is at rest, and the ledger
while no time passes: the two meet in the customer's row only, through the
statements of Consent, which ExternalLedgerProofs proves for both together.
`MCOutreach!Bound` explores campaigns (one worker may be at a product
meanwhile, so that the stock changes under them), restocks (one change of the
customers, one outdated snapshot) and schedules while the others are at rest: a
schedule shares no variable with the rest, and OutreachProofs proves all three
without the bound. `MCSender!ClearAnswers` leaves unclear answers of Meta to
`sender_recipient`.

**Fairness.** `JobQueue` and `Inbox`: tickers poll for ever, HTTP clients
have timeouts so that handlers return, and `ORDER BY available_at` makes
overtaking finite, which is strong fairness of a claim. `queue` also
needs `PromptRestart = FALSE`, that is, a restart that finds its leases older
than ten minutes; `queue_lease` shows why. `Orders`: a handler's next
statement is taken, and an order in the window is fetched again, also at a
time when nobody else is at it. The first follows from the tickers. The second
from the default configuration: a reconciliation every six hours with an overlap
of 24 hours, the watermark moved by successful reconciliations only; handlers
last minutes. With an overlap of zero `RowsConverge` fails, which its mutant
shows: rows are written without comparing `updated_at`. The other modules state
safety only and no fairness.

Deadlock is checked in every run but `outreach`: there the bounded changes of
customers and stock run out, every request ends, the clock reaches `MaxDay`,
and the system rests.

## Findings

Five runs refute a sentence of the documentation or of a comment; PROJECT.json
quotes it.

* `queue_lease`: stale leases are recovered at a restart only if they were
  ten minutes old at that moment; a lease younger than that waits for the
  restart after the next.
* `sender_replay`: after an unusable 2xx or a 5xx the ledger row stays
  `attempted`, which the guard of a replay lets through.
* `consent_stop`: a STOP leaves `consent_updated_at` as it was, so an opt-in
  at Shopify that precedes the STOP is applied over it.
* `inbox_stuck`: nothing recovers a webhook event in `processing`.
* `ledger_mark`: `RecordExternalMessage` returns the customer only with a row it
  creates, so a failure code reported after a reservation never reaches
  `SuppressForMetaFailure`.

Some properties exempt, by an observing variable, exactly what the code does not
rule out: a job that an activation inserts after its customer's redaction
(`late`), a job that ran while its campaign was cancelled (`escaped`; the sender
drops it), a run that a worker starts after it read a definition that was
paused since (`overtaken`), a restock that an outdated snapshot of the product or
of an order fakes (`outdated`), an attribution whose `DELETE` failed (`kept`), and
members of a draft that were redacted since it was reviewed or whose recipient was
never inserted, the creation being cut off (`gone`).

The last of these is also less than the documentation says. docs/architecture.md:60-61
has an activation reject the draft "if even one customer changed since preview,
forcing a new reviewed count"; http.go:867-880 compares the segment with the
recipients that are stored, so a draft that lost members to a redaction, or never
had them, is activated without a new review when the segment has lost them, too.
`ScheduledAsReviewed` says what remains: nobody is added, and nobody else is missing.

## Proofs

All theorems hold for any sets of workers, customers, jobs, messages, operators
and so on, and any bounds that satisfy the named assumptions on the constants.
None of the properties below is inductive; what each proof adds is named here.

**JobQueueProofs** (from `QueueConstants`). That a job has one handler depends
on a claimed row being `running`, and that depends on nobody else writing it. The
invariant is

    IInv == TypeOK /\ OneOwner /\ OwnerKeepsRow /\ DownIsIdle

`Owns(w)` says that the worker's last update is still to come and that it has not
deferred or suppressed its job; `OneOwner` that a job has one such worker;
`OwnerKeepsRow` that its row is `running` with the attempts the worker claimed,
or was completed by the one race the code has (a deferred job, leased again
before the first worker's `CompleteJob`). `DownIsIdle` is needed at `Restart`:
recovered leases have no worker. One lemma per class of step (worker, control,
time) proves it, the control steps all through one frame: they move no row
that is `running`. `QueueImplementsExclusiveWork` is the refinement.
`PausedJobsHavePausedRuns` needs that every workflow step in the queue has its
run (`JobsHaveRuns`): without it a run could start, active, above steps that were
paused before. The run need not be paused: `pauseWorkflowDefinition`
(http.go:336) also pauses what a cancelled run left in `retry`.

**SenderProofs** first proves that every step of the sender is a step of the
queue or leaves it alone (`SenderImplementsQueue`), so that the queue's
invariant holds of the sender's queue and need not be proved again. On it rests
`SenderInv`, one conjunct per fact that a later statement relies on: a worker
before the call has nothing accepted for its key (`NotYetAccepted`), one past
its end has had its row (`OffIsOver`, `DoneIsAccepted`, `ReleasedIsSuppressed`),
who claimed a job that was over stops (`LateStops`), and an acceptance that was
not lost is recorded or about to be (`AcceptedOrLost`, `CompletedIsAccepted`).
`NeverResent`, `DuplicatesComeFromLoss`, `CompletedIsSent` and `StoppedWorkStops`
follow; the cap has an invariant of its own on the cardinality of the window,
for every number at once: of the jobs whose cap is at most `n`, at most `n` are in it.
`SenderKeepsDelivery` is the refinement of Delivery. A stored ID must be one that
Meta gave, which is `AnswersAreReal`: who is about to record an acceptance has
seen one. `StoredIsForGood` is read off the refinement. `RetriesFollowAcceptance`
is the invariant `RetriesFollow`: a retry in the queue has an accepted original,
which `NeverResent` keeps from the call.

**ConsentProofs** (any workers, any clock): `OptOutSuppresses`, whatever
writer comes last, and `SnapshotsConverge`. The invariant behind the second
relates the row, the statement at Shopify and every snapshot in flight: while
`synced` holds the row has Shopify's statement and its time, and every native
snapshot a worker holds is strictly older or is that statement.
`SuppressForMetaFailure` stores `opted_in` for an undeliverable recipient, also
over `opted_out`; `OptInsAreStated` and `UndeliverableForGood` show that this
passes for consent nowhere, because nothing clears `invalid_number`. The
invariant counts the opt-ins where they are made, at Shopify, and in every snapshot.

**InboxProofs** (any events, any messages): `InboxImplementsConsent` shows that
the inbox writes the customer by the statements of Consent only, so that what
ConsentProofs proves holds here. `InboxInv` adds to the three properties of the
run, and to `RetryOnlyForTransientFailure`, that the event in hand is leased and, once its handler has succeeded, owes
nothing, and that only STOP replies owe; without the latter, `HandleStatus`
could end well with a cancellation outstanding. The ledger's part rests on one
lemma about `NextState`: it never lowers a rank and reaches that of the
callback.

**ExternalLedgerProofs** (any keys, clients and callbacks):
`LedgerImplementsConsent`, and `LedgerSpendsOnce`, the refinement of SpendOnce. That
Meta is called once is not inductive: two clients could hold one key, or a
client could hold a key that was called before. `LedgerInv` therefore says
that a reserved key has one client (`OneClient`), that it was not called before
(`CallIsFirst`), and, for the rows, that what was sent has its Meta ID
(`SentHasID`) beside `RowTellsOutcome`. `ReplaysUndoNothing` follows.

**OrdersProofs** (any orders, workflows, runs, steps, faults):
`OrdersTypeCorrect` and `RunsComplete`. Nothing resets a step of a run, and a
worker that leaves the loop of the steps has added the last. For
`LeavesSettled` and `SettledStaysSettled` the invariant is

    OrdersInv == TypeOK /\ StageFits /\ LastIsRight /\ WhatLeavesIsSettled

`StageFits` says that a snapshot is no newer than Shopify's order, that the
statements which undo an order come from a snapshot that shows it undone, and the
others from one that does not; `LastIsRight` says of the worker of a reconciliation
past the overlap, while its snapshot is Shopify's present, that nobody is at the
order with an older one and that what its statements have written so far is right. `SettledStays` then goes through the statements one
by one: each either belongs to another order, or writes what is there already.
From the two follow `OneReconciliationSuffices` and `ConvergesWhenLeft`: if an
order is outside the window from some time on, its row agrees from some time on,
and once undone it is undone for good. That is `RowsConverge` and
`UndoneOrderIsUndone` with the fairness replaced by what it is assumed for; that
reconciliations do leave an order behind is left to TLC.
`OrdersImplementQueue` is the refinement of JobQueue: steps are enqueued for a run
that exists (`EnqueuesForRun`). It is a theorem and no property of the run, where
checking each of its steps would double the time.

**ScheduleProofs** (days of any length, any window, waits and retries): lemmas
about the pure function first. `NextAllowedTime` is outside the disturbed minutes, is
the first such instant, and is monotone. `Placed`, the invariant, says that a
waiting step that was not tried yet stands where it was planned and that any
other is later; the five theorems follow.

**OutreachProofs** (any customers, operators, segments, workers, triggers).
`CampaignInv` has, beside types: an operator that creates a campaign is alone
with it; the draft and the recipients still to be inserted make up what was
reviewed, but for those in `gone`; the list of an activation is between the
two; a list that was checked is the segment's while nobody `moved`; a
redacted customer is in no draft, and in a list only if the job will be `late`.
`RestockInv` says of each worker which eager buyers are left, in hand, or
completely started, that steps have runs, and of the stock that an alternation
leaves one restock in two changes: `RestocksIn(n)`, the restocks among the
first `n` changes, bounds the triggers together with the outdated snapshots. One
lemma (`StoresInv`) shows this of both writers of the quantity.
Each is proved step by step; the steps of the one part reach the other through the
customers and the stock only. `SchedulesApart` carries the theorems about Schedule over.

**Only model-checked.** Everything temporal beyond safety: `EveryJobSettles`,
`UndoneOrderIsUndone` (a leads-to with a box) and `RowsConverge`. Liveness under
fairness is beyond the prover; `ConvergesWhenLeft` proves what is left of the last
two once the fairness is granted.

**Only proved.** The types of Sender, Inbox and Orders (`SenderTypeCorrect`,
`InboxTypeCorrect`, `OrdersTypeCorrect`), which every larger proof rests on, and
`HandlerExclusive` and `DuplicateOnlyAfterLoss`, which ExclusiveWork and Delivery
imply, `RetryOnlyForTransientFailure` and `OrdersImplementQueue`: the theorems say
more than another invariant of a run would.

## Not modelled

* Rendering of templates, HTTP and JSON, authentication, cryptography, tracked
  links, reports, the dashboard, backups, configuration and the one-shot
  commands: no state that interacts, or read-only queries.
* Of orders: order lines but for the quantity of their variant (Restock),
  `inventory_levels` (written, never read), the amounts of a conversion. Which workflow or campaign matches an order, and what
  `FullyDeliveredAt` answers, are inputs.
* Of segments: products are one; the matching by handle, title and tag, and the
  counts of the excluded.
* Of definitions: parsing, validation, versions and their reloading, the
  negative waits that `ParseWait` accepts, daylight saving, and the last second
  of the quiet hours, in which the sender already sends.
* Of redaction: `redactShop`, and the scrubbing of replies, payloads and links.
  Of reconciliation: the hourly job, its pages and the other resources.
* Timestamps are compared as instants, where the code compares RFC 3339 text:
  two texts disagree with their instants only within one second, or across the
  offsets an operator wrote in an import.
* An opt-out between the sender's read of the customer and its call, and a
  receipt that overtakes the update storing the Meta ID: the code accepts both,
  the second by design (docs/architecture.md:38).
* A job's payload is reduced to its customer, run, campaign and cap. Jobs with
  frequency windows of different length are not modelled: the code counts each
  job's own window back from now.
* Of the external ledger: a failure reported together with a Meta ID, which the
  endpoint accepts and stores.

## Plan

Built, in this order: the queue and its abstract specification, its proofs,
the sender, consent, receipts and the inbox, orders; then the refinements of
the sender, the inbox and the external ledger with their proofs, schedules,
campaigns, restocks and redactions.

What would add most next:

1. *Reconciliation*: the watermark, the hourly key, failing pages and retries,
   so that the fairness assumed in Orders becomes a theorem of a run.
2. *Order lines* and the attribution window, against refunds line by line.
3. *Definitions*: versions, and reloading while runs of an older one are live.
4. The text order of timestamps in Consent.
