-------------------------------- MODULE Inbox --------------------------------
(***************************************************************************)
(* The durable webhook inbox (webhook_events) and the one goroutine that   *)
(* serves it, composed with what its handlers write: the receipts of       *)
(* messages (Receipts) and the consent of a customer (Consent).            *)
(*                                                                         *)
(* The provider redelivers until it gets a 2xx, and may deliver a body     *)
(* twice: the primary key (provider, event_id) makes every delivery after  *)
(* the first a no-op, so a delivery is one action per key.  An event       *)
(* stands for one item of its body; when a later item fails, or the audit  *)
(* after a change, the whole body is retried, so every handler may end     *)
(* with an error after its work.                                           *)
(***************************************************************************)
EXTENDS Naturals, FiniteSets

CONSTANTS
    Events,         \* the keys of webhook_events
    NoEvent,        \* what an idle webhookLoop handles
    MaxTries,       \* 8: the attempts after which an event has failed
    MaxFaults,      \* bound on the crashes and lost updates of a behaviour
    Messages,
    Workers,
    MaxTime

VARIABLES clock, shop, fetched, customer, stopAt, optInAt, synced
VARIABLES known, state, stamped, recorded, retries

VARIABLES
    status,         \* webhook_events.status, "absent" before the first delivery
    content,        \* what the event says
    tries,          \* webhook_events.attempts
    due,            \* events with available_at <= now
    handling,       \* the event webhookLoop has claimed, or NoEvent
    outcome,        \* what its handler has got to, or returned
    up,             \* is the daemon running?
    faults,         \* crashes and lost updates so far
    owed            \* events that stored a STOP, the customer's work not cancelled since

Customer == INSTANCE Consent
Ledger   == INSTANCE Receipts

consentVars == <<clock, shop, fetched, customer, stopAt, optInAt, synced>>
receiptVars == <<known, state, stamped, recorded, retries>>
inboxVars   == <<status, content, tries, due>>
loopVars    == <<handling, outcome>>
vars        == <<consentVars, receiptVars, inboxVars, loopVars, up, faults, owed>>

ASSUME InboxConstants ==
    /\ NoEvent \notin Events
    /\ MaxTries \in Nat \ {0}
    /\ MaxFaults \in Nat
    /\ Customer!ConsentConstants

\* A status callback for a message, a STOP reply, or an event whose handler only
\* writes a job or the audit log.
Contents == {[kind |-> k, message |-> m] : k \in Ledger!Kinds, m \in Messages}
                \cup {[kind |-> k] : k \in {"stop", "enqueue"}}

EventStates == {"absent", "pending", "retry", "processing", "processed", "failed"}
Waiting     == {"pending", "retry"}
Settled     == {"processed", "failed"}

TypeOK ==
    /\ Customer!ConsentTypeOK
    /\ Ledger!ReceiptTypeOK
    /\ status \in [Events -> EventStates]
    /\ \A e \in Events : status[e] # "absent" => content[e] \in Contents
    /\ tries \in [Events -> 0..MaxTries]
    /\ due \subseteq Events
    /\ handling \in Events \cup {NoEvent}
    /\ outcome \in {"start", "stopStored", "done", "error"}
    /\ up \in BOOLEAN
    /\ faults \in 0..MaxFaults
    /\ owed \subseteq Events

Init ==
    /\ Customer!ConsentInit
    /\ Ledger!ReceiptInit
    /\ status = [e \in Events |-> "absent"]
    /\ content = [e \in Events |-> [kind |-> "enqueue"]]
    /\ tries = [e \in Events |-> 0]
    /\ due = {}
    /\ handling = NoEvent
    /\ outcome = "start"
    /\ up = TRUE
    /\ faults = 0
    /\ owed = {}

-----------------------------------------------------------------------------
(* Ingress *)

\* metaWebhook, shopifyWebhook: INSERT ... ON CONFLICT DO NOTHING, then the 2xx.
RecordWebhook(e, item) ==
    /\ up
    /\ status[e] = "absent"
    /\ status' = [status EXCEPT ![e] = "pending"]
    /\ content' = [content EXCEPT ![e] = item]
    /\ due' = due \cup {e}
    /\ UNCHANGED <<tries, loopVars, up, faults, owed, consentVars, receiptVars>>

(* webhookLoop *)

ClaimWebhook(e) ==
    /\ up
    /\ handling = NoEvent
    /\ status[e] \in Waiting
    /\ e \in due
    /\ status' = [status EXCEPT ![e] = "processing"]
    /\ tries' = [tries EXCEPT ![e] = @ + 1]
    /\ handling' = e
    /\ outcome' = "start"
    /\ UNCHANGED <<content, due, up, faults, owed, consentVars, receiptVars>>

Handles(step) == handling # NoEvent /\ outcome = step
Item          == content[handling]

\* recordMetaStatus.  The codes of an undeliverable number and of an opt-out update
\* the customer in the same transaction, when the callback is new.
HandleStatus ==
    /\ Handles("start")
    /\ Item.kind \in Ledger!Kinds
    /\ Ledger!RecordStatus(Item.message, Item.kind)
    /\ IF ~Ledger!Fresh(Item.message, Item.kind) THEN UNCHANGED <<consentVars, owed>>
       ELSE IF Item.kind = "undeliverable" THEN Customer!StoreUndeliverable /\ owed' = {}
       ELSE IF Item.kind = "metaOptOut" THEN Customer!StoreMetaOptOut /\ owed' = {}
       ELSE UNCHANGED <<consentVars, owed>>
    /\ outcome' \in {"done", "error"}
    /\ UNCHANGED <<inboxVars, handling, up, faults>>

\* Mutant of HandleStop: work is cancelled only when the row changes, as in
\* recordMetaStatus.
HandleStopOnce ==
    /\ Handles("start")
    /\ Item.kind = "stop"
    /\ Customer!StoreStop
    /\ owed' = owed \cup {handling}
    /\ outcome' = IF customer.consent = "opted_out" THEN "done" ELSE "stopStored"
    /\ UNCHANGED <<inboxVars, handling, up, faults, receiptVars>>

\* recordInbound: the reply and the customer's row.
HandleStop ==
    /\ Handles("start")
    /\ Item.kind = "stop"
    /\ Customer!StoreStop
    /\ owed' = owed \cup {handling}
    /\ outcome' = "stopStored"
    /\ UNCHANGED <<inboxVars, handling, up, faults, receiptVars>>

\* recordInbound: CancelCustomerWork, whether or not the row was changed just now.
CancelWork ==
    /\ Handles("stopStored")
    /\ owed' = {}
    /\ outcome' \in {"done", "error"}
    /\ UNCHANGED <<inboxVars, handling, up, faults, consentVars, receiptVars>>

\* EnqueueJob or Audit.
HandleOther ==
    /\ Handles("start")
    /\ Item.kind = "enqueue"
    /\ outcome' \in {"done", "error"}
    /\ UNCHANGED <<inboxVars, handling, up, faults, owed, consentVars, receiptVars>>

HandlerFails ==
    /\ Handles("start") \/ Handles("stopStored")
    /\ outcome' = "error"
    /\ UNCHANGED <<inboxVars, handling, up, faults, owed, consentVars, receiptVars>>

Rest == handling' = NoEvent /\ outcome' = "start"

\* Mutant of FinishedState: no state for a retry.
FinishedStateStuck == IF outcome = "done" THEN "processed" ELSE status[handling]

\* FinishWebhook.
FinishedState == IF outcome = "done" THEN "processed"
                 ELSE IF tries[handling] >= MaxTries THEN "failed" ELSE "retry"

FinishWebhook ==
    /\ Handles("done") \/ Handles("error")
    /\ status' = [status EXCEPT ![handling] = FinishedState]
    /\ due' = IF outcome = "error" THEN due \ {handling} ELSE due
    /\ Rest
    /\ UNCHANGED <<content, tries, up, faults, owed, consentVars, receiptVars>>

\* FinishWebhook returns an error, which is logged: the row stays 'processing'.
FinishLost ==
    /\ Handles("done") \/ Handles("error")
    /\ faults < MaxFaults
    /\ faults' = faults + 1
    /\ Rest
    /\ UNCHANGED <<inboxVars, up, owed, consentVars, receiptVars>>

-----------------------------------------------------------------------------
(* Time, crash and the rest of the daemon *)

AvailableAtReached(e) ==
    /\ status[e] = "retry"
    /\ e \notin due
    /\ due' = due \cup {e}
    /\ UNCHANGED <<status, content, tries, loopVars, up, faults, owed,
                   consentVars, receiptVars>>

\* A kill or a SIGTERM, which nothing in main waits for.
Crash ==
    /\ up
    /\ faults < MaxFaults
    /\ up' = FALSE
    /\ faults' = faults + 1
    /\ Rest
    /\ UNCHANGED <<inboxVars, owed, consentVars, receiptVars>>

\* Run recovers stale jobs; nothing looks for events in 'processing'.
Restart ==
    /\ ~up
    /\ up' = TRUE
    /\ UNCHANGED <<inboxVars, loopVars, faults, owed, consentVars, receiptVars>>

OtherWriters ==
    /\ \/ Customer!ConsentStep /\ UNCHANGED receiptVars
       \/ (\E m \in Messages : Ledger!StoreMetaID(m)) /\ UNCHANGED consentVars
    /\ UNCHANGED <<inboxVars, loopVars, up, faults, owed>>

-----------------------------------------------------------------------------
Loop ==
    \/ \E e \in Events : ClaimWebhook(e)
    \/ HandleStatus \/ HandleStop \/ CancelWork \/ HandleOther
    \/ HandlerFails \/ FinishWebhook \/ FinishLost

Next ==
    \/ \E e \in Events, item \in Contents : RecordWebhook(e, item)
    \/ Loop
    \/ \E e \in Events : AvailableAtReached(e)
    \/ Crash
    \/ Restart
    \/ OtherWriters

Spec == Init /\ [][Next]_vars

\* The ticker polls for ever, handlers return, and ORDER BY available_at serves the
\* oldest event first.
Fairness ==
    /\ WF_vars(HandleStatus \/ HandleStop \/ CancelWork \/ HandleOther \/ HandlerFails)
    /\ WF_vars(FinishWebhook)
    /\ \A e \in Events : SF_vars(ClaimWebhook(e)) /\ WF_vars(AvailableAtReached(e))
    /\ WF_vars(Restart)

FairSpec == Spec /\ Fairness

-----------------------------------------------------------------------------
(* Properties *)

\* A STOP whose handler failed between the customer's row and the work, and that
\* was then retried, has still cancelled the work when it counts as processed.
StopProcessedCancelsWork ==
    \A e \in Events : status[e] = "processed" => e \notin owed

\* Without a fault, the event in 'processing' is the one in hand.
ProcessingIsHandled ==
    faults = 0 => \A e \in Events : status[e] = "processing" => handling = e

\* The properties of the ledger, with retried and repeated callbacks.
StateIsBestStatus            == Ledger!StateIsBestStatus
RetryOnlyForTransientFailure == Ledger!RetryOnlyForTransientFailure

\* docs/architecture.md:10, the "durable webhook inbox": an event that has been
\* acknowledged is processed in the end, or has failed MaxTries times.
EveryEventSettles == \A e \in Events : status[e] # "absent" ~> status[e] \in Settled

=============================================================================
