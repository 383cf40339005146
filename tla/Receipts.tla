------------------------------ MODULE Receipts ------------------------------
(***************************************************************************)
(* recordMetaStatus on the rows of outbound_messages: status callbacks of  *)
(* Meta arrive late, twice and in any order.  A callback's fingerprint in  *)
(* message_events is its message, status and timestamp.  A kind of receipt *)
(* stands for it: callbacks of one status and error code have one          *)
(* timestamp here, and failures with different codes different ones.       *)
(*                                                                         *)
(* The messages are first sends of a campaign: others have no delivery     *)
(* retry.                                                                  *)
(***************************************************************************)
EXTENDS Naturals

CONSTANTS Messages

VARIABLES
    known,      \* messages whose Meta ID is stored
    state,      \* outbound_messages.state of a message whose Meta ID is stored
    stamped,    \* the status columns (sent_at, ...) that are set
    recorded,   \* message_events
    retries     \* messages with a delivery retry in scheduled_jobs

receiptVars == <<known, state, stamped, recorded, retries>>

Statuses == {"sent", "delivered", "read", "failed"}
Permanent == {"undeliverable", "metaOptOut"}        \* failed, with code 131026 or 131050
Kinds == Statuses \cup Permanent
StatusOf(k) == IF k \in Permanent THEN "failed" ELSE k

ReceiptTypeOK ==
    /\ known \subseteq Messages
    /\ state \in [Messages -> Statuses \cup {"accepted"}]
    /\ stamped \in [Messages -> SUBSET Statuses]
    /\ recorded \in [Messages -> SUBSET Kinds]
    /\ retries \subseteq Messages

ReceiptInit ==
    /\ known = {}
    /\ state = [m \in Messages |-> "accepted"]
    /\ stamped = [m \in Messages |-> {}]
    /\ recorded = [m \in Messages |-> {}]
    /\ retries = {}

\* The CASE expressions of the UPDATE: what a status leaves in place.
Outranks == [sent      |-> {"delivered", "read"},
             delivered |-> {"read"},
             read      |-> {},
             failed    |-> {"sent", "delivered", "read"}]

\* Mutant of NextState: the last callback wins.
LastState(old, status) == status

NextState(old, status) == IF old \in Outranks[status] THEN old ELSE status

\* sendWhatsApp stores the Meta ID: from here on callbacks find the message.
StoreMetaID(m) ==
    /\ m \notin known
    /\ known' = known \cup {m}
    /\ UNCHANGED <<state, stamped, recorded, retries>>

\* recordMetaStatus: a callback for an unknown ID is dropped, a fingerprint that is
\* recorded changes nothing; otherwise one transaction writes event, columns, state
\* and, unless the failure is permanent, the delivery retry.
Fresh(m, k) == m \in known /\ k \notin recorded[m]

RecordStatus(m, k) ==
    /\ IF Fresh(m, k)
       THEN /\ recorded' = [recorded EXCEPT ![m] = @ \cup {k}]
            /\ stamped' = [stamped EXCEPT ![m] = @ \cup {StatusOf(k)}]
            /\ state' = [state EXCEPT ![m] = NextState(@, StatusOf(k))]
            /\ retries' = IF k = "failed" THEN retries \cup {m} ELSE retries
       ELSE UNCHANGED <<recorded, stamped, state, retries>>
    /\ UNCHANGED known

-----------------------------------------------------------------------------
(* Properties *)

Rank == [accepted |-> 0, failed |-> 1, sent |-> 2, delivered |-> 3, read |-> 4]

StatusesOf(m) == {StatusOf(k) : k \in recorded[m]}

\* Whatever the order of the callbacks, the state is the highest-ranking status
\* recorded, and every recorded status has its timestamp.
StateIsBestStatus ==
    \A m \in Messages :
        /\ stamped[m] = StatusesOf(m)
        /\ state[m] \in StatusesOf(m) \cup {"accepted"}
        /\ \A s \in StatusesOf(m) : Rank[s] <= Rank[state[m]]

\* A delivery retry exists exactly for the messages with a recorded failure that is
\* not permanent: never for one that Meta only rejected for good.
RetryOnlyForTransientFailure ==
    \A m \in Messages : m \in retries <=> "failed" \in recorded[m]

=============================================================================
