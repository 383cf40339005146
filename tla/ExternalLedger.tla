--------------------------- MODULE ExternalLedger ---------------------------
(***************************************************************************)
(* The rows of outbound_messages for sends made outside the daemon, and    *)
(* the customer that all of them address.  A client of today's API         *)
(* reserves the message, calls Meta, and reports the outcome; the sends of *)
(* an older client are lines of a file, which the operator replays through *)
(* the same endpoint, in any order and as often as wanted.  Clients die,   *)
(* answers are lost, and Meta's callbacks move the same rows.              *)
(*                                                                         *)
(* A transaction has the only connection, so it is one action.             *)
(***************************************************************************)
EXTENDS Consent

CONSTANTS
    Keys,           \* idempotency keys
    Reserving,      \* those whose client reserves first; the others are lines of the file
    Clients,        \* processes that reserve and call Meta
    NoKey,          \* what an idle client sends
    Callbacks,      \* the receipts Meta may send for an accepted message
    Unreliable      \* do clients die, are answers lost, does the daemon go down?

ASSUME LedgerConstants ==
    /\ Reserving \subseteq Keys
    /\ NoKey \notin Keys
    /\ Callbacks \subseteq {"sent", "delivered", "read", "failed", "undeliverable", "metaOptOut"}
    /\ Unreliable \in BOOLEAN

VARIABLES
    row,            \* outbound_messages by idempotency key: state, Meta ID, failure code
    events,         \* message_events
    phoneKnown,     \* is there a customer with this phone_hash?
    due,            \* failure codes of requests that have not called SuppressForMetaFailure yet
    sending,        \* the key a client has reserved
    answer,         \* Meta's answer to it
    lines,          \* the file's records of a key: Meta's answers
    calls,          \* how often Meta was called for a key
    told            \* the outcomes of a key that the daemon has taken

ledgerVars == <<row, events, phoneKnown, due>>
clientVars == <<sending, answer, lines, calls>>
vars == <<consentVars, ledgerVars, clientVars, told>>

Receipt == INSTANCE Receipts WITH
    Messages <- Keys,
    known    <- {k \in Keys : row[k].id},
    state    <- [k \in Keys |-> row[k].state],
    stamped  <- [k \in Keys |-> {}],
    recorded <- events,
    retries  <- {}

\* Meta rejects with a code; "rejected" is any that says nothing of the recipient.
Codes      == {"rejected", "undeliverable", "metaOptOut"}
Answers    == {"accepted"} \cup Codes
NoAnswer   == "none"
RowStates  == {"absent", "queued", "accepted", "failed", "sent", "delivered", "read"}
Absent     == [state |-> "absent", id |-> FALSE, code |-> NoAnswer]

LedgerTypeOK ==
    /\ row \in [Keys -> [state : RowStates, id : BOOLEAN, code : Codes \cup {NoAnswer}]]
    /\ events \in [Keys -> SUBSET Callbacks]
    /\ phoneKnown \in BOOLEAN
    /\ due \subseteq Codes
    /\ sending \in [Clients -> Reserving \cup {NoKey}]
    /\ answer \in [Clients -> Answers \cup {NoAnswer}]
    /\ lines \in [Keys -> SUBSET Answers]
    /\ calls \in [Keys -> Int]
    /\ told \in [Keys -> SUBSET Answers]

TypeOK == ConsentTypeOK /\ LedgerTypeOK

LedgerInit ==
    /\ row = [k \in Keys |-> Absent]
    /\ events = [k \in Keys |-> {}]
    /\ phoneKnown \in BOOLEAN
    /\ due = {}
    /\ sending = [c \in Clients |-> NoKey]
    /\ answer = [c \in Clients |-> NoAnswer]
    /\ lines = [k \in Keys |-> {}]
    /\ calls = [k \in Keys |-> 0]
    /\ told = [k \in Keys |-> {}]

Init == ConsentInit /\ LedgerInit

-----------------------------------------------------------------------------
(* Reservation *)

\* Mutant of Reservable: an attempt whose outcome is unknown is sent again.
ReservableAgain(k) == row[k].state \in {"absent", "queued"} /\ phoneKnown

\* ReserveExternalMessage: a row means AlreadySent or Unreconciled, no customer with
\* the number Unresolved, and the client does not send.
Reservable(k) == row[k].state = "absent" /\ phoneKnown

Reserve(c, k) ==
    /\ sending[c] = NoKey
    /\ Reservable(k)
    /\ row' = [row EXCEPT ![k].state = "queued"]
    /\ sending' = [sending EXCEPT ![c] = k]
    /\ UNCHANGED <<consentVars, events, phoneKnown, due, answer, lines, calls, told>>

CallMeta(c, a) ==
    /\ sending[c] # NoKey
    /\ answer[c] = NoAnswer
    /\ calls' = [calls EXCEPT ![sending[c]] = @ + 1]
    /\ answer' = [answer EXCEPT ![c] = a]
    /\ UNCHANGED <<consentVars, ledgerVars, sending, lines, told>>

\* Before or after the call, or during it; the row stays queued.
ClientDies(c) ==
    /\ Unreliable
    /\ sending[c] # NoKey
    /\ sending' = [sending EXCEPT ![c] = NoKey]
    /\ answer' = [answer EXCEPT ![c] = NoAnswer]
    /\ UNCHANGED <<consentVars, ledgerVars, lines, calls, told>>

-----------------------------------------------------------------------------
(* Recording *)

\* Mutants of Upgrades: a repaired send is upgraded whatever Meta has said of it
\* since; a repaired send is not upgraded.
UpgradesAny(k, a)    == row[k].state = "queued" \/ (row[k].state = "failed" /\ a = "accepted")
UpgradesQueued(k, a) == row[k].state = "queued"

\* The rows that RecordExternalMessage updates in place.
Upgrades(k, a) ==
    \/ row[k].state = "queued"
    \/ row[k].state = "failed" /\ ~row[k].id /\ a = "accepted"

Creates(k) == row[k].state = "absent" /\ phoneKnown

\* A failure comes without a Meta ID.
Outcome(a) == [state |-> IF a = "accepted" THEN "accepted" ELSE "failed",
               id    |-> a = "accepted",
               code  |-> IF a = "accepted" THEN NoAnswer ELSE a]

\* recordExternalMessage: RecordExternalMessage returns the customer's ID only with a
\* row it creates, and without it nothing is suppressed.
RecordExternal(k, a) ==
    /\ row' = IF Creates(k) \/ Upgrades(k, a) THEN [row EXCEPT ![k] = Outcome(a)] ELSE row
    /\ told' = IF row[k].state = "absent" /\ ~phoneKnown THEN told
               ELSE [told EXCEPT ![k] = @ \cup {a}]
    /\ due' = IF Creates(k) /\ a # "accepted" THEN due \cup {a} ELSE due
    /\ UNCHANGED <<events, phoneKnown>>

\* The client forgets the send when it has the daemon's answer, and reports again if not.
Report(c) ==
    /\ answer[c] # NoAnswer
    /\ RecordExternal(sending[c], answer[c])
    /\ \/ /\ sending' = [sending EXCEPT ![c] = NoKey]
          /\ answer' = [answer EXCEPT ![c] = NoAnswer]
       \/ /\ Unreliable
          /\ UNCHANGED <<sending, answer>>
    /\ UNCHANGED <<consentVars, lines, calls>>

\* The older client calls Meta until it accepts, and writes a line each time.
SendUnreserved(k, a) ==
    /\ "accepted" \notin lines[k]
    /\ a \notin lines[k]
    /\ lines' = [lines EXCEPT ![k] = @ \cup {a}]
    /\ calls' = [calls EXCEPT ![k] = @ + 1]
    /\ UNCHANGED <<consentVars, ledgerVars, sending, answer, told>>

\* record_message, at once or in a later run_ledger_sync.
ReplayLine(k, a) ==
    /\ a \in lines[k]
    /\ RecordExternal(k, a)
    /\ UNCHANGED <<consentVars, clientVars>>

\* The second half of the request.
SuppressForMetaFailure(code) ==
    /\ code \in due
    /\ due' = due \ {code}
    /\ IF code = "undeliverable" THEN SuppressUndeliverable
       ELSE IF code = "metaOptOut" THEN SuppressOptOut ELSE UNCHANGED consentVars
    /\ UNCHANGED <<row, events, phoneKnown, clientVars, told>>

\* Its error is logged, or the daemon is down.
SuppressionLost ==
    /\ Unreliable
    /\ due # {}
    /\ due' = {}
    /\ UNCHANGED <<consentVars, row, events, phoneKnown, clientVars, told>>

-----------------------------------------------------------------------------
(* The others *)

\* recordMetaStatus, for a row that has the Meta ID.
Callback(k, s) ==
    /\ row[k].id
    /\ s \notin events[k]
    /\ events' = [events EXCEPT ![k] = @ \cup {s}]
    /\ row' = [row EXCEPT ![k].state = Receipt!NextState(@, Receipt!StatusOf(s)),
                          ![k].code = IF Receipt!StatusOf(s) # "failed" THEN @
                                      ELSE IF s = "failed" THEN "rejected" ELSE s]
    /\ IF s = "undeliverable" THEN StoreUndeliverable
       ELSE IF s = "metaOptOut" THEN StoreMetaOptOut ELSE UNCHANGED consentVars
    /\ UNCHANGED <<phoneKnown, due, clientVars, told>>

\* upsertCustomerTx stores a number that is new or has changed at Shopify, for an order,
\* a webhook of the customer or the job of an import.
PhoneChanges ==
    /\ phoneKnown' = ~phoneKnown
    /\ UNCHANGED <<consentVars, row, events, due, clientVars, told>>

LedgerStep ==
    \/ \E c \in Clients :
        \/ \E k \in Reserving : Reserve(c, k)
        \/ \E a \in Answers : CallMeta(c, a)
        \/ ClientDies(c)
        \/ Report(c)
    \/ \E k \in Keys \ Reserving, a \in Answers : SendUnreserved(k, a)
    \/ \E k \in Keys, a \in Answers : ReplayLine(k, a)
    \/ \E code \in Codes : SuppressForMetaFailure(code)
    \/ SuppressionLost
    \/ \E k \in Keys, s \in Callbacks : Callback(k, s)
    \/ PhoneChanges

Next == LedgerStep \/ (ConsentNext /\ UNCHANGED <<ledgerVars, clientVars, told>>)

Spec == Init /\ [][Next]_vars

-----------------------------------------------------------------------------
(* Properties *)

\* A client that reserves calls Meta at most once for a message, and only for one
\* the ledger knows, whoever dies and whichever answer is lost.
Single == INSTANCE SpendOnce WITH
    Keys      <- Reserving,
    accounted <- {k \in Reserving : row[k].state # "absent"},
    calls     <- [k \in Reserving |-> calls[k]]

ReservedSpendsOnce == Single!Spec

\* A row tells the best outcome the daemon has been told: with an acceptance it has
\* the Meta ID, so that callbacks find it, and a failure only if nothing better came.
RowTellsOutcome ==
    \A k \in Keys :
        /\ row[k].id <=> "accepted" \in told[k]
        /\ row[k].state = "failed" /\ ~row[k].id => row[k].code \in told[k]
        /\ row[k].state \in {"absent", "queued"} <=> told[k] = {}

\* Replaying the file, a late report or a retried one never takes a Meta ID away and
\* never sets a row back behind a receipt of Meta.
ReplayUndoesNothing ==
    [][\A k \in Keys : row[k].id =>
            /\ row'[k].id
            /\ Receipt!Rank[row[k].state] <= Receipt!Rank[row'[k].state]]_vars

\* store/external.go:201-204, "a recipient Meta reports as opted out or undeliverable
\* must stop receiving from every path": once a row says undeliverable, and no request
\* is under way, the customer is marked.
UndeliverableIsMarked ==
    \A k \in Keys :
        row[k].code = "undeliverable" => customer.invalid \/ "undeliverable" \in due

=============================================================================
