----------------------------- MODULE InboxProofs -----------------------------
(***************************************************************************)
(* The inbox and the ledger for any number of events and messages, any     *)
(* number of tries and faults, and whatever the other writers do.          *)
(***************************************************************************)
EXTENDS Inbox, TLAPS

ConsentFacts == INSTANCE ConsentProofs

USE InboxConstants DEF InboxConstants

-----------------------------------------------------------------------------
(* The ledger *)

LedgerInv == Ledger!ReceiptTypeOK /\ StateIsBestStatus /\ RetryOnlyForTransientFailure

\* A fingerprint adds exactly its own status to those of its message.
LEMMA StatusesGrow ==
    ASSUME NEW S, NEW k
    PROVE  {Ledger!StatusOf(x) : x \in S \cup {k}}
             = {Ledger!StatusOf(x) : x \in S} \cup {Ledger!StatusOf(k)}
OBVIOUS

\* The update never lowers the rank of the state, and reaches that of the callback.
LEMMA NextStateIsHighest ==
    ASSUME NEW old \in Ledger!Statuses \cup {"accepted"}, NEW s \in Ledger!Statuses
    PROVE  LET new == Ledger!NextState(old, s) IN
           /\ new \in {old, s}
           /\ Ledger!Rank[old] <= Ledger!Rank[new]
           /\ Ledger!Rank[s] <= Ledger!Rank[new]
           /\ Ledger!Rank[old] \in Nat /\ Ledger!Rank[s] \in Nat /\ Ledger!Rank[new] \in Nat
BY DEF Ledger!Statuses, Ledger!NextState, Ledger!Outranks, Ledger!Rank

\* Any callback, whether it is the first, the last, or a repetition.
LEMMA RecordStatusInv ==
    ASSUME LedgerInv, NEW m \in Messages, NEW k \in Ledger!Kinds, Ledger!RecordStatus(m, k)
    PROVE  LedgerInv'
<1> DEFINE s == Ledger!StatusOf(k)
<1>1. s \in Ledger!Statuses
  BY DEF Ledger!StatusOf, Ledger!Kinds, Ledger!Permanent, Ledger!Statuses
<1>2. CASE ~Ledger!Fresh(m, k)
  BY <1>2 DEF LedgerInv, Ledger!RecordStatus, Ledger!ReceiptTypeOK, StateIsBestStatus,
              Ledger!StateIsBestStatus, Ledger!StatusesOf, RetryOnlyForTransientFailure,
              Ledger!RetryOnlyForTransientFailure
<1>3. CASE Ledger!Fresh(m, k)
  <2>1. /\ recorded' = [recorded EXCEPT ![m] = @ \cup {k}]
        /\ stamped' = [stamped EXCEPT ![m] = @ \cup {s}]
        /\ state' = [state EXCEPT ![m] = Ledger!NextState(@, s)]
        /\ retries' = (IF k = "failed" THEN retries \cup {m} ELSE retries)
        /\ known' = known
    BY <1>3 DEF Ledger!RecordStatus
  <2>2. Ledger!ReceiptTypeOK /\ Ledger!StateIsBestStatus /\ Ledger!RetryOnlyForTransientFailure
    BY DEF LedgerInv, StateIsBestStatus, RetryOnlyForTransientFailure
  <2> HIDE DEF s
  <2>3. state[m] \in Ledger!Statuses \cup {"accepted"}
    BY <2>2 DEF Ledger!ReceiptTypeOK
  <2>4. /\ state'[m] = Ledger!NextState(state[m], s)
        /\ \A n \in Messages : n # m => /\ state'[n] = state[n]
                                        /\ stamped'[n] = stamped[n]
                                        /\ recorded'[n] = recorded[n]
        /\ stamped'[m] = stamped[m] \cup {s}
        /\ recorded'[m] = recorded[m] \cup {k}
    BY <2>1, <2>2 DEF Ledger!ReceiptTypeOK
  <2>5. /\ state'[m] \in {state[m], s}
        /\ Ledger!Rank[state[m]] <= Ledger!Rank[state'[m]]
        /\ Ledger!Rank[s] <= Ledger!Rank[state'[m]]
        /\ Ledger!Rank[state[m]] \in Nat /\ Ledger!Rank[s] \in Nat /\ Ledger!Rank[state'[m]] \in Nat
    BY <1>1, <2>3, <2>4, NextStateIsHighest
  <2>6. Ledger!ReceiptTypeOK'
    <3>1. state' \in [Messages -> Ledger!Statuses \cup {"accepted"}]
      BY <1>1, <2>1, <2>2, <2>3, <2>4, <2>5 DEF Ledger!ReceiptTypeOK
    <3>2. QED BY <1>1, <2>1, <2>2, <3>1 DEF Ledger!ReceiptTypeOK
  <2>7. StateIsBestStatus'
    <3>1. Ledger!StatusesOf(m)' = Ledger!StatusesOf(m) \cup {s}
      BY <2>4, StatusesGrow DEF Ledger!StatusesOf, s
    <3>2. \A n \in Messages : n # m => Ledger!StatusesOf(n)' = Ledger!StatusesOf(n)
      BY <2>4 DEF Ledger!StatusesOf
    <3>3. \A t \in Ledger!StatusesOf(m) : t \in Ledger!Statuses
      BY <2>2 DEF Ledger!StateIsBestStatus, Ledger!ReceiptTypeOK
    <3>4. \A t \in Ledger!Statuses : Ledger!Rank[t] \in Nat
      BY DEF Ledger!Statuses, Ledger!Rank
    <3>5. /\ stamped'[m] = Ledger!StatusesOf(m)'
          /\ state'[m] \in Ledger!StatusesOf(m)' \cup {"accepted"}
      BY <2>2, <2>4, <2>5, <3>1 DEF Ledger!StateIsBestStatus
    <3>6. \A t \in Ledger!StatusesOf(m)' : Ledger!Rank[t] <= Ledger!Rank[state'[m]]
      BY <2>2, <2>5, <3>1, <3>3, <3>4 DEF Ledger!StateIsBestStatus
    <3>7. Ledger!Rank' = Ledger!Rank
      BY DEF Ledger!Rank
    <3>8. QED
      BY <2>2, <2>4, <3>2, <3>5, <3>6, <3>7 DEF StateIsBestStatus, Ledger!StateIsBestStatus
  <2>8. RetryOnlyForTransientFailure'
    BY <2>1, <2>2, <2>4 DEF RetryOnlyForTransientFailure, Ledger!RetryOnlyForTransientFailure,
                            Ledger!ReceiptTypeOK
  <2>9. QED BY <2>6, <2>7, <2>8 DEF LedgerInv
<1>4. QED BY <1>2, <1>3

\* Steps that leave the ledger alone, or make one more message known.
LEMMA LedgerFrame ==
    ASSUME LedgerInv, UNCHANGED <<state, stamped, recorded, retries>>,
           known' = known \/ \E m \in Messages : known' = known \cup {m}
    PROVE  LedgerInv'
BY DEF LedgerInv, Ledger!ReceiptTypeOK, StateIsBestStatus, Ledger!StateIsBestStatus,
       Ledger!StatusesOf, RetryOnlyForTransientFailure, Ledger!RetryOnlyForTransientFailure

-----------------------------------------------------------------------------
(* The inbox *)

EventTypes ==
    /\ status \in [Events -> EventStates]
    /\ content \in [Events -> Contents]
    /\ handling \in Events \cup {NoEvent}
    /\ owed \subseteq Events
    /\ faults \in Nat

\* The event in hand is leased, and owes nothing once its handler has succeeded.
HandledIsLeased ==
    handling # NoEvent => /\ status[handling] = "processing"
                          /\ outcome = "done" => handling \notin owed

\* Only a STOP reply that has arrived owes a cancellation.
OwedAreStops == \A e \in owed : status[e] # "absent" /\ content[e].kind = "stop"

InboxInv ==
    /\ LedgerInv
    /\ EventTypes
    /\ HandledIsLeased
    /\ OwedAreStops
    /\ StopProcessedCancelsWork
    /\ ProcessingIsHandled

LEMMA LoopInv == ASSUME InboxInv, Loop PROVE InboxInv'
<1> USE DEF EventTypes, HandledIsLeased, OwedAreStops, StopProcessedCancelsWork,
            ProcessingIsHandled, EventStates
<1> DEFINE Rest1 == EventTypes /\ HandledIsLeased /\ OwedAreStops /\ StopProcessedCancelsWork
                       /\ ProcessingIsHandled
<1>0. LedgerInv /\ Rest1
  BY DEF InboxInv
<1>1. ASSUME NEW e \in Events, ClaimWebhook(e) PROVE InboxInv'
  <2>1. LedgerInv' BY <1>0, <1>1, LedgerFrame DEF ClaimWebhook, receiptVars
  <2>2. Rest1' BY <1>0, <1>1 DEF ClaimWebhook, Waiting
  <2>3. QED BY <2>1, <2>2 DEF InboxInv
<1>2. CASE HandleStatus
  <2>1. Item \in Contents
    BY <1>0, <1>2 DEF HandleStatus, Handles, Item
  <2>2. Item.message \in Messages /\ Item.kind # "stop"
    BY <1>2, <2>1 DEF HandleStatus, Contents, Ledger!Kinds, Ledger!Statuses, Ledger!Permanent
  <2>3. LedgerInv'
    BY <1>0, <1>2, <2>2, RecordStatusInv DEF HandleStatus
  <2>4. owed' \subseteq owed /\ handling \notin owed
    BY <1>0, <1>2, <2>2 DEF HandleStatus, Item
  <2>5. Rest1'
    BY <1>0, <1>2, <2>4 DEF HandleStatus, inboxVars
  <2>6. QED BY <2>3, <2>5 DEF InboxInv
<1>3. CASE HandleStop
  <2>1. LedgerInv' BY <1>0, <1>3, LedgerFrame DEF HandleStop, receiptVars
  <2>2. Rest1' BY <1>0, <1>3 DEF HandleStop, Handles, Item, inboxVars
  <2>3. QED BY <2>1, <2>2 DEF InboxInv
<1>4. CASE CancelWork
  <2>1. LedgerInv' BY <1>0, <1>4, LedgerFrame DEF CancelWork, receiptVars
  <2>2. Rest1' BY <1>0, <1>4 DEF CancelWork, inboxVars
  <2>3. QED BY <2>1, <2>2 DEF InboxInv
<1>5. CASE HandleOther
  <2>1. LedgerInv' BY <1>0, <1>5, LedgerFrame DEF HandleOther, receiptVars
  <2>2. Rest1' BY <1>0, <1>5 DEF HandleOther, Handles, Item, inboxVars
  <2>3. QED BY <2>1, <2>2 DEF InboxInv
<1>6. CASE HandlerFails
  <2>1. LedgerInv' BY <1>0, <1>6, LedgerFrame DEF HandlerFails, receiptVars
  <2>2. Rest1' BY <1>0, <1>6 DEF HandlerFails, inboxVars
  <2>3. QED BY <2>1, <2>2 DEF InboxInv
<1>7. CASE FinishWebhook
  <2>1. LedgerInv' BY <1>0, <1>7, LedgerFrame DEF FinishWebhook, receiptVars
  <2>2. FinishedState \in {"processed", "failed", "retry"}
        /\ (FinishedState = "processed" => outcome = "done")
    BY DEF FinishedState
  <2>3. Rest1' BY <1>0, <1>7, <2>2 DEF FinishWebhook, Handles, Rest
  <2>4. QED BY <2>1, <2>3 DEF InboxInv
<1>8. CASE FinishLost
  <2>1. LedgerInv' BY <1>0, <1>8, LedgerFrame DEF FinishLost, receiptVars
  <2>2. faults' \in Nat \ {0}
    BY <1>0, <1>8 DEF FinishLost
  <2>3. Rest1' BY <1>0, <1>8, <2>2 DEF FinishLost, Rest, inboxVars
  <2>4. QED BY <2>1, <2>3 DEF InboxInv
<1>9. QED
  BY <1>1, <1>2, <1>3, <1>4, <1>5, <1>6, <1>7, <1>8 DEF Loop

\* What ingress, the clock, a crash and the other writers do, which is nothing to an
\* event that has arrived.
LEMMA OutsideInv ==
    ASSUME InboxInv,
           \/ \E e \in Events, item \in Contents : RecordWebhook(e, item)
           \/ \E e \in Events : AvailableAtReached(e)
           \/ Crash \/ Restart \/ OtherWriters
    PROVE  InboxInv'
<1> USE DEF EventTypes, HandledIsLeased, OwedAreStops, StopProcessedCancelsWork,
            ProcessingIsHandled, EventStates
<1> DEFINE Rest1 == EventTypes /\ HandledIsLeased /\ OwedAreStops /\ StopProcessedCancelsWork
                       /\ ProcessingIsHandled
<1>0. LedgerInv /\ Rest1
  BY DEF InboxInv
<1>1. ASSUME NEW e \in Events, NEW item \in Contents, RecordWebhook(e, item) PROVE InboxInv'
  <2>1. LedgerInv' BY <1>0, <1>1, LedgerFrame DEF RecordWebhook, receiptVars
  <2>2. Rest1' BY <1>0, <1>1 DEF RecordWebhook, loopVars
  <2>3. QED BY <2>1, <2>2 DEF InboxInv
<1>2. ASSUME NEW e \in Events, AvailableAtReached(e) PROVE InboxInv'
  <2>1. LedgerInv' BY <1>0, <1>2, LedgerFrame DEF AvailableAtReached, receiptVars
  <2>2. Rest1' BY <1>0, <1>2 DEF AvailableAtReached, loopVars
  <2>3. QED BY <2>1, <2>2 DEF InboxInv
<1>3. CASE Crash
  <2>1. LedgerInv' BY <1>0, <1>3, LedgerFrame DEF Crash, receiptVars
  <2>2. faults' \in Nat \ {0}
    BY <1>0, <1>3 DEF Crash
  <2>3. Rest1' BY <1>0, <1>3, <2>2 DEF Crash, Rest, inboxVars
  <2>4. QED BY <2>1, <2>3 DEF InboxInv
<1>4. CASE Restart
  <2>1. LedgerInv' BY <1>0, <1>4, LedgerFrame DEF Restart, receiptVars
  <2>2. Rest1' BY <1>0, <1>4 DEF Restart, inboxVars, loopVars
  <2>3. QED BY <2>1, <2>2 DEF InboxInv
<1>5. CASE OtherWriters
  <2>1. LedgerInv'
    <3>1. CASE UNCHANGED receiptVars
      BY <1>0, <3>1, LedgerFrame DEF receiptVars
    <3>2. CASE \E m \in Messages : Ledger!StoreMetaID(m)
      BY <1>0, <3>2, LedgerFrame DEF Ledger!StoreMetaID
    <3>3. QED BY <1>5, <3>1, <3>2 DEF OtherWriters
  <2>2. Rest1' BY <1>0, <1>5 DEF OtherWriters, inboxVars, loopVars
  <2>3. QED BY <2>1, <2>2 DEF InboxInv
<1>6. QED
  BY <1>1, <1>2, <1>3, <1>4, <1>5

-----------------------------------------------------------------------------
(* The theorems *)

\* The invariant that carries all four properties.
THEOREM InboxInvariant == Spec => []InboxInv
<1>1. Init => InboxInv
  <2> SUFFICES ASSUME Init PROVE InboxInv
    OBVIOUS
  <2>1. LedgerInv
    BY DEF Init, Ledger!ReceiptInit, LedgerInv, Ledger!ReceiptTypeOK, StateIsBestStatus,
           Ledger!StateIsBestStatus, Ledger!StatusesOf, RetryOnlyForTransientFailure,
           Ledger!RetryOnlyForTransientFailure
  <2>2. QED
    BY <2>1 DEF Init, InboxInv, EventTypes, HandledIsLeased, OwedAreStops,
                StopProcessedCancelsWork, ProcessingIsHandled, EventStates, Contents
<1>2. InboxInv /\ [Next]_vars => InboxInv'
  <2>1. ASSUME InboxInv, UNCHANGED vars PROVE InboxInv'
    <3>1. LedgerInv'
      BY <2>1, LedgerFrame DEF InboxInv, vars, receiptVars
    <3>2. QED
      BY <2>1, <3>1 DEF InboxInv, vars, inboxVars, loopVars, EventTypes, HandledIsLeased,
                        OwedAreStops, StopProcessedCancelsWork, ProcessingIsHandled
  <2>2. QED BY <2>1, LoopInv, OutsideInv DEF Next
<1>3. QED BY <1>1, <1>2, PTL DEF Spec

\* A STOP counts as processed only when the customer's work has been cancelled after
\* the row was written, however often recordInbound failed half way and was retried.
THEOREM ProcessedStopsAreComplete == Spec => []StopProcessedCancelsWork
<1>1. InboxInv => StopProcessedCancelsWork
  BY DEF InboxInv
<1>2. QED BY <1>1, InboxInvariant, PTL

\* Without a crash or a failing FinishWebhook no event is left in 'processing'.
THEOREM NoEventIsLeftBehind == Spec => []ProcessingIsHandled
<1>1. InboxInv => ProcessingIsHandled
  BY DEF InboxInv
<1>2. QED BY <1>1, InboxInvariant, PTL

\* recordMetaStatus makes the state of a message independent of the order, and the
\* repetition, of its callbacks.
THEOREM CallbackOrderIsIrrelevant == Spec => []StateIsBestStatus
<1>1. InboxInv => StateIsBestStatus
  BY DEF InboxInv, LedgerInv
<1>2. QED BY <1>1, InboxInvariant, PTL

\* A delivery retry exists exactly after a failure that is not permanent.
THEOREM RetriesAreJustified == Spec => []RetryOnlyForTransientFailure
<1>1. InboxInv => RetryOnlyForTransientFailure
  BY DEF InboxInv, LedgerInv
<1>2. QED BY <1>1, InboxInvariant, PTL

-----------------------------------------------------------------------------
(* The customer's row *)

\* Handlers and everybody else write the row by the statements of Consent only.
LEMMA ConsentStepRefines ==
    ASSUME [Next]_vars
    PROVE  Customer!ConsentNext \/ UNCHANGED consentVars
<1> USE DEF Customer!ConsentNext, Customer!WebhookStep
<1>1. ASSUME Loop PROVE Customer!ConsentNext \/ UNCHANGED consentVars
  <2>1. CASE HandleStatus
    BY <2>1 DEF HandleStatus
  <2>2. CASE HandleStop \/ CancelWork \/ HandleOther \/ HandlerFails
    BY <2>2 DEF HandleStop, CancelWork, HandleOther, HandlerFails
  <2>3. CASE FinishWebhook \/ FinishLost \/ \E e \in Events : ClaimWebhook(e)
    BY <2>3 DEF FinishWebhook, FinishLost, ClaimWebhook
  <2>4. QED BY <1>1, <2>1, <2>2, <2>3 DEF Loop
<1>2. CASE OtherWriters
  BY <1>2 DEF OtherWriters
<1>3. CASE Crash \/ Restart \/ (\E e \in Events : AvailableAtReached(e))
             \/ \E e \in Events, item \in Contents : RecordWebhook(e, item)
  BY <1>3 DEF Crash, Restart, AvailableAtReached, RecordWebhook
<1>4. CASE UNCHANGED vars
  BY <1>4 DEF vars
<1>5. QED BY <1>1, <1>2, <1>3, <1>4 DEF Next

\* The tuple of Consent is the one the inbox names.
LEMMA ConsentVarsUnchanged == UNCHANGED consentVars => UNCHANGED Customer!consentVars
BY DEF consentVars, Customer!consentVars

\* The inbox implements Consent: what is proved of the row for any writers holds with
\* the loop as one of them.
THEOREM InboxImplementsConsent == Spec => Customer!ConsentSpec
<1>1. Init => Customer!ConsentInit
  BY DEF Init
<1>2. [Next]_vars => [Customer!ConsentNext]_(Customer!consentVars)
  BY ConsentStepRefines, ConsentVarsUnchanged
<1>3. QED BY <1>1, <1>2, PTL DEF Spec, Customer!ConsentSpec

\* What ConsentProofs proves is about the same row.
LEMMA ConsentIsConsent ==
    /\ Customer!ConsentConstants = ConsentFacts!ConsentConstants
    /\ Customer!ConsentInit = ConsentFacts!ConsentInit
    /\ [Customer!ConsentNext]_(Customer!consentVars) => [ConsentFacts!ConsentNext]_(ConsentFacts!consentVars)
    /\ ConsentFacts!ConsentInv => Customer!ConsentTypeOK
<1> USE DEF Customer!Never, ConsentFacts!Never, Customer!Consents, ConsentFacts!Consents,
            Customer!Statement, ConsentFacts!Statement, Customer!Nothing, ConsentFacts!Nothing,
            Customer!NotFetched, ConsentFacts!NotFetched, Customer!Native, ConsentFacts!Native
<1>1. Customer!ConsentConstants = ConsentFacts!ConsentConstants
  BY DEF Customer!ConsentConstants, ConsentFacts!ConsentConstants
<1>2. Customer!ConsentInit = ConsentFacts!ConsentInit
  BY DEF Customer!ConsentInit, ConsentFacts!ConsentInit
<1>3. [Customer!ConsentNext]_(Customer!consentVars) => [ConsentFacts!ConsentNext]_(ConsentFacts!consentVars)
  BY DEF Customer!consentVars, ConsentFacts!consentVars, Customer!ConsentNext, ConsentFacts!ConsentNext,
         Customer!ConsentStep, ConsentFacts!ConsentStep, Customer!WebhookStep, ConsentFacts!WebhookStep,
         Customer!Tick, ConsentFacts!Tick, Customer!ShopifyChanges, ConsentFacts!ShopifyChanges,
         Customer!Fetch, ConsentFacts!Fetch, Customer!FetchLost, ConsentFacts!FetchLost,
         Customer!UpsertCustomer, ConsentFacts!UpsertCustomer, Customer!Stamped, ConsentFacts!Stamped,
         Customer!Older, ConsentFacts!Older, Customer!ImportConsent, ConsentFacts!ImportConsent,
         Customer!OptOut, ConsentFacts!OptOut, Customer!StoreStop, ConsentFacts!StoreStop,
         Customer!StoreMetaOptOut, ConsentFacts!StoreMetaOptOut,
         Customer!StoreUndeliverable, ConsentFacts!StoreUndeliverable,
         Customer!SuppressOptOut, ConsentFacts!SuppressOptOut,
         Customer!SuppressUndeliverable, ConsentFacts!SuppressUndeliverable
<1>4. ConsentFacts!ConsentInv => Customer!ConsentTypeOK
  BY DEF ConsentFacts!ConsentInv, ConsentFacts!ConsentTypeOK, Customer!ConsentTypeOK
<1>5. QED BY <1>1, <1>2, <1>3, <1>4

-----------------------------------------------------------------------------
(* Types *)

\* An event that may be claimed again has a try left.
TryLeft ==
    \A e \in Events : status[e] \in Waiting \cup {"absent"} => tries[e] < MaxTries

LoopTypes ==
    /\ tries \in [Events -> 0..MaxTries]
    /\ due \subseteq Events
    /\ outcome \in {"start", "stopStored", "done", "error"}
    /\ up \in BOOLEAN
    /\ faults \in 0..MaxFaults
    /\ TryLeft

\* The counters and flags of the loop.
LEMMA LoopTypesStep ==
    ASSUME InboxInv, LoopTypes, [Next]_vars
    PROVE  LoopTypes'
<1> USE DEF LoopTypes, TryLeft, Waiting, InboxInv, EventTypes, EventStates, inboxVars, loopVars
<1>1. ASSUME NEW e \in Events, ClaimWebhook(e) PROVE LoopTypes'
  BY <1>1 DEF ClaimWebhook
<1>2. CASE HandleStatus
  BY <1>2 DEF HandleStatus
<1>3. CASE HandleStop \/ CancelWork \/ HandleOther \/ HandlerFails
  BY <1>3 DEF HandleStop, CancelWork, HandleOther, HandlerFails
<1>4. CASE FinishWebhook
  <2>1. handling \in Events /\ FinishedState \in {"processed", "failed", "retry"}
        /\ (FinishedState = "retry" => tries[handling] < MaxTries)
    BY <1>4 DEF FinishWebhook, Handles, FinishedState
  <2>2. QED BY <1>4, <2>1 DEF FinishWebhook, Rest
<1>5. CASE FinishLost \/ Crash
  <2>1. faults' \in 0..MaxFaults
    BY <1>5 DEF FinishLost, Crash
  <2>2. /\ UNCHANGED <<tries, due, status>>
        /\ outcome' = "start" /\ up' \in BOOLEAN
    BY <1>5 DEF FinishLost, Crash, Rest
  <2>3. QED BY <2>1, <2>2
<1>6. CASE Restart \/ OtherWriters
  BY <1>6 DEF Restart, OtherWriters
<1>7. ASSUME NEW e \in Events, AvailableAtReached(e) PROVE LoopTypes'
  BY <1>7 DEF AvailableAtReached
<1>8. ASSUME NEW e \in Events, NEW item \in Contents, RecordWebhook(e, item) PROVE LoopTypes'
  BY <1>8 DEF RecordWebhook
<1>9. CASE UNCHANGED vars
  BY <1>9 DEF vars
<1>10. QED
  BY <1>1, <1>2, <1>3, <1>4, <1>5, <1>6, <1>7, <1>8, <1>9 DEF Next, Loop

\* The types of the inbox, of the ledger and of the customer's row; no event is tried
\* more than MaxTries times.
THEOREM InboxTypeCorrect == Spec => []TypeOK
<1>1. ConsentFacts!ConsentSpec => []ConsentFacts!ConsentInv
  BY ConsentIsConsent, ConsentFacts!ConsentInvariant
<1>2. Spec => []Customer!ConsentTypeOK
  <2>1. Customer!ConsentInit => ConsentFacts!ConsentInit
    BY ConsentIsConsent
  <2>2. [Customer!ConsentNext]_(Customer!consentVars) => [ConsentFacts!ConsentNext]_(ConsentFacts!consentVars)
    BY ConsentIsConsent
  <2>3. ConsentFacts!ConsentInv => Customer!ConsentTypeOK
    BY ConsentIsConsent
  <2>4. QED
    BY <1>1, <2>1, <2>2, <2>3, InboxImplementsConsent, PTL
       DEF Customer!ConsentSpec, ConsentFacts!ConsentSpec
<1>3. Init => LoopTypes
  BY DEF Init, LoopTypes, TryLeft
<1>4. LoopTypes /\ InboxInv /\ [Next]_vars => LoopTypes'
  BY LoopTypesStep
<1>5. Customer!ConsentTypeOK /\ InboxInv /\ LoopTypes => TypeOK
  BY DEF InboxInv, LedgerInv, EventTypes, LoopTypes, TypeOK
<1>6. QED BY <1>2, <1>3, <1>4, <1>5, InboxInvariant, PTL DEF Spec

=============================================================================
