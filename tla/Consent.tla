------------------------------- MODULE Consent -------------------------------
(***************************************************************************)
(* One row of customers: the consent and suppression columns, and all who  *)
(* write them.  Shopify's snapshots of the customer are fetched by the     *)
(* workers and applied later, so they may arrive in any order; a STOP      *)
(* reply, Meta's error codes and the operator's import write in between.   *)
(*                                                                         *)
(* The row exists: a writer that would create it finds one whose consent   *)
(* is 'unknown', which it treats alike.                                    *)
(***************************************************************************)
EXTENDS Integers

CONSTANTS Workers,      \* the goroutines running jobLoop
          MaxTime       \* bound on the clock

ASSUME ConsentConstants == MaxTime \in Nat

VARIABLES
    clock,      \* now
    shop,       \* the customer's statement at Shopify
    fetched,    \* the statement a worker fetched and has not applied, or NotFetched
    customer,   \* whatsapp_consent, consent_updated_at, suppressed_at, invalid_number
    stopAt,     \* when the last STOP reply was stored
    optInAt,    \* when the customer last opted in, at Shopify or by an import
    synced      \* was Shopify's present native statement applied, with nobody writing since?

consentVars == <<clock, shop, fetched, customer, stopAt, optInAt, synced>>

Never    == -1          \* SQL NULL
Consents == {"unknown", "not_opted_in", "opted_in", "opted_out"}

\* A native consent state has Shopify's timestamp.  It may lack one; or the customer's
\* tags speak, or nothing does ("unknown"): then at is Never.
Statement == [consent : Consents, at : Never..MaxTime]
Nothing   == [consent |-> "unknown", at |-> Never]
NotFetched == [consent |-> "none", at |-> Never]
Native(s) == s.at # Never

ConsentTypeOK ==
    /\ clock \in 0..MaxTime
    /\ shop \in Statement
    /\ fetched \in [Workers -> Statement \cup {NotFetched}]
    /\ customer \in [consent : Consents, at : Never..MaxTime, suppressed : BOOLEAN, invalid : BOOLEAN]
    /\ stopAt \in Never..MaxTime
    /\ optInAt \in Never..MaxTime
    /\ synced \in BOOLEAN

ConsentInit ==
    /\ clock = 0
    /\ shop = Nothing
    /\ fetched = [w \in Workers |-> NotFetched]
    /\ customer = [consent |-> "unknown", at |-> Never, suppressed |-> FALSE, invalid |-> FALSE]
    /\ stopAt = Never
    /\ optInAt = Never
    /\ synced = FALSE

Tick ==
    /\ clock < MaxTime
    /\ clock' = clock + 1
    /\ UNCHANGED <<shop, fetched, customer, stopAt, optInAt, synced>>

\* The customer changes the native state, at an instant of its own or without one, or
\* somebody edits the tags, which replace the native state or go with it.
ShopifyChanges ==
    /\ \/ /\ clock < MaxTime
          /\ clock' = clock + 1
          /\ \E c \in Consents \ {"unknown"} : shop' = [consent |-> c, at |-> clock']
       \/ /\ clock' = clock
          /\ \E c \in Consents : shop' = [consent |-> c, at |-> Never]
    /\ optInAt' = IF shop'.consent = "opted_in" THEN clock' ELSE optInAt
    /\ synced' = FALSE
    /\ UNCHANGED <<fetched, customer, stopAt>>

\* OrderByID, CustomerByID or a page of a reconciliation.
Fetch(w) ==
    /\ fetched[w] = NotFetched
    /\ fetched' = [fetched EXCEPT ![w] = shop]
    /\ UNCHANGED <<clock, shop, customer, stopAt, optInAt, synced>>

\* consentFromCustomer: consent without a time is stamped with that of its application.
Stamped(s) == IF Native(s) \/ s.consent = "unknown" THEN s ELSE [s EXCEPT !.at = clock]

\* Mutant of Older: snapshots are applied in the order they come.
NeverOlder(s) == FALSE

Older(s) == customer.at # Never /\ s.at # Never /\ s.at < customer.at

\* upsertCustomerTx, for an order or for a customer.
UpsertCustomer(w) ==
    LET s == Stamped(fetched[w])
        keep == s.consent = "unknown" \/ Older(s) IN
    /\ fetched[w] # NotFetched
    /\ customer' =
        [customer EXCEPT
            !.consent = IF keep THEN @ ELSE s.consent,
            !.at = IF keep \/ s.at = Never THEN @ ELSE s.at,
            !.suppressed = IF Older(s) THEN @
                           ELSE IF s.consent = "opted_out" THEN TRUE
                           ELSE IF s.consent = "opted_in" /\ ~customer.invalid THEN FALSE ELSE @]
    /\ synced' = IF fetched[w] = shop /\ Native(shop) /\ ~Older(shop) THEN TRUE
                 ELSE synced /\ (Native(fetched[w]) \/ fetched[w].consent = "unknown")
    /\ fetched' = [fetched EXCEPT ![w] = NotFetched]
    /\ UNCHANGED <<clock, shop, stopAt, optInAt>>

\* The request fails, or the daemon goes down; the job's retry fetches afresh.
FetchLost(w) ==
    /\ fetched[w] # NotFetched
    /\ fetched' = [fetched EXCEPT ![w] = NotFetched]
    /\ UNCHANGED <<clock, shop, customer, stopAt, optInAt, synced>>

\* importConsent: the operator's word, with a time of the operator's choice.
ImportConsent(c, at) ==
    /\ customer' = [customer EXCEPT !.consent = c, !.at = at, !.suppressed = (c = "opted_out")]
    /\ optInAt' = IF c = "opted_in" THEN clock ELSE optInAt
    /\ synced' = FALSE
    /\ UNCHANGED <<clock, shop, fetched, stopAt>>

\* Mutant of OptOut: the consent without the suppression.
OptOutConsentOnly(at) ==
    /\ customer' = [customer EXCEPT !.consent = "opted_out", !.at = at]
    /\ synced' = FALSE
    /\ UNCHANGED <<clock, shop, fetched, optInAt>>

\* The updates of whatsapp_consent that are guarded by whatsapp_consent<>'opted_out'.
OptOut(at) ==
    /\ customer' = IF customer.consent = "opted_out" THEN customer
                   ELSE [customer EXCEPT !.consent = "opted_out", !.at = at, !.suppressed = TRUE]
    /\ synced' = FALSE
    /\ UNCHANGED <<clock, shop, fetched, optInAt>>

\* recordInbound: a STOP reply leaves consent_updated_at as it was.
StoreStop == OptOut(customer.at) /\ stopAt' = clock

\* recordMetaStatus, code 131050.
StoreMetaOptOut == OptOut(clock) /\ UNCHANGED stopAt

\* recordMetaStatus, code 131026.
StoreUndeliverable ==
    /\ customer' = [customer EXCEPT !.invalid = TRUE, !.suppressed = TRUE]
    /\ UNCHANGED <<clock, shop, fetched, stopAt, optInAt, synced>>

\* SuppressForMetaFailure, the same codes as the answer to a send.
SuppressOptOut == OptOut(customer.at) /\ UNCHANGED stopAt

\* Mutant of SuppressUndeliverable: the number is not marked.
SuppressUnmarked ==
    /\ customer' = [customer EXCEPT !.consent = "opted_in", !.suppressed = TRUE]
    /\ synced' = FALSE
    /\ UNCHANGED <<clock, shop, fetched, stopAt, optInAt>>

\* The same function, code 131026: opted_in, whatever the consent was.
SuppressUndeliverable ==
    /\ customer' = [customer EXCEPT !.consent = "opted_in", !.invalid = TRUE, !.suppressed = TRUE]
    /\ synced' = FALSE
    /\ UNCHANGED <<clock, shop, fetched, stopAt, optInAt>>

\* Every writer but the webhook loop.
ConsentStep ==
    \/ Tick
    \/ ShopifyChanges
    \/ \E w \in Workers : Fetch(w) \/ UpsertCustomer(w) \/ FetchLost(w)
    \/ \E c \in {"opted_in", "opted_out"}, at \in 0..MaxTime : ImportConsent(c, at)
    \/ SuppressOptOut
    \/ SuppressUndeliverable

WebhookStep == StoreStop \/ StoreMetaOptOut \/ StoreUndeliverable

ConsentNext == ConsentStep \/ WebhookStep

ConsentSpec == ConsentInit /\ [][ConsentNext]_consentVars

-----------------------------------------------------------------------------
(* Properties *)

\* sendWhatsApp's test.
Eligible == customer.consent = "opted_in" /\ ~customer.suppressed /\ ~customer.invalid

\* Whoever opted out is also suppressed, for the readers that look at suppressed_at
\* only, whichever of the seven updates of these columns came last.
OptedOutIsSuppressed == customer.consent = "opted_out" => customer.suppressed

\* Whoever counts as opted in, with a number that Meta delivers to, has opted in, at
\* Shopify or by an import: what SuppressForMetaFailure makes of the consent of an
\* undeliverable recipient never passes for consent, whoever writes after it.
OptedInIsStated ==
    customer.consent = "opted_in" /\ ~customer.invalid => optInAt # Never

\* Once Shopify's present native statement has been applied, and nobody else has
\* written, no older snapshot that another worker still holds undoes it.
NativeStatementsConverge == synced => customer.consent = shop.consent

\* README.md:27, "Suppress future work after opt-out": after a STOP the customer is
\* eligible again only by opting in later.
StopLasts == Eligible /\ stopAt # Never => optInAt >= stopAt

=============================================================================
