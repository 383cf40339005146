---------------------------- MODULE ConsentProofs ----------------------------
(***************************************************************************)
(* Consent for any number of workers and any length of time.               *)
(***************************************************************************)
EXTENDS Consent, TLAPS

USE ConsentConstants DEF ConsentConstants

\* A native statement says something, and not from the future.
ShopSound == Native(shop) => shop.at <= clock /\ shop.consent # "unknown"

\* A native snapshot in flight is Shopify's present statement or older than it, and
\* older than any statement still to come.
InFlightIsOlder ==
    \A w \in Workers : Native(fetched[w]) =>
        /\ fetched[w].at <= clock
        /\ fetched[w] = shop \/ (Native(shop) => fetched[w].at < shop.at)

\* While synced, the row has the timestamp as well as the consent: it is the
\* timestamp that turns the older snapshots away.
RowIsShopify == synced => Native(shop) /\ customer.consent = shop.consent /\ customer.at = shop.at

ConsentInv == ConsentTypeOK /\ ShopSound /\ InFlightIsOlder /\ RowIsShopify /\ OptedOutIsSuppressed

\* The upsert of a snapshot, the only step that compares timestamps.
LEMMA UpsertInv ==
    ASSUME ConsentInv, NEW w \in Workers, UpsertCustomer(w)
    PROVE  ConsentInv'
<1> USE DEF Native, Never
<1> DEFINE s == Stamped(fetched[w])
           keep == s.consent = "unknown" \/ Older(s)
<1>1. fetched[w] \in Statement /\ fetched[w].consent # "none"
  BY DEF UpsertCustomer, NotFetched, ConsentInv, ConsentTypeOK, Statement, Consents
<1>2. s \in Statement /\ s.consent = fetched[w].consent
  BY <1>1 DEF Stamped, Statement, ConsentInv, ConsentTypeOK
<1>3. /\ customer'.consent = (IF keep THEN customer.consent ELSE s.consent)
      /\ customer'.at = (IF keep \/ s.at = Never THEN customer.at ELSE s.at)
      /\ customer'.suppressed = (IF Older(s) THEN customer.suppressed
                                 ELSE IF s.consent = "opted_out" THEN TRUE
                                 ELSE IF s.consent = "opted_in" /\ ~customer.invalid THEN FALSE
                                 ELSE customer.suppressed)
      /\ customer'.invalid = customer.invalid
  BY DEF UpsertCustomer, ConsentInv, ConsentTypeOK
<1>4. customer' \in [consent : Consents, at : Never..MaxTime, suppressed : BOOLEAN, invalid : BOOLEAN]
  <2> HIDE DEF s
  <2> QED BY <1>2 DEF UpsertCustomer, s, ConsentInv, ConsentTypeOK, Statement
<1>5. /\ clock' = clock /\ shop' = shop
      /\ fetched' = [fetched EXCEPT ![w] = NotFetched]
  BY DEF UpsertCustomer
<1>6. ConsentTypeOK'
  BY <1>4, <1>5 DEF UpsertCustomer, ConsentInv, ConsentTypeOK
<1>7. ShopSound'
  BY <1>5 DEF ConsentInv, ShopSound
<1>8. InFlightIsOlder'
  BY <1>5 DEF ConsentInv, ConsentTypeOK, InFlightIsOlder, NotFetched
<1>9. OptedOutIsSuppressed'
  BY <1>3 DEF ConsentInv, OptedOutIsSuppressed
<1>10. RowIsShopify'
  <2>1. CASE fetched[w] = shop /\ Native(shop) /\ ~Older(shop)
    <3>1. s = shop /\ ~keep
      BY <2>1 DEF Stamped, ConsentInv, ShopSound
    <3>2. QED BY <2>1, <3>1, <1>3, <1>5 DEF RowIsShopify
  <2>2. CASE ~(fetched[w] = shop /\ Native(shop) /\ ~Older(shop)) /\ synced'
    <3>1. synced /\ (Native(fetched[w]) \/ fetched[w].consent = "unknown")
      BY <2>2 DEF UpsertCustomer
    <3>2. Native(shop) /\ customer.consent = shop.consent /\ customer.at = shop.at /\ shop.at \in Int
      BY <3>1 DEF ConsentInv, RowIsShopify, ConsentTypeOK, Statement
    <3>3. ~Older(shop)
      BY <3>2 DEF Older
    <3>4. keep
      <4>1. CASE fetched[w].consent = "unknown"
        BY <4>1, <1>2
      <4>2. CASE Native(fetched[w])
        <5>1. fetched[w] # shop /\ fetched[w].at < shop.at
          BY <4>2, <2>2, <3>2, <3>3 DEF ConsentInv, InFlightIsOlder
        <5>2. s = fetched[w]
          BY <4>2 DEF Stamped
        <5>3. QED BY <5>1, <5>2, <4>2, <3>2 DEF Older
      <4>3. QED BY <3>1, <4>1, <4>2
    <3>5. QED BY <3>2, <3>4, <1>3, <1>5 DEF RowIsShopify
  <2>3. QED BY <2>1, <2>2 DEF RowIsShopify
<1>11. QED BY <1>6, <1>7, <1>8, <1>9, <1>10 DEF ConsentInv

\* The guarded opt-outs of STOP, of Meta's callback and of Meta's answer to a send.
LEMMA OptOutInv ==
    ASSUME ConsentInv, NEW at \in Never..MaxTime, OptOut(at), stopAt' \in Never..MaxTime
    PROVE  ConsentInv'
<1>1. ConsentTypeOK'
  BY DEF ConsentInv, ConsentTypeOK, OptOut, Consents
<1>2. OptedOutIsSuppressed'
  BY DEF ConsentInv, ConsentTypeOK, OptedOutIsSuppressed, OptOut
<1>3. ShopSound' /\ InFlightIsOlder' /\ RowIsShopify'
  BY DEF ConsentInv, ShopSound, InFlightIsOlder, RowIsShopify, OptOut, Native
<1>4. QED BY <1>1, <1>2, <1>3 DEF ConsentInv

\* Every step preserves ConsentInv.
LEMMA ConsentStepInv ==
    ASSUME ConsentInv, [ConsentNext]_consentVars
    PROVE  ConsentInv'
<1> USE DEF Native, Never
<1>1. CASE Tick
  BY <1>1 DEF Tick, ConsentInv, ConsentTypeOK, ShopSound, InFlightIsOlder, RowIsShopify,
              OptedOutIsSuppressed, Statement, NotFetched
<1>2. CASE ShopifyChanges
  <2>1. /\ clock' \in 0..MaxTime
        /\ clock' >= clock
        /\ shop' \in Statement
        /\ Native(shop') => shop'.at = clock' /\ clock' = clock + 1 /\ shop'.consent # "unknown"
    BY <1>2 DEF ShopifyChanges, ConsentInv, ConsentTypeOK, Statement, Consents
  <2>2. ConsentTypeOK'
    <3>1. optInAt' \in Never..MaxTime
      BY <1>2, <2>1 DEF ShopifyChanges, ConsentInv, ConsentTypeOK
    <3>2. UNCHANGED <<fetched, customer, stopAt>> /\ synced' = FALSE
      BY <1>2 DEF ShopifyChanges
    <3>3. QED BY <2>1, <3>1, <3>2 DEF ConsentInv, ConsentTypeOK
  <2>3. ShopSound'
    BY <2>1 DEF ShopSound, ConsentInv, ConsentTypeOK
  <2>4. InFlightIsOlder'
    <3> SUFFICES ASSUME NEW w \in Workers, Native(fetched[w])
                 PROVE  fetched[w].at <= clock' /\ (Native(shop') => fetched[w].at < shop'.at)
      BY <1>2 DEF ShopifyChanges, InFlightIsOlder
    <3>1. fetched[w].at \in Int /\ fetched[w].at <= clock
      BY DEF ConsentInv, InFlightIsOlder, ConsentTypeOK, Statement, NotFetched
    <3>2. QED BY <2>1, <3>1 DEF ConsentInv, ConsentTypeOK
  <2>5. OptedOutIsSuppressed' /\ RowIsShopify'
    BY <1>2 DEF ShopifyChanges, ConsentInv, OptedOutIsSuppressed, RowIsShopify
  <2>6. QED BY <2>2, <2>3, <2>4, <2>5 DEF ConsentInv
<1>3. ASSUME NEW w \in Workers, Fetch(w) PROVE ConsentInv'
  BY <1>3 DEF Fetch, ConsentInv, ConsentTypeOK, ShopSound, InFlightIsOlder, RowIsShopify,
              OptedOutIsSuppressed
<1>4. ASSUME NEW w \in Workers, UpsertCustomer(w) PROVE ConsentInv'
  BY <1>4, UpsertInv
<1>5. ASSUME NEW w \in Workers, FetchLost(w) PROVE ConsentInv'
  BY <1>5 DEF FetchLost, ConsentInv, ConsentTypeOK, ShopSound, InFlightIsOlder, RowIsShopify,
              OptedOutIsSuppressed, NotFetched
<1>6. ASSUME NEW c \in {"opted_in", "opted_out"}, NEW at \in 0..MaxTime, ImportConsent(c, at)
      PROVE ConsentInv'
  <2>1. customer' = [customer EXCEPT !.consent = c, !.at = at, !.suppressed = (c = "opted_out")]
    BY <1>6 DEF ImportConsent
  <2>2. ConsentTypeOK'
    <3>1. customer' \in [consent : Consents, at : Never..MaxTime, suppressed : BOOLEAN, invalid : BOOLEAN]
      <4>1. c \in Consents /\ at \in Never..MaxTime /\ (c = "opted_out") \in BOOLEAN
        BY DEF Consents
      <4>2. QED BY <2>1, <4>1 DEF ConsentInv, ConsentTypeOK
    <3>2. optInAt' \in Never..MaxTime
      BY <1>6 DEF ImportConsent, ConsentInv, ConsentTypeOK
    <3>3. QED BY <1>6, <3>1, <3>2 DEF ImportConsent, ConsentInv, ConsentTypeOK
  <2>3. OptedOutIsSuppressed'
    BY <2>1 DEF ConsentInv, ConsentTypeOK, OptedOutIsSuppressed
  <2>4. ShopSound' /\ InFlightIsOlder' /\ RowIsShopify'
    BY <1>6 DEF ImportConsent, ConsentInv, ShopSound, InFlightIsOlder, RowIsShopify
  <2>5. QED BY <2>2, <2>3, <2>4 DEF ConsentInv
<1>7. CASE StoreStop \/ StoreMetaOptOut \/ SuppressOptOut
  <2>1. customer.at \in Never..MaxTime /\ clock \in Never..MaxTime /\ stopAt \in Never..MaxTime
    BY DEF ConsentInv, ConsentTypeOK
  <2>2. QED BY <1>7, <2>1, OptOutInv DEF StoreStop, StoreMetaOptOut, SuppressOptOut
<1>8. CASE StoreUndeliverable
  BY <1>8 DEF StoreUndeliverable, ConsentInv, ConsentTypeOK, ShopSound, InFlightIsOlder,
              RowIsShopify, OptedOutIsSuppressed
<1>9. CASE SuppressUndeliverable
  <2>1. customer' \in [consent : Consents, at : Never..MaxTime, suppressed : BOOLEAN, invalid : BOOLEAN]
    <3>1. "opted_in" \in Consents
      BY DEF Consents
    <3>2. QED BY <1>9, <3>1 DEF SuppressUndeliverable, ConsentInv, ConsentTypeOK
  <2>2. ConsentTypeOK'
    BY <1>9, <2>1 DEF SuppressUndeliverable, ConsentInv, ConsentTypeOK
  <2>3. OptedOutIsSuppressed'
    BY <1>9 DEF SuppressUndeliverable, OptedOutIsSuppressed, ConsentInv, ConsentTypeOK
  <2>4. ShopSound' /\ InFlightIsOlder' /\ RowIsShopify'
    BY <1>9 DEF SuppressUndeliverable, ConsentInv, ShopSound, InFlightIsOlder, RowIsShopify
  <2>5. QED BY <2>2, <2>3, <2>4 DEF ConsentInv
<1>10. CASE UNCHANGED consentVars
  BY <1>10 DEF consentVars, ConsentInv, ConsentTypeOK, ShopSound, InFlightIsOlder, RowIsShopify,
               OptedOutIsSuppressed
<1>11. QED
  BY <1>1, <1>2, <1>3, <1>4, <1>5, <1>6, <1>7, <1>8, <1>9, <1>10
     DEF ConsentNext, ConsentStep, WebhookStep

\* The invariant that carries both properties.
THEOREM ConsentInvariant == ConsentSpec => []ConsentInv
<1>1. ConsentInit => ConsentInv
  <2> SUFFICES ASSUME ConsentInit PROVE ConsentInv
    OBVIOUS
  <2>1. 0 \in 0..MaxTime /\ Never \in Never..MaxTime /\ "unknown" \in Consents
    BY ConsentConstants DEF Never, Consents
  <2>2. Nothing \in Statement
    BY <2>1 DEF Nothing, Statement
  <2>3. customer \in [consent : Consents, at : Never..MaxTime, suppressed : BOOLEAN, invalid : BOOLEAN]
    BY <2>1 DEF ConsentInit
  <2>4. fetched \in [Workers -> Statement \cup {NotFetched}]
    BY DEF ConsentInit
  <2>5. ConsentTypeOK
    BY <2>1, <2>2, <2>3, <2>4 DEF ConsentInit, ConsentTypeOK
  <2>6. ShopSound /\ InFlightIsOlder /\ RowIsShopify
    BY DEF ConsentInit, ShopSound, InFlightIsOlder, RowIsShopify, Nothing, NotFetched, Native, Never
  <2>7. OptedOutIsSuppressed
    BY DEF ConsentInit, OptedOutIsSuppressed
  <2>8. QED BY <2>5, <2>6, <2>7 DEF ConsentInv
<1>2. QED BY <1>1, ConsentStepInv, PTL DEF ConsentSpec

\* Whoever opted out is suppressed, whichever writer came last.
THEOREM OptOutSuppresses == ConsentSpec => []OptedOutIsSuppressed
<1>1. ConsentInv => OptedOutIsSuppressed
  BY DEF ConsentInv
<1>2. QED BY <1>1, ConsentInvariant, PTL

\* Any number of workers applying native snapshots in any order end with the newest.
THEOREM SnapshotsConverge == ConsentSpec => []NativeStatementsConverge
<1>1. ConsentInv => NativeStatementsConverge
  BY DEF ConsentInv, RowIsShopify, NativeStatementsConverge
<1>2. QED BY <1>1, ConsentInvariant, PTL


-----------------------------------------------------------------------------
(* Consent is stated *)

\* An opt-in at Shopify, or in a snapshot that a worker holds, was counted when it was
\* made.
OptInsAreCounted ==
    /\ shop.consent = "opted_in" => optInAt # Never
    /\ \A w \in Workers : fetched[w].consent = "opted_in" => optInAt # Never
    /\ OptedInIsStated

\* Opt-ins are never discounted, and only Shopify, an import, a synchronisation and
\* SuppressForMetaFailure can make a row opted in.
LEMMA OptInStep ==
    ASSUME ConsentInv, OptInsAreCounted, [ConsentNext]_consentVars
    PROVE  OptInsAreCounted'
<1> USE DEF Never
<1>0. clock # Never /\ (clock \in Nat /\ clock + 1 # Never)
  BY DEF ConsentInv, ConsentTypeOK
<1>1. CASE Tick \/ UNCHANGED consentVars
  BY <1>1 DEF Tick, consentVars, OptInsAreCounted, OptedInIsStated
<1>2. CASE ShopifyChanges
  <2>1. (shop'.consent = "opted_in" => optInAt' # Never) /\ (optInAt # Never => optInAt' # Never)
    BY <1>0, <1>2 DEF ShopifyChanges
  <2>2. UNCHANGED <<fetched, customer>>
    BY <1>2 DEF ShopifyChanges
  <2>3. QED BY <2>1, <2>2 DEF OptInsAreCounted, OptedInIsStated
<1>3. ASSUME NEW w \in Workers, Fetch(w) \/ FetchLost(w) PROVE OptInsAreCounted'
  BY <1>3 DEF Fetch, FetchLost, NotFetched, ConsentInv, ConsentTypeOK, OptInsAreCounted, OptedInIsStated
<1>4. ASSUME NEW w \in Workers, UpsertCustomer(w) PROVE OptInsAreCounted'
  <2>1. Stamped(fetched[w]).consent = fetched[w].consent
    BY DEF Stamped, ConsentInv, ConsentTypeOK, Statement, NotFetched
  <2>2. /\ customer'.consent \in {customer.consent, fetched[w].consent}
        /\ customer'.invalid = customer.invalid
    BY <1>4, <2>1 DEF UpsertCustomer, ConsentInv, ConsentTypeOK
  <2>3. fetched' = [fetched EXCEPT ![w] = NotFetched] /\ UNCHANGED <<shop, optInAt>>
    BY <1>4 DEF UpsertCustomer
  <2>4. QED BY <2>2, <2>3 DEF NotFetched, ConsentInv, ConsentTypeOK, OptInsAreCounted, OptedInIsStated
<1>5. ASSUME NEW c \in {"opted_in", "opted_out"}, NEW at \in 0..MaxTime, ImportConsent(c, at)
      PROVE OptInsAreCounted'
  <2>1. customer'.consent = c /\ UNCHANGED <<shop, fetched>>
    BY <1>5 DEF ImportConsent, ConsentInv, ConsentTypeOK
  <2>2. (c = "opted_in" => optInAt' # Never) /\ (optInAt # Never => optInAt' # Never)
    BY <1>0, <1>5 DEF ImportConsent
  <2>3. QED BY <2>1, <2>2 DEF OptInsAreCounted, OptedInIsStated
<1>6. CASE StoreStop \/ StoreMetaOptOut \/ SuppressOptOut
  <2>1. PICK at \in Never..MaxTime : OptOut(at)
    BY <1>6 DEF StoreStop, StoreMetaOptOut, SuppressOptOut, ConsentInv, ConsentTypeOK
  <2>2. customer' = customer \/ customer'.consent = "opted_out"
    BY <2>1 DEF OptOut, ConsentInv, ConsentTypeOK
  <2>3. UNCHANGED <<shop, fetched, optInAt>>
    BY <2>1 DEF OptOut
  <2>4. QED BY <2>2, <2>3 DEF OptInsAreCounted, OptedInIsStated
<1>7. CASE StoreUndeliverable \/ SuppressUndeliverable
  BY <1>7 DEF StoreUndeliverable, SuppressUndeliverable, ConsentInv, ConsentTypeOK,
              OptInsAreCounted, OptedInIsStated
<1>8. QED
  BY <1>1, <1>2, <1>3, <1>4, <1>5, <1>6, <1>7 DEF ConsentNext, ConsentStep, WebhookStep

\* Nobody counts as opted in who has not opted in, but for a number that Meta does not
\* deliver to.
THEOREM OptInsAreStated == ConsentSpec => []OptedInIsStated
<1>1. ConsentInit => OptInsAreCounted
  BY DEF ConsentInit, Nothing, NotFetched, OptInsAreCounted, OptedInIsStated
<1>2. OptInsAreCounted => OptedInIsStated
  BY DEF OptInsAreCounted
<1>3. QED BY <1>1, <1>2, OptInStep, ConsentInvariant, PTL DEF ConsentSpec

\* A recipient whom Meta called undeliverable is never eligible again, whatever is
\* imported or synchronised later.
THEOREM UndeliverableForGood ==
    ConsentSpec => [][customer.invalid => customer'.invalid /\ ~Eligible']_consentVars
<1>1. ConsentInv /\ [ConsentNext]_consentVars
        => [customer.invalid => customer'.invalid /\ ~Eligible']_consentVars
  <2> SUFFICES ASSUME ConsentInv, ConsentNext, customer.invalid
               PROVE  customer'.invalid
    BY DEF Eligible
  <2>1. ASSUME NEW w \in Workers, UpsertCustomer(w) PROVE customer'.invalid
    BY <2>1 DEF UpsertCustomer, ConsentInv, ConsentTypeOK
  <2>2. QED BY <2>1 DEF ConsentNext, ConsentStep, WebhookStep, Tick, ShopifyChanges, Fetch, FetchLost,
                 ImportConsent, SuppressOptOut, SuppressUndeliverable, StoreStop, StoreMetaOptOut,
                 StoreUndeliverable, OptOut, ConsentInv, ConsentTypeOK
<1>2. QED BY <1>1, ConsentInvariant, PTL DEF ConsentSpec

=============================================================================
