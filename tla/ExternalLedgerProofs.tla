------------------------ MODULE ExternalLedgerProofs ------------------------
(***************************************************************************)
(* The ledger of external sends for any number of keys, clients and        *)
(* reports, whoever dies and whichever answer is lost.                     *)
(***************************************************************************)
EXTENDS ExternalLedger, ConsentProofs, TLAPS

USE LedgerConstants DEF LedgerConstants

-----------------------------------------------------------------------------
(* The customer's row *)

\* Reports and callbacks write the customer's row by the statements of Consent only.
LEMMA ConsentStepRefines ==
    ASSUME [Next]_vars
    PROVE  [ConsentNext]_consentVars
<1> USE DEF ConsentNext, ConsentStep, WebhookStep, consentVars
<1>1. ASSUME NEW c \in Clients, NEW k \in Reserving, Reserve(c, k) PROVE UNCHANGED consentVars
  BY <1>1 DEF Reserve
<1>2. ASSUME NEW c \in Clients, (\E a \in Answers : CallMeta(c, a)) \/ ClientDies(c) \/ Report(c)
      PROVE UNCHANGED consentVars
  BY <1>2 DEF CallMeta, ClientDies, Report
<1>3. ASSUME NEW k \in Keys, NEW a \in Answers, SendUnreserved(k, a) \/ ReplayLine(k, a)
      PROVE UNCHANGED consentVars
  BY <1>3 DEF SendUnreserved, ReplayLine
<1>4. ASSUME NEW code \in Codes, SuppressForMetaFailure(code) PROVE [ConsentNext]_consentVars
  BY <1>4 DEF SuppressForMetaFailure
<1>5. CASE SuppressionLost \/ PhoneChanges
  BY <1>5 DEF SuppressionLost, PhoneChanges
<1>6. ASSUME NEW k \in Keys, NEW s \in Callbacks, Callback(k, s) PROVE [ConsentNext]_consentVars
  BY <1>6 DEF Callback
<1>7. CASE UNCHANGED vars
  BY <1>7 DEF vars
<1>8. CASE ConsentNext
  BY <1>8
<1>9. QED
  BY <1>1, <1>2, <1>3, <1>4, <1>5, <1>6, <1>7, <1>8 DEF Next, LedgerStep

\* The ledger implements Consent.
THEOREM LedgerImplementsConsent == Spec => ConsentSpec
<1>1. Init => ConsentInit
  BY DEF Init
<1>2. QED BY <1>1, ConsentStepRefines, PTL DEF Spec, ConsentSpec

\* With SuppressForMetaFailure and the callbacks on external sends among the writers,
\* an opted-out customer is suppressed.
THEOREM LedgerSuppresses == Spec => []OptedOutIsSuppressed
BY LedgerImplementsConsent, OptOutSuppresses, PTL

\* Nor do they bring back an older snapshot of the customer.
THEOREM LedgerConverges == Spec => []NativeStatementsConverge
BY LedgerImplementsConsent, SnapshotsConverge, PTL

\* And although a reported failure stores opted_in, nobody counts as opted in who was
\* not.
THEOREM LedgerOptsNobodyIn == Spec => []OptedInIsStated
BY LedgerImplementsConsent, OptInsAreStated, PTL

-----------------------------------------------------------------------------
(* The invariant *)

\* A row that has been sent, or more, has its Meta ID.
SentHasID ==
    \A k \in Keys : row[k].state \in {"accepted", "sent", "delivered", "read"} => row[k].id

\* A client that has an answer has a message; the ledger knows it; no other client has.
OneClient ==
    \A c \in Clients :
        /\ answer[c] # NoAnswer => sending[c] # NoKey
        /\ sending[c] # NoKey => row[sending[c]].state # "absent"
        /\ \A d \in Clients : sending[c] = sending[d] /\ sending[c] # NoKey => c = d

\* Meta has not been called for a message that is not reserved, nor for one whose
\* client is about to call.
CallIsFirst ==
    /\ \A k \in Reserving : row[k].state = "absent" => calls[k] = 0
    /\ \A c \in Clients : sending[c] # NoKey /\ answer[c] = NoAnswer => calls[sending[c]] = 0

LedgerInv == LedgerTypeOK /\ RowTellsOutcome /\ SentHasID /\ OneClient /\ CallIsFirst

\* What a callback may make of a state.
LEMMA CallbackState ==
    ASSUME NEW old \in RowStates, NEW s \in Callbacks
    PROVE  LET new == Receipt!NextState(old, Receipt!StatusOf(s)) IN
           /\ new \in {old, "sent", "delivered", "read", "failed"}
           /\ old \notin {"absent", "queued"} => Receipt!Rank[old] <= Receipt!Rank[new]
           /\ Receipt!StatusOf(s) = "failed" => s \in {"failed", "undeliverable", "metaOptOut"}
BY DEF Receipt!NextState, Receipt!StatusOf, Receipt!Permanent, Receipt!Outranks, Receipt!Rank, RowStates

\* A report of any outcome, for any row.
LEMMA RecordInv ==
    ASSUME LedgerInv, NEW k \in Keys, NEW a \in Answers, RecordExternal(k, a)
    PROVE  /\ row' \in [Keys -> [state : RowStates, id : BOOLEAN, code : Codes \cup {NoAnswer}]]
           /\ told' \in [Keys -> SUBSET Answers]
           /\ due' \subseteq Codes
           /\ RowTellsOutcome' /\ SentHasID'
           /\ \A x \in Keys : row[x].state # "absent" => row'[x].state # "absent"
           /\ \A x \in Keys : row[x].id => row'[x] = row[x]
<1> USE DEF LedgerInv, LedgerTypeOK
<1>1. Outcome(a) \in [state : RowStates, id : BOOLEAN, code : Codes \cup {NoAnswer}]
  BY DEF Outcome, RowStates, Answers
<1>2. due' \subseteq Codes
  BY DEF RecordExternal, Answers
<1>3. told' \in [Keys -> SUBSET Answers]
  BY DEF RecordExternal
<1>4. \A x \in Keys : x # k => row'[x] = row[x] /\ told'[x] = told[x]
  BY DEF RecordExternal
<1>5. CASE Creates(k) \/ Upgrades(k, a)
  <2>1. row' = [row EXCEPT ![k] = Outcome(a)] /\ told' = [told EXCEPT ![k] = @ \cup {a}]
    BY <1>5 DEF RecordExternal, Creates, Upgrades
  <2>2. row'[k] = Outcome(a) /\ told'[k] = told[k] \cup {a}
    BY <2>1
  <2>3. "accepted" \notin told[k] /\ ~row[k].id
    BY <1>5 DEF Creates, Upgrades, RowTellsOutcome
  <2>4. /\ row'[k].id <=> a = "accepted"
        /\ row'[k].state = (IF a = "accepted" THEN "accepted" ELSE "failed")
        /\ a # "accepted" => row'[k].code = a
    <3> HIDE DEF LedgerInv, LedgerTypeOK
    <3>1. CASE a = "accepted"
      <4>1. row'[k] = [state |-> "accepted", id |-> TRUE, code |-> NoAnswer]
        BY <2>2, <3>1 DEF Outcome
      <4>2. QED BY <3>1, <4>1
    <3>2. CASE a # "accepted"
      <4>1. row'[k] = [state |-> "failed", id |-> FALSE, code |-> a]
        BY <2>2, <3>2 DEF Outcome
      <4>2. QED BY <3>2, <4>1
    <3>3. QED BY <3>1, <3>2
  <2>5. RowTellsOutcome'
    <3> SUFFICES ASSUME NEW x \in Keys
                 PROVE  /\ row'[x].id <=> "accepted" \in told'[x]
                        /\ row'[x].state = "failed" /\ ~row'[x].id => row'[x].code \in told'[x]
                        /\ row'[x].state \in {"absent", "queued"} <=> told'[x] = {}
      BY DEF RowTellsOutcome
    <3>1. CASE x # k
      BY <1>4, <3>1 DEF RowTellsOutcome
    <3>2. CASE x = k
      <4> HIDE DEF LedgerInv, LedgerTypeOK
      <4>1. a \in told'[k] /\ (a # "accepted" => "accepted" \notin told'[k])
        BY <2>2, <2>3
      <4>2. QED BY <2>4, <3>2, <4>1
    <3>3. QED BY <3>1, <3>2
  <2>6. SentHasID'
    <3>1. row'[k].state \in {"accepted", "sent", "delivered", "read"} => row'[k].id
      BY <2>4
    <3>2. QED BY <1>4, <3>1 DEF SentHasID
  <2>7. QED BY <1>1, <1>2, <1>3, <1>4, <2>1, <2>3, <2>4, <2>5, <2>6
<1>6. CASE ~(Creates(k) \/ Upgrades(k, a))
  <2>1. row' = row
    BY <1>6 DEF RecordExternal
  <2>2. CASE row[k].state = "absent"
    <3>1. told' = told
      BY <1>6, <2>2 DEF RecordExternal, Creates
    <3>2. QED BY <1>2, <2>1, <3>1 DEF RowTellsOutcome, SentHasID
  <2>3. CASE row[k].state # "absent"
    <3>1. told'[k] = told[k] \cup {a}
      BY <2>3 DEF RecordExternal
    <3>2. row[k].state # "queued" /\ (a = "accepted" => row[k].id)
      BY <1>6, <2>3 DEF Upgrades, SentHasID, RowStates
    <3>3. RowTellsOutcome'
      BY <1>4, <2>1, <2>3, <3>1, <3>2 DEF RowTellsOutcome
    <3>4. QED BY <1>2, <1>3, <2>1, <3>3 DEF SentHasID
  <2>4. QED BY <2>2, <2>3
<1>7. QED BY <1>5, <1>6

\* Rows that only gain records keep the clients apart.
LEMMA ClientFrame ==
    ASSUME LedgerInv, UNCHANGED <<sending, answer, calls>>,
           \A k \in Keys : row[k].state # "absent" => row'[k].state # "absent"
    PROVE  OneClient' /\ CallIsFirst'
BY DEF LedgerInv, LedgerTypeOK, OneClient, CallIsFirst

\* What the clients do.
LEMMA ClientInv ==
    ASSUME LedgerInv, NEW c \in Clients,
           \/ \E k \in Reserving : Reserve(c, k)
           \/ \E a \in Answers : CallMeta(c, a)
           \/ ClientDies(c)
           \/ Report(c)
    PROVE  LedgerInv'
<1> USE DEF LedgerInv
<1>1. ASSUME NEW k \in Reserving, Reserve(c, k) PROVE LedgerInv'
  <2>1. /\ row[k].state = "absent"
        /\ row' = [row EXCEPT ![k].state = "queued"]
        /\ sending[c] = NoKey
        /\ sending' = [sending EXCEPT ![c] = k]
        /\ UNCHANGED <<events, phoneKnown, due, answer, lines, calls, told>>
    BY <1>1 DEF Reserve, Reservable
  <2>2. k \in Keys /\ k # NoKey /\ "queued" \in RowStates
    BY DEF RowStates
  <2>3. LedgerTypeOK'
    BY <2>1, <2>2 DEF LedgerTypeOK
  <2>4. /\ row'[k].state = "queued" /\ row'[k].id = row[k].id
        /\ \A x \in Keys : x # k => row'[x] = row[x]
    BY <2>1, <2>2 DEF LedgerTypeOK
  <2>5. RowTellsOutcome' /\ SentHasID'
    BY <2>1, <2>2, <2>4 DEF RowTellsOutcome, SentHasID
  <2>6. /\ sending'[c] = k /\ calls[k] = 0
        /\ \A d \in Clients : d # c => sending'[d] = sending[d] /\ sending[d] # k
    BY <2>1, <2>2 DEF LedgerTypeOK, OneClient, CallIsFirst
  <2>7. OneClient'
    BY <2>1, <2>2, <2>4, <2>6 DEF OneClient, LedgerTypeOK
  <2>8. CallIsFirst'
    BY <2>1, <2>2, <2>4, <2>6 DEF CallIsFirst, LedgerTypeOK
  <2>9. QED BY <2>3, <2>5, <2>7, <2>8
<1>2. ASSUME NEW a \in Answers, CallMeta(c, a) PROVE LedgerInv'
  <2> DEFINE k == sending[c]
  <2>1. k \in Reserving /\ k \in Keys /\ a # NoAnswer /\ calls[k] \in Int
    BY <1>2 DEF CallMeta, LedgerTypeOK, Answers, Codes, NoAnswer
  <2>2. /\ calls' = [calls EXCEPT ![k] = @ + 1]
        /\ answer' = [answer EXCEPT ![c] = a]
        /\ UNCHANGED <<row, events, phoneKnown, due, sending, lines, told>>
    BY <1>2 DEF CallMeta, ledgerVars
  <2>3. LedgerTypeOK'
    BY <2>1, <2>2 DEF LedgerTypeOK
  <2>4. RowTellsOutcome' /\ SentHasID'
    BY <2>2 DEF RowTellsOutcome, SentHasID
  <2>5. OneClient'
    BY <1>2, <2>2 DEF OneClient, CallMeta, LedgerTypeOK
  <2>6. row[k].state # "absent" /\ \A d \in Clients : d # c /\ sending[d] # NoKey => sending[d] # k
    BY <1>2 DEF CallMeta, OneClient
  <2>7. CallIsFirst'
    <3>1. \A x \in Keys : x # k => calls'[x] = calls[x]
      BY <2>1, <2>2 DEF LedgerTypeOK
    <3>2. answer'[c] = a /\ \A d \in Clients : d # c => answer'[d] = answer[d]
      BY <2>2 DEF LedgerTypeOK
    <3>3. \A d \in Clients : sending[d] \in Keys \cup {NoKey}
      BY DEF LedgerTypeOK
    <3> HIDE DEF k
    <3>4. ASSUME NEW x \in Reserving, row'[x].state = "absent" PROVE calls'[x] = 0
      BY <2>2, <2>6, <3>1, <3>4 DEF CallIsFirst
    <3>5. ASSUME NEW d \in Clients, sending'[d] # NoKey, answer'[d] = NoAnswer
          PROVE calls'[sending'[d]] = 0
      <4>1. d # c /\ sending[d] # NoKey /\ answer[d] = NoAnswer
        BY <2>1, <2>2, <3>2, <3>5
      <4>2. sending[d] # k /\ sending[d] \in Keys
        BY <2>6, <3>3, <4>1
      <4>3. QED BY <2>2, <3>1, <4>1, <4>2 DEF CallIsFirst
    <3>6. QED BY <3>4, <3>5 DEF CallIsFirst
  <2>8. QED BY <2>3, <2>4, <2>5, <2>7
<1>3. CASE ClientDies(c)
  <2>1. /\ sending' = [sending EXCEPT ![c] = NoKey]
        /\ answer' = [answer EXCEPT ![c] = NoAnswer]
        /\ UNCHANGED <<row, events, phoneKnown, due, lines, calls, told>>
    BY <1>3 DEF ClientDies, ledgerVars
  <2>2. LedgerTypeOK'
    BY <2>1 DEF LedgerTypeOK
  <2>3. RowTellsOutcome' /\ SentHasID'
    BY <2>1 DEF RowTellsOutcome, SentHasID
  <2>4. OneClient' /\ CallIsFirst'
    BY <2>1 DEF OneClient, CallIsFirst, LedgerTypeOK
  <2>5. QED BY <2>2, <2>3, <2>4
<1>4. CASE Report(c)
  <2>1. sending[c] \in Keys /\ sending[c] # NoKey /\ answer[c] \in Answers
    BY <1>4 DEF Report, LedgerTypeOK, OneClient
  <2>2. RecordExternal(sending[c], answer[c]) /\ UNCHANGED <<lines, calls, events, phoneKnown>>
    BY <1>4 DEF Report, RecordExternal
  <2>3. /\ row' \in [Keys -> [state : RowStates, id : BOOLEAN, code : Codes \cup {NoAnswer}]]
        /\ told' \in [Keys -> SUBSET Answers]
        /\ due' \subseteq Codes
        /\ RowTellsOutcome' /\ SentHasID'
        /\ \A x \in Keys : row[x].state # "absent" => row'[x].state # "absent"
    BY <2>1, <2>2, RecordInv
  <2>4. \/ UNCHANGED <<sending, answer>>
        \/ sending' = [sending EXCEPT ![c] = NoKey] /\ answer' = [answer EXCEPT ![c] = NoAnswer]
    BY <1>4 DEF Report
  <2>5. LedgerTypeOK'
    BY <2>2, <2>3, <2>4 DEF LedgerTypeOK
  <2>6. CASE UNCHANGED <<sending, answer>>
    BY <2>2, <2>3, <2>5, <2>6, ClientFrame
  <2>7. CASE sending' = [sending EXCEPT ![c] = NoKey] /\ answer' = [answer EXCEPT ![c] = NoAnswer]
    <3>1. \A d \in Clients : \/ sending'[d] = NoKey /\ answer'[d] = NoAnswer
                             \/ sending'[d] = sending[d] /\ answer'[d] = answer[d]
      BY <2>7 DEF LedgerTypeOK
    <3>2. \A d \in Clients : sending[d] # NoKey => sending[d] \in Keys
      BY DEF LedgerTypeOK
    <3>3. OneClient'
      BY <2>3, <3>1, <3>2 DEF OneClient
    <3>4. CallIsFirst'
      BY <2>2, <2>3, <3>1 DEF CallIsFirst
    <3>5. QED BY <2>3, <2>5, <3>3, <3>4
  <2>8. QED BY <2>4, <2>6, <2>7
<1>5. QED BY <1>1, <1>2, <1>3, <1>4

\* What everybody else does.
LEMMA OtherInv ==
    ASSUME LedgerInv,
           \/ \E k \in Keys \ Reserving, a \in Answers : SendUnreserved(k, a)
           \/ \E k \in Keys, a \in Answers : ReplayLine(k, a)
           \/ \E code \in Codes : SuppressForMetaFailure(code)
           \/ SuppressionLost
           \/ \E k \in Keys, s \in Callbacks : Callback(k, s)
           \/ PhoneChanges
           \/ UNCHANGED <<ledgerVars, clientVars, told>>
    PROVE  LedgerInv'
<1> USE DEF LedgerInv
<1>1. ASSUME NEW k \in Keys \ Reserving, NEW a \in Answers, SendUnreserved(k, a) PROVE LedgerInv'
  <2>1. /\ lines' = [lines EXCEPT ![k] = @ \cup {a}]
        /\ calls' = [calls EXCEPT ![k] = @ + 1]
        /\ UNCHANGED <<row, events, phoneKnown, due, sending, answer, told>>
    BY <1>1 DEF SendUnreserved, ledgerVars
  <2>2. LedgerTypeOK'
    <3>1. calls[k] \in Int
      BY DEF LedgerTypeOK
    <3>2. QED BY <2>1, <3>1 DEF LedgerTypeOK
  <2>3. RowTellsOutcome' /\ SentHasID' /\ OneClient'
    BY <2>1 DEF RowTellsOutcome, SentHasID, OneClient
  <2>4. \A x \in Reserving : calls'[x] = calls[x]
    BY <2>1 DEF LedgerTypeOK
  <2>5. \A c \in Clients : sending[c] # NoKey => sending[c] \in Reserving
    BY DEF LedgerTypeOK
  <2>6. CallIsFirst'
    BY <2>1, <2>4, <2>5 DEF CallIsFirst
  <2>7. QED BY <2>2, <2>3, <2>6
<1>2. ASSUME NEW k \in Keys, NEW a \in Answers, ReplayLine(k, a) PROVE LedgerInv'
  <2>1. RecordExternal(k, a) /\ UNCHANGED <<events, phoneKnown, sending, answer, lines, calls>>
    BY <1>2 DEF ReplayLine, RecordExternal, clientVars
  <2>2. /\ row' \in [Keys -> [state : RowStates, id : BOOLEAN, code : Codes \cup {NoAnswer}]]
        /\ told' \in [Keys -> SUBSET Answers]
        /\ due' \subseteq Codes
        /\ RowTellsOutcome' /\ SentHasID'
        /\ \A x \in Keys : row[x].state # "absent" => row'[x].state # "absent"
    BY <2>1, RecordInv
  <2>3. LedgerTypeOK'
    BY <2>1, <2>2 DEF LedgerTypeOK
  <2>4. QED BY <2>1, <2>2, <2>3, ClientFrame
<1>3. CASE UNCHANGED <<row, events, clientVars, told>> /\ due' \subseteq due /\ phoneKnown' \in BOOLEAN
  BY <1>3 DEF clientVars, LedgerTypeOK, RowTellsOutcome, SentHasID, OneClient, CallIsFirst
<1>4. CASE (\E code \in Codes : SuppressForMetaFailure(code)) \/ SuppressionLost \/ PhoneChanges
             \/ UNCHANGED <<ledgerVars, clientVars, told>>
  <2>1. UNCHANGED <<row, events, clientVars, told>> /\ due' \subseteq due /\ phoneKnown' \in BOOLEAN
    BY <1>4 DEF SuppressForMetaFailure, SuppressionLost, PhoneChanges, LedgerTypeOK, ledgerVars
  <2>2. QED BY <2>1, <1>3
<1>5. ASSUME NEW k \in Keys, NEW s \in Callbacks, Callback(k, s) PROVE LedgerInv'
  <2> DEFINE st == Receipt!NextState(row[k].state, Receipt!StatusOf(s))
             cd == IF Receipt!StatusOf(s) # "failed" THEN row[k].code
                   ELSE IF s = "failed" THEN "rejected" ELSE s
  <2>1. /\ row[k].id
        /\ row' = [row EXCEPT ![k].state = st, ![k].code = cd]
        /\ events' = [events EXCEPT ![k] = @ \cup {s}]
        /\ UNCHANGED <<phoneKnown, due, sending, answer, lines, calls, told>>
    BY <1>5 DEF Callback, clientVars
  <2>2. row[k].state \in RowStates /\ row[k].code \in Codes \cup {NoAnswer}
    BY DEF LedgerTypeOK
  <2>3. row[k].state \notin {"absent", "queued"}
    BY <2>1 DEF RowTellsOutcome
  <2>4. st \in RowStates \ {"absent", "queued"}
    BY <2>2, <2>3, CallbackState DEF RowStates
  <2>5. cd \in Codes \cup {NoAnswer}
    BY <2>2, CallbackState DEF Codes
  <2> HIDE DEF st, cd
  <2>6. LedgerTypeOK'
    <3>1. row' = [row EXCEPT ![k] = [row[k] EXCEPT !.state = st, !.code = cd]]
      BY <2>1
    <3>2. row' \in [Keys -> [state : RowStates, id : BOOLEAN, code : Codes \cup {NoAnswer}]]
      <4> DEFINE Row == [state : RowStates, id : BOOLEAN, code : Codes \cup {NoAnswer}]
      <4>1. row \in [Keys -> Row]
        BY DEF LedgerTypeOK
      <4>2. [row[k] EXCEPT !.state = st, !.code = cd] \in Row
        <5>1. st \in RowStates /\ row[k] \in Row
          BY <2>4, <4>1
        <5>2. QED BY <2>5, <5>1
      <4> HIDE DEF Row
      <4>3. row' \in [Keys -> Row]
        BY <3>1, <4>1, <4>2
      <4>4. QED BY <4>3 DEF Row
    <3>3. LedgerTypeOK
      OBVIOUS
    <3>4. events' \in [Keys -> SUBSET Callbacks]
      BY <2>1, <3>3 DEF LedgerTypeOK
    <3>5. QED BY <2>1, <3>2, <3>3, <3>4 DEF LedgerTypeOK
  <2>7. /\ row'[k].state = st /\ row'[k].id
        /\ \A x \in Keys : x # k => row'[x] = row[x]
    BY <2>1 DEF LedgerTypeOK
  <2>8. RowTellsOutcome' /\ SentHasID'
    BY <2>1, <2>3, <2>4, <2>7 DEF RowTellsOutcome, SentHasID
  <2>9. QED BY <2>1, <2>4, <2>6, <2>7, <2>8, ClientFrame
<1>6. QED BY <1>1, <1>2, <1>4, <1>5

THEOREM LedgerInvariant == Spec => []LedgerInv
<1>1. Init => LedgerInv
  <2> SUFFICES ASSUME Init PROVE LedgerInv
    OBVIOUS
  <2> USE DEF Init, LedgerInit
  <2>1. Absent \in [state : RowStates, id : BOOLEAN, code : Codes \cup {NoAnswer}]
    BY DEF Absent, RowStates
  <2>2. LedgerTypeOK
    BY <2>1 DEF LedgerTypeOK
  <2>3. QED
    BY <2>2 DEF LedgerInv, RowTellsOutcome, SentHasID, OneClient, CallIsFirst, Absent
<1>2. LedgerInv /\ [Next]_vars => LedgerInv'
  <2>1. ASSUME LedgerInv, LedgerStep PROVE LedgerInv'
    BY <2>1, ClientInv, OtherInv DEF LedgerStep
  <2>2. ASSUME LedgerInv, UNCHANGED vars PROVE LedgerInv'
    BY <2>2, OtherInv DEF vars
  <2>3. ASSUME LedgerInv, UNCHANGED <<ledgerVars, clientVars, told>> PROVE LedgerInv'
    BY <2>3, OtherInv
  <2>4. QED BY <2>1, <2>2, <2>3 DEF Next
<1>3. QED BY <1>1, <1>2, PTL DEF Spec

-----------------------------------------------------------------------------
(* The theorems *)

\* A row tells the best outcome the daemon has been told, whatever the order of reports,
\* replays and callbacks.
THEOREM RowsTellOutcomes == Spec => []RowTellsOutcome
<1>1. LedgerInv => RowTellsOutcome
  BY DEF LedgerInv
<1>2. QED BY <1>1, LedgerInvariant, PTL

\* No report takes a Meta ID away or sets a row back behind a receipt.
THEOREM ReplaysUndoNothing == Spec => ReplayUndoesNothing
<1> DEFINE Kept == \A k \in Keys : row[k].id =>
                      /\ row'[k].id
                      /\ Receipt!Rank[row[k].state] <= Receipt!Rank[row'[k].state]
<1>1. LedgerInv /\ [Next]_vars => [Kept]_vars
  <2> SUFFICES ASSUME LedgerInv, [Next]_vars PROVE Kept
    OBVIOUS
  <2>0. \A k \in Keys : row[k].id => Receipt!Rank[row[k].state] \in Nat
    <3>1. \A k \in Keys : row[k].id => row[k].state \in RowStates \ {"absent", "queued"}
      BY DEF LedgerInv, RowTellsOutcome, LedgerTypeOK
    <3>2. \A x \in RowStates \ {"absent", "queued"} : Receipt!Rank[x] \in Nat
      BY DEF RowStates, Receipt!Rank
    <3>3. QED BY <3>1, <3>2
  <2>1. ASSUME \A k \in Keys : row[k].id => row'[k] = row[k] PROVE Kept
    BY <2>0, <2>1 DEF Receipt!Rank
  <2>2. ASSUME NEW c \in Clients, NEW k \in Reserving, Reserve(c, k) PROVE Kept
    BY <2>1, <2>2 DEF Reserve, Reservable, LedgerInv, LedgerTypeOK, RowTellsOutcome
  <2>3. ASSUME NEW c \in Clients, Report(c) PROVE Kept
    <3>1. sending[c] \in Keys /\ answer[c] \in Answers /\ RecordExternal(sending[c], answer[c])
      BY <2>3 DEF Report, LedgerInv, LedgerTypeOK, OneClient
    <3>2. QED BY <2>1, <3>1, RecordInv
  <2>4. ASSUME NEW k \in Keys, NEW a \in Answers, ReplayLine(k, a) PROVE Kept
    BY <2>1, <2>4, RecordInv DEF ReplayLine
  <2>5. ASSUME NEW k \in Keys, NEW s \in Callbacks, Callback(k, s) PROVE Kept
    <3> DEFINE st == Receipt!NextState(row[k].state, Receipt!StatusOf(s))
    <3>1. /\ row[k].id /\ row'[k].id /\ row'[k].state = st
          /\ \A x \in Keys : x # k => row'[x] = row[x]
      BY <2>5 DEF Callback, LedgerInv, LedgerTypeOK
    <3>2. row[k].state \in RowStates \ {"absent", "queued"}
      BY <3>1 DEF LedgerInv, LedgerTypeOK, RowTellsOutcome
    <3>3. Receipt!Rank[row[k].state] <= Receipt!Rank[st]
      BY <3>2, CallbackState
    <3> HIDE DEF st
    <3>4. QED BY <2>0, <3>1, <3>3
  <2>6. CASE UNCHANGED row
    BY <2>1, <2>6
  <2>7. QED
    BY <2>2, <2>3, <2>4, <2>5, <2>6
       DEF Next, LedgerStep, CallMeta, ClientDies, SendUnreserved, SuppressForMetaFailure,
           SuppressionLost, PhoneChanges, ledgerVars, vars
<1>2. QED BY <1>1, LedgerInvariant, PTL DEF Spec, ReplayUndoesNothing

-----------------------------------------------------------------------------
(* The refinement *)

Accounted == {k \in Reserving : row[k].state # "absent"}
Calls     == [k \in Reserving |-> calls[k]]

\* A call is SpendOnce's call, a new row its Account, and everything else a stutter.
LEMMA StepSpendsOnce ==
    ASSUME LedgerInv, LedgerInv', [Next]_vars
    PROVE  [Single!Next]_(Single!vars)
<1>1. UNCHANGED <<Accounted, Calls>> => UNCHANGED Single!vars
  BY DEF Accounted, Calls, Single!vars
<1>2. ASSUME NEW k \in Reserving, Accounted' = Accounted \cup {k}, Calls' = Calls PROVE Single!Next
  <2>1. Single!Account(k)
    BY <1>2 DEF Accounted, Calls, Single!Account
  <2>2. QED BY <2>1 DEF Single!Next
<1>3. ASSUME NEW c \in Clients, NEW k \in Reserving, Reserve(c, k) PROVE Single!Next
  <2>1. calls' = calls /\ row' = [row EXCEPT ![k].state = "queued"] /\ k \in Keys
    BY <1>3 DEF Reserve
  <2>2. Accounted' = Accounted \cup {k} /\ Calls' = Calls
    BY <2>1 DEF Accounted, Calls, LedgerInv, LedgerTypeOK
  <2>3. QED BY <1>2, <2>2
<1>4. ASSUME NEW c \in Clients, NEW a \in Answers, CallMeta(c, a) PROVE Single!Next
  <2>1. PICK k \in Reserving : k = sending[c] /\ calls[k] = 0 /\ row[k].state # "absent"
    BY <1>4 DEF CallMeta, LedgerInv, LedgerTypeOK, CallIsFirst, OneClient
  <2>2. row' = row /\ calls' = [calls EXCEPT ![k] = 1]
    BY <1>4, <2>1 DEF CallMeta, ledgerVars
  <2>3. Single!Call(k)
    BY <2>1, <2>2 DEF Single!Call, LedgerInv, LedgerTypeOK
  <2>4. QED BY <2>1, <2>3 DEF Single!Next
<1>5. ASSUME NEW k \in Keys, NEW a \in Answers, RecordExternal(k, a), calls' = calls
      PROVE  Single!Next \/ UNCHANGED Single!vars
  <2>1. \A x \in Keys : x # k => row'[x] = row[x]
    BY <1>5 DEF RecordExternal, LedgerInv, LedgerTypeOK
  <2>2. row[k].state # "absent" => row'[k].state # "absent"
    BY <1>5, RecordInv
  <2>3. Calls' = Calls
    BY <1>5 DEF Calls
  <2>4. Accounted' = Accounted \/ (k \in Reserving /\ Accounted' = Accounted \cup {k})
    BY <2>1, <2>2 DEF Accounted
  <2>5. QED BY <1>1, <1>2, <2>3, <2>4
<1>6. ASSUME NEW c \in Clients, Report(c) PROVE Single!Next \/ UNCHANGED Single!vars
  <2>1. sending[c] \in Keys /\ answer[c] \in Answers
    BY <1>6 DEF Report, LedgerInv, LedgerTypeOK, OneClient
  <2>2. QED BY <1>5, <1>6, <2>1 DEF Report
<1>7. ASSUME NEW k \in Keys, NEW a \in Answers, ReplayLine(k, a)
      PROVE  Single!Next \/ UNCHANGED Single!vars
  BY <1>5, <1>7 DEF ReplayLine, clientVars
<1>8. ASSUME NEW k \in Keys, NEW s \in Callbacks, Callback(k, s) PROVE UNCHANGED Single!vars
  <2>1. calls' = calls /\ row[k].id /\ row'[k].id
        /\ \A x \in Keys : x # k => row'[x] = row[x]
    BY <1>8 DEF Callback, clientVars, LedgerInv, LedgerTypeOK
  <2>2. row[k].state # "absent" /\ row'[k].state # "absent"
    BY <2>1 DEF LedgerInv, RowTellsOutcome
  <2>3. Accounted' = Accounted /\ Calls' = Calls
    BY <2>1, <2>2 DEF Accounted, Calls
  <2>4. QED BY <1>1, <2>3
<1>9. ASSUME NEW k \in Keys \ Reserving, NEW a \in Answers, SendUnreserved(k, a)
      PROVE UNCHANGED Single!vars
  <2>1. row' = row /\ \A x \in Reserving : calls'[x] = calls[x]
    BY <1>9 DEF SendUnreserved, ledgerVars, LedgerInv, LedgerTypeOK
  <2>2. Accounted' = Accounted /\ Calls' = Calls
    BY <2>1 DEF Accounted, Calls
  <2>3. QED BY <1>1, <2>2
<1>10. CASE UNCHANGED <<row, calls>>
  BY <1>1, <1>10 DEF Accounted, Calls
<1>11. QED
  BY <1>3, <1>4, <1>6, <1>7, <1>8, <1>9, <1>10
     DEF Next, LedgerStep, ClientDies, SuppressForMetaFailure, SuppressionLost, PhoneChanges,
         ledgerVars, clientVars, vars

\* The ledger implements SpendOnce: a client that reserves calls Meta at most once for a
\* message, and only for one that is accounted for.
THEOREM LedgerSpendsOnce == Spec => ReservedSpendsOnce
<1>1. Init => Single!Init
  BY DEF Init, LedgerInit, Absent, Single!Init
<1>2. LedgerInv /\ LedgerInv' /\ [Next]_vars => [Single!Next]_(Single!vars)
  BY StepSpendsOnce
<1>3. QED BY <1>1, <1>2, LedgerInvariant, PTL DEF Spec, ReservedSpendsOnce, Single!Spec

=============================================================================
