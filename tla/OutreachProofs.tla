--------------------------- MODULE OutreachProofs ---------------------------
(***************************************************************************)
(* Campaigns and restocks for any customers, operators, workers and        *)
(* segments, however their requests interleave.  Each of the two is proved *)
(* by an invariant of its own; the steps of the other, and of the          *)
(* schedule, reach it through the customers only.                          *)
(***************************************************************************)
EXTENDS Outreach, ScheduleProofs, FiniteSetTheorems, TLAPS

USE AudienceConstants, CampaignConstants, RestockConstants
    DEF AudienceConstants, CampaignConstants, RestockConstants

-----------------------------------------------------------------------------
(* Campaigns *)

CampaignOf == [state : States, segment : Definitions, recipients : SUBSET Customers,
               count : 0..Cardinality(Customers)]
Request    == [at : Stages, campaign : CampaignIDs \cup {NoCampaign}, segment : Definitions,
               list : SUBSET Customers]

CampaignTypes == CampaignTypeOK /\ status \in [Customers -> Statuses] /\ phone \subseteq Customers

\* An operator at work has a campaign, and one that creates has it alone.
OperatorsApart ==
    \A o \in Operators :
        /\ At(o, "idle") <=> Subject(o) = NoCampaign
        /\ request[o].at \in Creating =>
                \A p \in Operators : Subject(p) = Subject(o) => p = o

\* Whom the operator reviewed is in the draft, or still to be inserted.
DraftAsReviewed(k) ==
    /\ campaign[k].state \in {"none", "draft"} => JobsOf(k) = {}
    /\ campaign[k].state # "none" =>
            /\ campaign[k].recipients \subseteq reviewed[k]
            /\ reviewed[k] \ gone[k] \subseteq
                    campaign[k].recipients
                        \cup UNION {request[o].list : o \in {p \in Operators : At(p, "inserting") /\ Subject(p) = k}}

RequestAsReviewed(o) ==
    LET k == Subject(o) IN
    /\ At(o, "previewed") => campaign[k].state = "none" /\ reviewed[k] \ gone[k] \subseteq request[o].list
    /\ At(o, "inserting") => campaign[k].state # "none"
    /\ request[o].at \in Creating => request[o].list \subseteq reviewed[k]
    /\ o \in Activating => campaign[k].state # "none"
    /\ request[o].at \in {"listed", "checked"} =>
            request[o].list \subseteq reviewed[k] /\ reviewed[k] \ gone[k] \subseteq request[o].list

\* A cancelled campaign has no job that may wait again, but for those that escaped.
CancelledEnds ==
    \A j \in Jobs :
        campaign[j[1]].state = "cancelled" /\ jobs[j] \in {"waiting", "running"} => j \in escaped

\* The redacted are in no draft; an activation that still lists them is known.
RedactedIsGone ==
    /\ \A k \in CampaignIDs : \A c \in campaign[k].recipients : status[c] # "redacted"
    /\ \A o \in Operators : request[o].at \in {"listed", "checked"} =>
            \A c \in request[o].list : status[c] = "redacted" => <<Subject(o), c>> \in late
    /\ RedactedHasNoJobs

\* What an activation has checked holds until somebody moves.
CheckedIsCurrent ==
    \A o \in Operators :
        /\ o \in Activating => request[o].segment = campaign[Subject(o)].segment
        /\ At(o, "checked") /\ o \notin moved => request[o].list = Preview(request[o].segment)

CampaignInv ==
    /\ CampaignTypes
    /\ OperatorsApart
    /\ \A k \in CampaignIDs : DraftAsReviewed(k)
    /\ \A o \in Operators : RequestAsReviewed(o)
    /\ ScheduledAsReviewed
    /\ CancelledEnds
    /\ RedactedIsGone
    /\ CheckedIsCurrent

\* A segment selects customers, by their rows, their orders and the stock alone.
LEMMA PreviewSelects ==
    ASSUME phone \subseteq Customers, NEW d PROVE Preview(d) \subseteq Customers
BY DEF Preview

LEMMA PreviewFrame ==
    ASSUME UNCHANGED <<status, phone, orders, stored>>, NEW d \in Segment
    PROVE  Preview(d)' = Preview(d)
<1>1. Buyers' = Buyers /\ Recent' = Recent
  BY DEF Buyers, Recent
<1>2. Selected(d.kind)' = Selected(d.kind)
  BY <1>1 DEF Selected
<1>3. Excluded(d.exclude)' = Excluded(d.exclude)
  BY <1>1 DEF Excluded
<1>4. QED BY <1>2, <1>3 DEF Preview, Exists

LEMMA CountOfList ==
    ASSUME NEW S \in SUBSET Customers PROVE Cardinality(S) \in 0..Cardinality(Customers)
<1>1. Cardinality(S) \in Nat /\ Cardinality(Customers) \in Nat /\ Cardinality(S) <= Cardinality(Customers)
  BY FS_Subset, FS_CardinalityType
<1>2. QED BY <1>1

-----------------------------------------------------------------------------
\* One operator's request moves.
LEMMA PreviewDraftInv ==
    ASSUME CampaignInv, NEW o \in Operators, NEW k \in CampaignIDs, NEW d \in Definitions,
           PreviewDraft(o, k, d)
    PROVE  CampaignInv'
<1> DEFINE new == [at |-> "previewed", campaign |-> k, segment |-> d, list |-> Preview(d)]
<1> USE DEF CampaignInv, At, Subject
<1>1. /\ request' = [request EXCEPT ![o] = new]
      /\ reviewed' = [reviewed EXCEPT ![k] = Preview(d)]
      /\ gone' = [gone EXCEPT ![k] = {}]
      /\ UNCHANGED <<campaign, jobs, moved, late, escaped, status, phone, orders, stored>>
  BY DEF PreviewDraft, campaignVars, audienceVars
<1>2. /\ request[o].at = "idle" /\ campaign[k].state = "none"
      /\ \A p \in Operators : request[p].campaign # k
  BY DEF PreviewDraft
<1>3. CampaignTypes'
  BY <1>1, PreviewSelects DEF CampaignTypes, CampaignTypeOK, Stages
<1>4. /\ request'[o] = new
      /\ \A p \in Operators : p # o => request'[p] = request[p]
      /\ reviewed'[k] = Preview(d) /\ gone'[k] = {}
      /\ \A x \in CampaignIDs : x # k => reviewed'[x] = reviewed[x] /\ gone'[x] = gone[x]
  BY <1>1 DEF CampaignTypes, CampaignTypeOK
<1>5. OperatorsApart'
  BY <1>2, <1>4 DEF OperatorsApart, Creating
<1>6. ASSUME NEW x \in CampaignIDs PROVE DraftAsReviewed(x)'
  BY <1>1, <1>2, <1>4 DEF DraftAsReviewed, JobsOf
<1>7. ASSUME NEW p \in Operators PROVE RequestAsReviewed(p)'
  BY <1>1, <1>2, <1>4 DEF RequestAsReviewed, Creating, Activating, OperatorsApart
<1>8. ScheduledAsReviewed'
  BY <1>1, <1>2, <1>4 DEF ScheduledAsReviewed, JobsOf
<1>9. CancelledEnds'
  BY <1>1 DEF CancelledEnds
<1>10. RedactedIsGone'
  BY <1>1, <1>4 DEF RedactedIsGone, RedactedHasNoJobs
<1>11. CheckedIsCurrent'
  BY <1>1, <1>4, PreviewFrame DEF CheckedIsCurrent, Activating, CampaignTypes, CampaignTypeOK
<1>12. QED BY <1>3, <1>5, <1>6, <1>7, <1>8, <1>9, <1>10, <1>11

LEMMA InsertDraftInv ==
    ASSUME CampaignInv, NEW o \in Operators, InsertDraft(o)
    PROVE  CampaignInv'
<1> USE DEF CampaignInv, At, Subject, Goto
<1> DEFINE k == request[o].campaign
           new == [state |-> "draft", segment |-> request[o].segment, recipients |-> {},
                   count |-> Cardinality(request[o].list)]
<1>1. /\ request[o].at = "previewed" /\ k \in CampaignIDs
      /\ campaign[k].state = "none"
      /\ \A p \in Operators : request[p].campaign = k => p = o
  BY DEF InsertDraft, OperatorsApart, RequestAsReviewed, Creating, CampaignTypes, CampaignTypeOK
<1>2. /\ campaign' = [campaign EXCEPT ![k] = new]
      /\ request' = [request EXCEPT ![o].at = "inserting"]
      /\ UNCHANGED <<jobs, reviewed, gone, moved, late, escaped, status, phone, orders, stored>>
  BY DEF InsertDraft, audienceVars
<1>3. CampaignTypes'
  <2>1. new \in CampaignOf
    BY CountOfList DEF CampaignTypes, CampaignTypeOK, CampaignOf, States
  <2>2. campaign' \in [CampaignIDs -> CampaignOf]
    BY <1>2, <2>1 DEF CampaignTypes, CampaignTypeOK, CampaignOf
  <2>3. request' \in [Operators -> Request]
    BY <1>2 DEF CampaignTypes, CampaignTypeOK, Request, Stages
  <2>4. QED BY <1>2, <2>2, <2>3 DEF CampaignTypes, CampaignTypeOK, CampaignOf, Request
<1>4. /\ request'[o].at = "inserting" /\ request'[o].campaign = k /\ request'[o].list = request[o].list
      /\ request'[o].segment = request[o].segment
      /\ \A p \in Operators : p # o => request'[p] = request[p]
      /\ campaign'[k].state = "draft" /\ campaign'[k].recipients = {}
      /\ campaign'[k].segment = request[o].segment
      /\ \A x \in CampaignIDs : x # k => campaign'[x] = campaign[x]
  BY <1>1, <1>2 DEF CampaignTypes, CampaignTypeOK
<1>5. k # NoCampaign /\ \A p \in Operators : p # o => request[p].campaign # k
  BY <1>1
<1> HIDE DEF k, new
<1>6. OperatorsApart'
  BY <1>1, <1>4, <1>5 DEF OperatorsApart, Creating, k
<1>7. ASSUME NEW x \in CampaignIDs PROVE DraftAsReviewed(x)'
  <2>1. JobsOf(x)' = JobsOf(x)
    BY <1>2 DEF JobsOf
  <2>2. CASE x = k
    <3>1. reviewed[k] \ gone[k] \subseteq request'[o].list
      BY <1>1, <1>4 DEF RequestAsReviewed, k
    <3>2. JobsOf(k) = {}
      BY <1>1 DEF DraftAsReviewed
    <3>3. QED BY <1>2, <1>4, <2>1, <2>2, <3>1, <3>2 DEF DraftAsReviewed
  <2>3. CASE x # k
    <3>1. \A p \in Operators : request'[p].campaign = x => request'[p] = request[p]
      BY <1>4, <2>3
    <3>2. \A p \in Operators : request[p].campaign = x => request'[p] = request[p]
      BY <1>4, <2>3 DEF k
    <3>3. QED BY <1>2, <1>4, <2>1, <2>3, <3>1, <3>2 DEF DraftAsReviewed
  <2>4. QED BY <2>2, <2>3
<1>8. ASSUME NEW p \in Operators PROVE RequestAsReviewed(p)'
  <2>1. CASE p = o
    BY <1>1, <1>2, <1>4, <2>1 DEF RequestAsReviewed, Creating, Activating, k
  <2>2. CASE p # o
    <3>1. request'[p] = request[p] /\ request[p].campaign # k
      BY <1>4, <1>5, <2>2
    <3>2. request[p].campaign # NoCampaign => campaign'[request[p].campaign] = campaign[request[p].campaign]
      BY <1>4, <3>1 DEF CampaignTypes, CampaignTypeOK
    <3>3. request[p].at # "idle" => request[p].campaign # NoCampaign
      BY DEF OperatorsApart
    <3>4. QED BY <1>2, <3>1, <3>2, <3>3 DEF RequestAsReviewed, Creating, Activating
  <2>3. QED BY <2>1, <2>2
<1>9. ScheduledAsReviewed'
  BY <1>2, <1>4 DEF ScheduledAsReviewed, JobsOf
<1>10. CancelledEnds'
  <2>1. \A j \in Jobs : j[1] \in CampaignIDs
    BY DEF Jobs
  <2>2. QED BY <1>2, <1>4, <2>1 DEF CancelledEnds
<1>11. RedactedIsGone'
  <2>1. \A x \in CampaignIDs : campaign'[x].recipients \subseteq campaign[x].recipients
    BY <1>4
  <2>2. QED BY <1>2, <1>4, <2>1 DEF RedactedIsGone, RedactedHasNoJobs
<1>12. CheckedIsCurrent'
  <2>1. \A p \in Operators : p # o /\ p \in Activating =>
            /\ request'[p] = request[p]
            /\ campaign'[request[p].campaign] = campaign[request[p].campaign]
    BY <1>4, <1>5 DEF OperatorsApart, Activating, CampaignTypes, CampaignTypeOK
  <2>2. \A p \in Operators : request[p].segment \in Segment
    BY DEF CampaignTypes, CampaignTypeOK
  <2>3. ASSUME NEW p \in Operators, At(p, "checked")' PROVE p # o /\ At(p, "checked") /\ request'[p] = request[p]
    BY <1>4, <2>3
  <2>4. \A p \in Operators : Preview(request[p].segment)' = Preview(request'[p].segment)
    BY <1>2, <1>4, <2>2, PreviewFrame
  <2>5. QED BY <1>2, <1>4, <2>1, <2>2, <2>3, PreviewFrame DEF CheckedIsCurrent, Activating
<1>13. QED BY <1>3, <1>6, <1>7, <1>8, <1>9, <1>10, <1>11, <1>12


\* One request becomes r and nothing else changes.  What is left to show then concerns
\* this request and the drafts.
RequestBecomes(o, r) ==
    /\ r \in Request
    /\ request' = [request EXCEPT ![o] = r]
    /\ UNCHANGED <<campaign, jobs, reviewed, late, escaped, status, phone, orders, stored>>
    /\ gone' \in [CampaignIDs -> SUBSET Customers]
    /\ \A k \in CampaignIDs : gone[k] \subseteq gone'[k]
    /\ moved' \in {moved, moved \ {o}}
    /\ r.at = "idle" <=> r.campaign = NoCampaign
    /\ \/ r.at \notin Creating
       \/ r.at = "inserting" /\ At(o, "inserting") /\ r.campaign = Subject(o)
    /\ \/ r.campaign \in {Subject(o), NoCampaign}
       \/ \A p \in Operators : request[p].at \in Creating => Subject(p) # r.campaign
    /\ r.at \in {"listed", "checked"} =>
            \A c \in r.list : status[c] = "redacted" => <<r.campaign, c>> \in late
    /\ r.at \in {"opened", "listed", "checked"} => r.segment = campaign[r.campaign].segment
    /\ r.at = "checked" => o \in moved' \/ r.list = Preview(r.segment)

LEMMA RequestInv ==
    ASSUME CampaignInv, NEW o \in Operators, NEW r, RequestBecomes(o, r),
           \A k \in CampaignIDs : DraftAsReviewed(k)',
           RequestAsReviewed(o)'
    PROVE  CampaignInv'
<1> USE DEF RequestBecomes
<1> USE DEF CampaignInv, At, Subject
<1>1. /\ request'[o] = r
      /\ \A p \in Operators : p # o => request'[p] = request[p]
  BY DEF CampaignTypes, CampaignTypeOK
<1>2. CampaignTypes'
  BY DEF CampaignTypes, CampaignTypeOK, Request
<1>3. OperatorsApart'
  <2>1. ASSUME NEW p \in Operators PROVE request'[p].at = "idle" <=> request'[p].campaign = NoCampaign
    BY <1>1 DEF OperatorsApart
  <2>2. ASSUME NEW p \in Operators, NEW q \in Operators, request'[p].at \in Creating,
               request'[q].campaign = request'[p].campaign
        PROVE q = p
    <3>1. request[p].at \in Creating /\ request[p].campaign = request'[p].campaign
      BY <1>1, <2>2 DEF OperatorsApart, Creating
    <3>2. request[p].campaign # NoCampaign
      BY <3>1 DEF OperatorsApart, Creating
    <3>3. CASE q # o
      BY <1>1, <2>2, <3>1, <3>3 DEF OperatorsApart
    <3>4. CASE q = o
      BY <1>1, <2>2, <3>1, <3>2, <3>4 DEF OperatorsApart
    <3>5. QED BY <3>3, <3>4
  <2>3. QED BY <2>1, <2>2 DEF OperatorsApart
<1>4. ASSUME NEW p \in Operators PROVE RequestAsReviewed(p)'
  <2>1. CASE p # o
    <3>1. request'[p] = request[p]
      BY <1>1, <2>1
    <3>2. request[p].at # "idle" => request[p].campaign \in CampaignIDs
      BY DEF OperatorsApart, CampaignTypes, CampaignTypeOK
    <3>3. QED BY <3>1, <3>2 DEF RequestAsReviewed, Creating, Activating
  <2>2. QED BY <2>1
<1>5. ScheduledAsReviewed'
  BY DEF ScheduledAsReviewed, JobsOf
<1>6. CancelledEnds'
  BY DEF CancelledEnds
<1>7. RedactedIsGone'
  BY <1>1 DEF RedactedIsGone, RedactedHasNoJobs
<1>8. CheckedIsCurrent'
  <2>1. \A p \in Operators : request[p].segment \in Segment
    BY DEF CampaignTypes, CampaignTypeOK
  <2>2. \A p \in Operators : request'[p].segment \in Segment
    BY <1>1, <2>1 DEF Request
  <2>3. \A p \in Operators : Preview(request[p].segment)' = Preview(request'[p].segment)
    BY <2>2, PreviewFrame
  <2>4. QED BY <1>1, <2>3 DEF CheckedIsCurrent, Activating
<1>9. QED BY <1>2, <1>3, <1>4, <1>5, <1>6, <1>7, <1>8


\* A request that ends leaves the recipients that it had still to insert behind.
LEMMA EndInv ==
    ASSUME CampaignInv, NEW o \in Operators, Ends(o),
           UNCHANGED <<campaign, jobs, reviewed, late, escaped, status, phone, orders, stored>>,
           gone' \in [CampaignIDs -> SUBSET Customers],
           \A k \in CampaignIDs : gone[k] \subseteq gone'[k],
           At(o, "inserting") => request[o].list \subseteq gone'[Subject(o)]
    PROVE  CampaignInv'
<1>1. Idle \in Request /\ Idle.at = "idle" /\ Idle.campaign = NoCampaign
  <2>1. CASE \E d \in Definitions : TRUE
    <3>1. NoSegment \in Definitions
      BY <2>1 DEF NoSegment
    <3>2. QED BY <3>1 DEF Idle, Request, Stages
  <2>2. CASE ~\E d \in Definitions : TRUE
    BY <2>2 DEF CampaignInv, CampaignTypes, CampaignTypeOK
  <2>3. QED BY <2>1, <2>2
<1>2. request' = [request EXCEPT ![o] = Idle] /\ moved' = moved \ {o}
  BY DEF Ends
<1>3. request'[o] = Idle /\ \A p \in Operators : p # o => request'[p] = request[p]
  BY <1>2 DEF CampaignInv, CampaignTypes, CampaignTypeOK
<1>4. ASSUME NEW k \in CampaignIDs PROVE DraftAsReviewed(k)'
  <2>1. DraftAsReviewed(k)
    BY DEF CampaignInv
  <2>2. JobsOf(k)' = JobsOf(k)
    BY DEF JobsOf
  <2>3. reviewed'[k] = reviewed[k] /\ gone[k] \subseteq gone'[k] /\ campaign'[k] = campaign[k]
    OBVIOUS
  <2>4. ASSUME NEW c \in reviewed[k] \ gone'[k], campaign[k].state # "none"
        PROVE  \/ c \in campaign[k].recipients
               \/ \E p \in Operators : At(p, "inserting")' /\ Subject(p)' = k /\ c \in request'[p].list
    <3>1. CASE c \notin campaign[k].recipients
      <4>1. PICK p \in Operators : At(p, "inserting") /\ Subject(p) = k /\ c \in request[p].list
        <5>1. c \in UNION {request[q].list : q \in {p \in Operators : At(p, "inserting") /\ Subject(p) = k}}
          BY <2>1, <2>3, <2>4, <3>1 DEF DraftAsReviewed
        <5>2. QED BY <5>1
      <4>2. p # o
        BY <2>4, <4>1
      <4>3. QED BY <1>3, <4>1, <4>2 DEF At, Subject
    <3>2. QED BY <3>1
  <2>5. QED BY <2>1, <2>2, <2>3, <2>4 DEF DraftAsReviewed
<1>5. RequestAsReviewed(o)'
  BY <1>1, <1>3 DEF RequestAsReviewed, At, Creating, Activating
<1> HIDE DEF Idle
<1>6. RequestBecomes(o, Idle)
  BY <1>1, <1>2 DEF RequestBecomes, Creating
<1>7. QED BY <1>4, <1>5, <1>6, RequestInv

\* Requests that only read.
LEMMA ReadingInv ==
    ASSUME CampaignInv, NEW o \in Operators,
           \/ DraftCreated(o) \/ CutOff(o) \/ ListRecipients(o) \/ Revalidate(o)
           \/ \E k \in CampaignIDs : OpenDraft(o, k)
    PROVE  CampaignInv'
<1>0. /\ request \in [Operators -> Request]
      /\ campaign \in [CampaignIDs -> CampaignOf]
      /\ gone \in [CampaignIDs -> SUBSET Customers]
      /\ ~At(o, "idle") => Subject(o) \in CampaignIDs
  BY DEF CampaignInv, CampaignTypes, CampaignTypeOK, OperatorsApart, Request, CampaignOf, At, Subject
<1>1. CASE DraftCreated(o)
  <2>1. /\ UNCHANGED <<campaign, jobs, reviewed, gone, late, escaped, status, phone, orders, stored>>
        /\ request[o].list = {} /\ Ends(o)
    BY <1>1 DEF DraftCreated, audienceVars, campaignVars
  <2>2. QED BY <1>0, <2>1, EndInv
<1>2. CASE CutOff(o)
  <2>1. /\ UNCHANGED <<campaign, jobs, reviewed, late, escaped, status, phone, orders, stored>>
        /\ Ends(o) /\ ~At(o, "idle")
        /\ gone' = IF request[o].at \in Creating
                   THEN [gone EXCEPT ![Subject(o)] = @ \cup request[o].list] ELSE gone
    BY <1>2 DEF CutOff, audienceVars, campaignVars
  <2>2. /\ gone' \in [CampaignIDs -> SUBSET Customers]
        /\ \A k \in CampaignIDs : gone[k] \subseteq gone'[k]
        /\ At(o, "inserting") => request[o].list \subseteq gone'[Subject(o)]
    BY <1>0, <2>1 DEF Request, Creating, At
  <2>3. QED BY <2>1, <2>2, EndInv
<1>3. ASSUME \/ ListRecipients(o) \/ (Revalidate(o) /\ ~Ends(o))
             \/ \E k \in CampaignIDs : OpenDraft(o, k)
      PROVE  CampaignInv'
  <2>1. UNCHANGED <<campaign, jobs, reviewed, gone, moved, late, escaped, status, phone, orders, stored>>
    BY <1>3 DEF ListRecipients, Revalidate, OpenDraft, Goto, audienceVars, campaignVars, ghostVars
  <2>2. ASSUME request[o].at \notin Creating, request'[o].at \notin Creating,
               \A p \in Operators : p # o => request'[p] = request[p],
               NEW k \in CampaignIDs
        PROVE  DraftAsReviewed(k)'
    <3>1. \A p \in Operators : (At(p, "inserting") <=> At(p, "inserting")')
                                 /\ (At(p, "inserting") => request'[p] = request[p])
      BY <2>2 DEF At, Creating
    <3>2. {request[p].list : p \in {q \in Operators : At(q, "inserting") /\ Subject(q) = k}}
            = {request'[p].list : p \in {q \in Operators : At(q, "inserting")' /\ Subject(q)' = k}}
      BY <3>1 DEF Subject
    <3>3. QED BY <2>1, <3>2 DEF CampaignInv, DraftAsReviewed, JobsOf, Subject, At
  <2>3. ASSUME NEW k \in CampaignIDs, OpenDraft(o, k) PROVE CampaignInv'
    <3> DEFINE r == [at |-> "opened", campaign |-> k, segment |-> campaign[k].segment, list |-> {}]
    <3>1. /\ request' = [request EXCEPT ![o] = r] /\ At(o, "idle") /\ campaign[k].state = "draft"
          /\ \A p \in Operators : request[p].at \in Creating => Subject(p) # k
      BY <2>3 DEF OpenDraft
    <3>2. r \in Request
      BY <1>0 DEF Request, CampaignOf, Stages
    <3>3. RequestBecomes(o, r)
      BY <1>0, <2>1, <3>1, <3>2 DEF RequestBecomes, Creating
    <3>4. request'[o] = r /\ \A p \in Operators : p # o => request'[p] = request[p]
      BY <1>0, <3>1
    <3>5. \A x \in CampaignIDs : DraftAsReviewed(x)'
      BY <2>2, <3>1, <3>4 DEF At, Creating
    <3>6. RequestAsReviewed(o)'
      BY <2>1, <3>1, <3>4 DEF RequestAsReviewed, At, Subject, Creating, Activating
    <3>7. QED BY <3>3, <3>5, <3>6, RequestInv
  <2>4. CASE ListRecipients(o)
    <3> DEFINE k == Subject(o)
               r == [request[o] EXCEPT !.at = "listed", !.list = campaign[k].recipients]
    <3>1. request' = [request EXCEPT ![o] = r] /\ At(o, "opened") /\ k \in CampaignIDs
      BY <1>0, <2>4 DEF ListRecipients, At
    <3>2. r \in Request /\ r.at = "listed" /\ r.campaign = k /\ r.segment = request[o].segment
          /\ r.list = campaign[k].recipients
      BY <1>0, <3>1 DEF Request, CampaignOf, Stages, Subject
    <3>3. k # NoCampaign /\ o \in Activating /\ r.segment = campaign[k].segment
          /\ campaign[k].state # "none"
      BY <3>1, <3>2 DEF CampaignInv, Activating, At, CheckedIsCurrent, RequestAsReviewed
    <3>4. \A c \in r.list : status[c] # "redacted"
      BY <3>1, <3>2 DEF CampaignInv, RedactedIsGone
    <3> HIDE DEF k, r
    <3>5. RequestBecomes(o, r)
      BY <1>0, <2>1, <3>1, <3>2, <3>3, <3>4 DEF RequestBecomes, Creating, k
    <3>6. request'[o] = r /\ \A p \in Operators : p # o => request'[p] = request[p]
      BY <1>0, <3>1
    <3>7. \A x \in CampaignIDs : DraftAsReviewed(x)'
      BY <2>2, <3>1, <3>2, <3>6 DEF At, Creating
    <3>8. RequestAsReviewed(o)'
      <4>1. \A p \in Operators : At(p, "inserting") => Subject(p) # k
        <5>1. ASSUME NEW p \in Operators, At(p, "inserting"), Subject(p) = k PROVE FALSE
          BY <5>1, <3>1 DEF CampaignInv, OperatorsApart, At, Creating, k
        <5>2. QED BY <5>1
      <4>2. campaign[k].recipients \subseteq reviewed[k] /\ reviewed[k] \ gone[k] \subseteq campaign[k].recipients
        BY <3>1, <3>3, <4>1 DEF CampaignInv, DraftAsReviewed
      <4>3. QED BY <2>1, <3>2, <3>3, <3>6, <4>2 DEF RequestAsReviewed, At, Subject, Creating, Activating
    <3>9. QED BY <3>5, <3>7, <3>8, RequestInv
  <2>5. CASE Revalidate(o) /\ ~Ends(o)
    <3> DEFINE k == Subject(o)
               r == [request[o] EXCEPT !.at = "checked"]
    <3>1. request' = [request EXCEPT ![o] = r] /\ At(o, "listed") /\ k \in CampaignIDs
          /\ Preview(request[o].segment) = request[o].list
      BY <1>0, <2>5 DEF Revalidate, Goto, At
    <3>2. r \in Request /\ r.at = "checked" /\ r.campaign = k /\ r.segment = request[o].segment
          /\ r.list = request[o].list
      BY <1>0, <3>1 DEF Request, Stages, Subject
    <3>3. k # NoCampaign /\ r.segment = campaign[k].segment
      BY <3>1, <3>2 DEF CampaignInv, Activating, At, CheckedIsCurrent
    <3>4. \A c \in r.list : status[c] = "redacted" => <<k, c>> \in late
      BY <3>1, <3>2 DEF CampaignInv, RedactedIsGone, At
    <3> HIDE DEF k, r
    <3>5. RequestBecomes(o, r)
      BY <1>0, <2>1, <3>1, <3>2, <3>3, <3>4 DEF RequestBecomes, Creating, k
    <3>6. request'[o] = r /\ \A p \in Operators : p # o => request'[p] = request[p]
      BY <1>0, <3>1
    <3>7. \A x \in CampaignIDs : DraftAsReviewed(x)'
      BY <2>2, <3>1, <3>2, <3>6 DEF At, Creating
    <3>8. RequestAsReviewed(o)'
      <4>1. RequestAsReviewed(o)
        BY DEF CampaignInv
      <4>2. QED
        BY <2>1, <3>1, <3>2, <3>6, <4>1 DEF RequestAsReviewed, At, Subject, Creating, Activating, k
    <3>9. QED BY <3>5, <3>7, <3>8, RequestInv
  <2>6. QED BY <1>3, <2>3, <2>4, <2>5
<1>4. CASE Revalidate(o) /\ Ends(o)
  <2>1. /\ UNCHANGED <<campaign, jobs, reviewed, gone, late, escaped, status, phone, orders, stored>>
        /\ Ends(o) /\ At(o, "listed")
    BY <1>4 DEF Revalidate, audienceVars, campaignVars
  <2>2. QED BY <1>0, <2>1, EndInv DEF At
<1>5. QED BY <1>1, <1>2, <1>3, <1>4


LEMMA InsertRecipientInv ==
    ASSUME CampaignInv, NEW o \in Operators, InsertRecipient(o)
    PROVE  CampaignInv'
<1> DEFINE k == request[o].campaign
<1> USE DEF CampaignInv, At, Subject
<1>1. PICK c \in request[o].list :
        /\ Exists(c)
        /\ campaign' = [campaign EXCEPT ![k].recipients = @ \cup {c}]
        /\ request' = [request EXCEPT ![o].list = @ \ {c}]
  BY DEF InsertRecipient
<1>2. /\ request[o].at = "inserting" /\ k \in CampaignIDs
      /\ \A p \in Operators : request[p].campaign = k => p = o
      /\ UNCHANGED <<jobs, reviewed, gone, moved, late, escaped, status, phone, orders, stored>>
  BY DEF InsertRecipient, OperatorsApart, Creating, CampaignTypes, CampaignTypeOK, audienceVars, ghostVars
<1>3. c \in Customers /\ c \in reviewed[k] /\ status[c] # "redacted"
  BY <1>1, <1>2 DEF CampaignTypes, CampaignTypeOK, RequestAsReviewed, Creating, Exists, NoRow
<1>4. /\ request'[o] = [request[o] EXCEPT !.list = request[o].list \ {c}]
      /\ request'[o].at = "inserting" /\ request'[o].campaign = k
      /\ request'[o].list = request[o].list \ {c} /\ request'[o].segment = request[o].segment
      /\ \A p \in Operators : p # o => request'[p] = request[p]
      /\ campaign'[k].state = campaign[k].state /\ campaign'[k].recipients = campaign[k].recipients \cup {c}
      /\ campaign'[k].segment = campaign[k].segment
      /\ \A x \in CampaignIDs : x # k => campaign'[x] = campaign[x]
  BY <1>1, <1>2 DEF CampaignTypes, CampaignTypeOK
<1>5. k # NoCampaign /\ \A p \in Operators : p # o => request[p].campaign # k
  BY <1>2
<1>6. CampaignTypes'
  <2>1. campaign' \in [CampaignIDs -> CampaignOf]
    BY <1>1, <1>2, <1>3 DEF CampaignTypes, CampaignTypeOK, CampaignOf
  <2>2. request' \in [Operators -> Request]
    BY <1>1 DEF CampaignTypes, CampaignTypeOK, Request
  <2>3. QED BY <1>2, <2>1, <2>2 DEF CampaignTypes, CampaignTypeOK, CampaignOf, Request
<1> HIDE DEF k
<1>7. OperatorsApart'
  <2>1. \A p \in Operators : request'[p].at = request[p].at /\ request'[p].campaign = request[p].campaign
    BY <1>2, <1>4 DEF k
  <2>2. QED BY <2>1 DEF OperatorsApart, Creating
<1>8. ASSUME NEW x \in CampaignIDs PROVE DraftAsReviewed(x)'
  <2>1. JobsOf(x)' = JobsOf(x)
    BY <1>2 DEF JobsOf
  <2>2. CASE x = k
    <3>1. campaign[k].state # "none" /\ campaign[k].recipients \subseteq reviewed[k]
      BY <1>2 DEF RequestAsReviewed, DraftAsReviewed, k
    <3>2. \A p \in Operators : request[p].at = "inserting" /\ request[p].campaign = k => p = o
      BY <1>2
    <3>3. reviewed[k] \ gone[k] \subseteq campaign[k].recipients \cup request[o].list
      BY <1>2, <3>1, <3>2 DEF DraftAsReviewed
    <3>4. reviewed[k] \ gone[k] \subseteq campaign'[k].recipients \cup request'[o].list
      BY <1>4, <3>3
    <3>5. request'[o].list
            \in {request'[p].list : p \in {q \in Operators : request'[q].at = "inserting" /\ request'[q].campaign = k}}
      BY <1>4
    <3>6. campaign'[k].recipients \subseteq reviewed[k] /\ campaign[k].state = campaign'[k].state
      BY <1>3, <1>4, <3>1
    <3>7. DraftAsReviewed(k)
      BY <1>2
    <3>8. QED BY <1>2, <2>1, <2>2, <3>1, <3>4, <3>5, <3>6, <3>7 DEF DraftAsReviewed
  <2>3. CASE x # k
    <3>1. \A p \in Operators : request'[p].campaign = x => request'[p] = request[p]
      BY <1>4, <2>3
    <3>2. \A p \in Operators : request[p].campaign = x => request'[p] = request[p]
      BY <1>4, <2>3 DEF k
    <3>3. QED BY <1>2, <1>4, <2>1, <2>3, <3>1, <3>2 DEF DraftAsReviewed
  <2>4. QED BY <2>2, <2>3
<1>9. ASSUME NEW p \in Operators PROVE RequestAsReviewed(p)'
  <2>1. CASE p = o
    BY <1>2, <1>4, <2>1 DEF RequestAsReviewed, Creating, Activating, k
  <2>2. CASE p # o
    <3>1. request'[p] = request[p] /\ request[p].campaign # k
      BY <1>4, <1>5, <2>2
    <3>2. request[p].campaign # NoCampaign => campaign'[request[p].campaign] = campaign[request[p].campaign]
      BY <1>4, <3>1 DEF CampaignTypes, CampaignTypeOK
    <3>3. request[p].at # "idle" => request[p].campaign # NoCampaign
      BY DEF OperatorsApart
    <3>4. QED BY <1>2, <3>1, <3>2, <3>3 DEF RequestAsReviewed, Creating, Activating
  <2>3. QED BY <2>1, <2>2
<1>10. \A x \in CampaignIDs : campaign'[x].state = campaign[x].state /\ campaign'[x].segment = campaign[x].segment
  BY <1>4
<1>11. ScheduledAsReviewed'
  BY <1>2, <1>10 DEF ScheduledAsReviewed, JobsOf
<1>12. CancelledEnds'
  <2>1. \A j \in Jobs : j[1] \in CampaignIDs
    BY DEF Jobs
  <2>2. QED BY <1>2, <1>10, <2>1 DEF CancelledEnds
<1>13. RedactedIsGone'
  BY <1>2, <1>3, <1>4 DEF RedactedIsGone, RedactedHasNoJobs
<1>14. CheckedIsCurrent'
  <2>1. \A p \in Operators : p \in Activating' => p # o /\ request'[p] = request[p] /\ p \in Activating
    BY <1>4 DEF Activating
  <2>2. \A p \in Activating : request[p].campaign \in CampaignIDs
    BY DEF Activating, OperatorsApart, CampaignTypes, CampaignTypeOK
  <2>3. \A p \in Operators : request'[p].segment \in Segment
    BY <1>6 DEF CampaignTypes, CampaignTypeOK
  <2>4. \A p \in Operators : Preview(request[p].segment)' = Preview(request'[p].segment)
    BY <1>2, <2>3, PreviewFrame
  <2>5. QED BY <1>2, <1>4, <1>10, <2>1, <2>2, <2>4 DEF CheckedIsCurrent, Activating
<1>15. QED BY <1>6, <1>7, <1>8, <1>9, <1>11, <1>12, <1>13, <1>14

-----------------------------------------------------------------------------
LEMMA NewState ==
    ASSUME campaign \in [CampaignIDs -> CampaignOf], NEW k \in CampaignIDs, NEW s \in States,
           campaign' = [campaign EXCEPT ![k].state = s]
    PROVE  campaign' \in [CampaignIDs -> CampaignOf]
<1>1. [campaign[k] EXCEPT !.state = s] \in CampaignOf
  <2> DEFINE counts == 0..Cardinality(Customers)
  <2>1. campaign[k] \in [state : States, segment : Definitions, recipients : SUBSET Customers, count : counts]
    BY DEF CampaignOf
  <2> HIDE DEF counts
  <2>2. [campaign[k] EXCEPT !.state = s]
          \in [state : States, segment : Definitions, recipients : SUBSET Customers, count : counts]
    BY <2>1
  <2>3. QED BY <2>2 DEF CampaignOf, counts
<1>2. campaign' = [campaign EXCEPT ![k] = [campaign[k] EXCEPT !.state = s]]
  OBVIOUS
<1>3. QED BY <1>1, <1>2

\* Jobs and states, without a word to the requests: a cancellation, the queue, and the
\* cancellation of a customer's work.
LEMMA JobsInv ==
    ASSUME CampaignInv,
           UNCHANGED <<request, reviewed, gone, moved, late, status, phone, orders, stored>>,
           campaign' \in [CampaignIDs -> CampaignOf],
           jobs' \in [Jobs -> JobStates], escaped' \subseteq Jobs, escaped \subseteq escaped',
           \A k \in CampaignIDs :
              /\ campaign'[k].recipients = campaign[k].recipients
              /\ campaign'[k].segment = campaign[k].segment
              /\ campaign'[k].state = campaign[k].state
                    \/ (campaign[k].state # "none" /\ campaign'[k].state = "cancelled"),
           \A j \in Jobs : jobs'[j] = "none" <=> jobs[j] = "none",
           CancelledEnds'
    PROVE  CampaignInv'
<1> USE DEF CampaignInv, At, Subject
<1>1. CampaignTypes'
  BY DEF CampaignTypes, CampaignTypeOK, CampaignOf
<1>2. OperatorsApart'
  BY DEF OperatorsApart
<1>3. \A k \in CampaignIDs : JobsOf(k)' = JobsOf(k)
  BY DEF JobsOf, Jobs
<1>4. ASSUME NEW k \in CampaignIDs PROVE DraftAsReviewed(k)'
  BY <1>3 DEF DraftAsReviewed
<1>5. \A o \in Operators : request[o].at # "idle" => request[o].campaign \in CampaignIDs
  BY DEF OperatorsApart, CampaignTypes, CampaignTypeOK
<1>6. ASSUME NEW o \in Operators PROVE RequestAsReviewed(o)'
  BY <1>5 DEF RequestAsReviewed, Creating, Activating
<1>7. ScheduledAsReviewed'
  BY <1>3 DEF ScheduledAsReviewed
<1>8. RedactedIsGone'
  BY DEF RedactedIsGone, RedactedHasNoJobs
<1>9. CheckedIsCurrent'
  <2>1. \A p \in Operators : request'[p].segment \in Segment
    BY <1>1 DEF CampaignTypes, CampaignTypeOK
  <2>2. \A p \in Operators : Preview(request[p].segment)' = Preview(request'[p].segment)
    BY <2>1, PreviewFrame
  <2>3. QED BY <1>5, <2>2 DEF CheckedIsCurrent, Activating
<1>10. QED BY <1>1, <1>2, <1>4, <1>6, <1>7, <1>8, <1>9

\* CancelCampaign, JobMoves and CancelCampaignJobs are such steps.
LEMMA CancelCampaignInv ==
    ASSUME CampaignInv, NEW k \in CampaignIDs, CancelCampaign(k)
    PROVE  CampaignInv'
<1> USE DEF CampaignInv
<1>1. /\ UNCHANGED <<request, reviewed, gone, moved, late, status, phone, orders, stored>>
      /\ campaign[k].state \in {"draft", "scheduled"}
      /\ campaign' = [campaign EXCEPT ![k].state = "cancelled"]
      /\ jobs' = [j \in Jobs |-> IF j[1] = k /\ jobs[j] = "waiting" THEN "cancelled" ELSE jobs[j]]
      /\ escaped' = escaped \cup {j \in Jobs : j[1] = k /\ jobs[j] = "running"}
  BY DEF CancelCampaign, audienceVars
<1>2. campaign' \in [CampaignIDs -> CampaignOf]
  <2>1. campaign \in [CampaignIDs -> CampaignOf] /\ "cancelled" \in States
    BY DEF CampaignTypes, CampaignTypeOK, CampaignOf, States
  <2>2. QED BY <1>1, <2>1, NewState
<1>3. jobs' \in [Jobs -> JobStates] /\ escaped' \subseteq Jobs /\ escaped \subseteq escaped'
  BY <1>1 DEF CampaignTypes, CampaignTypeOK, JobStates
<1>4. \A x \in CampaignIDs :
          /\ campaign'[x].recipients = campaign[x].recipients
          /\ campaign'[x].segment = campaign[x].segment
          /\ campaign'[x].state = (IF x = k THEN "cancelled" ELSE campaign[x].state)
  BY <1>1 DEF CampaignTypes, CampaignTypeOK
<1>5. \A j \in Jobs : jobs'[j] = (IF j[1] = k /\ jobs[j] = "waiting" THEN "cancelled" ELSE jobs[j])
  BY <1>1
<1>6. CancelledEnds'
  <2>1. \A j \in Jobs : j[1] \in CampaignIDs
    BY DEF Jobs
  <2>2. QED BY <1>1, <1>4, <1>5, <2>1 DEF CancelledEnds
<1>7. \A j \in Jobs : jobs'[j] = "none" <=> jobs[j] = "none"
  BY <1>5
<1> HIDE DEF CampaignInv
<1>8. QED BY <1>1, <1>2, <1>3, <1>4, <1>6, <1>7, JobsInv

LEMMA QueueInv ==
    ASSUME CampaignInv, UNCHANGED <<audienceVars, campaign, request, ghostVars>>,
           (\E j \in Jobs : JobMoves(j)) \/ \E c \in Customers : CancelCampaignJobs(c)
    PROVE  CampaignInv'
<1>1. /\ jobs' \in [Jobs -> JobStates]
      /\ \A j \in Jobs : jobs'[j] = "none" <=> jobs[j] = "none"
      /\ \A j \in Jobs : jobs'[j] \in {"waiting", "running"} => jobs[j] \in {"waiting", "running"}
  <2>1. ASSUME NEW i \in Jobs, JobMoves(i)
        PROVE  jobs[i] \in {"waiting", "running"}
               /\ \E s \in {"waiting", "running", "over"} : jobs' = [jobs EXCEPT ![i] = s]
    BY <2>1 DEF JobMoves
  <2>2. QED BY <2>1 DEF CampaignInv, CampaignTypes, CampaignTypeOK, JobStates, CancelCampaignJobs
<1>2. UNCHANGED <<campaign, request, reviewed, gone, moved, late, escaped, status, phone, orders, stored>>
  BY DEF audienceVars, ghostVars
<1>3. CancelledEnds'
  BY <1>1, <1>2 DEF CampaignInv, CancelledEnds
<1>4. campaign' \in [CampaignIDs -> CampaignOf] /\ escaped' \subseteq Jobs
  BY <1>2 DEF CampaignInv, CampaignTypes, CampaignTypeOK, CampaignOf
<1>5. QED BY <1>1, <1>2, <1>3, <1>4, JobsInv

-----------------------------------------------------------------------------
\* The transaction of an activation.
LEMMA CommitInv ==
    ASSUME CampaignInv, NEW o \in Operators, CommitActivation(o)
    PROVE  CampaignInv'
<1> DEFINE k == request[o].campaign
           L == request[o].list
<1>0. /\ request[o].at = "checked" /\ k \in CampaignIDs /\ k # NoCampaign /\ Ends(o)
      /\ L \subseteq reviewed[k] /\ reviewed[k] \ gone[k] \subseteq L
      /\ UNCHANGED <<reviewed, gone, late, escaped, status, phone, orders, stored>>
  BY DEF CampaignInv, CommitActivation, OperatorsApart, RequestAsReviewed, CampaignTypes, CampaignTypeOK,
         At, Subject, audienceVars
<1>1. CASE ~StillDraft(k)
  <2>1. UNCHANGED <<campaign, jobs>>
    BY <1>1 DEF CommitActivation, campaignVars, Subject
  <2>2. gone' \in [CampaignIDs -> SUBSET Customers]
    BY <1>0 DEF CampaignInv, CampaignTypes, CampaignTypeOK
  <2>3. QED BY <1>0, <2>1, <2>2, EndInv DEF At
<1>2. CASE StillDraft(k)
  <2>1. /\ campaign[k].state = "draft"
        /\ campaign' = [campaign EXCEPT ![k].state = "scheduled"]
        /\ jobs' = [j \in Jobs |-> IF j[1] = k /\ j[2] \in L /\ jobs[j] = "none" THEN "waiting" ELSE jobs[j]]
        /\ request' = [request EXCEPT ![o] = Idle] /\ moved' = moved \ {o}
    BY <1>2 DEF CommitActivation, StillDraft, Subject, Ends
  <2>2. /\ campaign'[k].state = "scheduled"
        /\ \A x \in CampaignIDs : /\ campaign'[x].recipients = campaign[x].recipients
                                  /\ campaign'[x].segment = campaign[x].segment
                                  /\ x # k => campaign'[x] = campaign[x]
    BY <1>0, <2>1 DEF CampaignInv, CampaignTypes, CampaignTypeOK
  <2>3. /\ request'[o] = Idle /\ \A p \in Operators : p # o => request'[p] = request[p]
    BY <2>1 DEF CampaignInv, CampaignTypes, CampaignTypeOK
  <2>4. \A j \in Jobs : jobs'[j] = (IF j[1] = k /\ j[2] \in L /\ jobs[j] = "none" THEN "waiting" ELSE jobs[j])
    BY <2>1
  <2>5. JobsOf(k) = {}
    BY <1>0, <2>1 DEF CampaignInv, DraftAsReviewed
  <2>6. L \subseteq Customers
    BY DEF CampaignInv, CampaignTypes, CampaignTypeOK
  <2>7. \A x \in CampaignIDs : JobsOf(x)' = IF x = k THEN L ELSE JobsOf(x)
    <3>1. \A x \in CampaignIDs, c \in Customers : <<x, c>> \in Jobs /\ <<x, c>>[1] = x /\ <<x, c>>[2] = c
      BY DEF Jobs
    <3>2. \A x \in CampaignIDs, c \in Customers :
             jobs'[<<x, c>>] # "none" <=> (x = k /\ c \in L) \/ jobs[<<x, c>>] # "none"
      BY <2>4, <3>1
    <3> HIDE DEF L, k
    <3>3. \A x \in CampaignIDs : JobsOf(x)' = {c \in Customers : (x = k /\ c \in L) \/ jobs[<<x, c>>] # "none"}
      BY <3>2 DEF JobsOf
    <3>4. \A c \in Customers : jobs[<<k, c>>] = "none"
      BY <2>5 DEF JobsOf
    <3>5. \A x \in CampaignIDs : x = k => JobsOf(x)' = L
      BY <2>6, <3>3, <3>4
    <3>6. \A x \in CampaignIDs : x # k => JobsOf(x)' = JobsOf(x)
      BY <3>3 DEF JobsOf
    <3>7. QED BY <3>5, <3>6
  <2>8. Idle.at = "idle" /\ Idle.campaign = NoCampaign /\ Idle \in Request
    <3>1. request[o].segment \in Definitions
      BY DEF CampaignInv, CampaignTypes, CampaignTypeOK
    <3>2. NoSegment \in Definitions
      BY <3>1 DEF NoSegment
    <3>3. QED BY <3>2 DEF Idle, Request, Stages
  <2> HIDE DEF k, L, Idle
  <2>9. \A p \in Operators : request[p].at \in Creating => request[p].campaign # k
    BY <1>0 DEF CampaignInv, OperatorsApart, Creating, At, Subject, k
  <2>10. CampaignTypes'
    <3>1. campaign' \in [CampaignIDs -> CampaignOf]
      <4>1. campaign \in [CampaignIDs -> CampaignOf] /\ "scheduled" \in States
        BY DEF CampaignInv, CampaignTypes, CampaignTypeOK, CampaignOf, States
      <4>2. QED BY <1>0, <2>1, <4>1, NewState
    <3>2. request' \in [Operators -> Request]
      BY <2>1, <2>8 DEF CampaignInv, CampaignTypes, CampaignTypeOK, Request
    <3>3. jobs' \in [Jobs -> JobStates]
      BY <2>1 DEF CampaignInv, CampaignTypes, CampaignTypeOK, JobStates
    <3>4. QED BY <1>0, <2>1, <3>1, <3>2, <3>3 DEF CampaignInv, CampaignTypes, CampaignTypeOK, CampaignOf, Request
  <2>11. OperatorsApart'
    BY <2>3, <2>8 DEF CampaignInv, OperatorsApart, Creating, At, Subject
  <2>12. ASSUME NEW x \in CampaignIDs PROVE DraftAsReviewed(x)'
    <3>1. {request[p].list : p \in {q \in Operators : At(q, "inserting") /\ Subject(q) = x}}
            = {request'[p].list : p \in {q \in Operators : At(q, "inserting")' /\ Subject(q)' = x}}
      <4>1. \A p \in Operators : (At(p, "inserting") <=> At(p, "inserting")')
                                   /\ (At(p, "inserting") => request'[p] = request[p])
        BY <1>0, <2>3, <2>8 DEF At
      <4>2. QED BY <4>1 DEF Subject
    <3>2. DraftAsReviewed(x)
      BY DEF CampaignInv
    <3>3. campaign'[x].state \in {"none", "draft"} => x # k /\ JobsOf(x)' = {} 
      BY <2>2, <2>7, <3>2 DEF DraftAsReviewed
    <3>4. campaign'[x].state # "none" => campaign[x].state # "none"
      BY <2>1, <2>2
    <3>5. QED BY <1>0, <2>2, <3>1, <3>2, <3>3, <3>4 DEF DraftAsReviewed
  <2>13. ASSUME NEW p \in Operators PROVE RequestAsReviewed(p)'
    <3>1. CASE p = o
      BY <2>3, <2>8, <3>1 DEF RequestAsReviewed, At, Creating, Activating
    <3>2. CASE p # o
      <4>1. request'[p] = request[p] /\ RequestAsReviewed(p)
        BY <2>3, <3>2 DEF CampaignInv
      <4>2. request[p].at # "idle" => request[p].campaign \in CampaignIDs
        BY DEF CampaignInv, OperatorsApart, CampaignTypes, CampaignTypeOK, At, Subject
      <4>3. request[p].at # "idle" =>
                /\ campaign[request[p].campaign].state # "none"
                        => campaign'[request[p].campaign].state # "none"
                /\ request[p].at \in Creating => campaign'[request[p].campaign] = campaign[request[p].campaign]
        BY <2>2, <2>9, <4>2
      <4>4. QED BY <1>0, <4>1, <4>3 DEF RequestAsReviewed, At, Subject, Creating, Activating
    <3>3. QED BY <3>1, <3>2
  <2>14. ScheduledAsReviewed'
    <3> SUFFICES ASSUME NEW x \in CampaignIDs, campaign'[x].state = "scheduled"
                 PROVE  JobsOf(x)' \subseteq reviewed[x] /\ reviewed[x] \ gone[x] \subseteq JobsOf(x)'
      BY <1>0 DEF ScheduledAsReviewed
    <3>1. CASE x = k
      BY <1>0, <2>7, <3>1
    <3>2. CASE x # k
      BY <2>2, <2>7, <3>2 DEF CampaignInv, ScheduledAsReviewed
    <3>3. QED BY <3>1, <3>2
  <2>15. CancelledEnds'
    <3>1. \A j \in Jobs : j[1] \in CampaignIDs
      BY DEF Jobs
    <3>2. QED BY <1>0, <2>2, <2>4, <3>1 DEF CampaignInv, CancelledEnds
  <2>16. RedactedIsGone'
    <3>1. \A c \in L : status[c] = "redacted" => <<k, c>> \in late
      BY <1>0 DEF CampaignInv, RedactedIsGone, Subject, k, L
    <3>2. RedactedHasNoJobs'
      <4>1. \A j \in Jobs : j = <<j[1], j[2]>>
        BY DEF Jobs
      <4>2. QED BY <1>0, <2>4, <3>1, <4>1 DEF CampaignInv, RedactedIsGone, RedactedHasNoJobs
    <3>3. QED BY <1>0, <2>2, <2>3, <2>8, <3>2 DEF CampaignInv, RedactedIsGone, Subject
  <2>17. CheckedIsCurrent'
    <3>1. \A p \in Operators : p \in Activating' => p # o /\ request'[p] = request[p] /\ p \in Activating
      BY <2>3, <2>8 DEF Activating
    <3>2. \A p \in Activating : request[p].campaign \in CampaignIDs
      BY DEF CampaignInv, Activating, OperatorsApart, CampaignTypes, CampaignTypeOK, At, Subject
    <3>3. \A p \in Operators : request'[p].segment \in Segment
      BY <2>10 DEF CampaignTypes, CampaignTypeOK
    <3>4. \A p \in Operators : Preview(request[p].segment)' = Preview(request'[p].segment)
      BY <1>0, <3>3, PreviewFrame
    <3>5. ASSUME NEW p \in Operators, At(p, "checked")' PROVE p \in Activating'
      BY <3>5 DEF At, Activating
    <3>6. QED
      BY <2>1, <2>2, <3>1, <3>2, <3>4, <3>5 DEF CampaignInv, CheckedIsCurrent, At, Subject
  <2>18. QED
    BY <2>10, <2>11, <2>12, <2>13, <2>14, <2>15, <2>16, <2>17 DEF CampaignInv
<1>3. QED BY <1>1, <1>2

-----------------------------------------------------------------------------
\* The customers, their orders or the stock change, and the activations under way with them.
LEMMA AudienceMovesInv ==
    ASSUME CampaignInv, AudienceMoves, status' \in [Customers -> Statuses], phone' \subseteq Customers,
           \A c \in Customers : status'[c] = "redacted" => status[c] = "redacted"
    PROVE  CampaignInv'
<1> USE DEF CampaignInv
<1>1. /\ moved' = moved \cup Activating
      /\ UNCHANGED <<campaign, jobs, request, reviewed, gone, late, escaped>>
  BY DEF AudienceMoves, campaignVars
<1>2. CampaignTypes'
  BY <1>1 DEF CampaignTypes, CampaignTypeOK, Activating
<1>3. OperatorsApart'
  BY <1>1 DEF OperatorsApart, At, Subject
<1>4. \A k \in CampaignIDs : JobsOf(k)' = JobsOf(k)
  BY <1>1 DEF JobsOf
<1>5. ASSUME NEW k \in CampaignIDs PROVE DraftAsReviewed(k)'
  BY <1>1, <1>4 DEF DraftAsReviewed, At, Subject
<1>6. ASSUME NEW o \in Operators PROVE RequestAsReviewed(o)'
  BY <1>1 DEF RequestAsReviewed, At, Subject, Activating
<1>7. ScheduledAsReviewed'
  BY <1>1, <1>4 DEF ScheduledAsReviewed
<1>8. CancelledEnds'
  BY <1>1 DEF CancelledEnds
<1>9. RedactedIsGone'
  <2>1. \A k \in CampaignIDs : campaign[k].recipients \subseteq Customers
    BY DEF CampaignTypes, CampaignTypeOK
  <2>2. \A o \in Operators : request[o].list \subseteq Customers
    BY DEF CampaignTypes, CampaignTypeOK
  <2>3. \A j \in Jobs : j[2] \in Customers
    BY DEF Jobs
  <2>4. QED BY <1>1, <2>1, <2>2, <2>3 DEF RedactedIsGone, RedactedHasNoJobs, Subject
<1>10. CheckedIsCurrent'
  BY <1>1 DEF CheckedIsCurrent, Activating, At, Subject
<1>11. QED BY <1>2, <1>3, <1>5, <1>6, <1>7, <1>8, <1>9, <1>10

\* A redaction takes the customer out of the drafts and off the queue.
LEMMA RedactInv ==
    ASSUME CampaignInv, NEW c \in Customers, RemoveCustomer(c), RedactCampaign(c)
    PROVE  CampaignInv'
<1> USE DEF CampaignInv
<1>1. /\ campaign' = [k \in CampaignIDs |-> [campaign[k] EXCEPT !.recipients = @ \ {c}]]
      /\ jobs' = [j \in Jobs |-> IF j[2] = c THEN "none" ELSE jobs[j]]
      /\ gone' = [k \in CampaignIDs |-> gone[k] \cup ({c} \cap reviewed[k])]
      /\ late' = late \cup {<<Subject(o), c>> : o \in {p \in Activating : c \in request[p].list}}
      /\ moved' = moved \cup Activating
      /\ UNCHANGED <<request, reviewed, escaped>>
      /\ status' = [status EXCEPT ![c] = "redacted"]
      /\ phone' = phone \ {c}
  BY DEF RedactCampaign, RemoveCustomer
<1>2. \A k \in CampaignIDs :
          /\ campaign'[k].recipients = campaign[k].recipients \ {c}
          /\ campaign'[k].state = campaign[k].state
          /\ campaign'[k].segment = campaign[k].segment
          /\ gone'[k] = gone[k] \cup ({c} \cap reviewed[k])
  BY <1>1 DEF CampaignTypes, CampaignTypeOK
<1>3. \A j \in Jobs : jobs'[j] = IF j[2] = c THEN "none" ELSE jobs[j]
  BY <1>1
<1>4. \A d \in Customers : status'[d] = IF d = c THEN "redacted" ELSE status[d]
  BY <1>1 DEF CampaignTypes
<1>5. \A o \in Activating : Subject(o) \in CampaignIDs /\ o \in Operators
  BY DEF Activating, OperatorsApart, CampaignTypes, CampaignTypeOK, At, Subject
<1>6. \A k \in CampaignIDs : JobsOf(k)' = JobsOf(k) \ {c}
  <2>1. \A k \in CampaignIDs, d \in Customers : <<k, d>> \in Jobs /\ <<k, d>>[2] = d
    BY DEF Jobs
  <2>2. \A k \in CampaignIDs, d \in Customers :
            jobs'[<<k, d>>] = IF d = c THEN "none" ELSE jobs[<<k, d>>]
    BY <1>3, <2>1
  <2>3. QED BY <2>2 DEF JobsOf
<1>7. CampaignTypes'
  <2>1. campaign' \in [CampaignIDs -> CampaignOf]
    <3> DEFINE counts == 0..Cardinality(Customers)
    <3>1. \A k \in CampaignIDs : campaign[k] \in [state : States, segment : Definitions,
                                                  recipients : SUBSET Customers, count : counts]
      BY DEF CampaignTypes, CampaignTypeOK
    <3> HIDE DEF counts
    <3>2. \A k \in CampaignIDs : campaign'[k] \in [state : States, segment : Definitions,
                                                   recipients : SUBSET Customers, count : counts]
      BY <1>1, <3>1
    <3>3. QED BY <1>1, <3>2 DEF CampaignOf, counts
  <2>2. jobs' \in [Jobs -> JobStates] /\ gone' \in [CampaignIDs -> SUBSET Customers]
    BY <1>1 DEF CampaignTypes, CampaignTypeOK, JobStates
  <2>3. late' \subseteq Jobs
    BY <1>1, <1>5 DEF CampaignTypes, CampaignTypeOK, Jobs
  <2>4. moved' \subseteq Operators
    BY <1>1 DEF CampaignTypes, CampaignTypeOK, Activating
  <2>5. status' \in [Customers -> Statuses] /\ phone' \subseteq Customers
    BY <1>1 DEF CampaignTypes, Statuses, NoRow
  <2>6. QED BY <1>1, <2>1, <2>2, <2>3, <2>4, <2>5 DEF CampaignTypes, CampaignTypeOK, CampaignOf
<1>8. OperatorsApart'
  BY <1>1 DEF OperatorsApart, At, Subject
<1>9. ASSUME NEW k \in CampaignIDs PROVE DraftAsReviewed(k)'
  BY <1>1, <1>2, <1>6 DEF DraftAsReviewed, At, Subject
<1>10. ASSUME NEW o \in Operators PROVE RequestAsReviewed(o)'
  <2>1. request[o].at # "idle" => request[o].campaign \in CampaignIDs
    BY DEF OperatorsApart, CampaignTypes, CampaignTypeOK, At, Subject
  <2>2. QED BY <1>1, <1>2, <2>1 DEF RequestAsReviewed, At, Subject, Activating, Creating
<1>11. ScheduledAsReviewed'
  BY <1>1, <1>2, <1>6 DEF ScheduledAsReviewed
<1>12. CancelledEnds'
  <2>1. \A j \in Jobs : j[1] \in CampaignIDs
    BY DEF Jobs
  <2>2. QED BY <1>1, <1>2, <1>3, <2>1 DEF CancelledEnds
<1>13. RedactedIsGone'
  <2>1. \A k \in CampaignIDs : \A d \in campaign'[k].recipients : status'[d] # "redacted"
    <3>1. \A k \in CampaignIDs : campaign[k].recipients \subseteq Customers
      BY DEF CampaignTypes, CampaignTypeOK
    <3>2. QED BY <1>2, <1>4, <3>1 DEF RedactedIsGone
  <2>2. ASSUME NEW o \in Operators, request[o].at \in {"listed", "checked"}, NEW d \in request[o].list,
               status'[d] = "redacted"
        PROVE  <<Subject(o), d>> \in late'
    <3>1. o \in Activating /\ d \in Customers
      BY <2>2 DEF Activating, CampaignTypes, CampaignTypeOK
    <3>2. CASE d = c
      BY <1>1, <2>2, <3>1, <3>2
    <3>3. CASE d # c
      BY <1>1, <1>4, <2>2, <3>1, <3>3 DEF RedactedIsGone
    <3>4. QED BY <3>2, <3>3
  <2>3. RedactedHasNoJobs'
    <3>1. \A j \in Jobs : j[2] \in Customers
      BY DEF Jobs
    <3>2. QED BY <1>1, <1>3, <1>4, <3>1 DEF RedactedIsGone, RedactedHasNoJobs
  <2>4. QED BY <1>1, <2>1, <2>2, <2>3 DEF RedactedIsGone, Subject
<1>14. CheckedIsCurrent'
  BY <1>1, <1>2, <1>5 DEF CheckedIsCurrent, Activating, At, Subject
<1>15. QED BY <1>7, <1>8, <1>9, <1>10, <1>11, <1>12, <1>13, <1>14

\* What does not reach the customers does not reach the campaigns.
LEMMA CampaignFrame ==
    ASSUME CampaignInv, UNCHANGED <<allCampaign, status, phone, orders, stored>>
    PROVE  CampaignInv'
<1> USE DEF CampaignInv
<1>1. UNCHANGED <<campaign, jobs, request, reviewed, gone, moved, late, escaped, status, phone, orders, stored>>
  BY DEF allCampaign, campaignVars, ghostVars
<1>2. CancelledEnds'
  BY <1>1 DEF CancelledEnds
<1>3. campaign' \in [CampaignIDs -> CampaignOf] /\ jobs' \in [Jobs -> JobStates] /\ escaped' \subseteq Jobs
  BY <1>1 DEF CampaignTypes, CampaignTypeOK, CampaignOf
<1> HIDE DEF CampaignInv
<1>4. QED BY <1>1, <1>2, <1>3, JobsInv

-----------------------------------------------------------------------------
LEMMA CampaignInitial == Init => CampaignInv
<1> SUFFICES ASSUME Init PROVE CampaignInv
  OBVIOUS
<1>1. /\ campaign = [k \in CampaignIDs |-> [state |-> "none", segment |-> NoSegment,
                                            recipients |-> {}, count |-> 0]]
      /\ jobs = [j \in Jobs |-> "none"]
      /\ request = [o \in Operators |-> Idle]
      /\ reviewed = [k \in CampaignIDs |-> {}] /\ gone = [k \in CampaignIDs |-> {}]
      /\ moved = {} /\ late = {} /\ escaped = {}
      /\ status \in [Customers -> {"unknown", "opted_in"}] /\ phone \subseteq Customers
  BY DEF Init, CampaignInit, AudienceInit
<1>2. NoSegment \in Definitions /\ 0 \in 0..Cardinality(Customers)
  <2>1. Cardinality(Customers) \in Nat
    BY FS_CardinalityType
  <2>2. QED BY <2>1 DEF NoSegment
<1>3. Idle \in Request /\ Idle.at = "idle" /\ Idle.campaign = NoCampaign
  BY <1>2 DEF Idle, Request, Stages
<1>4. CampaignTypes
  <2>1. campaign \in [CampaignIDs -> CampaignOf]
    BY <1>1, <1>2 DEF CampaignOf, States
  <2>2. request \in [Operators -> Request]
    BY <1>1, <1>3
  <2>3. jobs \in [Jobs -> JobStates] /\ status \in [Customers -> Statuses]
    BY <1>1 DEF JobStates, Statuses, NoRow
  <2>4. QED BY <1>1, <2>1, <2>2, <2>3 DEF CampaignTypes, CampaignTypeOK, CampaignOf, Request
<1>5. \A k \in CampaignIDs : JobsOf(k) = {}
  BY <1>1 DEF JobsOf, Jobs
<1> HIDE DEF Idle
<1>6. OperatorsApart /\ CheckedIsCurrent /\ \A o \in Operators : RequestAsReviewed(o)
  BY <1>1, <1>3 DEF OperatorsApart, CheckedIsCurrent, RequestAsReviewed, At, Subject, Creating, Activating
<1>7. ScheduledAsReviewed /\ \A k \in CampaignIDs : DraftAsReviewed(k)
  BY <1>1, <1>5 DEF ScheduledAsReviewed, DraftAsReviewed
<1>8. CancelledEnds /\ RedactedIsGone
  BY <1>1, <1>3 DEF CancelledEnds, RedactedIsGone, RedactedHasNoJobs
<1>9. QED BY <1>4, <1>6, <1>7, <1>8 DEF CampaignInv

LEMMA CampaignStepInv ==
    ASSUME CampaignInv, CampaignStep
    PROVE  CampaignInv'
<1>1. ASSUME NEW o \in Operators, NEW k \in CampaignIDs, NEW d \in Definitions, PreviewDraft(o, k, d)
      PROVE  CampaignInv'
  BY <1>1, PreviewDraftInv
<1>2. ASSUME NEW o \in Operators, InsertDraft(o) PROVE CampaignInv'
  BY <1>2, InsertDraftInv
<1>3. ASSUME NEW o \in Operators, InsertRecipient(o) PROVE CampaignInv'
  BY <1>3, InsertRecipientInv
<1>4. ASSUME NEW o \in Operators,
             DraftCreated(o) \/ CutOff(o) \/ ListRecipients(o) \/ Revalidate(o)
                \/ \E k \in CampaignIDs : OpenDraft(o, k)
      PROVE  CampaignInv'
  BY <1>4, ReadingInv
<1>5. ASSUME NEW o \in Operators, CommitActivation(o) PROVE CampaignInv'
  BY <1>5, CommitInv
<1>6. ASSUME NEW k \in CampaignIDs, CancelCampaign(k) PROVE CampaignInv'
  BY <1>6, CancelCampaignInv
<1>7. ASSUME NEW j \in Jobs, JobMoves(j) PROVE CampaignInv'
  BY <1>7, QueueInv DEF JobMoves
<1>8. QED BY <1>1, <1>2, <1>3, <1>4, <1>5, <1>6, <1>7 DEF CampaignStep

\* The stock is all that a step of a restock changes of the audience.
LEMMA RestockLeavesPeople == RestockStep => UNCHANGED <<status, phone, orders>>
BY DEF RestockStep, ShelfChanges, FetchProduct, UpsertProduct, FetchOrder, UpsertOrderStock, ReadDefinition, ReadBuyers, ChooseBuyer,
       InsertRun, EnqueueStep, RunFilled, Started, SyncFails, PauseDefinition, ActivateDefinition, audienceVars

LEMMA CampaignNextInv == CampaignInv /\ [Next]_vars => CampaignInv'
<1> SUFFICES ASSUME CampaignInv, [Next]_vars PROVE CampaignInv'
  OBVIOUS
<1>1. CASE CampaignStep
  BY <1>1, CampaignStepInv
<1>2. CASE StockChanges
  <2>1. UNCHANGED <<status, phone, orders>>
    BY <1>2, RestockLeavesPeople DEF StockChanges
  <2>2. CASE stored' # stored
    <3>1. AudienceMoves
      BY <1>2, <2>2 DEF StockChanges
    <3>2. status' \in [Customers -> Statuses] /\ phone' \subseteq Customers
      BY <2>1 DEF CampaignInv, CampaignTypes
    <3>3. QED BY <2>1, <3>1, <3>2, AudienceMovesInv
  <2>3. CASE stored' = stored
    BY <1>2, <2>1, <2>3, CampaignFrame DEF StockChanges
  <2>4. QED BY <2>2, <2>3
<1>3. CASE CustomersChange
  <2>1. status' \in [Customers -> Statuses] /\ phone' \subseteq Customers
    BY <1>3 DEF CustomersChange, CustomersMove, CustomerArrives, StatusChanges, OrderPlaced, OrderStopsCounting,
                ScrubPhone, CampaignInv, CampaignTypes
  <2>2. \A c \in Customers : status'[c] = "redacted" => status[c] = "redacted"
    BY <1>3 DEF CustomersChange, CustomersMove, CustomerArrives, StatusChanges, OrderPlaced, OrderStopsCounting,
                ScrubPhone, CampaignInv, CampaignTypes, NoRow
  <2>3. QED BY <1>3, <2>1, <2>2, AudienceMovesInv DEF CustomersChange
<1>4. ASSUME NEW c \in Customers, CancelCustomerWork(c) PROVE CampaignInv'
  BY <1>4, QueueInv DEF CancelCustomerWork
<1>5. ASSUME NEW c \in Customers, Redact(c) PROVE CampaignInv'
  BY <1>5, RedactInv DEF Redact
<1>6. CASE UNCHANGED people
  BY <1>6, CampaignFrame DEF people, audienceVars
<1>7. QED BY <1>1, <1>2, <1>3, <1>4, <1>5, <1>6 DEF Next, vars

THEOREM CampaignInvariant == Spec => []CampaignInv
BY CampaignInitial, CampaignNextInv, PTL DEF Spec

\* Once scheduled, a campaign addresses whom the operator reviewed, however requests,
\* cancellations, webhooks and redactions interleave.
THEOREM AddressesTheReviewed == Spec => []ScheduledAsReviewed
<1>1. CampaignInv => ScheduledAsReviewed
  BY DEF CampaignInv
<1>2. QED BY <1>1, CampaignInvariant, PTL

\* A cancelled campaign leaves no job waiting but those that ran when it was cancelled.
THEOREM CancelledStaysOver == Spec => []CancelledIsOver
<1>1. CampaignInv => CancelledIsOver
  BY DEF CampaignInv, CancelledEnds, CancelledIsOver
<1>2. QED BY <1>1, CampaignInvariant, PTL

\* A redaction leaves no job behind, whatever interleaves with it, but those of an
\* activation that had listed the customer before.
THEOREM RedactionClearsJobs == Spec => []RedactedHasNoJobs
<1>1. CampaignInv => RedactedHasNoJobs
  BY DEF CampaignInv, RedactedIsGone
<1>2. QED BY <1>1, CampaignInvariant, PTL

\* No request revives a cancelled campaign, however long ago it read the draft.
THEOREM NothingRevives == Spec => CancelledForGood
<1>1. ASSUME CampaignInv, [Next]_vars, NEW k \in CampaignIDs, campaign[k].state = "cancelled"
      PROVE  campaign'[k].state = "cancelled"
  <2>1. campaign \in [CampaignIDs -> [state : States, segment : Definitions, recipients : SUBSET Customers,
                                     count : 0..Cardinality(Customers)]]
    BY <1>1 DEF CampaignInv, CampaignTypes, CampaignTypeOK
  <2>2. ASSUME NEW o \in Operators, InsertDraft(o) PROVE UNCHANGED campaign[k]
    <3>1. Subject(o) # k
      BY <1>1, <2>2 DEF CampaignInv, RequestAsReviewed, InsertDraft, At
    <3>2. QED BY <2>1, <2>2, <3>1 DEF InsertDraft
  <2>3. ASSUME NEW o \in Operators, InsertRecipient(o) PROVE campaign'[k].state = campaign[k].state
    BY <2>1, <2>3 DEF InsertRecipient
  <2>4. ASSUME NEW o \in Operators, CommitActivation(o) PROVE UNCHANGED campaign[k]
    <3>1. CASE StillDraft(Subject(o))
      <4>1. campaign' = [campaign EXCEPT ![Subject(o)].state = "scheduled"] /\ Subject(o) # k
        BY <1>1, <2>4, <3>1 DEF CommitActivation, StillDraft
      <4>2. QED BY <2>1, <4>1
    <3>2. CASE ~StillDraft(Subject(o))
      BY <2>4, <3>2 DEF CommitActivation, campaignVars
    <3>3. QED BY <3>1, <3>2
  <2>5. ASSUME NEW i \in CampaignIDs, CancelCampaign(i) PROVE UNCHANGED campaign[k]
    <3>1. campaign' = [campaign EXCEPT ![i].state = "cancelled"] /\ i # k
      BY <1>1, <2>5 DEF CancelCampaign
    <3>2. QED BY <2>1, <3>1
  <2>6. ASSUME NEW c \in Customers, Redact(c) PROVE campaign'[k].state = campaign[k].state
    <3>1. campaign' = [x \in CampaignIDs |-> [campaign[x] EXCEPT !.recipients = @ \ {c}]]
      BY <2>6 DEF Redact, RedactCampaign
    <3>2. QED BY <2>1, <3>1
  <2>7. ASSUME \/ \E o \in Operators :
                    \/ \E i \in CampaignIDs, d \in Definitions : PreviewDraft(o, i, d)
                    \/ DraftCreated(o) \/ CutOff(o) \/ ListRecipients(o) \/ Revalidate(o)
                    \/ \E i \in CampaignIDs : OpenDraft(o, i)
               \/ \E j \in Jobs : JobMoves(j)
        PROVE  UNCHANGED campaign
    BY <2>7 DEF PreviewDraft, DraftCreated, CutOff, OpenDraft, ListRecipients, Revalidate, JobMoves, campaignVars
  <2>8. StockChanges \/ CustomersChange \/ (\E c \in Customers : CancelCustomerWork(c)) \/ UNCHANGED people
            => UNCHANGED campaign
    BY DEF StockChanges, CustomersChange, AudienceMoves, CancelCustomerWork, people, allCampaign, campaignVars
  <2>9. QED BY <1>1, <2>2, <2>3, <2>4, <2>5, <2>6, <2>7, <2>8 DEF Next, vars, CampaignStep
<1>2. CampaignInv /\ [Next]_vars
          => [\A k \in CampaignIDs :
                 campaign[k].state = "cancelled" => campaign'[k].state = "cancelled"]_<<audienceVars, allCampaign>>
  BY <1>1
<1>3. QED BY <1>2, CampaignInvariant, PTL DEF Spec, CancelledForGood

\* Nobody is scheduled outside the stored segment, unless the audience changed under
\* the activation.
THEOREM SchedulesTheEligible == Spec => ScheduledAreEligible
<1>1. ASSUME CampaignInv, [Next]_vars, NEW j \in Jobs, jobs[j] = "none", jobs'[j] = "waiting"
      PROVE  \/ j[2] \in Preview(campaign[j[1]].segment)
             \/ \E o \in moved : Subject(o) = j[1]
  <2>1. ASSUME NEW o \in Operators, CommitActivation(o)
        PROVE  \/ j[2] \in Preview(campaign[j[1]].segment)
               \/ \E p \in moved : Subject(p) = j[1]
    <3>1. At(o, "checked") /\ o \in Activating
      BY <2>1 DEF CommitActivation, At, Activating
    <3>2. j[1] = Subject(o) /\ j[2] \in request[o].list
      BY <1>1, <2>1 DEF CommitActivation, campaignVars
    <3>3. CASE o \in moved
      BY <3>2, <3>3
    <3>4. CASE o \notin moved
      BY <1>1, <3>1, <3>2, <3>4 DEF CampaignInv, CheckedIsCurrent
    <3>5. QED BY <3>3, <3>4
  <2>2. CASE UNCHANGED jobs
    BY <1>1, <2>2
  <2>3. ASSUME NEW k \in CampaignIDs, CancelCampaign(k) PROVE FALSE
    BY <1>1, <2>3 DEF CancelCampaign
  <2>4. ASSUME NEW i \in Jobs, JobMoves(i) PROVE FALSE
    BY <1>1, <2>4 DEF JobMoves, CampaignInv, CampaignTypes, CampaignTypeOK
  <2>5. ASSUME NEW c \in Customers, CancelCustomerWork(c) \/ Redact(c) PROVE FALSE
    BY <1>1, <2>5 DEF CancelCustomerWork, CancelCampaignJobs, Redact, RedactCampaign
  <2>6. StockChanges \/ CustomersChange \/ UNCHANGED people => UNCHANGED jobs
    BY DEF StockChanges, CustomersChange, AudienceMoves, people, allCampaign, campaignVars
  <2>7. ASSUME NEW o \in Operators,
               \/ \E k \in CampaignIDs, d \in Definitions : PreviewDraft(o, k, d)
               \/ InsertDraft(o) \/ InsertRecipient(o) \/ DraftCreated(o) \/ CutOff(o)
               \/ \E k \in CampaignIDs : OpenDraft(o, k)
               \/ ListRecipients(o) \/ Revalidate(o)
        PROVE  UNCHANGED jobs
    BY <2>7 DEF PreviewDraft, InsertDraft, InsertRecipient, DraftCreated, CutOff, OpenDraft, ListRecipients,
       Revalidate, campaignVars
  <2>8. QED BY <1>1, <2>1, <2>2, <2>3, <2>4, <2>5, <2>6, <2>7 DEF Next, vars, CampaignStep
<1>2. CampaignInv /\ [Next]_vars
          => [\A j \in Jobs :
                 jobs[j] = "none" /\ jobs'[j] = "waiting" =>
                    \/ j[2] \in Preview(campaign[j[1]].segment)
                    \/ \E o \in moved : Subject(o) = j[1]]_<<audienceVars, allCampaign>>
  BY <1>1
<1>3. QED BY <1>2, CampaignInvariant, PTL DEF Spec, ScheduledAreEligible

-----------------------------------------------------------------------------
(* Restocks *)

Worker == [at : Phases, seen : Snapshot, trigger : Triggers \cup {NoTrigger},
           left : SUBSET Customers, for : SUBSET Customers]

\* The customers for whom trigger t has started the whole workflow.
Complete(t) == {c \in Customers : run[<<t, c>>] # "none" /\ filled[<<t, c>>] = StepCount}

\* Was the product in stock after the first n changes, and how often had it been
\* replenished by then?
InAfter(n)     == shelf.in <=> (shelf.n - n) % 2 = 0
RestocksIn(n)  == restocks - ((shelf.n - n + (IF shelf.in THEN 1 ELSE 0)) \div 2)

\* A worker with a snapshot in hand, of the product or of an order.
Fetched == {"fetched", "fetchedOrder"}

\* What a worker at work knows, and whom it has still to reach.
WorkerOK(x) ==
    /\ x.at \notin Fetched \cup {"idle"} => x.trigger \in 1..triggers
    /\ x.at \in Fetched => x.seen.n <= shelf.n /\ (x.seen.in <=> InAfter(x.seen.n))
    /\ x.at = "choose" => eager[x.trigger] \subseteq x.left \cup Complete(x.trigger)
    /\ x.at \in {"start", "steps"} =>
            /\ \E c \in Customers : x.for = {c}
            /\ eager[x.trigger] \subseteq x.left \cup x.for \cup Complete(x.trigger)
    /\ ~active /\ x.at \in {"buyers", "choose", "start", "steps"} => x.trigger \in overtaken

EagerAreEligible == \A t \in Triggers : eager[t] \subseteq EligibleBuyers

StepsHaveRuns == \A r \in Triggers \X Customers : filled[r] > 0 => run[r] # "none"

\* The snapshot that was stored last, unless an older one was stored after it.
RestocksCounted ==
    /\ applied <= shelf.n /\ restocks <= shelf.n
    /\ triggers <= RestocksIn(applied) + outdated
    /\ stored = "out" /\ InAfter(applied) => triggers < RestocksIn(applied) + outdated

RestockInv ==
    /\ RestockTypeOK
    /\ \A w \in Workers : WorkerOK(worker[w])
    /\ EagerAreEligible
    /\ StepsHaveRuns
    /\ RestocksCounted
    /\ done \subseteq 1..triggers
    /\ RestockReachesBuyers
    /\ PausedStartsNothing

-----------------------------------------------------------------------------
(* Arithmetic *)

LEMMA ShelfFlips ==
    ASSUME NEW d \in Nat
    PROVE  /\ (d + 1) % 2 = 0 <=> d % 2 # 0
           /\ (d + 2) \div 2 = d \div 2 + 1
           /\ d \div 2 \in Nat
           /\ (d + 1) \div 2 \in Nat
OBVIOUS

LEMMA RestocksGrow ==
    ASSUME shelf \in Snapshot, restocks \in Nat, NEW m \in Nat, NEW n \in Nat, m <= n, n <= shelf.n
    PROVE  /\ RestocksIn(m) \in Int /\ RestocksIn(n) \in Int
           /\ RestocksIn(m) <= RestocksIn(n)
           /\ RestocksIn(n) <= restocks
           /\ ~InAfter(m) /\ InAfter(n) => RestocksIn(m) < RestocksIn(n)
<1> DEFINE d == shelf.n - n
           e == shelf.n - m
<1>1. shelf.n \in Nat /\ shelf.in \in BOOLEAN
  BY DEF Snapshot
<1>2. d \in Nat /\ e \in Nat /\ d <= e
  BY <1>1
<1>3. \A z \in {d, e} : z \in Nat /\ z \div 2 \in Nat /\ (z + 1) \div 2 \in Nat /\ z % 2 \in {0, 1}
  BY <1>2
<1>4. d + 1 <= e + 1 /\ d \div 2 <= e \div 2 /\ (d + 1) \div 2 <= (e + 1) \div 2
  BY <1>2
<1>5. /\ d % 2 = 0 /\ e % 2 = 1 => (d + 1) \div 2 < (e + 1) \div 2
      /\ d % 2 = 1 /\ e % 2 = 0 => d \div 2 < e \div 2
  BY <1>2
<1>6. CASE shelf.in
  <2>1. RestocksIn(n) = restocks - ((d + 1) \div 2) /\ RestocksIn(m) = restocks - ((e + 1) \div 2)
    BY <1>6 DEF RestocksIn
  <2>2. (InAfter(n) <=> d % 2 = 0) /\ (InAfter(m) <=> e % 2 = 0)
    BY <1>6 DEF InAfter
  <2> HIDE DEF d, e
  <2>3. QED BY <2>1, <2>2, <1>3, <1>4, <1>5
<1>7. CASE ~shelf.in
  <2>1. RestocksIn(n) = restocks - ((d + 0) \div 2) /\ RestocksIn(m) = restocks - ((e + 0) \div 2)
    BY <1>7 DEF RestocksIn
  <2>2. (InAfter(n) <=> d % 2 # 0) /\ (InAfter(m) <=> e % 2 # 0)
    BY <1>7 DEF InAfter
  <2>3. d + 0 = d /\ e + 0 = e
    BY <1>2
  <2> HIDE DEF d, e
  <2>4. QED BY <2>1, <2>2, <2>3, <1>3, <1>4, <1>5
<1>8. QED BY <1>6, <1>7

\* A change of the shelf does not change the past.
LEMMA PastStays ==
    ASSUME RestockInv, ShelfChanges, NEW n \in 0..shelf.n
    PROVE  (InAfter(n)' <=> InAfter(n)) /\ RestocksIn(n)' = RestocksIn(n)
<1> DEFINE d == shelf.n - n
<1>1. /\ shelf.n \in Nat /\ shelf.in \in BOOLEAN /\ restocks \in Nat
      /\ shelf'.in = ~shelf.in /\ shelf'.n = shelf.n + 1
      /\ restocks' = IF shelf.in THEN restocks ELSE restocks + 1
  BY DEF RestockInv, RestockTypeOK, Snapshot, ShelfChanges
<1>2. d \in Nat /\ shelf'.n - n = d + 1 /\ d + 0 = d /\ (d + 1) + 0 = d + 1 /\ (d + 1) + 1 = d + 2
  BY <1>1
<1>3. InAfter(n)' <=> InAfter(n)
  <2>1. (InAfter(n) <=> (shelf.in <=> d % 2 = 0)) /\ (InAfter(n)' <=> (shelf'.in <=> (d + 1) % 2 = 0))
    BY <1>2 DEF InAfter
  <2> HIDE DEF d
  <2>2. QED BY <1>1, <1>2, <2>1, ShelfFlips
<1>4. RestocksIn(n)' = RestocksIn(n)
  <2>1. /\ RestocksIn(n) = restocks - (d + (IF shelf.in THEN 1 ELSE 0)) \div 2
        /\ RestocksIn(n)' = restocks' - ((d + 1) + (IF shelf'.in THEN 1 ELSE 0)) \div 2
    BY <1>2 DEF RestocksIn
  <2> HIDE DEF d
  <2>2. CASE shelf.in
    BY <1>1, <1>2, <2>1, <2>2
  <2>3. CASE ~shelf.in
    <3>1. (d + 1) + (IF shelf'.in THEN 1 ELSE 0) = d + 2 /\ d + (IF shelf.in THEN 1 ELSE 0) = d
      BY <1>1, <1>2, <2>3
    <3>2. restocks' = restocks + 1
      BY <1>1, <2>3
    <3>3. (d + 2) \div 2 = d \div 2 + 1 /\ d \div 2 \in Nat
      BY <1>2
    <3>4. QED BY <1>1, <2>1, <3>1, <3>2, <3>3
  <2>4. QED BY <2>2, <2>3
<1>5. QED BY <1>3, <1>4

LEMMA RunOfCustomer ==
    ASSUME NEW w, NEW c, worker[w].for = {c} PROVE RunOf(w) = <<worker[w].trigger, c>>
BY DEF RunOf

LEMMA ReachedBeforeTriggers ==
    ASSUME RestockInv PROVE triggers \in Nat /\ 1..triggers \subseteq Triggers /\ triggers <= MaxTriggers
BY DEF RestockInv, RestockTypeOK, Triggers

-----------------------------------------------------------------------------
\* One worker moves on, and reaches no fewer customers than before.
LEMMA WorkerMoves ==
    ASSUME RestockInv, NEW w \in Workers, NEW x \in Worker, worker' = [worker EXCEPT ![w] = x],
           UNCHANGED <<shelf, active, triggers, applied, restocks, outdated, eager, overtaken,
                       status, orders, stored>>,
           run' \in [Triggers \X Customers -> RunStates],
           filled' \in [Triggers \X Customers -> 0..StepCount],
           \A t \in Triggers : Complete(t) \subseteq Complete(t)',
           StepsHaveRuns', PausedStartsNothing',
           done' \subseteq 1..triggers, \A t \in done' \ done : eager[t] \subseteq Complete(t)',
           WorkerOK(x)'
    PROVE  RestockInv'
<1>1. RestockTypeOK'
  <2>1. worker' \in [Workers -> Worker]
    BY DEF RestockInv, RestockTypeOK, Worker
  <2>2. done' \subseteq Triggers
    BY ReachedBeforeTriggers
  <2>3. QED BY <2>1, <2>2 DEF RestockInv, RestockTypeOK, Worker
<1>2. ASSUME NEW v \in Workers PROVE WorkerOK(worker[v])'
  <2>1. CASE v = w
    <3>1. worker'[v] = x
      BY <2>1 DEF RestockInv, RestockTypeOK
    <3>2. QED BY <3>1 DEF WorkerOK, Complete, InAfter
  <2>2. CASE v # w
    <3>1. worker'[v] = worker[v] /\ WorkerOK(worker[v]) /\ worker[v] \in Worker
      BY <2>2 DEF RestockInv, RestockTypeOK, Worker
    <3>2. worker[v].at \notin Fetched \cup {"idle"} => worker[v].trigger \in Triggers
      BY <3>1, ReachedBeforeTriggers DEF WorkerOK
    <3>3. worker[v].at \in {"choose", "start", "steps"} =>
              Complete(worker[v].trigger) \subseteq Complete(worker[v].trigger)'
      <4>1. \A t \in Triggers : t = worker[v].trigger => Complete(t) \subseteq Complete(worker[v].trigger)'
        BY <3>1 DEF Complete
      <4>2. QED BY <3>2, <4>1 DEF Fetched
    <3>4. InAfter(worker[v].seen.n)' <=> InAfter(worker[v].seen.n)
      BY <3>1 DEF InAfter
    <3> HIDE DEF RestockInv
    <3>5. QED BY <3>1, <3>3, <3>4 DEF WorkerOK
  <2>3. QED BY <2>1, <2>2
<1>3. EagerAreEligible'
  BY DEF RestockInv, EagerAreEligible, EligibleBuyers, Buyers
<1>4. RestocksCounted'
  BY DEF RestockInv, RestocksCounted, RestocksIn, InAfter
<1>5. RestockReachesBuyers'
  <2>1. \A t \in done' : eager[t] \subseteq Complete(t)'
    <3>1. \A t \in done : t \in Triggers /\ eager[t] \subseteq Complete(t)
      BY DEF RestockInv, RestockTypeOK, RestockReachesBuyers, Complete
    <3>2. QED BY <3>1
  <2>2. QED BY <2>1 DEF RestockReachesBuyers, Complete
<1>6. QED BY <1>1, <1>2, <1>3, <1>4, <1>5 DEF RestockInv

\* The customers change, and what is kept of them for the triggers follows.
LEMMA BuyersMoveInv ==
    ASSUME RestockInv,
           UNCHANGED <<shelf, worker, active, triggers, applied, restocks, outdated, done, overtaken, stored>>,
           run' \in [Triggers \X Customers -> RunStates],
           filled' \in [Triggers \X Customers -> 0..StepCount],
           eager' \in [Triggers -> SUBSET Customers],
           \A t \in Triggers : eager'[t] \subseteq eager[t] \cap EligibleBuyers',
           \A t \in Triggers : Complete(t) \cap eager'[t] \subseteq Complete(t)',
           StepsHaveRuns',
           \A r \in Triggers \X Customers : run'[r] = "active" => run[r] = "active"
    PROVE  RestockInv'
<1>1. RestockTypeOK'
  BY DEF RestockInv, RestockTypeOK
<1>2. ASSUME NEW v \in Workers PROVE WorkerOK(worker[v])'
  <2>1. worker'[v] = worker[v] /\ WorkerOK(worker[v]) /\ worker[v] \in Worker
    BY DEF RestockInv, RestockTypeOK, Worker
  <2>2. worker[v].at \notin Fetched \cup {"idle"} => worker[v].trigger \in Triggers
    BY <2>1, ReachedBeforeTriggers DEF WorkerOK
  <2>3. worker[v].at \in {"choose", "start", "steps"} =>
            /\ eager'[worker[v].trigger] \subseteq eager[worker[v].trigger]
            /\ Complete(worker[v].trigger) \cap eager'[worker[v].trigger] \subseteq Complete(worker[v].trigger)'
    <3>1. \A t \in Triggers : t = worker[v].trigger =>
              Complete(t) \cap eager'[t] \subseteq Complete(worker[v].trigger)'
      BY <2>1 DEF Complete
    <3>2. QED BY <2>2, <3>1 DEF Fetched
  <2>4. InAfter(worker[v].seen.n)' <=> InAfter(worker[v].seen.n)
    BY <2>1 DEF InAfter
  <2> HIDE DEF RestockInv
  <2>5. QED BY <2>1, <2>3, <2>4 DEF WorkerOK
<1>3. EagerAreEligible'
  BY DEF EagerAreEligible
<1>4. RestocksCounted'
  BY DEF RestockInv, RestocksCounted, RestocksIn, InAfter
<1>5. RestockReachesBuyers'
  <2>1. \A t \in done : t \in Triggers /\ eager[t] \subseteq Complete(t)
    BY DEF RestockInv, RestockTypeOK, RestockReachesBuyers, Complete
  <2>2. \A t \in done : eager'[t] \subseteq Complete(t)'
    BY <2>1
  <2>3. QED BY <2>2 DEF RestockReachesBuyers, Complete
<1>6. PausedStartsNothing'
  BY DEF RestockInv, PausedStartsNothing
<1>7. QED BY <1>1, <1>2, <1>3, <1>4, <1>5, <1>6 DEF RestockInv

-----------------------------------------------------------------------------
LEMMA RestockInitial == Init => RestockInv
<1> SUFFICES ASSUME Init PROVE RestockInv
  OBVIOUS
<1>1. /\ \E b \in BOOLEAN : shelf = [in |-> b, n |-> 0]
      /\ worker = [w \in Workers |-> Resting] /\ active = TRUE
      /\ triggers = 0 /\ applied = 0 /\ restocks = 0 /\ outdated = 0 /\ done = {} /\ overtaken = {}
      /\ run = [r \in Triggers \X Customers |-> "none"] /\ filled = [r \in Triggers \X Customers |-> 0]
      /\ eager = [t \in Triggers |-> {}] /\ stored = "unknown"
  BY DEF Init, RestockInit, AudienceInit
<1>2. shelf \in Snapshot /\ shelf.n = 0 /\ Resting \in Worker
  BY <1>1 DEF Snapshot, Resting, Worker, Phases
<1>3. RestockTypeOK
  <2>1. worker \in [Workers -> Worker]
    BY <1>1, <1>2
  <2>2. QED BY <1>1, <1>2, <2>1 DEF RestockTypeOK, Worker, RunStates
<1>4. \A w \in Workers : WorkerOK(worker[w])
  BY <1>1 DEF WorkerOK, Resting, Fetched
<1>5. RestocksCounted
  <2>1. RestocksIn(0) = 0
    <3>1. 0 \div 2 = 0 /\ 1 \div 2 = 0
      OBVIOUS
    <3>2. RestocksIn(0) = 0 - ((IF shelf.in THEN 1 ELSE 0) \div 2)
      BY <1>1, <1>2 DEF RestocksIn
    <3>3. QED BY <3>1, <3>2
  <2>2. QED BY <1>1, <1>2, <2>1 DEF RestocksCounted
<1>6. EagerAreEligible /\ StepsHaveRuns /\ RestockReachesBuyers /\ PausedStartsNothing
  BY <1>1 DEF EagerAreEligible, StepsHaveRuns, RestockReachesBuyers, PausedStartsNothing
<1>7. QED BY <1>1, <1>3, <1>4, <1>5, <1>6 DEF RestockInv

LEMMA ShelfChangesInv ==
    ASSUME RestockInv, ShelfChanges PROVE RestockInv'
<1>1. /\ shelf.n \in Nat /\ shelf.n < MaxChanges /\ shelf' = [in |-> ~shelf.in, n |-> shelf.n + 1]
      /\ restocks' = (IF shelf.in THEN restocks ELSE restocks + 1)
      /\ UNCHANGED <<status, orders, stored, worker, active, triggers, run, filled, applied, outdated,
                     eager, done, overtaken>>
  BY DEF RestockInv, RestockTypeOK, Snapshot, ShelfChanges, audienceVars, runVars
<1>2. applied \in 0..shelf.n
  BY <1>1 DEF RestockInv, RestockTypeOK, RestocksCounted
<1>3. RestockTypeOK'
  <2>1. shelf' \in Snapshot
    BY <1>1 DEF RestockInv, RestockTypeOK, Snapshot
  <2>2. restocks' \in 0..MaxChanges
    BY <1>1 DEF RestockInv, RestockTypeOK, RestocksCounted
  <2>3. QED BY <1>1, <2>1, <2>2 DEF RestockInv, RestockTypeOK
<1>4. ASSUME NEW w \in Workers PROVE WorkerOK(worker[w])'
  <2>1. WorkerOK(worker[w]) /\ worker[w] \in Worker
    BY DEF RestockInv, RestockTypeOK, Worker
  <2>2. worker[w].at \in Fetched => worker[w].seen.n \in 0..shelf.n
    BY <1>1, <2>1 DEF WorkerOK, Worker, Snapshot
  <2>3. worker[w].at \in Fetched => (InAfter(worker[w].seen.n)' <=> InAfter(worker[w].seen.n))
    <3>1. \A n \in 0..shelf.n : n = worker[w].seen.n => (InAfter(worker[w].seen.n)' <=> InAfter(n))
      BY <1>1, PastStays DEF InAfter
    <3>2. QED BY <2>2, <3>1
  <2>4. worker[w].at \in Fetched => worker[w].seen.n <= shelf'.n
    BY <1>1, <2>2
  <2>5. Complete(worker[w].trigger)' = Complete(worker[w].trigger)
    BY <1>1 DEF Complete
  <2>6. QED BY <1>1, <2>1, <2>3, <2>4, <2>5 DEF WorkerOK
<1>5. RestocksCounted'
  <2>1. (InAfter(applied)' <=> InAfter(applied)) /\ RestocksIn(applied)' = RestocksIn(applied)
    <3>1. \A n \in 0..shelf.n : n = applied => (InAfter(applied)' <=> InAfter(n)) /\ RestocksIn(applied)' = RestocksIn(n)
      BY <1>1, PastStays DEF InAfter, RestocksIn
    <3>2. QED BY <1>2, <3>1
  <2>2. applied <= shelf'.n /\ restocks' <= shelf'.n
    BY <1>1, <1>2 DEF RestockInv, RestockTypeOK, RestocksCounted
  <2>3. QED BY <1>1, <2>1, <2>2 DEF RestockInv, RestocksCounted
<1>6. EagerAreEligible' /\ StepsHaveRuns' /\ RestockReachesBuyers' /\ PausedStartsNothing'
  BY <1>1 DEF RestockInv, EagerAreEligible, EligibleBuyers, Buyers, StepsHaveRuns, RestockReachesBuyers,
              PausedStartsNothing
<1>7. done' \subseteq 1..triggers'
  BY <1>1 DEF RestockInv
<1>8. QED BY <1>3, <1>4, <1>5, <1>6, <1>7 DEF RestockInv

\* The statements that only read.
LEMMA ReadingStepInv ==
    ASSUME RestockInv, NEW w \in Workers,
           \/ FetchProduct(w) \/ FetchOrder(w) \/ ReadDefinition(w) \/ ReadBuyers(w)
           \/ ChooseBuyer(w) \/ RunFilled(w) \/ SyncFails(w)
    PROVE  RestockInv'
<1>1. /\ UNCHANGED <<shelf, active, triggers, run, filled, applied, restocks, outdated, eager, done, overtaken,
                     status, orders, stored>>
  BY DEF FetchProduct, FetchOrder, ReadDefinition, ReadBuyers, ChooseBuyer, RunFilled, SyncFails, audienceVars,
         runVars, stockGhost
<1>2. /\ worker \in [Workers -> Worker] /\ worker[w] \in Worker /\ WorkerOK(worker[w])
      /\ Resting \in Worker /\ shelf \in Snapshot
  BY DEF RestockInv, RestockTypeOK, Worker, Resting, Phases, Snapshot
<1>3. ASSUME NEW x \in Worker, worker' = [worker EXCEPT ![w] = x], WorkerOK(x)
      PROVE  RestockInv'
  <2>1. WorkerOK(x)'
    BY <1>1, <1>3 DEF WorkerOK, Complete, InAfter
  <2>2. run' \in [Triggers \X Customers -> RunStates] /\ filled' \in [Triggers \X Customers -> 0..StepCount]
    BY <1>1 DEF RestockInv, RestockTypeOK
  <2>3. \A t \in Triggers : Complete(t) \subseteq Complete(t)'
    BY <1>1 DEF Complete
  <2>4. StepsHaveRuns' /\ PausedStartsNothing'
    BY <1>1 DEF RestockInv, StepsHaveRuns, PausedStartsNothing
  <2>5. done' \subseteq 1..triggers /\ done' \ done = {}
    BY <1>1 DEF RestockInv
  <2>6. QED BY <1>1, <1>3, <2>1, <2>2, <2>3, <2>4, <2>5, WorkerMoves
<1>4. WorkerOK(Resting)
  BY DEF WorkerOK, Resting, Fetched
<1>5. CASE FetchProduct(w) \/ FetchOrder(w)
  <2>1. PICK x \in Worker : worker' = [worker EXCEPT ![w] = x] /\ x.at \in Fetched /\ x.seen = shelf
    <3> DEFINE x(phase) == [worker[w] EXCEPT !.at = phase, !.seen = shelf]
    <3>1. \A phase \in Fetched : x(phase) \in Worker /\ x(phase).at = phase /\ x(phase).seen = shelf
      <4>1. Fetched \subseteq Phases
        BY DEF Fetched, Phases
      <4>2. QED BY <1>2, <4>1 DEF Worker
    <3>2. worker' = [worker EXCEPT ![w] = x("fetched")] \/ worker' = [worker EXCEPT ![w] = x("fetchedOrder")]
      BY <1>2, <1>5 DEF FetchProduct, FetchOrder
    <3>3. "fetched" \in Fetched /\ "fetchedOrder" \in Fetched
      BY DEF Fetched
    <3> HIDE DEF x
    <3>4. QED BY <3>1, <3>2, <3>3
  <2>3. shelf.n <= shelf.n /\ (shelf.in <=> InAfter(shelf.n))
    <3>1. shelf.n \in Nat
      BY <1>2 DEF Snapshot
    <3>2. shelf.n - shelf.n = 0 /\ 0 % 2 = 0
      BY <3>1
    <3>3. QED BY <1>2, <3>1, <3>2 DEF InAfter, Snapshot
  <2>4. WorkerOK(x)
    BY <2>1, <2>3 DEF WorkerOK, Fetched
  <2>5. QED BY <1>3, <2>1, <2>4
<1>6. CASE ReadDefinition(w)
  <2>1. CASE ~active
    <3>1. worker' = [worker EXCEPT ![w] = Resting]
      BY <1>6, <2>1 DEF ReadDefinition
    <3>2. QED BY <1>2, <1>3, <1>4, <3>1
  <2>2. CASE active
    <3> DEFINE x == [worker[w] EXCEPT !.at = "buyers"]
    <3>1. worker' = [worker EXCEPT ![w] = x] /\ worker[w].at = "triggered"
      BY <1>2, <1>6, <2>2 DEF ReadDefinition, Step, Doing
    <3>2. x \in Worker /\ x.at = "buyers" /\ x.trigger = worker[w].trigger
      BY <1>2 DEF Worker, Phases
    <3> HIDE DEF x
    <3>3. WorkerOK(x)
      BY <1>2, <2>2, <3>1, <3>2 DEF WorkerOK, Fetched
    <3>4. QED BY <1>3, <3>1, <3>2, <3>3
  <2>3. QED BY <2>1, <2>2
<1>7. CASE ReadBuyers(w)
  <2> DEFINE x == [worker[w] EXCEPT !.at = "choose", !.left = Buyers]
  <2>1. worker' = [worker EXCEPT ![w] = x] /\ worker[w].at = "buyers"
    BY <1>2, <1>7 DEF ReadBuyers, Doing
  <2>2. x \in Worker /\ x.at = "choose" /\ x.trigger = worker[w].trigger /\ x.left = Buyers
    BY <1>2 DEF Worker, Phases, Buyers
  <2>3. x.trigger \in 1..triggers /\ (~active => x.trigger \in overtaken)
    BY <1>2, <2>1, <2>2 DEF WorkerOK, Fetched
  <2>4. eager[x.trigger] \subseteq Buyers
    <3>1. x.trigger \in Triggers
      BY <2>3, ReachedBeforeTriggers
    <3>2. QED BY <3>1 DEF RestockInv, EagerAreEligible, EligibleBuyers
  <2> HIDE DEF x
  <2>5. WorkerOK(x)
    BY <2>2, <2>3, <2>4 DEF WorkerOK, Fetched
  <2>6. QED BY <1>3, <2>1, <2>2, <2>5
<1>8. CASE ChooseBuyer(w)
  <2>1. PICK c \in worker[w].left :
            worker' = IF status[c] = "opted_in"
                      THEN [worker EXCEPT ![w].at = "start", ![w].left = @ \ {c}, ![w].for = {c}]
                      ELSE [worker EXCEPT ![w].left = @ \ {c}]
    BY <1>8 DEF ChooseBuyer
  <2>2. c \in Customers /\ worker[w].at = "choose"
    BY <1>2, <1>8 DEF Worker, ChooseBuyer, Doing
  <2>3. /\ worker[w].trigger \in 1..triggers /\ (~active => worker[w].trigger \in overtaken)
        /\ eager[worker[w].trigger] \subseteq worker[w].left \cup Complete(worker[w].trigger)
    BY <1>2, <2>2 DEF WorkerOK, Fetched
  <2>4. CASE status[c] = "opted_in"
    <3> DEFINE x == [worker[w] EXCEPT !.at = "start", !.left = @ \ {c}, !.for = {c}]
    <3>1. worker' = [worker EXCEPT ![w] = x]
      BY <1>2, <2>1, <2>4
    <3>2. /\ x \in Worker /\ x.at = "start" /\ x.trigger = worker[w].trigger
          /\ x.left = worker[w].left \ {c} /\ x.for = {c}
      BY <1>2, <2>2 DEF Worker, Phases
    <3> HIDE DEF x
    <3>3. WorkerOK(x)
      BY <2>2, <2>3, <3>2 DEF WorkerOK, Fetched
    <3>4. QED BY <1>3, <3>1, <3>2, <3>3
  <2>5. CASE status[c] # "opted_in"
    <3> DEFINE x == [worker[w] EXCEPT !.left = @ \ {c}]
    <3>1. worker' = [worker EXCEPT ![w] = x]
      BY <1>2, <2>1, <2>5
    <3>2. /\ x \in Worker /\ x.at = "choose" /\ x.trigger = worker[w].trigger
          /\ x.left = worker[w].left \ {c}
      BY <1>2, <2>2 DEF Worker, Phases
    <3>3. c \notin eager[worker[w].trigger]
      <4>1. worker[w].trigger \in Triggers
        BY <2>3, ReachedBeforeTriggers
      <4>2. QED BY <2>5, <4>1 DEF RestockInv, EagerAreEligible, EligibleBuyers
    <3> HIDE DEF x
    <3>4. WorkerOK(x)
      BY <2>3, <3>2, <3>3 DEF WorkerOK, Fetched
    <3>5. QED BY <1>3, <3>1, <3>2, <3>4
  <2>6. QED BY <2>4, <2>5
<1>9. CASE RunFilled(w)
  <2> DEFINE x == [worker[w] EXCEPT !.at = "choose", !.for = {}]
  <2>1. worker' = [worker EXCEPT ![w] = x] /\ worker[w].at = "steps" /\ filled[RunOf(w)] = StepCount
    BY <1>2, <1>9 DEF RunFilled, Doing
  <2>2. x \in Worker /\ x.at = "choose" /\ x.trigger = worker[w].trigger /\ x.left = worker[w].left
    BY <1>2 DEF Worker, Phases
  <2>3. /\ x.trigger \in 1..triggers /\ (~active => x.trigger \in overtaken)
        /\ eager[x.trigger] \subseteq x.left \cup worker[w].for \cup Complete(x.trigger)
    BY <1>2, <2>1, <2>2 DEF WorkerOK, Fetched
  <2>4. PICK c \in Customers : worker[w].for = {c}
    BY <1>2, <2>1 DEF WorkerOK
  <2>5. c \in Complete(x.trigger)
    <3>1. x.trigger \in Triggers /\ filled[<<x.trigger, c>>] = StepCount
      BY <2>1, <2>2, <2>3, <2>4, RunOfCustomer, ReachedBeforeTriggers
    <3>2. run[<<x.trigger, c>>] # "none"
      BY <3>1 DEF RestockInv, StepsHaveRuns
    <3>3. QED BY <3>1, <3>2 DEF Complete
  <2> HIDE DEF x
  <2>6. WorkerOK(x)
    BY <2>2, <2>3, <2>4, <2>5 DEF WorkerOK, Fetched
  <2>7. QED BY <1>3, <2>1, <2>2, <2>6
<1>10. CASE SyncFails(w)
  BY <1>2, <1>3, <1>4, <1>10 DEF SyncFails
<1>11. QED BY <1>5, <1>6, <1>7, <1>8, <1>9, <1>10

\* The statements that start a run, and the end of a trigger.
LEMMA StartingInv ==
    ASSUME RestockInv, NEW w \in Workers, InsertRun(w) \/ EnqueueStep(w) \/ Started(w)
    PROVE  RestockInv'
<1>1. UNCHANGED <<shelf, active, triggers, applied, restocks, outdated, eager, overtaken, status, orders, stored>>
  BY DEF InsertRun, EnqueueStep, Started, audienceVars, runVars, stockVars, stockGhost
<1>2. /\ worker \in [Workers -> Worker] /\ worker[w] \in Worker /\ WorkerOK(worker[w]) /\ Resting \in Worker
      /\ run \in [Triggers \X Customers -> RunStates] /\ filled \in [Triggers \X Customers -> 0..StepCount]
      /\ StepsHaveRuns /\ PausedStartsNothing /\ done \subseteq 1..triggers
  BY DEF RestockInv, RestockTypeOK, Worker, Resting, Phases, Snapshot
<1>3. CASE InsertRun(w) \/ EnqueueStep(w)
  <2>1. worker[w].at \in {"start", "steps"}
    BY <1>3 DEF InsertRun, EnqueueStep, Doing
  <2>2. PICK c \in Customers : worker[w].for = {c}
    BY <1>2, <2>1 DEF WorkerOK
  <2>3. /\ worker[w].trigger \in 1..triggers /\ (~active => worker[w].trigger \in overtaken)
        /\ eager[worker[w].trigger] \subseteq worker[w].left \cup {c} \cup Complete(worker[w].trigger)
    BY <1>2, <2>1, <2>2 DEF WorkerOK, Fetched
  <2>4. PICK t \in Triggers : t = worker[w].trigger /\ RunOf(w) = <<t, c>>
    BY <2>2, <2>3, ReachedBeforeTriggers, RunOfCustomer
  <2>5. /\ [worker[w] EXCEPT !.at = "steps"] \in Worker
        /\ worker' = [worker EXCEPT ![w] = [worker[w] EXCEPT !.at = "steps"]]
    <3>1. [worker[w] EXCEPT !.at = "steps"] \in Worker
      BY <1>2 DEF Worker, Phases
    <3>2. CASE InsertRun(w)
      BY <1>2, <3>1, <3>2 DEF InsertRun, Step
    <3>3. CASE EnqueueStep(w)
      <4>1. worker' = worker /\ [worker[w] EXCEPT !.at = "steps"] = worker[w]
        BY <1>2, <3>3 DEF EnqueueStep, stockVars, Doing, Worker
      <4>2. QED BY <1>2, <3>1, <4>1
    <3>4. QED BY <1>3, <3>1, <3>2, <3>3
  <2>6. PICK x \in Worker :
            /\ worker' = [worker EXCEPT ![w] = x]
            /\ x.at = "steps" /\ x.trigger = t /\ x.left = worker[w].left /\ x.for = {c}
    <3>1. \E x \in Worker : x = [worker[w] EXCEPT !.at = "steps"]
      BY <2>5
    <3>2. QED BY <1>2, <2>2, <2>4, <2>5, <3>1 DEF Worker
  <2>7. /\ run' \in [Triggers \X Customers -> RunStates] /\ filled' \in [Triggers \X Customers -> 0..StepCount]
        /\ \A r \in Triggers \X Customers :
              /\ run'[r] = IF InsertRun(w) /\ r = <<t, c>> THEN "active" ELSE run[r]
              /\ filled'[r] = IF ~InsertRun(w) /\ r = <<t, c>> THEN filled[r] + 1 ELSE filled[r]
        /\ ~InsertRun(w) => run[<<t, c>>] # "none" /\ filled[<<t, c>>] < StepCount
    <3>1. CASE InsertRun(w)
      BY <1>2, <2>4, <3>1 DEF InsertRun, RunStates
    <3>2. CASE ~InsertRun(w)
      <4>1. /\ filled' = [filled EXCEPT ![<<t, c>>] = @ + 1] /\ run' = run
            /\ run[<<t, c>>] # "none" /\ filled[<<t, c>>] < StepCount
        BY <1>3, <2>4, <3>2 DEF EnqueueStep
      <4>2. <<t, c>> \in Triggers \X Customers
        OBVIOUS
      <4>3. filled[<<t, c>>] + 1 \in 0..StepCount
        BY <1>2, <4>1, <4>2
      <4>4. QED BY <1>2, <3>2, <4>1, <4>2, <4>3
    <3>3. QED BY <3>1, <3>2
  <2>8. \A u \in Triggers : Complete(u) \subseteq Complete(u)'
    <3>1. ASSUME NEW u \in Triggers, NEW d \in Customers,
                 run[<<u, d>>] # "none", filled[<<u, d>>] = StepCount
          PROVE  run'[<<u, d>>] # "none" /\ filled'[<<u, d>>] = StepCount
      <4>1. <<u, d>> \in Triggers \X Customers
        OBVIOUS
      <4>2. QED BY <1>2, <2>7, <3>1, <4>1
    <3>2. QED BY <3>1 DEF Complete
  <2>9. StepsHaveRuns'
    BY <1>2, <2>7 DEF StepsHaveRuns
  <2>10. PausedStartsNothing'
    <3>1. ~active => t \in overtaken
      BY <2>3, <2>4
    <3>2. ASSUME NEW u \in Triggers \ overtaken, NEW d \in Customers, ~active
          PROVE  run'[<<u, d>>] # "active"
      <4>1. <<u, d>> \in Triggers \X Customers /\ <<u, d>> # <<t, c>>
        BY <3>1, <3>2
      <4>2. QED BY <1>2, <2>7, <3>2, <4>1 DEF PausedStartsNothing
    <3>3. QED BY <1>1, <3>2 DEF PausedStartsNothing
  <2>11. done' = done
    BY <1>3 DEF InsertRun, EnqueueStep, stockGhost
  <2>12. WorkerOK(x)'
    <3>1. eager'[t] \subseteq x.left \cup {c} \cup Complete(t)'
      BY <1>1, <2>3, <2>4, <2>6, <2>8
    <3>2. x.trigger \in 1..triggers' /\ (~active' => x.trigger \in overtaken')
      BY <1>1, <2>3, <2>4, <2>6
    <3>3. QED BY <2>6, <3>1, <3>2 DEF WorkerOK, Fetched
  <2>13. done' \subseteq 1..triggers /\ done' \ done = {}
    BY <1>2, <2>11
  <2>14. QED BY <1>1, <2>6, <2>7, <2>8, <2>9, <2>10, <2>12, <2>13, WorkerMoves
<1>4. CASE Started(w)
  <2>1. /\ worker' = [worker EXCEPT ![w] = Resting] /\ UNCHANGED <<run, filled>>
        /\ done' = done \cup {worker[w].trigger} /\ worker[w].at = "choose" /\ worker[w].left = {}
    BY <1>4 DEF Started, runVars, Doing
  <2>2. /\ worker[w].trigger \in 1..triggers
        /\ eager[worker[w].trigger] \subseteq Complete(worker[w].trigger)
    BY <1>2, <2>1 DEF WorkerOK, Fetched
  <2>3. \A t \in Triggers : Complete(t) \subseteq Complete(t)'
    BY <2>1 DEF Complete
  <2>4. StepsHaveRuns' /\ PausedStartsNothing'
    BY <1>1, <1>2, <2>1 DEF StepsHaveRuns, PausedStartsNothing
  <2>5. done' \subseteq 1..triggers /\ \A t \in done' \ done : eager[t] \subseteq Complete(t)'
    <3>1. done' \subseteq 1..triggers
      BY <1>2, <2>1, <2>2
    <3>2. \A t \in done' \ done : t = worker[w].trigger
      BY <2>1
    <3>3. \A t \in Triggers : t = worker[w].trigger => eager[t] \subseteq Complete(t)'
      BY <2>2, <2>3
    <3>4. QED BY <3>1, <3>2, <3>3, ReachedBeforeTriggers
  <2>6. \E x \in Worker : x = Resting
    BY <1>2
  <2>7. \A x : x = Resting => WorkerOK(x)'
    BY DEF WorkerOK, Resting, Fetched
  <2>8. PICK x \in Worker : worker' = [worker EXCEPT ![w] = x] /\ WorkerOK(x)'
    BY <2>1, <2>6, <2>7
  <2>9. QED BY <1>1, <1>2, <2>1, <2>3, <2>4, <2>5, <2>8, WorkerMoves
<1>5. QED BY <1>3, <1>4

\* A snapshot is stored, whatever it comes with: only a transition starts the workflow.
LEMMA StoresInv ==
    ASSUME RestockInv, NEW w \in Workers, worker[w].at \in Fetched, Stores(worker[w].seen),
           UNCHANGED <<status, orders, shelf, active, run, filled, restocks, done, overtaken>>,
           triggers' \in 0..MaxTriggers,
           triggers' = triggers \/ (triggers' = triggers + 1 /\ Transition(worker[w].seen)),
           eager' \in [Triggers -> SUBSET Customers],
           \A t \in 1..triggers : eager'[t] = eager[t],
           \A t \in Triggers : eager'[t] = eager[t] \/ eager'[t] = EligibleBuyers,
           NEW x \in Worker, worker' = [worker EXCEPT ![w] = x],
           \/ x = Resting \/ x = worker[w]
           \/ x.at = "triggered" /\ x.trigger = triggers' /\ triggers' \in Triggers
    PROVE  RestockInv'
<1>1. /\ stored' = (IF worker[w].seen.in THEN "in" ELSE "out")
      /\ applied' = (IF worker[w].seen.n > applied THEN worker[w].seen.n ELSE applied)
      /\ outdated' = (IF worker[w].seen.n < applied THEN outdated + 1 ELSE outdated)
  BY DEF Stores
<1>2. /\ worker \in [Workers -> Worker] /\ worker[w] \in Worker /\ WorkerOK(worker[w])
      /\ shelf \in Snapshot /\ shelf.n \in Nat /\ restocks \in Nat /\ outdated \in Nat /\ applied \in 0..shelf.n
      /\ triggers \in 0..MaxTriggers /\ eager \in [Triggers -> SUBSET Customers] /\ RestocksCounted
  BY DEF RestockInv, RestockTypeOK, Worker, Snapshot, RestocksCounted
<1>3. PICK n \in 0..shelf.n, b \in BOOLEAN :
          n = worker[w].seen.n /\ b = worker[w].seen.in /\ (b <=> InAfter(n)) /\ n <= MaxChanges
  <2>1. worker[w].seen.n \in 0..shelf.n /\ worker[w].seen.in \in BOOLEAN /\ worker[w].seen.n <= MaxChanges
    BY <1>2 DEF WorkerOK, Worker, Snapshot
  <2>2. worker[w].seen.in <=> InAfter(worker[w].seen.n)
    BY <1>2 DEF WorkerOK
  <2>3. \A m \in 0..shelf.n : m = worker[w].seen.n => (InAfter(m) <=> InAfter(worker[w].seen.n))
    BY DEF InAfter
  <2>4. QED BY <2>1, <2>2, <2>3
<1>4. triggers' = triggers \/ (triggers' = triggers + 1 /\ stored = "out" /\ b)
  BY <1>3 DEF Transition
<1>5. RestockTypeOK'
  <2>1. worker' \in [Workers -> Worker]
    BY <1>2
  <2>2. applied' \in 0..MaxChanges /\ outdated' \in Nat
    BY <1>1, <1>2, <1>3 DEF RestockInv, RestockTypeOK
  <2>3. QED BY <2>1, <2>2 DEF RestockInv, RestockTypeOK, Worker
<1>6. ASSUME NEW v \in Workers PROVE WorkerOK(worker[v])'
  <2>1. ASSUME worker'[v] = worker[v], WorkerOK(worker[v]), worker[v] \in Worker
        PROVE  WorkerOK(worker[v])'
    <3>1. worker[v].at \notin Fetched \cup {"idle"} =>
              worker[v].trigger \in 1..triggers' /\ eager'[worker[v].trigger] = eager[worker[v].trigger]
      BY <1>2, <1>4, <2>1 DEF WorkerOK
    <3>2. InAfter(worker[v].seen.n)' <=> InAfter(worker[v].seen.n)
      BY <2>1 DEF InAfter
    <3>3. Complete(worker[v].trigger)' = Complete(worker[v].trigger)
      BY <2>1 DEF Complete
    <3>4. QED BY <2>1, <3>1, <3>2, <3>3 DEF WorkerOK, Fetched
  <2>2. CASE v # w \/ x = worker[w]
    <3>1. worker'[v] = worker[v] /\ WorkerOK(worker[v]) /\ worker[v] \in Worker
      BY <1>2, <2>2 DEF RestockInv
    <3>2. QED BY <2>1, <3>1
  <2>3. CASE v = w /\ x # worker[w]
    <3>1. worker'[v] = x
      BY <1>2, <2>3
    <3>2. CASE x = Resting
      BY <3>1, <3>2 DEF WorkerOK, Resting, Fetched
    <3>3. CASE x.at = "triggered" /\ x.trigger = triggers' /\ triggers' \in Triggers
      BY <3>1, <3>3 DEF WorkerOK, Triggers, Fetched
    <3>4. QED BY <2>3, <3>2, <3>3
  <2>4. QED BY <2>2, <2>3
<1>7. EagerAreEligible'
  <2>1. EligibleBuyers' = EligibleBuyers
    BY DEF EligibleBuyers, Buyers
  <2>2. QED BY <2>1 DEF RestockInv, EagerAreEligible
<1>8. RestocksCounted'
  <2>1. \A m \in 0..shelf.n : (InAfter(m)' <=> InAfter(m)) /\ RestocksIn(m)' = RestocksIn(m)
    BY <1>1 DEF InAfter, RestocksIn
  <2>2. PICK a \in 0..shelf.n : a = applied
    BY <1>2
  <2>3. /\ triggers <= RestocksIn(a) + outdated
        /\ stored = "out" /\ InAfter(a) => triggers < RestocksIn(a) + outdated
    BY <1>2, <2>2 DEF RestocksCounted
  <2>4. RestocksIn(a) \in Int /\ RestocksIn(n) \in Int
    BY <1>2, RestocksGrow
  <2>5. CASE n < a
    <3>1. applied' = a /\ outdated' = outdated + 1
      BY <1>1, <1>2, <1>3, <2>2, <2>5
    <3>2. (RestocksIn(applied)' = RestocksIn(a)) /\ (InAfter(applied)' <=> InAfter(a))
      BY <1>1, <3>1 DEF RestocksIn, InAfter
    <3>3. QED BY <1>1, <1>2, <1>3, <1>4, <2>3, <2>4, <3>1, <3>2 DEF RestocksCounted
  <2>6. CASE a <= n
    <3>1. applied' = n /\ outdated' = outdated
      BY <1>1, <1>2, <1>3, <2>2, <2>6
    <3>2. (RestocksIn(applied)' = RestocksIn(n)) /\ (InAfter(applied)' <=> InAfter(n))
      BY <1>1, <3>1 DEF RestocksIn, InAfter
    <3>3. RestocksIn(a) <= RestocksIn(n) /\ (~InAfter(a) /\ InAfter(n) => RestocksIn(a) < RestocksIn(n))
      BY <1>2, <2>6, RestocksGrow
    <3>4. triggers' <= RestocksIn(n) + outdated
      BY <1>2, <1>3, <1>4, <2>3, <2>4, <3>3
    <3>5. stored' = "out" => ~InAfter(n)
      BY <1>1, <1>3
    <3>6. n <= shelf.n /\ restocks <= shelf.n
      BY <1>2 DEF RestocksCounted
    <3>7. QED BY <1>1, <3>1, <3>2, <3>4, <3>5, <3>6 DEF RestocksCounted
  <2>7. QED BY <2>5, <2>6
<1>9. done' \subseteq 1..triggers'
  BY <1>2, <1>4 DEF RestockInv
<1>10. StepsHaveRuns' /\ PausedStartsNothing'
  BY DEF RestockInv, StepsHaveRuns, PausedStartsNothing
<1>11. RestockReachesBuyers'
  BY DEF RestockInv, RestockReachesBuyers
<1>12. QED BY <1>5, <1>6, <1>7, <1>8, <1>9, <1>10, <1>11 DEF RestockInv

\* The product's snapshot is compared with what was stored before.
LEMMA UpsertInv ==
    ASSUME RestockInv, NEW w \in Workers, UpsertProduct(w) PROVE RestockInv'
<1>1. /\ worker[w].at \in Fetched /\ Stores(worker[w].seen)
      /\ Transition(worker[w].seen) => triggers < MaxTriggers
      /\ UNCHANGED <<status, orders, shelf, active, run, filled, restocks, done, overtaken>>
  BY DEF UpsertProduct, Doing, Fetched
<1>2. /\ worker \in [Workers -> Worker] /\ Resting \in Worker
      /\ triggers \in 0..MaxTriggers /\ eager \in [Triggers -> SUBSET Customers] /\ MaxTriggers \in Nat
  BY RestockConstants DEF RestockInv, RestockTypeOK, Worker, Resting, Phases, Snapshot
<1>3. CASE Transition(worker[w].seen)
  <2> DEFINE x == [Resting EXCEPT !.at = "triggered", !.trigger = triggers + 1]
  <2>1. /\ triggers' = triggers + 1 /\ worker' = [worker EXCEPT ![w] = x]
        /\ eager' = [eager EXCEPT ![triggers + 1] = EligibleBuyers]
    BY <1>3 DEF UpsertProduct
  <2>2. triggers + 1 \in Triggers /\ EligibleBuyers \subseteq Customers /\ triggers + 1 \notin 1..triggers
    BY <1>1, <1>2, <1>3 DEF Triggers, EligibleBuyers, Buyers
  <2>3. x \in Worker /\ x.at = "triggered" /\ x.trigger = triggers + 1
    BY <1>2, <2>2 DEF Worker, Phases, Resting
  <2>4. \A t \in 1..triggers : t \in Triggers
    BY <1>2 DEF Triggers
  <2>5. /\ eager' \in [Triggers -> SUBSET Customers]
        /\ \A t \in 1..triggers : eager'[t] = eager[t]
        /\ \A t \in Triggers : eager'[t] = eager[t] \/ eager'[t] = EligibleBuyers
    BY <1>2, <2>1, <2>2, <2>4
  <2>6. triggers' \in 0..MaxTriggers
    BY <1>2, <2>1, <2>2 DEF Triggers
  <2> HIDE DEF x
  <2>7. QED BY <1>1, <1>3, <2>1, <2>2, <2>3, <2>5, <2>6, StoresInv
<1>4. CASE ~Transition(worker[w].seen)
  <2>1. worker' = [worker EXCEPT ![w] = Resting] /\ UNCHANGED <<triggers, eager>>
    BY <1>4 DEF UpsertProduct
  <2>2. QED BY <1>1, <1>2, <2>1, StoresInv
<1>5. QED BY <1>3, <1>4

\* The order's quantity is compared with nothing.
LEMMA UpsertOrderInv ==
    ASSUME RestockInv, NEW w \in Workers, UpsertOrderStock(w) PROVE RestockInv'
<1>1. /\ worker[w].at \in Fetched /\ Stores(worker[w].seen)
      /\ UNCHANGED <<status, orders, shelf, active, run, filled, restocks, done, overtaken, triggers, eager>>
  BY DEF UpsertOrderStock, Doing, Fetched, runVars
<1>2. /\ worker \in [Workers -> Worker] /\ Resting \in Worker /\ worker[w] \in Worker
      /\ triggers \in 0..MaxTriggers /\ eager \in [Triggers -> SUBSET Customers]
  BY DEF RestockInv, RestockTypeOK, Worker, Resting, Phases, Snapshot
<1>3. CASE worker' = [worker EXCEPT ![w] = Resting]
  BY <1>1, <1>2, <1>3, StoresInv
<1>4. CASE worker' = worker
  <2>1. worker' = [worker EXCEPT ![w] = worker[w]]
    BY <1>2, <1>4
  <2>2. QED BY <1>1, <1>2, <2>1, StoresInv
<1>5. QED BY <1>3, <1>4 DEF UpsertOrderStock

-----------------------------------------------------------------------------
\* The operator pauses the definition and activates it again.
LEMMA OperatorInv ==
    ASSUME RestockInv, PauseDefinition \/ ActivateDefinition PROVE RestockInv'
<1> DEFINE readers == {worker[w].trigger : w \in {v \in Workers : Reading(v)}}
<1>1. UNCHANGED <<status, orders, stored, shelf, worker, triggers, filled, applied, restocks, outdated, eager, done>>
  BY DEF PauseDefinition, ActivateDefinition, audienceVars
<1>2. /\ run \in [Triggers \X Customers -> RunStates]
      /\ \A w \in Workers : WorkerOK(worker[w]) /\ worker[w] \in Worker
      /\ overtaken \subseteq Triggers /\ done \subseteq 1..triggers
  BY DEF RestockInv, RestockTypeOK, Worker
<1>3. readers \subseteq Triggers
  BY <1>2, ReachedBeforeTriggers DEF Reading, WorkerOK, Fetched
<1>4. /\ run' \in [Triggers \X Customers -> RunStates]
      /\ \A r \in Triggers \X Customers : run'[r] = "none" <=> run[r] = "none"
      /\ active' \in BOOLEAN /\ overtaken' \subseteq Triggers
      /\ ~active' => /\ \A r \in Triggers \X Customers : run'[r] # "active"
                     /\ readers \subseteq overtaken'
  <2>1. CASE PauseDefinition
    BY <1>2, <1>3, <2>1 DEF PauseDefinition, RunStates
  <2>2. CASE ActivateDefinition
    BY <1>2, <2>2 DEF ActivateDefinition, RunStates
  <2>3. QED BY <2>1, <2>2
<1>5. \A t \in Triggers : Complete(t)' = Complete(t)
  <2>1. \A t \in Triggers, c \in Customers : <<t, c>> \in Triggers \X Customers
    OBVIOUS
  <2>2. QED BY <1>1, <1>4, <2>1 DEF Complete
<1>6. RestockTypeOK'
  BY <1>1, <1>4 DEF RestockInv, RestockTypeOK
<1>7. ASSUME NEW w \in Workers PROVE WorkerOK(worker[w])'
  <2>1. worker'[w] = worker[w] /\ WorkerOK(worker[w]) /\ worker[w] \in Worker
    BY <1>1, <1>2
  <2>2. worker[w].at \notin Fetched \cup {"idle"} => worker[w].trigger \in Triggers
    BY <2>1, ReachedBeforeTriggers DEF WorkerOK
  <2>3. Complete(worker[w].trigger)' = Complete(worker[w].trigger) \/ worker[w].at \in Fetched \cup {"idle"}
    <3>1. \A t \in Triggers : t = worker[w].trigger => Complete(worker[w].trigger)' = Complete(t)
      BY <1>1, <1>5 DEF Complete
    <3>2. QED BY <2>2, <3>1
  <2>4. InAfter(worker[w].seen.n)' <=> InAfter(worker[w].seen.n)
    BY <1>1 DEF InAfter
  <2>5. ~active' /\ worker[w].at \in {"buyers", "choose", "start", "steps"} => worker[w].trigger \in overtaken'
    BY <1>4 DEF Reading
  <2> HIDE DEF readers
  <2>6. QED BY <1>1, <2>1, <2>3, <2>4, <2>5 DEF WorkerOK, Fetched
<1>8. EagerAreEligible' /\ RestocksCounted' /\ done' \subseteq 1..triggers'
  BY <1>1 DEF RestockInv, EagerAreEligible, EligibleBuyers, Buyers, RestocksCounted, RestocksIn, InAfter
<1>9. StepsHaveRuns'
  BY <1>1, <1>4 DEF RestockInv, StepsHaveRuns
<1>10. PausedStartsNothing'
  BY <1>4 DEF PausedStartsNothing
<1>11. RestockReachesBuyers'
  <2>1. \A t \in done : \A c \in eager[t] : <<t, c>> \in Triggers \X Customers
    BY DEF RestockInv, RestockTypeOK
  <2>2. QED BY <1>1, <1>4, <2>1 DEF RestockInv, RestockReachesBuyers
<1>12. QED BY <1>6, <1>7, <1>8, <1>9, <1>10, <1>11 DEF RestockInv

\* The customers change, are redacted, or have their work cancelled; or nothing here does.
LEMMA OtherStepsInv ==
    ASSUME RestockInv, status \in [Customers -> Statuses],
           \/ CustomersChange
           \/ \E c \in Customers : CancelCustomerWork(c) \/ Redact(c)
           \/ UNCHANGED <<allRestock, status, orders, stored>>
    PROVE  RestockInv'
<1> DEFINE Runs == Triggers \X Customers
<1>1. /\ run \in [Runs -> RunStates] /\ filled \in [Runs -> 0..StepCount] /\ eager \in [Triggers -> SUBSET Customers]
      /\ EagerAreEligible /\ StepsHaveRuns
  BY DEF RestockInv, RestockTypeOK
<1>2. UNCHANGED <<shelf, worker, active, triggers, applied, restocks, outdated, done, overtaken, stored>>
  BY DEF CustomersChange, CustomersMove, CustomerArrives, StatusChanges, OrderPlaced, OrderStopsCounting,
         ScrubPhone, CancelCustomerWork, Redact, RemoveCustomer, allRestock, stockVars, runVars, stockGhost,
         audienceVars
<1>3. ASSUME UNCHANGED <<run, filled>>, BuyersMove PROVE RestockInv'
  <2>1. \A t \in Triggers : eager'[t] = eager[t] \cap EligibleBuyers'
    BY <1>3 DEF BuyersMove
  <2>2. eager' \in [Triggers -> SUBSET Customers]
    BY <1>1, <1>3 DEF BuyersMove
  <2>3. \A t \in Triggers : Complete(t) = Complete(t)'
    BY <1>3 DEF Complete
  <2>4. StepsHaveRuns'
    BY <1>1, <1>3 DEF StepsHaveRuns
  <2>5. run' \in [Runs -> RunStates] /\ filled' \in [Runs -> 0..StepCount]
    BY <1>1, <1>3
  <2>6. QED BY <1>2, <1>3, <2>1, <2>2, <2>3, <2>4, <2>5, BuyersMoveInv
<1>4. ASSUME NEW c \in Customers, CancelCustomerWork(c) PROVE RestockInv'
  <2>1. /\ \A r \in Runs : run'[r] = IF r[2] = c /\ run[r] \in {"active", "paused"} THEN "cancelled" ELSE run[r]
        /\ run' \in [Runs -> RunStates]
        /\ UNCHANGED <<filled, eager, status, orders>>
    BY <1>1, <1>4 DEF CancelCustomerWork, CancelRuns, RunStates, stockGhost, audienceVars
  <2>2. \A t \in Triggers : eager'[t] \subseteq eager[t] \cap EligibleBuyers'
    BY <1>1, <2>1 DEF EagerAreEligible, EligibleBuyers, Buyers
  <2>3. \A t \in Triggers, d \in Customers : <<t, d>> \in Runs
    OBVIOUS
  <2>4. \A t \in Triggers : Complete(t) \subseteq Complete(t)'
    BY <2>1, <2>3 DEF Complete
  <2>5. StepsHaveRuns'
    BY <1>1, <2>1 DEF StepsHaveRuns
  <2>6. QED BY <1>1, <1>2, <2>1, <2>2, <2>4, <2>5, BuyersMoveInv
<1>5. ASSUME NEW c \in Customers, Redact(c) PROVE RestockInv'
  <2>1. /\ run' = [r \in Runs |-> IF r[2] = c THEN "none" ELSE run[r]]
        /\ filled' = [r \in Runs |-> IF r[2] = c THEN 0 ELSE filled[r]]
        /\ status' = [status EXCEPT ![c] = "redacted"]
        /\ eager' = [t \in Triggers |-> eager[t] \cap EligibleBuyers']
    BY <1>5 DEF Redact, RedactRuns, RemoveCustomer, BuyersMove
  <2>2. run' \in [Runs -> RunStates] /\ filled' \in [Runs -> 0..StepCount]
    BY <1>1, <2>1 DEF RunStates
  <2>3. eager' \in [Triggers -> SUBSET Customers] /\ \A t \in Triggers : eager'[t] = eager[t] \cap EligibleBuyers'
    BY <1>1, <2>1
  <2>4. c \notin EligibleBuyers'
    BY <2>1 DEF EligibleBuyers
  <2>5. \A t \in Triggers, d \in Customers : <<t, d>> \in Runs /\ <<t, d>>[2] = d
    OBVIOUS
  <2>6. \A t \in Triggers : Complete(t) \cap eager'[t] \subseteq Complete(t)'
    BY <2>1, <2>3, <2>4, <2>5 DEF Complete
  <2>7. StepsHaveRuns'
    BY <1>1, <2>1 DEF StepsHaveRuns
  <2>8. \A r \in Runs : run'[r] = "active" => run[r] = "active"
    BY <2>1
  <2>9. QED BY <1>2, <2>2, <2>3, <2>6, <2>7, <2>8, BuyersMoveInv
<1>6. CASE CustomersChange
  BY <1>3, <1>6 DEF CustomersChange, runVars
<1>7. CASE UNCHANGED <<allRestock, status, orders, stored>>
  <2>1. UNCHANGED <<run, filled, eager, status, orders>>
    BY <1>7 DEF allRestock, runVars, stockGhost
  <2>2. \A t \in Triggers : eager'[t] \subseteq eager[t] \cap EligibleBuyers'
    BY <1>1, <2>1 DEF EagerAreEligible, EligibleBuyers, Buyers
  <2>3. \A t \in Triggers : Complete(t) = Complete(t)'
    BY <2>1 DEF Complete
  <2>4. StepsHaveRuns'
    BY <1>1, <2>1 DEF StepsHaveRuns
  <2>5. QED BY <1>1, <1>2, <2>1, <2>2, <2>3, <2>4, BuyersMoveInv
<1>8. QED BY <1>4, <1>5, <1>6, <1>7

LEMMA RestockNextInv == CampaignInv /\ RestockInv /\ [Next]_vars => RestockInv'
<1> SUFFICES ASSUME CampaignInv, RestockInv, [Next]_vars PROVE RestockInv'
  OBVIOUS
<1>0. status \in [Customers -> Statuses]
  BY DEF CampaignInv, CampaignTypes
<1>1. CASE RestockStep
  BY <1>1, ShelfChangesInv, ReadingStepInv, StartingInv, UpsertInv, UpsertOrderInv, OperatorInv DEF RestockStep
<1>2. CASE CampaignStep /\ UNCHANGED allRestock
  <2>1. UNCHANGED audienceVars
    BY <1>2 DEF CampaignStep, PreviewDraft, InsertDraft, InsertRecipient, DraftCreated, CutOff, OpenDraft,
       ListRecipients, Revalidate, CommitActivation, CancelCampaign, JobMoves
  <2>2. QED BY <1>0, <1>2, <2>1, OtherStepsInv DEF audienceVars
<1>3. CASE UNCHANGED people
  BY <1>0, <1>3, OtherStepsInv DEF people, audienceVars
<1>4. QED BY <1>0, <1>1, <1>2, <1>3, OtherStepsInv DEF Next, StockChanges, vars

THEOREM RestockInvariant == Spec => []RestockInv
BY RestockInitial, RestockNextInv, CampaignInvariant, PTL DEF Spec

\* A restock whose worker comes to its end has reached everybody who was an eligible
\* buyer all along, whoever was redacted, opted out or bought meanwhile.
THEOREM RestocksReach == Spec => []RestockReachesBuyers
<1>1. RestockInv => RestockReachesBuyers
  BY DEF RestockInv
<1>2. QED BY <1>1, RestockInvariant, PTL

\* The workflow starts no more often than the product was replenished, but for
\* snapshots stored out of order.
THEOREM TriggersCounted == Spec => []TriggersAreRestocks
<1>1. RestockInv => TriggersAreRestocks
  <2> SUFFICES ASSUME RestockInv PROVE triggers <= restocks + outdated
    BY DEF TriggersAreRestocks
  <2>1. /\ shelf \in Snapshot /\ restocks \in Nat /\ outdated \in Nat /\ triggers \in Nat
        /\ applied \in Nat /\ applied <= shelf.n /\ triggers <= RestocksIn(applied) + outdated
    BY DEF RestockInv, RestockTypeOK, RestocksCounted
  <2>2. RestocksIn(applied) \in Int /\ RestocksIn(applied) <= restocks
    <3>1. \A n \in Nat : n <= shelf.n => RestocksIn(n) \in Int /\ RestocksIn(n) <= restocks
      BY <2>1, RestocksGrow
    <3>2. QED BY <2>1, <3>1
  <2>3. QED BY <2>1, <2>2
<1>2. QED BY <1>1, RestockInvariant, PTL

\* A paused definition starts no run that its workers had not begun with.
THEOREM PauseHolds == Spec => []PausedStartsNothing
<1>1. RestockInv => PausedStartsNothing
  BY DEF RestockInv
<1>2. QED BY <1>1, RestockInvariant, PTL

-----------------------------------------------------------------------------
(* Schedules *)

\* The schedule is that of Schedule alone, whatever becomes of the customers.
THEOREM SchedulesApart == Spec => ScheduleSpec
<1>1. Init => ScheduleInit
  BY DEF Init
<1>2. [Next]_vars => [ScheduleNext]_scheduleVars
  BY DEF Next, vars
<1>3. QED BY <1>1, <1>2, PTL DEF Spec, ScheduleSpec

\* What holds of every schedule holds here.
THEOREM SchedulesHold ==
    Spec => [](SentOutsideQuietHours /\ DueWhenAllowed /\ NeverBeforeSimulated /\ StepsKeepTheirOrder)
BY SchedulesApart, NothingSentInQuietHours, DueOnTime, SimulationIsALowerBound, OrderOfSteps, PTL

\* The types of all of it: no counter, list or state leaves its range.
THEOREM OutreachTypes == Spec => [](CampaignTypes /\ RestockTypeOK /\ ScheduleTypeOK)
<1>1. CampaignInv /\ RestockInv => CampaignTypes /\ RestockTypeOK
  BY DEF CampaignInv, RestockInv
<1>2. QED BY <1>1, CampaignInvariant, RestockInvariant, SchedulesApart, ScheduleTypeCorrect, PTL

=============================================================================
