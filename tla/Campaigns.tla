------------------------------ MODULE Campaigns ------------------------------
(***************************************************************************)
(* A campaign from the draft to its jobs: createCampaign freezes the       *)
(* audience statement by statement, activateCampaign revalidates it and    *)
(* enqueues in one transaction, cancelCampaign ends it.  Operators'        *)
(* requests interleave with each other, with the changes of the customers  *)
(* and with a redaction, and may be cut off.                               *)
(***************************************************************************)
EXTENDS Audience

CONSTANTS
    Operators,      \* requests under way at a time
    CampaignIDs,    \* campaigns.id, one for each creation
    NoCampaign,
    Definitions     \* the segments that operators choose

ASSUME CampaignConstants ==
    /\ Definitions \subseteq Segment /\ Definitions # {}
    /\ NoCampaign \notin CampaignIDs

VARIABLES
    campaign,       \* campaigns: state, segment, audience_count, and campaign_recipients
    jobs,           \* scheduled_jobs of a campaign, by customer
    request,        \* what each operator's request has got to
    reviewed,       \* the audience that the creation previewed
    gone,           \* its members that were redacted or never inserted
    moved,          \* operators whose activation has seen the audience change
    late,           \* jobs of customers redacted under an activation that had read them
    escaped         \* jobs that were running when their campaign was cancelled

campaignVars == <<campaign, jobs>>
ghostVars    == <<reviewed, gone, moved, late, escaped>>
allCampaign  == <<campaignVars, request, ghostVars>>

States   == {"none", "draft", "scheduled", "cancelled"}
Stages   == {"idle", "previewed", "inserting", "opened", "listed", "checked"}
Creating == {"previewed", "inserting"}
JobStates == {"none", "waiting", "running", "over", "cancelled"}
Jobs     == CampaignIDs \X Customers

NoSegment == CHOOSE d \in Definitions : TRUE
Idle == [at |-> "idle", campaign |-> NoCampaign, segment |-> NoSegment, list |-> {}]

CampaignTypeOK ==
    /\ campaign \in [CampaignIDs -> [state : States, segment : Definitions, recipients : SUBSET Customers,
                                     count : 0..Cardinality(Customers)]]
    /\ jobs \in [Jobs -> JobStates]
    /\ request \in [Operators -> [at : Stages, campaign : CampaignIDs \cup {NoCampaign},
                                  segment : Definitions, list : SUBSET Customers]]
    /\ reviewed \in [CampaignIDs -> SUBSET Customers]
    /\ gone \in [CampaignIDs -> SUBSET Customers]
    /\ moved \subseteq Operators
    /\ late \subseteq Jobs
    /\ escaped \subseteq Jobs

CampaignInit ==
    /\ campaign = [k \in CampaignIDs |-> [state |-> "none", segment |-> NoSegment,
                                          recipients |-> {}, count |-> 0]]
    /\ jobs = [j \in Jobs |-> "none"]
    /\ request = [o \in Operators |-> Idle]
    /\ reviewed = [k \in CampaignIDs |-> {}]
    /\ gone = [k \in CampaignIDs |-> {}]
    /\ moved = {}
    /\ late = {}
    /\ escaped = {}

-----------------------------------------------------------------------------
(* createCampaign *)

At(o, stage) == request[o].at = stage
Subject(o)   == request[o].campaign
Ends(o)      == request' = [request EXCEPT ![o] = Idle] /\ moved' = moved \ {o}
Goto(o, stage) == request' = [request EXCEPT ![o].at = stage] /\ UNCHANGED moved

PreviewDraft(o, k, d) ==
    /\ At(o, "idle")
    /\ campaign[k].state = "none"
    /\ \A p \in Operators : Subject(p) # k
    /\ request' = [request EXCEPT ![o] = [at |-> "previewed", campaign |-> k, segment |-> d,
                                          list |-> Preview(d)]]
    /\ reviewed' = [reviewed EXCEPT ![k] = Preview(d)]
    /\ gone' = [gone EXCEPT ![k] = {}]
    /\ UNCHANGED <<audienceVars, campaignVars, moved, late, escaped>>

InsertDraft(o) ==
    /\ At(o, "previewed")
    /\ campaign' = [campaign EXCEPT ![Subject(o)] =
                        [state |-> "draft", segment |-> request[o].segment, recipients |-> {},
                         count |-> Cardinality(request[o].list)]]
    /\ Goto(o, "inserting")
    /\ UNCHANGED <<audienceVars, jobs, reviewed, gone, late, escaped>>

\* A statement of its own for each recipient.
InsertRecipient(o) ==
    /\ At(o, "inserting")
    /\ \E c \in request[o].list :
        /\ Exists(c)
        /\ campaign' = [campaign EXCEPT ![Subject(o)].recipients = @ \cup {c}]
        /\ request' = [request EXCEPT ![o].list = @ \ {c}]
    /\ UNCHANGED <<audienceVars, jobs, ghostVars>>

DraftCreated(o) ==
    /\ At(o, "inserting")
    /\ request[o].list = {}
    /\ Ends(o)
    /\ UNCHANGED <<audienceVars, campaignVars, reviewed, gone, late, escaped>>

\* A foreign key fails, the client goes away or the daemon goes down: a draft stays
\* with the recipients it has.
CutOff(o) ==
    /\ ~At(o, "idle")
    /\ gone' = IF request[o].at \in Creating
               THEN [gone EXCEPT ![Subject(o)] = @ \cup request[o].list] ELSE gone
    /\ Ends(o)
    /\ UNCHANGED <<audienceVars, campaignVars, reviewed, late, escaped>>

-----------------------------------------------------------------------------
(* activateCampaign *)

\* The operator, who has the ID from the answer to the creation or finds it listed
\* later, confirms the count of the draft; any other is refused.
OpenDraft(o, k) ==
    /\ At(o, "idle")
    /\ \A p \in Operators : request[p].at \in Creating => Subject(p) # k
    /\ campaign[k].state = "draft"
    /\ request' = [request EXCEPT ![o] = [at |-> "opened", campaign |-> k,
                                          segment |-> campaign[k].segment, list |-> {}]]
    /\ UNCHANGED <<audienceVars, campaignVars, ghostVars>>

ListRecipients(o) ==
    /\ At(o, "opened")
    /\ request' = [request EXCEPT ![o].at = "listed", ![o].list = campaign[Subject(o)].recipients]
    /\ UNCHANGED <<audienceVars, campaignVars, ghostVars>>

\* Mutants of Revalidate: no revalidation; the new audience is taken for the old.
RevalidateNothing(o) ==
    /\ At(o, "listed")
    /\ Goto(o, "checked")
    /\ UNCHANGED <<audienceVars, campaignVars, reviewed, gone, late, escaped>>

RevalidateAnew(o) ==
    /\ At(o, "listed")
    /\ request' = [request EXCEPT ![o].at = "checked", ![o].list = Preview(request[o].segment)]
    /\ UNCHANGED <<audienceVars, campaignVars, ghostVars>>

Revalidate(o) ==
    /\ At(o, "listed")
    /\ IF Preview(request[o].segment) = request[o].list THEN Goto(o, "checked") ELSE Ends(o)
    /\ UNCHANGED <<audienceVars, campaignVars, reviewed, gone, late, escaped>>

\* Mutant of StillDraft: whatever became of the draft.
AnyState(k) == TRUE

StillDraft(k) == campaign[k].state = "draft"

\* The transaction: the jobs, and the state unless it has changed.
CommitActivation(o) ==
    LET k == Subject(o) IN
    /\ At(o, "checked")
    /\ IF StillDraft(k)
       THEN /\ jobs' = [j \in Jobs |-> IF j[1] = k /\ j[2] \in request[o].list /\ jobs[j] = "none"
                                       THEN "waiting" ELSE jobs[j]]
            /\ campaign' = [campaign EXCEPT ![k].state = "scheduled"]
       ELSE UNCHANGED campaignVars
    /\ Ends(o)
    /\ UNCHANGED <<audienceVars, reviewed, gone, late, escaped>>

\* Mutant of CancelCampaign: the campaign without its jobs.
CancelCampaignOnly(k) ==
    /\ campaign[k].state \in {"draft", "scheduled"}
    /\ campaign' = [campaign EXCEPT ![k].state = "cancelled"]
    /\ escaped' = escaped \cup {j \in Jobs : j[1] = k /\ jobs[j] = "running"}
    /\ UNCHANGED <<audienceVars, jobs, request, reviewed, gone, moved, late>>

CancelCampaign(k) ==
    /\ campaign[k].state \in {"draft", "scheduled"}
    /\ campaign' = [campaign EXCEPT ![k].state = "cancelled"]
    /\ jobs' = [j \in Jobs |-> IF j[1] = k /\ jobs[j] = "waiting" THEN "cancelled" ELSE jobs[j]]
    /\ escaped' = escaped \cup {j \in Jobs : j[1] = k /\ jobs[j] = "running"}
    /\ UNCHANGED <<audienceVars, request, reviewed, gone, moved, late>>

-----------------------------------------------------------------------------
(* The queue, and the changes of the customers *)

\* A worker claims the job, and it ends or is retried.
JobMoves(j) ==
    /\ \/ jobs[j] = "waiting" /\ jobs' = [jobs EXCEPT ![j] = "running"]
       \/ jobs[j] = "running" /\ \E s \in {"over", "waiting"} : jobs' = [jobs EXCEPT ![j] = s]
    /\ UNCHANGED <<audienceVars, campaign, request, ghostVars>>

Activating == {o \in Operators : request[o].at \in {"opened", "listed", "checked"}}

AudienceMoves ==
    /\ moved' = moved \cup Activating
    /\ UNCHANGED <<campaignVars, request, reviewed, gone, late, escaped>>

\* CancelCustomerWork, after an opt-out, a refund or a STOP.
CancelCampaignJobs(c) ==
    jobs' = [j \in Jobs |-> IF j[2] = c /\ jobs[j] = "waiting" THEN "cancelled" ELSE jobs[j]]

\* Mutant of RedactCampaign: the recipients without the jobs.
RedactRecipients(c) ==
    /\ campaign' = [k \in CampaignIDs |-> [campaign[k] EXCEPT !.recipients = @ \ {c}]]
    /\ gone' = [k \in CampaignIDs |-> gone[k] \cup ({c} \cap reviewed[k])]
    /\ late' = late \cup {<<Subject(o), c>> : o \in {p \in Activating : c \in request[p].list}}
    /\ moved' = moved \cup Activating
    /\ UNCHANGED <<jobs, request, reviewed, escaped>>

\* redactCustomerAndOrders deletes the recipients and every job, the running ones too.
RedactCampaign(c) ==
    /\ campaign' = [k \in CampaignIDs |-> [campaign[k] EXCEPT !.recipients = @ \ {c}]]
    /\ jobs' = [j \in Jobs |-> IF j[2] = c THEN "none" ELSE jobs[j]]
    /\ gone' = [k \in CampaignIDs |-> gone[k] \cup ({c} \cap reviewed[k])]
    /\ late' = late \cup {<<Subject(o), c>> : o \in {p \in Activating : c \in request[p].list}}
    /\ moved' = moved \cup Activating
    /\ UNCHANGED <<request, reviewed, escaped>>

CampaignStep ==
    \/ \E o \in Operators :
        \/ \E k \in CampaignIDs, d \in Definitions : PreviewDraft(o, k, d)
        \/ InsertDraft(o) \/ InsertRecipient(o) \/ DraftCreated(o) \/ CutOff(o)
        \/ \E k \in CampaignIDs : OpenDraft(o, k)
        \/ ListRecipients(o) \/ Revalidate(o) \/ CommitActivation(o)
    \/ \E k \in CampaignIDs : CancelCampaign(k)
    \/ \E j \in Jobs : JobMoves(j)

-----------------------------------------------------------------------------
(* Properties *)

JobsOf(k) == {c \in Customers : jobs[<<k, c>>] # "none"}

\* docs/architecture.md:61: whom a campaign addresses is whom the operator reviewed,
\* however requests interleave, but for members that were redacted since or that a
\* creation which was cut off never stored: these the count does not tell apart.
ScheduledAsReviewed ==
    \A k \in CampaignIDs :
        campaign[k].state = "scheduled" =>
            /\ JobsOf(k) \subseteq reviewed[k]
            /\ reviewed[k] \ gone[k] \subseteq JobsOf(k)

\* Nobody is scheduled who is not in the stored segment at that moment, unless the
\* audience changed while the activation was under way.
ScheduledAreEligible ==
    [][\A j \in Jobs :
        jobs[j] = "none" /\ jobs'[j] = "waiting" =>
            \/ j[2] \in Preview(campaign[j[1]].segment)
            \/ \E o \in moved : Subject(o) = j[1]]_<<audienceVars, allCampaign>>

\* A cancelled campaign has no job that waits, whichever request commits last; one
\* that was running when it was cancelled may be retried, and Sender lets it drop.
CancelledIsOver ==
    \A j \in Jobs :
        campaign[j[1]].state = "cancelled" /\ jobs[j] = "waiting" => j \in escaped

\* Nothing revives a cancelled campaign, an activation that read it as a draft neither.
CancelledForGood ==
    [][\A k \in CampaignIDs :
        campaign[k].state = "cancelled" => campaign'[k].state = "cancelled"]_<<audienceVars, allCampaign>>

\* No job survives its customer's redaction, except for one that an activation under
\* way inserts after it.
RedactedHasNoJobs ==
    \A j \in Jobs : status[j[2]] = "redacted" /\ jobs[j] # "none" => j \in late

=============================================================================
