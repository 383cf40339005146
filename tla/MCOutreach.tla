----------------------------- MODULE MCOutreach -----------------------------
(* Instances of Outreach for TLC. *)
EXTENDS Outreach, TLC

CONSTANTS o1, o2, w1, w2, c1, c2, camp, soon, later

Symmetry == Permutations({o1, o2}) \cup Permutations({w1, w2}) \cup Permutations({c1, c2})

MCDefinitions == {[kind |-> "back_in_stock", requireConsent |-> TRUE, exclude |-> "nobody"]}

\* The second wait may reach past midnight, and into the quiet hours or beyond.
MCWaitOf == (soon :> [days |-> 0, minutes |-> 1]) @@ (later :> [days |-> 0, minutes |-> 3])

\* Campaigns, restocks and schedules meet in nothing but the customers: TLC explores
\* each while the others are at rest.
NoScheduleYet ==
    /\ clock = Unknown
    /\ \A s \in Sends : ~plan[s].told
    /\ quiet = [start |-> 0, end |-> 0] /\ trigger = [day |-> 0, minute |-> 3]

NoCampaignYet ==
    /\ \A k \in CampaignIDs : campaign[k].state = "none"
    /\ \A o \in Operators : At(o, "idle")

NoRestockYet == triggers = 0 /\ active /\ outdated = 0 /\ shelf.n = 0

CampaignsOnly ==
    /\ NoScheduleYet /\ NoRestockYet
    /\ \A v, w \in Workers : worker[v] # Resting /\ worker[w] # Resting => v = w

RestocksOnly ==
    /\ NoScheduleYet /\ NoCampaignYet
    /\ moves <= 1 /\ outdated <= 1
    /\ \A c \in Customers : Exists(c) => c \in phone
    /\ triggers = MaxTriggers \/ shelf.n = MaxChanges => moves = 0 /\ active

ScheduleOnly ==
    /\ NoCampaignYet /\ NoRestockYet /\ ~shelf.in /\ moves = 0
    /\ \A w \in Workers : worker[w] = Resting
    /\ stored = "unknown" /\ \A c \in Customers : Exists(c)

Bound == CampaignsOnly \/ RestocksOnly \/ ScheduleOnly

=============================================================================
