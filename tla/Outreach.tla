------------------------------ MODULE Outreach ------------------------------
(***************************************************************************)
(* Campaigns and restocks over the same customers, with the redactions     *)
(* and the retention that cut into both, and the schedule of a workflow's  *)
(* steps beside them.                                                      *)
(***************************************************************************)
EXTENDS Campaigns, Restock, Schedule

people == <<audienceVars, allCampaign, allRestock>>
vars   == <<people, scheduleVars>>

TypeOK == AudienceTypeOK /\ CampaignTypeOK /\ RestockTypeOK /\ ScheduleTypeOK

Init == AudienceInit /\ CampaignInit /\ RestockInit /\ ScheduleInit

CustomersChange ==
    /\ \/ CustomersMove
       \/ \E c \in Customers : ScrubPhone(c, LiveRuns(c) # {})
    /\ AudienceMoves
    /\ BuyersMove
    /\ UNCHANGED <<stockVars, runVars, applied, restocks, outdated, done, overtaken>>

CancelCustomerWork(c) ==
    /\ CancelCampaignJobs(c)
    /\ CancelRuns(c)
    /\ UNCHANGED <<audienceVars, campaign, request, ghostVars, stockVars, triggers, filled, stockGhost>>

\* redactCustomerAndOrders, one transaction.
Redact(c) ==
    /\ RemoveCustomer(c)
    /\ RedactCampaign(c)
    /\ RedactRuns(c)
    /\ BuyersMove
    /\ UNCHANGED <<stockVars, triggers, applied, restocks, outdated, done, overtaken>>

\* A change of the stock may change a segment, too.
StockChanges ==
    /\ RestockStep
    /\ IF stored' # stored THEN AudienceMoves ELSE UNCHANGED allCampaign

Next ==
    \/ CampaignStep /\ UNCHANGED <<allRestock, scheduleVars>>
    \/ StockChanges /\ UNCHANGED scheduleVars
    \/ CustomersChange /\ UNCHANGED scheduleVars
    \/ \E c \in Customers : (CancelCustomerWork(c) \/ Redact(c)) /\ UNCHANGED scheduleVars
    \/ ScheduleNext /\ UNCHANGED people

Spec == Init /\ [][Next]_vars

=============================================================================
