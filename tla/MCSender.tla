------------------------------ MODULE MCSender ------------------------------
(* Instances of Sender for TLC. *)
EXTENDS Sender, TLC

CONSTANTS first, second, retry, w1, w2, run, cust, camp, flow

NoFun == [x \in {} |-> None]

\* One recipient of a campaign and its delivery retry.
RecipientRunOf       == (first :> None) @@ (retry :> None)
RecipientCustomerOf  == (first :> cust) @@ (retry :> cust)
RecipientCampaignOf  == (first :> camp) @@ (retry :> camp)
RecipientRetryOf     == (first :> None) @@ (retry :> first)
RecipientMaxAttempts == (first :> 2) @@ (retry :> 1)

\* One campaign job.
OneRunOf       == first :> None
OneCustomerOf  == first :> cust
OneCampaignOf  == first :> camp
OneRetryOf     == first :> None
OneMaxAttempts == first :> 2

\* A campaign job and a workflow step of the same customer.
PairRunOf         == (first :> None) @@ (second :> run)
PairCustomerOf    == (first :> cust) @@ (second :> cust)
PairCustomerOfRun == run :> cust
PairNameOf        == run :> flow
PairCampaignOf    == (first :> camp) @@ (second :> None)
PairRetryOf       == (first :> None) @@ (second :> None)
PairMaxAttempts   == (first :> 1) @@ (second :> 1)

CapOne == [j \in Jobs |-> 1]

\* The pair leaves the unclear outcomes of a call to the recipient.
ClearAnswers == lost = {}

Symmetry == Permutations(Workers)

=============================================================================
