----------------------------- MODULE MCJobQueue -----------------------------
(* Instances of JobQueue for TLC: a workflow step, and a job without a run. *)
EXTENDS JobQueue, TLC

CONSTANTS step1, step2, w1, w2, r1, c1, flow

MCRunOf         == (step1 :> r1) @@ (step2 :> None)
MCCustomerOf    == (step1 :> c1) @@ (step2 :> c1)
MCCustomerOfRun == r1 :> c1
MCNameOf        == r1 :> flow
MCMaxAttempts   == (step1 :> 2) @@ (step2 :> 1)

\* One job, for the liveness run.
MCRunOf1       == step1 :> r1
MCCustomerOf1  == step1 :> c1
MCMaxAttempts1 == step1 :> 2

=============================================================================
