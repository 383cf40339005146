------------------------------ MODULE MCOrders ------------------------------
(* Instances of Orders for TLC. *)
EXTENDS Orders, TLC

CONSTANTS bought, flow, run, step

\* One order that starts a run, and that a workflow counts as a conversion too.
MCRunOf     == step :> run
MCNameOf    == run :> flow
MCTriggerOf == run :> bought
MCConverts  == bought :> {flow}
MCChanges   == bought :> 2

=============================================================================
