-------------------------- MODULE MCExternalLedger --------------------------
(* Instances of ExternalLedger for TLC. *)
EXTENDS ExternalLedger, TLC

CONSTANTS c1, c2, w1, w2, reserved, line

Symmetry == Permutations({w1, w2}) \cup Permutations({c1, c2})

LedgerUntouched ==
    /\ told = [k \in Keys |-> {}] /\ calls = [k \in Keys |-> 0] /\ ~phoneKnown
    /\ row = [k \in Keys |-> Absent]

\* Bound: the races of snapshots with time are explored with the ledger at rest, and
\* the ledger's own while Shopify, the clock and the customer's opt-ins are.
Bound ==
    \/ LedgerUntouched
    \/ /\ clock = 0 /\ shop = Nothing /\ stopAt = Never /\ optInAt = Never
       /\ customer.at = Never /\ fetched = [w \in Workers |-> NotFetched]

=============================================================================
