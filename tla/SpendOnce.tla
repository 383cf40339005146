----------------------------- MODULE SpendOnce -----------------------------
(***************************************************************************)
(* What the ledger of sends made outside the daemon promises to a client   *)
(* that reserves before it calls Meta: a message is accounted for before   *)
(* Meta is called for it, stays accounted for, and Meta is called for it   *)
(* at most once.  ExternalLedger implements this module.                   *)
(***************************************************************************)
EXTENDS Naturals

CONSTANTS Keys

VARIABLES accounted,    \* the messages with a record of the attempt
          calls         \* how often Meta was called for a message

vars == <<accounted, calls>>

Init ==
    /\ accounted = {}
    /\ calls = [k \in Keys |-> 0]

Account(k) ==
    /\ accounted' = accounted \cup {k}
    /\ UNCHANGED calls

Call(k) ==
    /\ k \in accounted
    /\ calls[k] = 0
    /\ calls' = [calls EXCEPT ![k] = 1]
    /\ UNCHANGED accounted

Next == \E k \in Keys : Account(k) \/ Call(k)

Spec == Init /\ [][Next]_vars

=============================================================================
