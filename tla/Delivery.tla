------------------------------ MODULE Delivery ------------------------------
(***************************************************************************)
(* What the message ledger promises of the sends of the daemon: Meta is    *)
(* not asked for a message whose Meta ID is stored, a stored ID stays, and *)
(* a message that Meta may have accepted is sent again only when that      *)
(* acceptance was lost before it could be stored.  Sender implements this  *)
(* module.                                                                 *)
(***************************************************************************)
EXTENDS Naturals

CONSTANTS Keys

VARIABLES accepted,     \* how often Meta accepted a message for the key; 2 is "more than once"
          stored,       \* the keys whose Meta ID is in the ledger
          lost          \* the keys for which an acceptance was forgotten

vars == <<accepted, stored, lost>>

Init ==
    /\ accepted = [k \in Keys |-> 0]
    /\ stored = {}
    /\ lost = {}

\* Meta accepts a message, whose ID the daemon may not get to know.
Accept(k) ==
    /\ k \notin stored
    /\ accepted[k] = 0 \/ k \in lost
    /\ accepted' = [accepted EXCEPT ![k] = IF @ = 0 THEN 1 ELSE 2]
    /\ lost' \in {lost, lost \cup {k}}
    /\ UNCHANGED stored

Store(k) ==
    /\ accepted[k] # 0
    /\ stored' = stored \cup {k}
    /\ UNCHANGED <<accepted, lost>>

\* IDs that were not stored are gone, with a failed update or a crash.
Forget(K) ==
    /\ \A k \in K : accepted[k] # 0 /\ k \notin stored
    /\ lost' = lost \cup K
    /\ UNCHANGED <<accepted, stored>>

Next ==
    \/ \E k \in Keys : Accept(k) \/ Store(k)
    \/ \E K \in SUBSET Keys : Forget(K)

Spec == Init /\ [][Next]_vars

=============================================================================
