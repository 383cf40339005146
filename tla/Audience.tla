------------------------------ MODULE Audience ------------------------------
(***************************************************************************)
(* Whom a message may address: the customers' rows with their consent,     *)
(* number and orders, the stock of one product, and the segments that      *)
(* campaigns select from them (segment.Preview).  All orders are of that   *)
(* product; one that is cancelled, refunded or returned counts for no      *)
(* segment and is left out of "orders".                                    *)
(*                                                                         *)
(* Who writes the rows is the subject of Consent and Orders: here they     *)
(* change between any two statements of a request, MaxMoves times at most. *)
(***************************************************************************)
EXTENDS Naturals, FiniteSets

CONSTANTS
    Customers,
    Members,        \* the customers that the list of a frozen segment names
    MaxMoves        \* bound on the changes of customers and orders

VARIABLES
    status,         \* the customer's row: consent, or why it is nobody's to address
    phone,          \* customers whose row has a number
    orders,         \* the orders that count: how many, and is one of them recent?
    stored,         \* variants.inventory_quantity, if there is a row
    moves

audienceVars == <<status, phone, orders, stored, moves>>

ASSUME AudienceConstants ==
    /\ IsFiniteSet(Customers)
    /\ Members \subseteq Customers
    /\ MaxMoves \in Nat

NoRow    == {"unknown", "redacted"}
Statuses == NoRow \cup {"opted_in", "not_opted_in", "suppressed"}
Exists(c) == status[c] \notin NoRow

MaxOrders == 2

AudienceTypeOK ==
    /\ status \in [Customers -> Statuses]
    /\ phone \subseteq Customers
    /\ orders \in [Customers -> [count : 0..MaxOrders, recent : BOOLEAN]]
    /\ stored \in {"unknown", "out", "in"}
    /\ moves \in 0..MaxMoves

AudienceInit ==
    /\ status \in [Customers -> {"unknown", "opted_in"}]
    /\ phone = {c \in Customers : Exists(c)}
    /\ orders = [c \in Customers |-> [count |-> IF Exists(c) THEN 1 ELSE 0, recent |-> Exists(c)]]
    /\ stored = "unknown"
    /\ moves = 0

-----------------------------------------------------------------------------
(* Segments *)

Kinds == {"frozen", "product_buyers", "not_reordered", "recent_purchasers",
          "lapsed_customers", "back_in_stock"}
Exclusions == {"nobody", "buyers", "recent"}

\* Validate: a frozen list requires consent.
Segment == {d \in [kind : Kinds, requireConsent : BOOLEAN, exclude : Exclusions] :
                d.kind = "frozen" => d.requireConsent}

Buyers == {c \in Customers : orders[c].count > 0}
Recent == {c \in Customers : orders[c].recent}

Selected(kind) ==
    CASE kind = "frozen"            -> Members
      [] kind = "product_buyers"    -> Buyers
      [] kind = "not_reordered"     -> {c \in Customers : orders[c].count = 1}
      [] kind = "recent_purchasers" -> Recent
      [] kind = "lapsed_customers"  -> Buyers \ Recent
      [] kind = "back_in_stock"     -> IF stored = "in" THEN Buyers ELSE {}

Excluded(exclude) ==
    CASE exclude = "nobody" -> {} [] exclude = "buyers" -> Buyers [] exclude = "recent" -> Recent

\* One SELECT.
Preview(d) ==
    {c \in (Selected(d.kind) \ Excluded(d.exclude)) \cap phone :
        /\ Exists(c)
        /\ status[c] # "suppressed"
        /\ d.requireConsent => status[c] = "opted_in"}

-----------------------------------------------------------------------------
(* Changes *)

Moves == moves < MaxMoves /\ moves' = moves + 1

\* upsertCustomerTx, for an order, a customer's webhook, the job of an import or a
\* reconciliation.
CustomerArrives(c) ==
    /\ Moves
    /\ status[c] = "unknown"
    /\ \E s \in Statuses \ NoRow : status' = [status EXCEPT ![c] = s]
    /\ phone' = phone \cup {c}
    /\ UNCHANGED <<orders, stored>>

\* A synchronisation also brings back a number that the retention removed.
StatusChanges(c) ==
    /\ Moves
    /\ Exists(c)
    /\ \E s \in Statuses \ NoRow : status' = [status EXCEPT ![c] = s]
    /\ phone' \in {phone, phone \cup {c}}
    /\ UNCHANGED <<orders, stored>>

OrderPlaced(c) ==
    /\ Moves
    /\ Exists(c)
    /\ orders[c].count < MaxOrders
    /\ orders' = [orders EXCEPT ![c] = [count |-> @.count + 1, recent |-> TRUE]]
    /\ UNCHANGED <<status, phone, stored>>

\* Time passes, or an order is cancelled, refunded or returned.
OrderStopsCounting(c) ==
    /\ Moves
    /\ \/ /\ orders[c].recent
          /\ orders' = [orders EXCEPT ![c].recent = FALSE]
       \/ /\ orders[c].count > 0
          /\ \E r \in {FALSE, orders[c].recent /\ orders[c].count > 1} :
                orders' = [orders EXCEPT ![c] = [count |-> @.count - 1, recent |-> r]]
    /\ UNCHANGED <<status, phone, stored>>

\* ApplyRetention: no live run, which the caller knows.  Its cut-off is not that of a
\* segment, so that an order that is recent for a segment may be too old for it.
ScrubPhone(c, live) ==
    /\ Moves
    /\ Exists(c)
    /\ ~live
    /\ phone' = phone \ {c}
    /\ UNCHANGED <<status, orders, stored>>

\* The part of redactCustomerAndOrders that concerns the rows here.  A customer that
\* comes back has a new row and is another customer.
RemoveCustomer(c) ==
    /\ Moves
    /\ Exists(c)
    /\ status' = [status EXCEPT ![c] = "redacted"]
    /\ phone' = phone \ {c}
    /\ orders' = [orders EXCEPT ![c] = [count |-> 0, recent |-> FALSE]]
    /\ UNCHANGED stored

CustomersMove ==
    \E c \in Customers : CustomerArrives(c) \/ StatusChanges(c) \/ OrderPlaced(c) \/ OrderStopsCounting(c)

=============================================================================
