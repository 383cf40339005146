------------------------------- MODULE MCInbox -------------------------------
(* Instances of Inbox for TLC. *)
EXTENDS Inbox, TLC

Symmetry == Permutations(Events) \cup Permutations(Workers)

=============================================================================
