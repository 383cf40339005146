------------------------------ MODULE MCConsent ------------------------------
(* Instances of Consent for TLC. *)
EXTENDS Consent, TLC

Symmetry == Permutations(Workers)

=============================================================================
