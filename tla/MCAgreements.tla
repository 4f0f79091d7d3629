---------------------------- MODULE MCAgreements ----------------------------
(* Instances of Agreements for TLC. *)
EXTENDS Agreements

\* Offers, agreements and workers are interchangeable.
Symmetry ==
    Permutations(OfferId) \cup Permutations(AgreementId) \cup Permutations(Workers)
=============================================================================
