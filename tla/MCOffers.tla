------------------------------ MODULE MCOffers ------------------------------
(* Instances of Offers for TLC. *)
EXTENDS Offers, TLC

\* Rows, seekers and workers are interchangeable.
Symmetry ==
    Permutations(OfferId) \cup Permutations(Seekers) \cup Permutations(Workers)

\* Leaves out that a visit is completed while another offer is made.
VisitsOutstanding == \A o \in OfferId : completed[o] = 0
=============================================================================
