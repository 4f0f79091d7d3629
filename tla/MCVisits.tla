------------------------------ MODULE MCVisits ------------------------------
(* Instances of Visits for TLC. *)
EXTENDS Visits, TLC

\* Visits, workers and agents who have not inspected are interchangeable.
Symmetry ==
    Permutations(VisitId) \cup Permutations(Workers) \cup Permutations(Agents \ Inspectors)
=============================================================================
