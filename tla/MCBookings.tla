----------------------------- MODULE MCBookings -----------------------------
(* Instances of Bookings for TLC. *)
EXTENDS Bookings, TLC

\* Rows and workers are interchangeable.
Symmetry == Permutations(BookingId) \cup Permutations(Workers)
=============================================================================
