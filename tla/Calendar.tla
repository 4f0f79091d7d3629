------------------------------ MODULE Calendar ------------------------------
(***************************************************************************)
(* What bookings/service.py promises of a short-let's calendar: a night is *)
(* held or sold for one booking at a time, a booking is confirmed at most  *)
(* once, and a cancelled or completed one is over.                         *)
(***************************************************************************)
EXTENDS Naturals

CONSTANTS BookingId, Night

VARIABLES
    state,     \* of each booking
    nights     \* the nights it was made for

vars == <<state, nights>>

Blocking(b) == state[b] \in {"REQUESTED", "CONFIRMED"}

Init ==
    /\ state  = [b \in BookingId |-> "absent"]
    /\ nights = [b \in BookingId |-> {}]

Book(b, S) ==
    /\ state[b] = "absent"
    /\ \A c \in BookingId : Blocking(c) => nights[c] \cap S = {}
    /\ state'  = [state EXCEPT ![b] = "REQUESTED"]
    /\ nights' = [nights EXCEPT ![b] = S]

Move(b, from, to) ==
    /\ state[b] \in from
    /\ state' = [state EXCEPT ![b] = to]
    /\ UNCHANGED nights

Confirm(b)  == Move(b, {"REQUESTED"}, "CONFIRMED")
Complete(b) == Move(b, {"CONFIRMED"}, "COMPLETED")

\* A guest, a host or a sweep that closes several stale requests.
Cancel(S) ==
    /\ \A b \in S : Blocking(b)
    /\ state' = [b \in BookingId |-> IF b \in S THEN "CANCELLED" ELSE state[b]]
    /\ UNCHANGED nights

Next ==
    \/ \E b \in BookingId : \/ \E first, last \in Night : Book(b, first..last)
                            \/ Confirm(b)
                            \/ Complete(b)
    \/ \E S \in SUBSET BookingId : Cancel(S)

Spec == Init /\ [][Next]_vars
=============================================================================
