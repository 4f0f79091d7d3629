------------------------------ MODULE Sessions ------------------------------
(***************************************************************************)
(* Database sessions (backend/app/database.py), for the modules of one     *)
(* table: a request reads a row and computes the row it wants; the commit  *)
(* writes the columns whose value differs from the one read; a failure     *)
(* ends the session and writes nothing.  Modules Offers, Agreements,       *)
(* Bookings and Visits define the same for themselves.                     *)
(***************************************************************************)
CONSTANTS
    Workers,      \* slots for requests that are open at the same time
    Modes         \* the values of overlap to check

ASSUME SessionsAssumption == Modes \subseteq BOOLEAN

VARIABLE overlap  \* may sessions be open at the same time? (never changes)

Idle == [op |-> "idle"]

MayStart(req) == overlap \/ \A w \in Workers : req[w] = Idle

Written(read, value, stored) == IF read = value THEN stored ELSE value

WrittenRow(seen, new, stored) ==
    [column \in DOMAIN stored |-> Written(seen[column], new[column], stored[column])]
=============================================================================
