------------------------------ MODULE Bookings ------------------------------
(***************************************************************************)
(* Bookings of one short-let listing (backend/app/bookings/service.py,     *)
(* availability.py), Paystack's webhook for them, and the two Celery tasks *)
(* of bookings/sweeper.py.                                                 *)
(*                                                                         *)
(* Sessions are those of module Offers: Begin reads the rows and runs the  *)
(* guards, Commit writes the changed columns, Abort ends the session       *)
(* without a commit, and Overlap says whether sessions may be open at the  *)
(* same time.  The payment link of a charge reaches the guest only with    *)
(* the answer to a request that has committed, so initialising the charge  *)
(* is part of the Commit step.                                             *)
(***************************************************************************)
EXTENDS Integers

CONSTANTS
    BookingId,     \* identities of the rows of table bookings
    Workers,       \* slots for requests and tasks that run at the same time
    LastDay,       \* bound: the days are 0..LastDay
    Turnaround,    \* turnaround_days of the listing
    MinStay,       \* min_stay_nights of the listing
    InstantModes,  \* values the host gives instant_booking over time
    MaxCharges,    \* bound: times one booking is charged
    Overlap        \* may sessions overlap in time?

ASSUME BookingsAssumption ==
    /\ LastDay \in Nat
    /\ Turnaround \in Nat
    /\ MinStay \in Nat \ {0}
    /\ InstantModes \subseteq BOOLEAN
    /\ MaxCharges \in Nat \ {0}
    /\ Overlap \in BOOLEAN

VARIABLES
    bookings,      \* table bookings, "absent" is not inserted yet
    issued,        \* how many charges Paystack was asked for, for each booking
    paid,          \* those the guest has paid
    hooks,         \* webhooks Paystack has not seen answered with 200 yet
    payouts,       \* payouts to the host
    today,
    swept,         \* has release_due_access_details run today?
    req            \* the session each worker has open

vars == <<bookings, issued, paid, hooks, payouts, today, swept, req>>

-----------------------------------------------------------------------------
(* Data *)

Day == 0..LastDay

\* A charge is known by its number: 0 is NULL in paystack_reference.
ChargeNo == 0..MaxCharges

Booking == [ status    : {"absent", "REQUESTED", "CONFIRMED", "COMPLETED", "CANCELLED"},
             checkIn   : Day,
             checkOut  : Day \cup {LastDay + 1},
             instant   : BOOLEAN,
             decided   : BOOLEAN,               \* decided_at is set
             late      : BOOLEAN,               \* decision_deadline < now
             charge    : ChargeNo,              \* paystack_reference
             released  : BOOLEAN,               \* access_details_released_at
             checkedIn : BOOLEAN ]

NoRow == [ status |-> "absent", checkIn |-> 0, checkOut |-> 0, instant |-> FALSE,
           decided |-> FALSE, late |-> FALSE, charge |-> 0, released |-> FALSE,
           checkedIn |-> FALSE ]

Session == [ op       : {"idle", "submit", "accept", "decline", "cancel", "confirm",
                         "check_in", "release", "auto_decline"},
             rows     : SUBSET BookingId,       \* the rows it will write
             checkIn  : Day,
             checkOut : Day \cup {LastDay + 1},
             instant  : BOOLEAN,
             charge   : ChargeNo,
             writes   : BOOLEAN ]               \* does status change?

Idle == [ op |-> "idle", rows |-> {}, checkIn |-> 0, checkOut |-> 0,
          instant |-> FALSE, charge |-> 0, writes |-> TRUE ]

Init ==
    /\ bookings = [b \in BookingId |-> NoRow]
    /\ issued   = [b \in BookingId |-> 0]
    /\ paid     = [b \in BookingId |-> {}]
    /\ hooks    = [b \in BookingId |-> {}]
    /\ payouts  = [b \in BookingId |-> 0]
    /\ today    = 0
    /\ swept    = FALSE
    /\ req      = [w \in Workers |-> Idle]

-----------------------------------------------------------------------------
(* Sessions *)

MayStart == Overlap \/ \A w \in Workers : req[w].op = "idle"

Start(w, s) ==
    /\ req[w].op = "idle"
    /\ MayStart
    /\ req' = [req EXCEPT ![w] = s]
    /\ UNCHANGED <<bookings, issued, paid, hooks, payouts, today, swept>>

Running(w, op) == req[w].op = op

Finish(w) == req' = [req EXCEPT ![w] = Idle]

Abort(w) ==
    /\ req[w].op # "idle"
    /\ Finish(w)
    /\ UNCHANGED <<bookings, issued, paid, hooks, payouts, today, swept>>

-----------------------------------------------------------------------------
(* availability.py *)

Exists(b) == bookings[b].status # "absent"

Blocking(b) == bookings[b].status \in {"REQUESTED", "CONFIRMED"}

\* Fault: days compared for equality with the start only.
SameStart(b, checkIn, checkOut) == checkIn = bookings[b].checkIn

Overlaps(b, checkIn, checkOut) ==
    checkIn < bookings[b].checkOut + Turnaround /\ checkOut > bookings[b].checkIn

HasConflict(checkIn, checkOut, ignored) ==
    \E b \in BookingId \ ignored : Blocking(b) /\ Overlaps(b, checkIn, checkOut)

-----------------------------------------------------------------------------
(* Requests of the guest and of the host *)

LongEnough(checkIn, checkOut) == checkOut - checkIn >= MinStay

\* submit_booking.  The checks on listing.status, which reviews and
\* suspensions may change at any moment, are left to chance.
BeginSubmit(w, checkIn, checkOut, instant) ==
    /\ checkIn >= today
    /\ LongEnough(checkIn, checkOut)
    /\ ~HasConflict(checkIn, checkOut, {})
    /\ Start(w, [Idle EXCEPT !.op = "submit", !.checkIn = checkIn,
                             !.checkOut = checkOut, !.instant = instant])

\* An instant booking is charged on the spot.
CommitSubmit(w, b) ==
    LET first == IF req[w].instant THEN 1 ELSE 0 IN
    /\ Running(w, "submit")
    /\ ~Exists(b)
    /\ bookings' = [bookings EXCEPT ![b] =
                      [NoRow EXCEPT !.status = "REQUESTED", !.checkIn = req[w].checkIn,
                                    !.checkOut = req[w].checkOut,
                                    !.instant = req[w].instant, !.charge = first]]
    /\ issued' = [issued EXCEPT ![b] = first]
    /\ Finish(w)
    /\ UNCHANGED <<paid, hooks, payouts, today, swept>>

BeginAccept(w, b) ==
    /\ bookings[b].status = "REQUESTED"
    /\ ~bookings[b].instant
    /\ ~HasConflict(bookings[b].checkIn, bookings[b].checkOut, {b})
    /\ Start(w, [Idle EXCEPT !.op = "accept", !.rows = {b}])

\* Fault: acceptance confirms.
RowAcceptedAndConfirmed(b) ==
    [bookings[b] EXCEPT !.status = "CONFIRMED", !.decided = TRUE, !.charge = issued[b] + 1]

RowAccepted(b) == [bookings[b] EXCEPT !.decided = TRUE, !.charge = issued[b] + 1]

CommitAccept(w, b) ==
    /\ Running(w, "accept") /\ b \in req[w].rows
    /\ issued[b] < MaxCharges
    /\ bookings' = [bookings EXCEPT ![b] = RowAccepted(b)]
    /\ issued' = [issued EXCEPT ![b] = @ + 1]
    /\ Finish(w)
    /\ UNCHANGED <<paid, hooks, payouts, today, swept>>

BeginDecline(w, b) ==
    /\ bookings[b].status = "REQUESTED"
    /\ Start(w, [Idle EXCEPT !.op = "decline", !.rows = {b}])

\* By the guest, the host or an administrator.
BeginCancel(w, b) ==
    /\ bookings[b].status \in {"REQUESTED", "CONFIRMED"}
    /\ Start(w, [Idle EXCEPT !.op = "cancel", !.rows = {b}])

\* decline_request also sets decided_at.
CommitCancel(w, b) ==
    /\ Running(w, "decline") \/ Running(w, "cancel")
    /\ b \in req[w].rows
    /\ bookings' = [bookings EXCEPT ![b].status  = "CANCELLED",
                                    ![b].decided = @ \/ Running(w, "decline")]
    /\ Finish(w)
    /\ UNCHANGED <<issued, paid, hooks, payouts, today, swept>>

\* Fault: neither the status nor checked_in_at stops a repetition.
MayRepeatCheckIn(b) == bookings[b].status \in {"CONFIRMED", "COMPLETED"}

MayCheckIn(b) == bookings[b].status = "CONFIRMED" /\ ~bookings[b].checkedIn

BeginCheckIn(w, b) ==
    /\ MayCheckIn(b)
    /\ Start(w, [Idle EXCEPT !.op = "check_in", !.rows = {b}])

\* The payout goes out with the check-in.
CommitCheckIn(w, b) ==
    /\ Running(w, "check_in") /\ b \in req[w].rows
    /\ bookings' = [bookings EXCEPT ![b].status = "COMPLETED", ![b].checkedIn = TRUE]
    /\ payouts' = [payouts EXCEPT ![b] = @ + 1]
    /\ Finish(w)
    /\ UNCHANGED <<issued, paid, hooks, today, swept>>

-----------------------------------------------------------------------------
(* Paystack and its webhook: confirm_payment *)

\* A payment link stays valid whatever becomes of the booking.
Pay(b, n) ==
    /\ n \in 1..issued[b]
    /\ n \notin paid[b]
    /\ paid'  = [paid  EXCEPT ![b] = @ \cup {n}]
    /\ hooks' = [hooks EXCEPT ![b] = @ \cup {n}]
    /\ UNCHANGED <<bookings, issued, payouts, today, swept, req>>

\* Fault: only what the host has accepted is confirmed.
ConfirmsAccepted(b, n) == bookings[b].charge = n /\ Blocking(b) /\ bookings[b].decided

Confirms(b, n) == bookings[b].charge = n /\ Blocking(b)

\* First delivery or repetition.  SQLAlchemy writes status when it changes.
BeginConfirm(w, b, n) ==
    /\ n \in paid[b]
    /\ Confirms(b, n)
    /\ Start(w, [Idle EXCEPT !.op = "confirm", !.rows = {b}, !.charge = n,
                             !.writes = bookings[b].status # "CONFIRMED"])

CommitConfirm(w, b) ==
    /\ Running(w, "confirm") /\ b \in req[w].rows
    /\ bookings' = [bookings EXCEPT ![b].status = IF req[w].writes THEN "CONFIRMED" ELSE @]
    /\ hooks' = [hooks EXCEPT ![b] = @ \ {req[w].charge}]
    /\ Finish(w)
    /\ UNCHANGED <<issued, paid, payouts, today, swept>>

IgnoreWebhook(b, n) ==
    /\ MayStart
    /\ n \in hooks[b]
    /\ ~Confirms(b, n)
    /\ hooks' = [hooks EXCEPT ![b] = @ \ {n}]
    /\ UNCHANGED <<bookings, issued, paid, payouts, today, swept, req>>

-----------------------------------------------------------------------------
(* sweeper.py *)

\* Fault: the release does not wait for the day.
DueAnyDay == {b \in BookingId : bookings[b].status = "CONFIRMED" /\ ~bookings[b].released}

DueForRelease ==
    {b \in BookingId : /\ bookings[b].status = "CONFIRMED"
                       /\ bookings[b].checkIn = today
                       /\ ~bookings[b].released}

BeginRelease(w) == Start(w, [Idle EXCEPT !.op = "release", !.rows = DueForRelease])

CommitRelease(w) ==
    /\ Running(w, "release")
    /\ bookings' = [b \in BookingId |-> [bookings[b] EXCEPT !.released = @ \/ b \in req[w].rows]]
    /\ swept' = TRUE
    /\ Finish(w)
    /\ UNCHANGED <<issued, paid, hooks, payouts, today>>

\* Fault: a request the host has decided is left alone for good.
StaleUndecided ==
    {b \in BookingId : /\ bookings[b].status = "REQUESTED"
                       /\ ~bookings[b].instant
                       /\ ~bookings[b].decided
                       /\ bookings[b].late}

\* The query of _auto_decline.
Stale ==
    {b \in BookingId : /\ bookings[b].status = "REQUESTED"
                       /\ ~bookings[b].instant
                       /\ bookings[b].late}

BeginAutoDecline(w) ==
    /\ Stale # {}                    \* a run that finds nothing changes nothing
    /\ Start(w, [Idle EXCEPT !.op = "auto_decline", !.rows = Stale])

CommitAutoDecline(w) ==
    /\ Running(w, "auto_decline")
    /\ bookings' = [b \in BookingId |->
                      IF b \in req[w].rows THEN [bookings[b] EXCEPT !.status = "CANCELLED"]
                                           ELSE bookings[b]]
    /\ Finish(w)
    /\ UNCHANGED <<issued, paid, hooks, payouts, today, swept>>

-----------------------------------------------------------------------------
(* Time *)

\* 24 hours after the request was made.
DeadlinePasses(b) ==
    /\ bookings[b].status = "REQUESTED"
    /\ ~bookings[b].instant
    /\ ~bookings[b].late
    /\ bookings' = [bookings EXCEPT ![b].late = TRUE]
    /\ UNCHANGED <<issued, paid, hooks, payouts, today, swept, req>>

\* Midnight.  The hourly release task has committed at least once in the day
\* that ends, and is not running now.
Tick ==
    /\ today < LastDay
    /\ swept
    /\ \A w \in Workers : ~Running(w, "release")
    /\ today' = today + 1
    /\ swept' = FALSE
    /\ UNCHANGED <<bookings, issued, paid, hooks, payouts, req>>

-----------------------------------------------------------------------------

Begin(w) ==
    \/ \E checkIn, checkOut \in Day \cup {LastDay + 1}, instant \in InstantModes :
          checkIn \in Day /\ BeginSubmit(w, checkIn, checkOut, instant)
    \/ \E b \in BookingId :
          \/ BeginAccept(w, b)
          \/ BeginDecline(w, b)
          \/ BeginCancel(w, b)
          \/ BeginCheckIn(w, b)
          \/ \E n \in ChargeNo : BeginConfirm(w, b, n)
    \/ BeginRelease(w)
    \/ BeginAutoDecline(w)

Commit(w) ==
    \/ \E b \in BookingId :
          \/ CommitSubmit(w, b)
          \/ CommitAccept(w, b)
          \/ CommitCancel(w, b)
          \/ CommitCheckIn(w, b)
          \/ CommitConfirm(w, b)
    \/ CommitRelease(w)
    \/ CommitAutoDecline(w)

Environment ==
    \/ Tick
    \/ \E b \in BookingId :
          \/ DeadlinePasses(b)
          \/ \E n \in ChargeNo : Pay(b, n) \/ IgnoreWebhook(b, n)

Next == (\E w \in Workers : Begin(w) \/ Commit(w) \/ Abort(w)) \/ Environment

Spec == Init /\ [][Next]_vars

\* Delivery of a webhook Paystack has not seen answered yet.
Deliver(b, n) ==
    /\ n \in hooks[b]
    /\ IgnoreWebhook(b, n) \/ \E w \in Workers : BeginConfirm(w, b, n)

\* The session that answers the webhook of charge n commits.
Confirmed(b, n) == \E w \in Workers : req[w].charge = n /\ CommitConfirm(w, b)

\* Deadlines pass, Beat keeps starting the auto-decline task, Paystack repeats
\* a webhook until it is answered, neither fails for ever, and every session
\* ends.  Nobody has to accept or to pay.
Fairness ==
    /\ \A b \in BookingId, n \in ChargeNo :
          SF_vars(Deliver(b, n)) /\ SF_vars(Confirmed(b, n))
    /\ \A b \in BookingId : WF_vars(DeadlinePasses(b))
    /\ SF_vars(\E w \in Workers : BeginAutoDecline(w))
    /\ SF_vars(\E w \in Workers : CommitAutoDecline(w))
    /\ \A w \in Workers : WF_vars(Abort(w))

FairSpec == Spec /\ Fairness

-----------------------------------------------------------------------------
(* Properties *)

Nights(b) == bookings[b].checkIn .. (bookings[b].checkOut - 1)

\* Types of the tables, of Paystack's side and of the open sessions; a stay in
\* the table has as many nights as the listing asks for.
TypeOK ==
    /\ bookings \in [BookingId -> Booking]
    /\ \A b \in BookingId :
          Exists(b) => bookings[b].checkOut - bookings[b].checkIn >= MinStay
    /\ issued   \in [BookingId -> ChargeNo]
    /\ paid     \in [BookingId -> SUBSET (1..MaxCharges)]
    /\ hooks    \in [BookingId -> SUBSET (1..MaxCharges)]
    /\ payouts  \in [BookingId -> Nat]
    /\ today    \in Day
    /\ swept    \in BOOLEAN
    /\ req      \in [Workers -> Session]

\* Whatever overlaps, a stay is confirmed, and the host paid out, only for a
\* booking one of whose charges the guest has paid.
ConfirmedIsPaid ==
    \A b \in BookingId :
        bookings[b].status \in {"CONFIRMED", "COMPLETED"} \/ payouts[b] > 0 => paid[b] # {}

\* Rows and sessions are in their types and money is there for what it buys,
\* however requests, webhooks and tasks overlap.
BookingsInv == TypeOK /\ ConfirmedIsPaid

\* Two bookings that are alive never share a night: "Service-layer
\* guard runs on both create AND accept paths so concurrent requests can't
\* both succeed" (sprint-11-status.md).
NightsDisjoint ==
    \A b, c \in {d \in BookingId : bookings[d].status \in {"REQUESTED", "CONFIRMED"}} :
        b # c => Nights(b) \cap Nights(c) = {}

\* The access details are sent to guests who have paid, and on the day of the
\* check-in, not before.
AccessIsDue ==
    \A b \in BookingId : bookings[b].released => paid[b] # {} /\ bookings[b].checkIn <= today

\* The host is paid out once for a stay.
PayoutAtMostOnce == \A b \in BookingId : payouts[b] <= 1

\* Every request that the host has to answer is confirmed or closed, although
\* the task may fail and races with answers and payments: "Auto-decline sweeper
\* closes stale requests after 24h." (sprint-11-status.md)
EveryRequestIsDecided ==
    \A b \in BookingId :
        LET waiting == bookings[b].status = "REQUESTED" /\ ~bookings[b].instant
        IN  waiting ~> ~waiting

\* A payment of the charge on the row, first or later, settles the request.
MoneyIsNotStuck ==
    \A b \in BookingId, n \in ChargeNo :
        LET waiting == bookings[b].status = "REQUESTED" /\ bookings[b].charge = n
        IN  (waiting /\ n \in paid[b]) ~> ~waiting

(* Refinement *)

State == [b \in BookingId |-> bookings[b].status]

NightsOf == [b \in BookingId |-> Nights(b)]

Promise == INSTANCE Calendar WITH Night <- Day, state <- State, nights <- NightsOf

\* Executed one session at a time, bookings implement the calendar: no night
\* is held twice, and a booking that is over is over.
ImplementsCalendar == Promise!Spec
=============================================================================
