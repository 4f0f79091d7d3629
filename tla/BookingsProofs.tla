--------------------------- MODULE BookingsProofs ---------------------------
(***************************************************************************)
(* For every set of bookings, every number of overlapping requests, tasks  *)
(* and charges, and any calendar: tables and sessions keep their types,    *)
(* and nothing is confirmed, paid out or let in before it is paid.         *)
(*                                                                         *)
(* Executed one session at a time, bookings/service.py and the tasks of    *)
(* sweeper.py implement the abstract Calendar, so no night is held twice,  *)
(* and the host is paid out once for a stay.                               *)
(***************************************************************************)
EXTENDS Bookings, TLAPS

-----------------------------------------------------------------------------
(* The invariant *)

\* A row of table bookings, as far as money and days are concerned.
RowIsSound(b, row) ==
    /\ row \in Booking
    /\ row.status # "absent" => row.checkOut - row.checkIn >= MinStay
    /\ row.status \in {"CONFIRMED", "COMPLETED"} => paid[b] # {}
    /\ row.released => paid[b] # {} /\ row.checkIn <= today

RowsAgree ==
    \A b \in BookingId : /\ RowIsSound(b, bookings[b])
                         /\ payouts[b] > 0 => paid[b] # {}

\* What an open session relies on is still so: the rows are there, a stay is
\* long enough, payments are made, the day of the check-in has come.
SessionAgrees(s) ==
    /\ s.op = "submit" => s.checkOut - s.checkIn >= MinStay
    /\ \A b \in s.rows :
          /\ Exists(b)
          /\ s.op \in {"confirm", "check_in", "release"} => paid[b] # {}
          /\ s.op = "release" => bookings[b].checkIn <= today

SessionsAgree == \A w \in Workers : SessionAgrees(req[w])

IInv == TypeOK /\ RowsAgree /\ SessionsAgree

-----------------------------------------------------------------------------
(* Facts about the data *)

LEMMA DaysAndCharges ==
    /\ 0 \in Day /\ \A d \in Day \cup {LastDay + 1} : d \in Int
    /\ 0 \in ChargeNo /\ 1 \in ChargeNo /\ \A n \in ChargeNo : n \in Nat
    /\ \A n \in ChargeNo : n < MaxCharges => n + 1 \in ChargeNo
    /\ LastDay + 1 \in Int
  BY BookingsAssumption DEF Day, ChargeNo

LEMMA IdleIsSession == Idle \in Session /\ Idle.rows = {} /\ Idle.op = "idle"
  BY DaysAndCharges DEF Idle, Session

LEMMA NoRowIsBooking == NoRow \in Booking
  BY DaysAndCharges DEF NoRow, Booking

LEMMA IdleAgrees == SessionAgrees(Idle)
  BY DEF SessionAgrees, Idle

-----------------------------------------------------------------------------
(* What a step does to the sessions *)

SubmitRequest(checkIn, checkOut, instant) ==
    [Idle EXCEPT !.op = "submit", !.checkIn = checkIn, !.checkOut = checkOut, !.instant = instant]

RowsRequest(op, rows) == [Idle EXCEPT !.op = op, !.rows = rows]

ConfirmRequest(b, n) ==
    [Idle EXCEPT !.op = "confirm", !.rows = {b}, !.charge = n,
                 !.writes = bookings[b].status # "CONFIRMED"]

\* The sessions a step may start, after their guards.
Starting(s) ==
    \/ \E checkIn \in Day, checkOut \in Day \cup {LastDay + 1}, instant \in BOOLEAN :
          LongEnough(checkIn, checkOut) /\ s = SubmitRequest(checkIn, checkOut, instant)
    \/ \E op \in {"accept", "decline", "cancel"}, b \in BookingId :
          Exists(b) /\ s = RowsRequest(op, {b})
    \/ \E b \in BookingId : MayCheckIn(b) /\ s = RowsRequest("check_in", {b})
    \/ \E b \in BookingId, n \in ChargeNo :
          n \in paid[b] /\ Confirms(b, n) /\ s = ConfirmRequest(b, n)
    \/ s = RowsRequest("release", DueForRelease)
    \/ s = RowsRequest("auto_decline", Stale)

LEMMA BeginStarts ==
    ASSUME NEW w \in Workers, Begin(w)
    PROVE  \E s : Starting(s) /\ Start(w, s)
  <1>1. ASSUME NEW checkIn \in Day, NEW checkOut \in Day \cup {LastDay + 1}, NEW instant \in InstantModes,
               BeginSubmit(w, checkIn, checkOut, instant)
        PROVE  \E s : Starting(s) /\ Start(w, s)
    <2>1. instant \in BOOLEAN
      BY BookingsAssumption
    <2>2. Starting(SubmitRequest(checkIn, checkOut, instant))
      BY <1>1, <2>1 DEF Starting, BeginSubmit
    <2>3. Start(w, SubmitRequest(checkIn, checkOut, instant))
      BY <1>1 DEF BeginSubmit, SubmitRequest
    <2>4. QED
      BY <2>2, <2>3
  <1>2. ASSUME NEW b \in BookingId, BeginAccept(w, b) \/ BeginDecline(w, b) \/ BeginCancel(w, b)
        PROVE  \E s : Starting(s) /\ Start(w, s)
    <2>1. \E op \in {"accept", "decline", "cancel"} : Start(w, RowsRequest(op, {b}))
      BY <1>2 DEF BeginAccept, BeginDecline, BeginCancel, RowsRequest
    <2>2. Exists(b)
      BY <1>2 DEF BeginAccept, BeginDecline, BeginCancel, Exists
    <2>3. QED
      BY <2>1, <2>2 DEF Starting
  <1>3. ASSUME NEW b \in BookingId, BeginCheckIn(w, b) PROVE \E s : Starting(s) /\ Start(w, s)
    <2>1. MayCheckIn(b) /\ Start(w, RowsRequest("check_in", {b}))
      BY <1>3 DEF BeginCheckIn, RowsRequest
    <2>2. QED
      BY <2>1 DEF Starting
  <1>4. ASSUME NEW b \in BookingId, NEW n \in ChargeNo, BeginConfirm(w, b, n)
        PROVE  \E s : Starting(s) /\ Start(w, s)
    <2>1. n \in paid[b] /\ Confirms(b, n) /\ Start(w, ConfirmRequest(b, n))
      BY <1>4 DEF BeginConfirm, ConfirmRequest
    <2>2. Starting(ConfirmRequest(b, n))
      BY <2>1 DEF Starting
    <2>3. QED
      BY <2>1, <2>2
  <1>5. CASE BeginRelease(w)
    BY <1>5 DEF BeginRelease, RowsRequest, Starting
  <1>6. CASE BeginAutoDecline(w)
    BY <1>6 DEF BeginAutoDecline, RowsRequest, Starting
  <1>7. QED
    BY <1>1, <1>2, <1>3, <1>4, <1>5, <1>6 DEF Begin

\* What starts is a session, and agrees with the tables.
LEMMA StartingAgrees ==
    ASSUME TypeOK, RowsAgree, NEW s, Starting(s)
    PROVE  s \in Session /\ SessionAgrees(s)
  <1>0. Idle \in Session /\ bookings \in [BookingId -> Booking]
    BY IdleIsSession DEF TypeOK
  <1>1. ASSUME NEW checkIn \in Day, NEW checkOut \in Day \cup {LastDay + 1}, NEW instant \in BOOLEAN,
               LongEnough(checkIn, checkOut), s = SubmitRequest(checkIn, checkOut, instant)
        PROVE  s \in Session /\ SessionAgrees(s)
    <2>1. s \in Session
      BY <1>0, <1>1 DEF SubmitRequest, Session
    <2>2. s.op = "submit" /\ s.checkIn = checkIn /\ s.checkOut = checkOut /\ s.rows = {}
      BY <1>1 DEF SubmitRequest, Idle
    <2>3. QED
      BY <1>1, <2>1, <2>2 DEF SessionAgrees, LongEnough
  <1>2. ASSUME NEW op \in {"accept", "decline", "cancel", "check_in", "release", "auto_decline"},
               NEW rows \in SUBSET BookingId, s = RowsRequest(op, rows),
               \A b \in rows : Exists(b),
               op \in {"check_in", "release"} => \A b \in rows : paid[b] # {},
               op = "release" => \A b \in rows : bookings[b].checkIn <= today
        PROVE  s \in Session /\ SessionAgrees(s)
    <2>1. s \in Session
      BY <1>0, <1>2 DEF RowsRequest, Session
    <2>2. s.op = op /\ s.rows = rows
      BY <1>2 DEF RowsRequest, Idle
    <2>3. QED
      BY <1>2, <2>1, <2>2 DEF SessionAgrees
  <1>3. ASSUME NEW op \in {"accept", "decline", "cancel"}, NEW b \in BookingId,
               Exists(b), s = RowsRequest(op, {b})
        PROVE  s \in Session /\ SessionAgrees(s)
    BY <1>2, <1>3
  <1>4. ASSUME NEW b \in BookingId, MayCheckIn(b), s = RowsRequest("check_in", {b})
        PROVE  s \in Session /\ SessionAgrees(s)
    <2>1. Exists(b) /\ paid[b] # {}
      BY <1>4 DEF MayCheckIn, Exists, RowsAgree, RowIsSound
    <2>2. QED
      BY <1>2, <1>4, <2>1
  <1>5. ASSUME NEW b \in BookingId, NEW n \in ChargeNo, n \in paid[b], Confirms(b, n),
               s = ConfirmRequest(b, n)
        PROVE  s \in Session /\ SessionAgrees(s)
    <2>1. (bookings[b].status # "CONFIRMED") \in BOOLEAN
      OBVIOUS
    <2>2. s \in Session
      BY <1>0, <1>5, <2>1 DEF ConfirmRequest, Session
    <2>3. s.op = "confirm" /\ s.rows = {b}
      BY <1>5 DEF ConfirmRequest, Idle
    <2>4. Exists(b) /\ paid[b] # {}
      BY <1>5 DEF Confirms, Blocking, Exists
    <2>5. QED
      BY <2>2, <2>3, <2>4 DEF SessionAgrees
  <1>6. CASE s = RowsRequest("release", DueForRelease)
    <2>1. /\ DueForRelease \in SUBSET BookingId
          /\ \A b \in DueForRelease : Exists(b) /\ paid[b] # {} /\ bookings[b].checkIn = today
      BY DEF DueForRelease, Exists, RowsAgree, RowIsSound
    <2>2. today \in Int
      BY DaysAndCharges DEF TypeOK
    <2>3. \A b \in DueForRelease : bookings[b].checkIn <= today
      BY <2>1, <2>2
    <2>4. QED
      BY <1>2, <1>6, <2>1, <2>3
  <1>7. CASE s = RowsRequest("auto_decline", Stale)
    <2>1. Stale \in SUBSET BookingId /\ \A b \in Stale : Exists(b)
      BY DEF Stale, Exists
    <2>2. QED
      BY <1>2, <1>7, <2>1
  <1>8. QED
    BY <1>1, <1>3, <1>4, <1>5, <1>6, <1>7 DEF Starting

\* Every step leaves a session, ends it, or starts it.
LEMMA SessionSteps ==
    ASSUME TypeOK, [Next]_vars, NEW u \in Workers
    PROVE  \/ req'[u] = req[u] \/ req'[u] = Idle
           \/ Starting(req'[u])
  <1>0. req \in [Workers -> Session]
    BY DEF TypeOK
  <1>1. CASE req' = req
    BY <1>1
  <1>2. ASSUME NEW w \in Workers, Finish(w) PROVE req'[u] = req[u] \/ req'[u] = Idle
    BY <1>0, <1>2 DEF Finish
  <1>3. ASSUME NEW w \in Workers, NEW s, Starting(s), Start(w, s)
        PROVE  req'[u] = req[u] \/ Starting(req'[u])
    <2>1. req'[u] = IF u = w THEN s ELSE req[u]
      BY <1>0, <1>3 DEF Start
    <2>2. QED
      BY <1>3, <2>1
  <1>4. ASSUME NEW w \in Workers, Commit(w) \/ Abort(w) PROVE Finish(w)
    BY <1>4 DEF Commit, Abort, CommitSubmit, CommitAccept, CommitCancel, CommitCheckIn,
                CommitConfirm, CommitRelease, CommitAutoDecline
  <1>5. CASE Environment \/ UNCHANGED vars
    BY <1>1, <1>5 DEF Environment, Tick, DeadlinePasses, Pay, IgnoreWebhook, vars
  <1>6. QED
    BY <1>2, <1>3, <1>4, <1>5, BeginStarts DEF Next

-----------------------------------------------------------------------------
(* What a step does to the rows *)

\* Rows are not deleted and keep their days; payments and days do not go back.
Grows(b) ==
    /\ Exists(b) => /\ bookings'[b].status # "absent"
                    /\ bookings'[b].checkIn = bookings[b].checkIn
    /\ paid[b] \subseteq paid'[b]
    /\ \A d \in Int : d <= today => d <= today'

LEMMA OtherSteps ==
    ASSUME [Next]_vars, ~(\E w \in Workers : Commit(w))
    PROVE  \/ UNCHANGED <<bookings, issued, payouts>>
           \/ \E b \in BookingId : DeadlinePasses(b)
  <1>1. ASSUME NEW w \in Workers, Begin(w) PROVE UNCHANGED <<bookings, issued, payouts>>
    BY <1>1, BeginStarts DEF Start
  <1>2. ASSUME NEW w \in Workers, Abort(w) PROVE UNCHANGED <<bookings, issued, payouts>>
    BY <1>2 DEF Abort
  <1>3. CASE Environment
    BY <1>3 DEF Environment, Tick, Pay, IgnoreWebhook
  <1>4. CASE UNCHANGED vars
    BY <1>4 DEF vars
  <1>5. QED
    BY <1>1, <1>2, <1>3, <1>4 DEF Next

LEMMA PaymentsAndDays ==
    ASSUME TypeOK, [Next]_vars
    PROVE  /\ \A b \in BookingId : paid[b] \subseteq paid'[b]
           /\ \A d \in Int : d <= today => d <= today'
           /\ today' \in Day
  <1>0. today \in Day /\ today \in Int
    BY DaysAndCharges DEF TypeOK
  <1>1. CASE UNCHANGED <<paid, today>>
    BY <1>0, <1>1
  <1>2. CASE Tick
    <2>1. paid' = paid /\ today < LastDay /\ today' = today + 1
      BY <1>2 DEF Tick
    <2>2. today' \in Day
      BY <1>0, <2>1, BookingsAssumption DEF Day
    <2>3. \A d \in Int : d <= today => d <= today'
      BY <1>0, <2>1
    <2>4. QED
      BY <2>1, <2>2, <2>3
  <1>3. ASSUME NEW c \in BookingId, NEW n \in ChargeNo, Pay(c, n)
        PROVE  today' = today /\ \A b \in BookingId : paid[b] \subseteq paid'[b]
    BY <1>3 DEF Pay, TypeOK
  <1>4. ASSUME NEW w \in Workers, Begin(w) \/ Commit(w) \/ Abort(w) PROVE UNCHANGED <<paid, today>>
    BY <1>4, BeginStarts DEF Start, Abort, Commit, CommitSubmit, CommitAccept, CommitCancel,
       CommitCheckIn, CommitConfirm, CommitRelease, CommitAutoDecline
  <1>5. CASE Environment
    BY <1>0, <1>1, <1>2, <1>3, <1>5 DEF Environment, DeadlinePasses, IgnoreWebhook
  <1>6. CASE UNCHANGED vars
    BY <1>1, <1>6 DEF vars
  <1>7. QED
    BY <1>1, <1>4, <1>5, <1>6 DEF Next

\* What is said of row b after a step, with what was paid and the day before it.
RowStep(b) ==
    /\ RowIsSound(b, bookings'[b])
    /\ Exists(b) => bookings'[b].status # "absent" /\ bookings'[b].checkIn = bookings[b].checkIn
    /\ issued'[b] \in ChargeNo
    /\ payouts'[b] \in Nat /\ (payouts'[b] > 0 => paid[b] # {})

\* One row is replaced by a sound one.
LEMMA RowReplaced ==
    ASSUME TypeOK, RowsAgree, NEW b \in BookingId, NEW row, RowIsSound(b, row),
           bookings' = [bookings EXCEPT ![b] = row],
           Exists(b) => row.status # "absent" /\ row.checkIn = bookings[b].checkIn,
           NEW n \in ChargeNo, issued' = issued \/ issued' = [issued EXCEPT ![b] = n],
           NEW k \in Nat, payouts' = payouts \/ payouts' = [payouts EXCEPT ![b] = k],
           paid[b] # {} \/ payouts' = payouts
    PROVE  \A c \in BookingId : RowStep(c)
  <1> SUFFICES ASSUME NEW c \in BookingId PROVE RowStep(c)
      OBVIOUS
  <1>0. /\ bookings \in [BookingId -> Booking] /\ issued \in [BookingId -> ChargeNo]
        /\ payouts \in [BookingId -> Nat]
        /\ RowIsSound(c, bookings[c]) /\ (payouts[c] > 0 => paid[c] # {})
    BY DEF TypeOK, RowsAgree
  <1>1. bookings'[c] = IF c = b THEN row ELSE bookings[c]
    BY <1>0
  <1>2. issued'[c] \in ChargeNo
    BY <1>0
  <1>3. payouts'[c] \in Nat /\ (payouts'[c] > 0 => paid[c] # {})
    BY <1>0
  <1>4. QED
    BY <1>0, <1>1, <1>2, <1>3 DEF RowStep, Exists

LEMMA CommitSteps ==
    ASSUME TypeOK, RowsAgree, SessionsAgree, NEW w \in Workers, Commit(w)
    PROVE  \A c \in BookingId : RowStep(c)
  <1>0. /\ bookings \in [BookingId -> Booking] /\ issued \in [BookingId -> ChargeNo]
        /\ payouts \in [BookingId -> Nat]
        /\ req[w] \in Session /\ SessionAgrees(req[w])
        /\ \A c \in BookingId : RowIsSound(c, bookings[c]) /\ (payouts[c] > 0 => paid[c] # {})
    BY DEF TypeOK, RowsAgree, SessionsAgree
  <1>1. ASSUME NEW b \in BookingId, CommitSubmit(w, b) PROVE \A c \in BookingId : RowStep(c)
    <2> DEFINE first == IF req[w].instant THEN 1 ELSE 0
               row == [NoRow EXCEPT !.status = "REQUESTED", !.checkIn = req[w].checkIn,
                                    !.checkOut = req[w].checkOut,
                                    !.instant = req[w].instant, !.charge = first]
    <2>1. first \in ChargeNo
      BY DaysAndCharges
    <2>2. /\ bookings' = [bookings EXCEPT ![b] = row] /\ issued' = [issued EXCEPT ![b] = first]
          /\ payouts' = payouts /\ ~Exists(b) /\ req[w].op = "submit"
      BY <1>1 DEF CommitSubmit, Running
    <2> HIDE DEF first
    <2>3. row \in Booking
      BY <1>0, <2>1, NoRowIsBooking DEF Booking, Session
    <2>4. /\ row.status = "REQUESTED" /\ row.released = FALSE
          /\ row.checkOut = req[w].checkOut /\ row.checkIn = req[w].checkIn
      BY DEF NoRow
    <2>5. RowIsSound(b, row)
      BY <1>0, <2>2, <2>3, <2>4 DEF RowIsSound, SessionAgrees
    <2> HIDE DEF row
    <2>6. QED
      BY <2>1, <2>2, <2>5, RowReplaced
  <1>2. ASSUME NEW b \in BookingId, CommitAccept(w, b) PROVE \A c \in BookingId : RowStep(c)
    <2> DEFINE row == RowAccepted(b)
    <2>1. b \in req[w].rows /\ issued[b] < MaxCharges /\ payouts' = payouts
      BY <1>2 DEF CommitAccept
    <2>2. issued[b] + 1 \in ChargeNo
      BY <1>0, <2>1, DaysAndCharges
    <2>3. bookings' = [bookings EXCEPT ![b] = row] /\ issued' = [issued EXCEPT ![b] = issued[b] + 1]
      BY <1>0, <1>2 DEF CommitAccept
    <2>4. RowIsSound(b, row) /\ row.status = bookings[b].status /\ row.checkIn = bookings[b].checkIn
      BY <1>0, <2>2 DEF RowIsSound, RowAccepted, Booking
    <2> HIDE DEF row
    <2>5. QED
      BY <2>1, <2>2, <2>3, <2>4, RowReplaced DEF Exists
  <1>3. ASSUME NEW b \in BookingId, CommitCancel(w, b) PROVE \A c \in BookingId : RowStep(c)
    <2>1. PICK d \in BOOLEAN :
             bookings' = [bookings EXCEPT ![b].status = "CANCELLED", ![b].decided = d]
      <3>1. (bookings[b].decided \/ Running(w, "decline")) \in BOOLEAN
        BY <1>0 DEF Running, Booking
      <3>2. QED
        BY <1>0, <1>3, <3>1 DEF CommitCancel
    <2> DEFINE row == [bookings[b] EXCEPT !.status = "CANCELLED", !.decided = d]
    <2>2. bookings' = [bookings EXCEPT ![b] = row] /\ UNCHANGED <<issued, payouts>>
      BY <1>0, <1>3, <2>1 DEF CommitCancel
    <2>3. Exists(b)
      BY <1>0, <1>3 DEF CommitCancel, SessionAgrees
    <2>4. RowIsSound(b, row) /\ row.status = "CANCELLED" /\ row.checkIn = bookings[b].checkIn
      BY <1>0, <2>3 DEF RowIsSound, Booking, Exists
    <2> HIDE DEF row
    <2>5. QED
      BY <2>2, <2>4, RowReplaced, DaysAndCharges
  <1>4. ASSUME NEW b \in BookingId, CommitCheckIn(w, b) PROVE \A c \in BookingId : RowStep(c)
    <2> DEFINE row == [bookings[b] EXCEPT !.status = "COMPLETED", !.checkedIn = TRUE]
    <2>1. /\ bookings' = [bookings EXCEPT ![b] = row] /\ issued' = issued
          /\ payouts' = [payouts EXCEPT ![b] = payouts[b] + 1] /\ payouts[b] + 1 \in Nat
      <3>1. bookings' = [bookings EXCEPT ![b] = row]
        BY <1>0, <1>4 DEF CommitCheckIn
      <3>2. issued' = issued /\ payouts' = [payouts EXCEPT ![b] = payouts[b] + 1]
        BY <1>4 DEF CommitCheckIn
      <3>3. payouts[b] + 1 \in Nat
        BY <1>0
      <3>4. QED
        BY <3>1, <3>2, <3>3
    <2>2. Exists(b) /\ paid[b] # {}
      BY <1>0, <1>4 DEF CommitCheckIn, Running, SessionAgrees
    <2>3. RowIsSound(b, row) /\ row.status = "COMPLETED" /\ row.checkIn = bookings[b].checkIn
      BY <1>0, <2>2 DEF RowIsSound, Booking, Exists
    <2> HIDE DEF row
    <2>4. QED
      BY <2>1, <2>2, <2>3, RowReplaced, DaysAndCharges
  <1>5. ASSUME NEW b \in BookingId, CommitConfirm(w, b) PROVE \A c \in BookingId : RowStep(c)
    <2>1. Exists(b) /\ paid[b] # {} /\ UNCHANGED <<issued, payouts>>
      BY <1>0, <1>5 DEF CommitConfirm, Running, SessionAgrees
    <2>2. PICK st \in {bookings[b].status, "CONFIRMED"} :
             bookings' = [bookings EXCEPT ![b].status = st]
      BY <1>0, <1>5 DEF CommitConfirm
    <2> DEFINE row == [bookings[b] EXCEPT !.status = st]
    <2>3. bookings' = [bookings EXCEPT ![b] = row]
      BY <1>0, <2>2
    <2>4. RowIsSound(b, row) /\ row.status = st /\ row.checkIn = bookings[b].checkIn
      BY <1>0, <2>1, <2>2 DEF RowIsSound, Booking, Exists
    <2> HIDE DEF row
    <2>5. QED
      BY <2>1, <2>2, <2>3, <2>4, RowReplaced, DaysAndCharges DEF Exists
  <1>6. ASSUME CommitRelease(w), NEW c \in BookingId PROVE RowStep(c)
    <2>1. PICK f \in BOOLEAN : /\ bookings'[c] = [bookings[c] EXCEPT !.released = f]
                               /\ f => bookings[c].released \/ c \in req[w].rows
      <3>1. (bookings[c].released \/ c \in req[w].rows) \in BOOLEAN
        BY <1>0 DEF Booking
      <3>2. QED
        BY <1>0, <1>6, <3>1 DEF CommitRelease
    <2>2. c \in req[w].rows => paid[c] # {} /\ bookings[c].checkIn <= today
      BY <1>0, <1>6 DEF CommitRelease, Running, SessionAgrees
    <2>3. UNCHANGED <<issued, payouts>>
      BY <1>6 DEF CommitRelease
    <2>4. RowIsSound(c, bookings'[c])
      BY <1>0, <2>1, <2>2 DEF RowIsSound, Booking
    <2>5. bookings'[c].status = bookings[c].status /\ bookings'[c].checkIn = bookings[c].checkIn
      BY <1>0, <2>1 DEF Booking
    <2>6. QED
      BY <1>0, <2>3, <2>4, <2>5 DEF RowStep, Exists
  <1>7. ASSUME CommitAutoDecline(w), NEW c \in BookingId PROVE RowStep(c)
    <2>1. UNCHANGED <<issued, payouts>>
      BY <1>7 DEF CommitAutoDecline
    <2>2. CASE c \in req[w].rows
      <3>1. bookings'[c] = [bookings[c] EXCEPT !.status = "CANCELLED"] /\ Exists(c)
        BY <1>0, <1>7, <2>2 DEF CommitAutoDecline, SessionAgrees
      <3>2. /\ RowIsSound(c, bookings'[c]) /\ bookings'[c].status = "CANCELLED"
            /\ bookings'[c].checkIn = bookings[c].checkIn
        BY <1>0, <3>1 DEF RowIsSound, Booking, Exists
      <3>3. QED
        BY <1>0, <2>1, <3>2 DEF RowStep
    <2>3. CASE c \notin req[w].rows
      <3>1. bookings'[c] = bookings[c]
        BY <1>0, <1>7, <2>3 DEF CommitAutoDecline
      <3>2. QED
        BY <1>0, <2>1, <3>1 DEF RowStep, Exists
    <2>4. QED
      BY <2>2, <2>3
  <1>8. QED
    BY <1>1, <1>2, <1>3, <1>4, <1>5, <1>6, <1>7 DEF Commit

LEMMA RowSteps ==
    ASSUME TypeOK, RowsAgree, SessionsAgree, [Next]_vars
    PROVE  \A c \in BookingId : RowStep(c)
  <1>0. /\ bookings \in [BookingId -> Booking] /\ issued \in [BookingId -> ChargeNo]
        /\ payouts \in [BookingId -> Nat]
        /\ \A c \in BookingId : RowIsSound(c, bookings[c]) /\ (payouts[c] > 0 => paid[c] # {})
    BY DEF TypeOK, RowsAgree
  <1>1. CASE \E w \in Workers : Commit(w)
    BY <1>1, CommitSteps
  <1>2. CASE UNCHANGED <<bookings, issued, payouts>>
    BY <1>0, <1>2 DEF RowStep, Exists
  <1>3. ASSUME NEW b \in BookingId, DeadlinePasses(b) PROVE \A c \in BookingId : RowStep(c)
    <2> DEFINE row == [bookings[b] EXCEPT !.late = TRUE]
    <2>1. bookings' = [bookings EXCEPT ![b] = row] /\ UNCHANGED <<issued, payouts>>
      BY <1>0, <1>3 DEF DeadlinePasses
    <2>2. RowIsSound(b, row) /\ row.status = bookings[b].status /\ row.checkIn = bookings[b].checkIn
      BY <1>0 DEF RowIsSound, Booking
    <2> HIDE DEF row
    <2>3. QED
      BY <2>1, <2>2, RowReplaced, DaysAndCharges DEF Exists
  <1>4. QED
    BY <1>1, <1>2, <1>3, OtherSteps

LEMMA RowsGrow ==
    ASSUME TypeOK, RowsAgree, SessionsAgree, [Next]_vars
    PROVE  \A b \in BookingId : Grows(b)
  BY RowSteps, PaymentsAndDays DEF Grows, RowStep

-----------------------------------------------------------------------------
(* The invariant is preserved *)

LEMMA NextRowsAgree ==
    ASSUME TypeOK, RowsAgree, SessionsAgree, [Next]_vars
    PROVE  RowsAgree'
  <1> SUFFICES ASSUME NEW b \in BookingId
               PROVE  RowIsSound(b, bookings[b])' /\ (payouts'[b] > 0 => paid'[b] # {})
      BY DEF RowsAgree
  <1>1. RowStep(b) /\ paid[b] \subseteq paid'[b]
    BY RowSteps, PaymentsAndDays
  <1>2. bookings'[b] \in Booking /\ bookings'[b].checkIn \in Int
    BY <1>1, DaysAndCharges DEF RowStep, RowIsSound, Booking
  <1>3. bookings'[b].checkIn <= today => bookings'[b].checkIn <= today'
    BY <1>2, PaymentsAndDays
  <1>4. QED
    BY <1>1, <1>2, <1>3 DEF RowStep, RowIsSound

LEMMA NextSessionsAgree ==
    ASSUME TypeOK, RowsAgree, SessionsAgree, [Next]_vars, NEW w \in Workers
    PROVE  req'[w] \in Session /\ SessionAgrees(req[w])'
  <1>1. req'[w] \in Session /\ SessionAgrees(req'[w])
    BY SessionSteps, StartingAgrees, IdleIsSession, IdleAgrees DEF TypeOK, SessionsAgree
  <1>2. ASSUME NEW b \in BookingId, b \in req'[w].rows
        PROVE  /\ bookings'[b].status # "absent"
               /\ req'[w].op \in {"confirm", "check_in", "release"} => paid'[b] # {}
               /\ req'[w].op = "release" => bookings'[b].checkIn <= today'
    <2>1. Grows(b) /\ Exists(b)
      BY <1>1, <1>2, RowsGrow DEF SessionAgrees
    <2>2. req'[w].op \in {"confirm", "check_in", "release"} => paid[b] # {}
      BY <1>1, <1>2 DEF SessionAgrees
    <2>3. req'[w].op = "release" => bookings[b].checkIn <= today
      BY <1>1, <1>2 DEF SessionAgrees
    <2>4. bookings[b].checkIn \in Int
      BY DaysAndCharges DEF TypeOK, Booking
    <2>5. QED
      BY <2>1, <2>2, <2>3, <2>4 DEF Grows
  <1>3. req'[w].rows \subseteq BookingId
    BY <1>1 DEF Session
  <1>4. req'[w].op = "submit" => req'[w].checkOut - req'[w].checkIn >= MinStay
    BY <1>1 DEF SessionAgrees
  <1>5. QED
    BY <1>1, <1>2, <1>3, <1>4 DEF SessionAgrees, Exists

LEMMA NextTypeOK ==
    ASSUME TypeOK, RowsAgree, SessionsAgree, [Next]_vars
    PROVE  TypeOK'
  <1>0. /\ bookings \in [BookingId -> Booking] /\ issued \in [BookingId -> ChargeNo]
        /\ payouts \in [BookingId -> Nat] /\ swept \in BOOLEAN /\ req \in [Workers -> Session]
        /\ paid \in [BookingId -> SUBSET (1..MaxCharges)]
        /\ hooks \in [BookingId -> SUBSET (1..MaxCharges)]
    BY DEF TypeOK
  <1>1. \A b \in BookingId : RowStep(b)
    BY RowSteps
  <1>2. /\ bookings' = [b \in BookingId |-> bookings'[b]]
        /\ issued' = [b \in BookingId |-> issued'[b]]
        /\ payouts' = [b \in BookingId |-> payouts'[b]]
    <2>1. ASSUME NEW w \in Workers, Commit(w)
          PROVE  /\ bookings' = [b \in BookingId |-> bookings'[b]]
                 /\ issued' = [b \in BookingId |-> issued'[b]]
                 /\ payouts' = [b \in BookingId |-> payouts'[b]]
      BY <1>0, <2>1 DEF Commit, CommitSubmit, CommitAccept, CommitCancel, CommitCheckIn,
         CommitConfirm, CommitRelease, CommitAutoDecline
    <2>2. ASSUME NEW b \in BookingId, DeadlinePasses(b)
          PROVE  /\ bookings' = [c \in BookingId |-> bookings'[c]]
                 /\ UNCHANGED <<issued, payouts>>
      BY <1>0, <2>2 DEF DeadlinePasses
    <2>3. QED
      BY <1>0, <2>1, <2>2, OtherSteps
  <1>3. /\ bookings' \in [BookingId -> Booking] /\ issued' \in [BookingId -> ChargeNo]
        /\ payouts' \in [BookingId -> Nat]
    BY <1>1, <1>2 DEF RowStep, RowIsSound
  <1>4. \A b \in BookingId :
           bookings'[b].status # "absent" => bookings'[b].checkOut - bookings'[b].checkIn >= MinStay
    BY <1>1 DEF RowStep, RowIsSound
  <1>5. req' \in [Workers -> Session]
    <2>1. \A w \in Workers : req'[w] \in Session
      BY NextSessionsAgree
    <2>2. req' = [w \in Workers |-> req'[w]]
      <3>1. ASSUME NEW w \in Workers, Begin(w) PROVE req' = [u \in Workers |-> req'[u]]
        BY <1>0, <3>1, BeginStarts DEF Start
      <3>2. ASSUME NEW w \in Workers, Commit(w) \/ Abort(w) PROVE req' = [u \in Workers |-> req'[u]]
        BY <1>0, <3>2 DEF Commit, Abort, CommitSubmit, CommitAccept, CommitCancel, CommitCheckIn,
           CommitConfirm, CommitRelease, CommitAutoDecline, Finish
      <3>3. CASE Environment \/ UNCHANGED vars
        BY <1>0, <3>3 DEF Environment, Tick, DeadlinePasses, Pay, IgnoreWebhook, vars
      <3>4. QED
        BY <3>1, <3>2, <3>3 DEF Next
    <2>3. QED
      BY <2>1, <2>2
  <1>6. /\ paid' \in [BookingId -> SUBSET (1..MaxCharges)]
        /\ hooks' \in [BookingId -> SUBSET (1..MaxCharges)]
    <2>1. ASSUME NEW b \in BookingId, NEW n \in ChargeNo, Pay(b, n)
          PROVE  /\ paid' \in [BookingId -> SUBSET (1..MaxCharges)]
                 /\ hooks' \in [BookingId -> SUBSET (1..MaxCharges)]
      <3>1. issued[b] \in Nat /\ n \in 1 .. issued[b] /\ n \in ChargeNo
        BY <1>0, <2>1, DaysAndCharges DEF Pay
      <3>2. n \in 1 .. MaxCharges
        BY <3>1 DEF ChargeNo
      <3>3. QED
        BY <1>0, <2>1, <3>2 DEF Pay
    <2>2. ASSUME NEW b \in BookingId, hooks' = [hooks EXCEPT ![b] = hooks'[b]],
                 hooks'[b] \subseteq hooks[b], paid' = paid
          PROVE  /\ paid' \in [BookingId -> SUBSET (1..MaxCharges)]
                 /\ hooks' \in [BookingId -> SUBSET (1..MaxCharges)]
      BY <1>0, <2>2
    <2>3. ASSUME NEW b \in BookingId, NEW n \in ChargeNo, IgnoreWebhook(b, n)
          PROVE  /\ paid' \in [BookingId -> SUBSET (1..MaxCharges)]
                 /\ hooks' \in [BookingId -> SUBSET (1..MaxCharges)]
      BY <1>0, <2>3 DEF IgnoreWebhook
    <2>4. ASSUME NEW w \in Workers, NEW b \in BookingId, CommitConfirm(w, b)
          PROVE  /\ paid' \in [BookingId -> SUBSET (1..MaxCharges)]
                 /\ hooks' \in [BookingId -> SUBSET (1..MaxCharges)]
      BY <1>0, <2>4 DEF CommitConfirm
    <2>5. CASE UNCHANGED <<paid, hooks>>
      BY <1>0, <2>5
    <2>6. ASSUME NEW w \in Workers, Begin(w) PROVE UNCHANGED <<paid, hooks>>
      BY <2>6, BeginStarts DEF Start
    <2>7. QED
      BY <2>1, <2>3, <2>4, <2>5, <2>6 DEF Next, Environment, Tick, DeadlinePasses, Abort, Commit,
         CommitSubmit, CommitAccept, CommitCancel, CommitCheckIn, CommitRelease,
         CommitAutoDecline, vars
  <1>7. swept' \in BOOLEAN
    <2>1. ASSUME NEW w \in Workers, Begin(w) PROVE swept' = swept
      BY <2>1, BeginStarts DEF Start
    <2>2. ASSUME ~(\E w \in Workers : Begin(w)) PROVE swept' \in {swept, TRUE, FALSE}
      BY <2>2 DEF Next, Environment, Tick, DeadlinePasses, Pay, IgnoreWebhook, Abort, Commit,
         CommitSubmit, CommitAccept, CommitCancel, CommitCheckIn, CommitConfirm, CommitRelease,
         CommitAutoDecline, vars
    <2>3. QED
      BY <1>0, <2>1, <2>2
  <1>8. today' \in Day
    BY PaymentsAndDays
  <1>9. QED
    BY <1>3, <1>4, <1>5, <1>6, <1>7, <1>8 DEF TypeOK, Exists

LEMMA InitIInv == Init => IInv
  <1> SUFFICES ASSUME Init PROVE IInv
      OBVIOUS
  <1>1. TypeOK
    BY NoRowIsBooking, IdleIsSession, DaysAndCharges DEF Init, TypeOK, Exists, NoRow
  <1>2. RowsAgree
    <2>1. NoRow.status = "absent" /\ NoRow.released = FALSE
      BY DEF NoRow
    <2>2. \A b \in BookingId : bookings[b] = NoRow /\ payouts[b] = 0
      BY DEF Init
    <2>3. ASSUME NEW b \in BookingId PROVE RowIsSound(b, NoRow)
      BY <2>1, NoRowIsBooking DEF RowIsSound
    <2>4. ASSUME NEW b \in BookingId PROVE ~(payouts[b] > 0)
      <3>1. payouts[b] = 0
        BY <2>2
      <3>2. QED
        BY <3>1
    <2>5. QED
      BY <2>2, <2>3, <2>4, Zenon DEF RowsAgree
  <1>3. SessionsAgree
    BY IdleAgrees DEF Init, SessionsAgree
  <1>4. QED
    BY <1>1, <1>2, <1>3 DEF IInv

-----------------------------------------------------------------------------
(* The theorems *)

\* The inductive invariant.
THEOREM Invariance == Spec => []IInv
  <1>1. IInv /\ [Next]_vars => IInv'
    BY NextTypeOK, NextRowsAgree, NextSessionsAgree DEF IInv, SessionsAgree
  <1>2. QED
    BY InitIInv, <1>1, PTL DEF Spec

\* Whatever overlaps and however often a booking is charged, rows and sessions
\* keep their types, and nothing is confirmed, completed or paid out without a
\* payment of the guest (bookings/service.py).
THEOREM ConfirmedBookingsArePaid == Spec => []BookingsInv
  <1>1. IInv => BookingsInv
    BY DEF IInv, BookingsInv, ConfirmedIsPaid, RowsAgree, RowIsSound
  <1>2. QED
    BY <1>1, Invariance, PTL

\* The access details go out neither before the payment nor before the day of
\* the check-in, although the release writes rows it read earlier
\* (bookings/sweeper.py).
THEOREM AccessWaitsForTheDay == Spec => []AccessIsDue
  <1>1. IInv => AccessIsDue
    BY DEF IInv, AccessIsDue, RowsAgree, RowIsSound
  <1>2. QED
    BY <1>1, Invariance, PTL

-----------------------------------------------------------------------------
(* The invariant of sessions that do not overlap *)

Alone == \A w, v \in Workers : req[w].op # "idle" /\ req[v].op # "idle" => w = v

\* What the guards of an open session have read is still so.
StillSo(s) ==
    /\ s.op = "submit" => ~HasConflict(s.checkIn, s.checkOut, {})
    /\ \A b \in s.rows :
          /\ s.op \in {"accept", "decline", "auto_decline"} => bookings[b].status = "REQUESTED"
          /\ s.op \in {"cancel", "confirm"} => Blocking(b)
          /\ s.op = "confirm" => (s.writes <=> bookings[b].status # "CONFIRMED")
          /\ s.op = "check_in" => bookings[b].status = "CONFIRMED"

\* The payout goes out with the step that ends the stay.
PayoutFits(b) == payouts[b] = 0 \/ (payouts[b] = 1 /\ bookings[b].status = "COMPLETED")

SerialInv ==
    /\ Alone
    /\ \A w \in Workers : StillSo(req[w])
    /\ \A b \in BookingId : PayoutFits(b)

-----------------------------------------------------------------------------
(* Sessions *)

\* The step keeps the days of row b.
KeepsDays(b) ==
    bookings'[b].checkIn = bookings[b].checkIn /\ bookings'[b].checkOut = bookings[b].checkOut

\* It changes nothing of row b that guards read or the calendar shows.
KeepsStay(b) == KeepsDays(b) /\ bookings'[b].status = bookings[b].status

\* What each request has read when it starts.
LEMMA BeginReads ==
    ASSUME NEW w \in Workers, Begin(w)
    PROVE  \E s : Start(w, s) /\ StillSo(s)
  <1>1. ASSUME NEW checkIn \in Day, NEW checkOut \in Day \cup {LastDay + 1}, NEW instant \in InstantModes,
               BeginSubmit(w, checkIn, checkOut, instant)
        PROVE  \E s : Start(w, s) /\ StillSo(s)
    <2>1. Start(w, SubmitRequest(checkIn, checkOut, instant))
      BY <1>1 DEF BeginSubmit, SubmitRequest
    <2>2. StillSo(SubmitRequest(checkIn, checkOut, instant))
      BY <1>1 DEF StillSo, SubmitRequest, Idle, BeginSubmit
    <2>3. QED
      BY <2>1, <2>2
  <1>2. ASSUME NEW op \in {"accept", "decline", "cancel", "check_in", "release", "auto_decline"},
               NEW rows, Start(w, RowsRequest(op, rows)),
               op \in {"accept", "decline", "auto_decline"} =>
                  \A b \in rows : bookings[b].status = "REQUESTED",
               op = "cancel" => \A b \in rows : Blocking(b),
               op = "check_in" => \A b \in rows : bookings[b].status = "CONFIRMED"
        PROVE  \E s : Start(w, s) /\ StillSo(s)
    <2>1. StillSo(RowsRequest(op, rows))
      BY <1>2 DEF StillSo, RowsRequest, Idle
    <2>2. QED
      BY <1>2, <2>1
  <1>3. ASSUME NEW b \in BookingId,
               BeginAccept(w, b) \/ BeginDecline(w, b) \/ BeginCancel(w, b) \/ BeginCheckIn(w, b)
        PROVE  \E s : Start(w, s) /\ StillSo(s)
    <2>1. CASE BeginAccept(w, b)
      BY <1>2, <2>1 DEF BeginAccept, RowsRequest
    <2>2. CASE BeginDecline(w, b)
      BY <1>2, <2>2 DEF BeginDecline, RowsRequest
    <2>3. CASE BeginCancel(w, b)
      <3>1. Start(w, RowsRequest("cancel", {b})) /\ \A c \in {b} : Blocking(c)
        BY <2>3 DEF BeginCancel, Blocking, RowsRequest
      <3>2. QED
        BY <1>2, <3>1
    <2>4. CASE BeginCheckIn(w, b)
      <3>1. Start(w, RowsRequest("check_in", {b})) /\ \A c \in {b} : bookings[c].status = "CONFIRMED"
        BY <2>4 DEF BeginCheckIn, MayCheckIn, RowsRequest
      <3>2. QED
        BY <1>2, <3>1
    <2>5. QED
      BY <1>3, <2>1, <2>2, <2>3, <2>4
  <1>4. ASSUME NEW b \in BookingId, NEW n \in ChargeNo, BeginConfirm(w, b, n)
        PROVE  \E s : Start(w, s) /\ StillSo(s)
    <2>1. Start(w, ConfirmRequest(b, n)) /\ Blocking(b)
      BY <1>4 DEF BeginConfirm, Confirms, ConfirmRequest
    <2>2. StillSo(ConfirmRequest(b, n))
      BY <2>1 DEF StillSo, ConfirmRequest, Idle
    <2>3. QED
      BY <2>1, <2>2
  <1>5. CASE BeginRelease(w)
    BY <1>2, <1>5 DEF BeginRelease, RowsRequest
  <1>6. CASE BeginAutoDecline(w)
    BY <1>2, <1>6 DEF BeginAutoDecline, RowsRequest, Stale
  <1>7. QED
    BY <1>1, <1>3, <1>4, <1>5, <1>6 DEF Begin

LEMMA StillSoIsKept ==
    ASSUME TypeOK, NEW s, s.rows \subseteq BookingId, StillSo(s),
           \A b \in BookingId : KeepsStay(b)
    PROVE  StillSo(s)'
  BY DEF StillSo, HasConflict, Blocking, Overlaps, KeepsStay, KeepsDays

LEMMA IdleIsStillSo ==
    ASSUME NEW s, s.op = "idle"
    PROVE  StillSo(s) /\ StillSo(s)'
  BY DEF StillSo

LEMMA CommitFinishes ==
    ASSUME NEW w \in Workers, Commit(w) \/ Abort(w)
    PROVE  Finish(w) /\ req[w].op # "idle"
  BY DEF Commit, Abort, CommitSubmit, CommitAccept, CommitCancel, CommitCheckIn, CommitConfirm,
         CommitRelease, CommitAutoDecline, Running

LEMMA OtherStepsKeepStays ==
    ASSUME TypeOK, [Next]_vars, ~(\E w \in Workers : Commit(w))
    PROVE  payouts' = payouts /\ \A b \in BookingId : KeepsStay(b)
  <1>1. ASSUME NEW b \in BookingId, DeadlinePasses(b)
        PROVE  payouts' = payouts /\ \A c \in BookingId : KeepsStay(c)
    BY <1>1 DEF DeadlinePasses, KeepsStay, KeepsDays, TypeOK, Booking
  <1>2. CASE UNCHANGED <<bookings, payouts>>
    BY <1>2 DEF KeepsStay, KeepsDays
  <1>3. QED
    BY <1>1, <1>2, OtherSteps

\* Before and after every step at most one session is open, and what it read
\* is still so.
LEMMA NextSessions ==
    ASSUME ~Overlap, IInv, SerialInv, [Next]_vars
    PROVE  Alone' /\ \A w \in Workers : StillSo(req[w])'
  <1>0. req \in [Workers -> Session] /\ TypeOK
    BY DEF IInv, TypeOK
  <1>1. ASSUME NEW w \in Workers, Commit(w) \/ Abort(w)
        PROVE  Alone' /\ \A v \in Workers : StillSo(req[v])'
    <2>1. \A v \in Workers : req'[v].op = "idle"
      BY <1>0, <1>1, CommitFinishes DEF SerialInv, Alone, Finish, Idle
    <2>2. QED
      BY <2>1 DEF Alone, StillSo
  <1>2. ASSUME NEW w \in Workers, Begin(w)
        PROVE  Alone' /\ \A v \in Workers : StillSo(req[v])'
    <2>1. PICK s : Start(w, s) /\ StillSo(s)
      BY <1>2, BeginReads
    <2>2. \A v \in Workers : req'[v] = IF v = w THEN s ELSE req[v]
      BY <1>0, <2>1 DEF Start
    <2>3. \A v \in Workers : req[v].op = "idle"
      BY <2>1 DEF Start, MayStart
    <2>4. bookings' = bookings
      BY <2>1 DEF Start
    <2>5. ASSUME NEW v \in Workers PROVE StillSo(req[v])'
      <3>1. CASE v = w
        BY <2>1, <2>2, <2>4, <3>1 DEF StillSo, HasConflict, Blocking, Overlaps
      <3>2. CASE v # w
        BY <2>2, <2>3, <3>2 DEF StillSo
      <3>3. QED
        BY <3>1, <3>2
    <2>6. QED
      BY <2>2, <2>3, <2>5 DEF Alone
  <1>3. CASE req' = req /\ ~(\E w \in Workers : Commit(w))
    <2>1. \A b \in BookingId : KeepsStay(b)
      BY <1>0, <1>3, OtherStepsKeepStays
    <2>2. ASSUME NEW v \in Workers PROVE StillSo(req[v])'
      <3>1. StillSo(req[v]) /\ req[v].rows \subseteq BookingId /\ req'[v] = req[v]
        BY <1>0, <1>3 DEF SerialInv, Session
      <3>2. QED
        BY <1>0, <2>1, <3>1, StillSoIsKept DEF StillSo, HasConflict, Blocking, Overlaps, KeepsStay,
                                                KeepsDays
    <2>3. QED
      BY <1>3, <2>2 DEF SerialInv, Alone
  <1>4. ASSUME Environment \/ UNCHANGED vars PROVE req' = req
    BY <1>4 DEF Environment, Tick, DeadlinePasses, Pay, IgnoreWebhook, vars
  <1>5. req' = req \/ \E w \in Workers : Begin(w) \/ Commit(w) \/ Abort(w)
    BY <1>4 DEF Next
  <1>6. QED
    BY <1>1, <1>2, <1>3, <1>5

-----------------------------------------------------------------------------
(* What a step does to the calendar *)

Refines == [Promise!Next]_(Promise!vars)

\* Row b, and no other, changes its status.
Moves(b, to) ==
    /\ bookings'[b].status = to
    /\ \A c \in BookingId : KeepsDays(c) /\ (c # b => KeepsStay(c))

LEMMA Unseen ==
    ASSUME \A b \in BookingId : KeepsStay(b)
    PROVE  Refines
  <1>1. State' = State
    BY DEF State, KeepsStay
  <1>2. NightsOf' = NightsOf
    BY DEF NightsOf, Nights, KeepsStay, KeepsDays
  <1>3. QED
    BY <1>1, <1>2 DEF Refines, Promise!vars

LEMMA MovedOnce ==
    ASSUME NEW b \in BookingId, NEW to, Moves(b, to)
    PROVE  State' = [State EXCEPT ![b] = to] /\ NightsOf' = NightsOf
  <1>1. NightsOf' = NightsOf
    BY DEF NightsOf, Nights, Moves, KeepsDays
  <1>2. State' = [State EXCEPT ![b] = to]
    BY DEF State, Moves, KeepsStay
  <1>3. QED
    BY <1>1, <1>2

LEMMA MoveRefines ==
    ASSUME NEW b \in BookingId, NEW to, Moves(b, to),
           \/ bookings[b].status = "REQUESTED" /\ to = "CONFIRMED"
           \/ bookings[b].status = "CONFIRMED" /\ to = "COMPLETED"
    PROVE  Refines
  <1>1. State' = [State EXCEPT ![b] = to] /\ NightsOf' = NightsOf
    BY MovedOnce
  <1>2. State[b] = bookings[b].status
    BY DEF State
  <1>3. CASE bookings[b].status = "REQUESTED" /\ to = "CONFIRMED"
    <2>1. Promise!Confirm(b)
      BY <1>1, <1>2, <1>3 DEF Promise!Confirm, Promise!Move
    <2>2. QED
      BY <2>1 DEF Refines, Promise!Next
  <1>4. CASE bookings[b].status = "CONFIRMED" /\ to = "COMPLETED"
    <2>1. Promise!Complete(b)
      BY <1>1, <1>2, <1>4 DEF Promise!Complete, Promise!Move
    <2>2. QED
      BY <2>1 DEF Refines, Promise!Next
  <1>5. QED
    BY <1>3, <1>4

LEMMA CancelRefines ==
    ASSUME NEW S \in SUBSET BookingId, \A b \in S : Blocking(b),
           \A b \in BookingId : KeepsDays(b),
           \A b \in S : bookings'[b].status = "CANCELLED",
           \A b \in BookingId \ S : bookings'[b].status = bookings[b].status
    PROVE  Refines
  <1>1. NightsOf' = NightsOf
    BY DEF NightsOf, Nights, KeepsDays
  <1>2. State' = [b \in BookingId |-> IF b \in S THEN "CANCELLED" ELSE State[b]]
    BY DEF State
  <1>3. \A b \in S : Promise!Blocking(b)
    BY DEF Promise!Blocking, State, Blocking
  <1>4. Promise!Cancel(S)
    BY <1>1, <1>2, <1>3 DEF Promise!Cancel
  <1>5. QED
    BY <1>4 DEF Refines, Promise!Next

\* The nights of two stays that do not conflict are disjoint, whichever was
\* booked first.
LEMMA NoConflictNoNight ==
    ASSUME TypeOK, NEW checkIn \in Day, NEW checkOut \in Day \cup {LastDay + 1},
           ~HasConflict(checkIn, checkOut, {}), NEW c \in BookingId, Blocking(c)
    PROVE  Nights(c) \cap (checkIn .. (checkOut - 1)) = {}
  <1>1. ~(checkIn < bookings[c].checkOut + Turnaround /\ checkOut > bookings[c].checkIn)
    BY DEF HasConflict, Overlaps
  <1>2. /\ bookings[c].checkIn \in Int /\ bookings[c].checkOut \in Int
        /\ checkIn \in Int /\ checkOut \in Int /\ Turnaround \in Int
    BY DaysAndCharges, BookingsAssumption DEF TypeOK, Booking
  <1>3. ASSUME NEW d, d \in Nights(c), d \in checkIn .. (checkOut - 1) PROVE FALSE
    <2>1. /\ d \in Int /\ bookings[c].checkIn <= d /\ d <= bookings[c].checkOut - 1
          /\ checkIn <= d /\ d <= checkOut - 1
      BY <1>2, <1>3 DEF Nights
    <2>2. QED
      BY <1>1, <1>2, <2>1, BookingsAssumption
  <1>4. QED
    BY <1>3

LEMMA SubmitRefines ==
    ASSUME IInv, SerialInv, NEW w \in Workers, NEW b \in BookingId, CommitSubmit(w, b)
    PROVE  Refines /\ \A c \in BookingId : PayoutFits(c)'
  <1>0. /\ bookings \in [BookingId -> Booking] /\ req[w] \in Session /\ TypeOK
        /\ req[w].op = "submit"
    BY DEF IInv, TypeOK, CommitSubmit, Running
  <1> DEFINE checkIn == req[w].checkIn
             checkOut == req[w].checkOut
  <1>1. /\ checkIn \in Day /\ checkOut \in Day \cup {LastDay + 1}
        /\ ~HasConflict(checkIn, checkOut, {}) /\ checkOut - checkIn >= MinStay
    BY <1>0 DEF Session, SerialInv, StillSo, IInv, SessionsAgree, SessionAgrees
  <1>2. /\ bookings'[b].status = "REQUESTED" /\ bookings'[b].checkIn = checkIn
        /\ bookings'[b].checkOut = checkOut
        /\ \A c \in BookingId \ {b} : bookings'[c] = bookings[c]
        /\ bookings[b].status = "absent" /\ payouts' = payouts
    BY <1>0 DEF CommitSubmit, NoRow, Exists
  <1> HIDE DEF checkIn, checkOut
  <1>3. State[b] = "absent" /\ State' = [State EXCEPT ![b] = "REQUESTED"]
    BY <1>2 DEF State
  <1>4. NightsOf' = [NightsOf EXCEPT ![b] = checkIn .. (checkOut - 1)]
    BY <1>2 DEF NightsOf, Nights
  <1>5. ASSUME NEW c \in BookingId, Promise!Blocking(c)
        PROVE  NightsOf[c] \cap (checkIn .. (checkOut - 1)) = {}
    BY <1>0, <1>1, <1>5, NoConflictNoNight DEF Promise!Blocking, Blocking, State, NightsOf
  <1>6. checkOut - 1 \in Day
    <2>1. checkIn \in Int /\ 0 <= checkIn /\ checkOut \in Int /\ checkOut <= LastDay + 1
      BY <1>1, BookingsAssumption DEF Day
    <2>2. MinStay \in Int /\ MinStay >= 1
      BY BookingsAssumption
    <2>3. QED
      BY <1>1, <2>1, <2>2, BookingsAssumption DEF Day
  <1>7. Promise!Book(b, checkIn .. (checkOut - 1))
    BY <1>3, <1>4, <1>5 DEF Promise!Book
  <1>8. Refines
    BY <1>1, <1>6, <1>7 DEF Refines, Promise!Next
  <1>9. QED
    BY <1>2, <1>8 DEF SerialInv, PayoutFits

\* One row gets another status, and no payout is made.
LEMMA PayoutsStay ==
    ASSUME SerialInv, payouts' = payouts,
           \A c \in BookingId : bookings'[c].status = bookings[c].status
                                \/ bookings[c].status \in {"REQUESTED", "CONFIRMED"}
    PROVE  \A c \in BookingId : PayoutFits(c)'
  BY DEF SerialInv, PayoutFits

LEMMA CommitRefines ==
    ASSUME IInv, SerialInv, NEW w \in Workers, Commit(w)
    PROVE  Refines /\ \A c \in BookingId : PayoutFits(c)'
  <1>0. /\ bookings \in [BookingId -> Booking] /\ payouts \in [BookingId -> Nat]
        /\ req[w] \in Session /\ StillSo(req[w])
    BY DEF IInv, TypeOK, SerialInv
  <1>1. ASSUME NEW b \in BookingId, CommitAccept(w, b)
        PROVE  Refines /\ \A c \in BookingId : PayoutFits(c)'
    <2>1. payouts' = payouts /\ \A c \in BookingId : KeepsStay(c)
      BY <1>0, <1>1 DEF CommitAccept, RowAccepted, KeepsStay, KeepsDays, Booking
    <2>2. QED
      BY <2>1, Unseen, PayoutsStay DEF KeepsStay
  <1>2. ASSUME NEW b \in BookingId, CommitCancel(w, b)
        PROVE  Refines /\ \A c \in BookingId : PayoutFits(c)'
    <2>1. Blocking(b) /\ payouts' = payouts
      BY <1>0, <1>2 DEF CommitCancel, Running, StillSo, Blocking
    <2>2. PICK d : bookings' = [bookings EXCEPT ![b].status = "CANCELLED", ![b].decided = d]
      BY <1>2 DEF CommitCancel
    <2>3. Moves(b, "CANCELLED")
      BY <1>0, <2>2 DEF Moves, KeepsStay, KeepsDays, Booking
    <2>4. Refines
      <3>1. /\ {b} \in SUBSET BookingId /\ \A c \in {b} : Blocking(c)
            /\ \A c \in {b} : bookings'[c].status = "CANCELLED"
            /\ \A c \in BookingId : KeepsDays(c)
            /\ \A c \in BookingId \ {b} : bookings'[c].status = bookings[c].status
        BY <2>1, <2>3 DEF Moves, KeepsStay
      <3>2. QED
        BY <3>1, CancelRefines
    <2>5. QED
      BY <2>1, <2>3, <2>4, PayoutsStay DEF Moves, KeepsStay, Blocking
  <1>3. ASSUME NEW b \in BookingId, CommitCheckIn(w, b)
        PROVE  Refines /\ \A c \in BookingId : PayoutFits(c)'
    <2>1. bookings[b].status = "CONFIRMED"
      BY <1>0, <1>3 DEF CommitCheckIn, Running, StillSo
    <2>2. bookings' = [bookings EXCEPT ![b].status = "COMPLETED", ![b].checkedIn = TRUE]
      BY <1>3 DEF CommitCheckIn
    <2>3. Moves(b, "COMPLETED")
      BY <1>0, <2>2 DEF Moves, KeepsStay, KeepsDays, Booking
    <2>4. payouts' = [payouts EXCEPT ![b] = payouts[b] + 1] /\ payouts[b] = 0
      BY <1>3, <2>1 DEF CommitCheckIn, SerialInv, PayoutFits
    <2>5. \A c \in BookingId : PayoutFits(c)'
      BY <1>0, <2>3, <2>4 DEF SerialInv, PayoutFits, Moves, KeepsStay
    <2>6. QED
      BY <2>1, <2>3, <2>5, MoveRefines
  <1>4. ASSUME NEW b \in BookingId, CommitConfirm(w, b)
        PROVE  Refines /\ \A c \in BookingId : PayoutFits(c)'
    <2>1. /\ Blocking(b) /\ (req[w].writes <=> bookings[b].status # "CONFIRMED")
          /\ payouts' = payouts
      BY <1>0, <1>4 DEF CommitConfirm, Running, StillSo
    <2>2. PICK st : /\ bookings' = [bookings EXCEPT ![b].status = st]
                    /\ st = IF req[w].writes THEN "CONFIRMED" ELSE bookings[b].status
      BY <1>0, <1>4 DEF CommitConfirm
    <2>3. Moves(b, "CONFIRMED")
      BY <1>0, <2>1, <2>2 DEF Moves, KeepsStay, KeepsDays, Booking
    <2>4. ASSUME bookings[b].status = "CONFIRMED" PROVE Refines
      BY <2>3, <2>4, Unseen DEF Moves, KeepsStay
    <2>5. ASSUME bookings[b].status = "REQUESTED" PROVE Refines
      BY <2>3, <2>5, MoveRefines
    <2>6. \A c \in BookingId : PayoutFits(c)'
      BY <2>1, <2>3, PayoutsStay DEF Moves, KeepsStay, Blocking
    <2>7. QED
      BY <2>1, <2>4, <2>5, <2>6 DEF Blocking
  <1>5. CASE CommitRelease(w)
    <2>1. payouts' = payouts /\ \A c \in BookingId : KeepsStay(c)
      BY <1>0, <1>5 DEF CommitRelease, KeepsStay, KeepsDays, Booking
    <2>2. QED
      BY <2>1, Unseen, PayoutsStay DEF KeepsStay
  <1>6. CASE CommitAutoDecline(w)
    <2>1. /\ payouts' = payouts /\ req[w].rows \in SUBSET BookingId
          /\ \A b \in req[w].rows : bookings[b].status = "REQUESTED"
      BY <1>0, <1>6 DEF CommitAutoDecline, Running, StillSo, Session
    <2>2. /\ \A b \in BookingId : KeepsDays(b)
          /\ \A b \in req[w].rows : bookings'[b].status = "CANCELLED"
          /\ \A b \in BookingId \ req[w].rows : bookings'[b].status = bookings[b].status
      BY <1>0, <1>6, <2>1 DEF CommitAutoDecline, KeepsDays, Booking
    <2>3. Refines
      BY <2>1, <2>2, CancelRefines DEF Blocking
    <2>4. QED
      BY <2>1, <2>2, <2>3, PayoutsStay
  <1>7. QED
    BY <1>1, <1>2, <1>3, <1>4, <1>5, <1>6, SubmitRefines DEF Commit

LEMMA NextRefines ==
    ASSUME IInv, SerialInv, [Next]_vars
    PROVE  Refines /\ \A c \in BookingId : PayoutFits(c)'
  <1>1. CASE \E w \in Workers : Commit(w)
    BY <1>1, CommitRefines
  <1>2. CASE ~(\E w \in Workers : Commit(w))
    <2>1. payouts' = payouts /\ \A b \in BookingId : KeepsStay(b)
      BY <1>2, OtherStepsKeepStays DEF IInv
    <2>2. QED
      BY <2>1, Unseen, PayoutsStay DEF KeepsStay
  <1>3. QED
    BY <1>1, <1>2

LEMMA SerialInvariance == ASSUME ~Overlap PROVE Spec => [](IInv /\ SerialInv)
  <1>1. Init => SerialInv
    <2> SUFFICES ASSUME Init PROVE SerialInv
        OBVIOUS
    <2>1. \A w \in Workers : req[w].op = "idle"
      BY DEF Init, Idle
    <2>2. \A b \in BookingId : payouts[b] = 0
      BY DEF Init
    <2>3. \A w \in Workers : StillSo(req[w])
      BY <2>1, IdleIsStillSo
    <2>4. Alone
      BY <2>1 DEF Alone
    <2>5. \A b \in BookingId : PayoutFits(b)
      BY <2>2 DEF PayoutFits
    <2>6. QED
      BY <2>3, <2>4, <2>5 DEF SerialInv
  <1>2. IInv /\ SerialInv /\ [Next]_vars => SerialInv'
    BY NextSessions, NextRefines DEF SerialInv
  <1>3. Spec => []IInv
    BY Invariance
  <1>4. QED
    BY <1>1, <1>2, <1>3, PTL DEF Spec

-----------------------------------------------------------------------------
(* The theorems *)

\* Executed one session at a time, whichever sessions fail, no night is held
\* twice, a booking is confirmed at most once, and one that is over stays over
\* (assert_no_conflict in submit_booking; sprint-11-status.md).
THEOREM CalendarIsKept == ASSUME ~Overlap PROVE Spec => ImplementsCalendar
  <1>1. Init => Promise!Init
    <2> SUFFICES ASSUME Init PROVE Promise!Init
        OBVIOUS
    <2>1. 0 .. (0 - 1) = {}
      OBVIOUS
    <2>2. \A b \in BookingId : Nights(b) = {}
      BY <2>1 DEF Init, Nights, NoRow
    <2>3. \A b \in BookingId : bookings[b].status = "absent"
      BY DEF Init, NoRow
    <2>4. QED
      BY <2>2, <2>3 DEF Promise!Init, State, NightsOf
  <1>2. IInv /\ SerialInv /\ [Next]_vars => [Promise!Next]_(Promise!vars)
    BY NextRefines DEF Refines
  <1>3. Spec => [](IInv /\ SerialInv)
    BY SerialInvariance
  <1>4. QED
    BY <1>1, <1>2, <1>3, PTL DEF Spec, ImplementsCalendar, Promise!Spec

\* One session at a time, the host is paid out once for a stay, although a
\* check-in may be asked for again and again (check_in).
THEOREM PaidOutOnce == ASSUME ~Overlap PROVE Spec => []PayoutAtMostOnce
  <1>1. IInv /\ SerialInv => PayoutAtMostOnce
    <2> SUFFICES ASSUME SerialInv, NEW b \in BookingId PROVE payouts[b] <= 1
        BY DEF PayoutAtMostOnce
    <2>1. payouts[b] = 0 \/ payouts[b] = 1
      BY DEF SerialInv, PayoutFits
    <2>2. QED
      BY <2>1
  <1>2. Spec => [](IInv /\ SerialInv)
    BY SerialInvariance
  <1>3. QED
    BY <1>1, <1>2, PTL

\* What the calendar promises: nights that are held or sold are disjoint.
Apart ==
    \A b, c \in BookingId :
        Promise!Blocking(b) /\ Promise!Blocking(c) /\ b # c => NightsOf[b] \cap NightsOf[c] = {}

LEMMA CalendarKeepsApart ==
    ASSUME Apart, Refines
    PROVE  Apart'
  <1> USE DEF Apart, Promise!Blocking
  <1>0. State = [b \in BookingId |-> State[b]] /\ NightsOf = [b \in BookingId |-> NightsOf[b]]
    BY DEF State, NightsOf
  <1>1. ASSUME NEW b \in BookingId, NEW S, Promise!Book(b, S) PROVE Apart'
    <2>1. /\ \A c \in BookingId : Promise!Blocking(c) => NightsOf[c] \cap S = {}
          /\ State' = [State EXCEPT ![b] = "REQUESTED"]
          /\ NightsOf' = [NightsOf EXCEPT ![b] = S]
      BY <1>1 DEF Promise!Book
    <2>2. /\ NightsOf'[b] = S
          /\ \A c \in BookingId \ {b} : NightsOf'[c] = NightsOf[c] /\ State'[c] = State[c]
      BY <1>0, <2>1
    <2>3. QED
      BY <2>1, <2>2
  <1>2. ASSUME NightsOf' = NightsOf,
               \A b \in BookingId : State'[b] \in {"REQUESTED", "CONFIRMED"} => Promise!Blocking(b)
        PROVE  Apart'
    BY <1>2
  <1>3. ASSUME NEW b \in BookingId, Promise!Confirm(b) \/ Promise!Complete(b) PROVE Apart'
    BY <1>0, <1>2, <1>3 DEF Promise!Confirm, Promise!Complete, Promise!Move
  <1>4. ASSUME NEW S \in SUBSET BookingId, Promise!Cancel(S) PROVE Apart'
    BY <1>2, <1>4 DEF Promise!Cancel
  <1>5. CASE UNCHANGED Promise!vars
    BY <1>2, <1>5 DEF Promise!vars
  <1>6. QED
    BY <1>1, <1>3, <1>4, <1>5 DEF Refines, Promise!Next

\* One session at a time, two bookings that are alive never share a night; that
\* they do with overlap is the finding of run bookings_double.
THEOREM NightsStayDisjoint == ASSUME ~Overlap PROVE Spec => []NightsDisjoint
  <1>1. Init => Apart
    BY DEF Init, Apart, Promise!Blocking, State, NoRow
  <1>2. IInv /\ SerialInv /\ Apart /\ [Next]_vars => Apart'
    BY NextRefines, CalendarKeepsApart
  <1>3. Apart => NightsDisjoint
    BY DEF Apart, NightsDisjoint, Promise!Blocking, State, NightsOf
  <1>4. QED
    BY <1>1, <1>2, <1>3, SerialInvariance, PTL DEF Spec
=============================================================================
