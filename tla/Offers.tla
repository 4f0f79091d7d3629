------------------------------- MODULE Offers -------------------------------
(***************************************************************************)
(* Offer and counter-offer threads on one listing                          *)
(* (backend/app/offers/service.py) with the Celery expiry sweeper          *)
(* (backend/app/offers/sweeper.py).                                        *)
(*                                                                         *)
(* Every HTTP request and every sweep is one SQLAlchemy session at         *)
(* Postgres' READ COMMITTED level, with no row lock taken by a read and no *)
(* version column.  It is modelled as two steps: Begin, which reads the    *)
(* rows and runs the guards, and Commit, which writes the changed columns  *)
(* of whatever the rows hold by then.  Two sessions that change one row    *)
(* are serialised by the row lock of the UPDATE, so the order of Commit    *)
(* steps is the order of the UPDATEs.  Abort is the rollback of a request  *)
(* that fails between the two (broker or database error, crash).           *)
(*                                                                         *)
(* With Overlap = FALSE a session starts only when no other one is open:   *)
(* the serial executions the unit tests have in mind.                      *)
(***************************************************************************)
EXTENDS Naturals, Sequences, FiniteSets

CONSTANTS
    Seekers,      \* users with role SEEKER, none of them the listing's owner
    OfferId,      \* identities of the rows of table offers
    Workers,      \* slots for requests that are open at the same time
    Sweepers,     \* worker processes that may run the Beat task
    None,         \* NULL in a column, or no row
    MaxRounds,    \* MAX_OFFER_ROUNDS
    Overlap       \* may sessions overlap in time?

ASSUME OffersAssumption ==
    /\ None \notin OfferId \cup Seekers
    /\ "landlord" \notin Seekers \cup {None}      \* no self_offer
    /\ MaxRounds \in Nat \ {0}
    /\ Overlap \in BOOLEAN

VARIABLES
    offers,       \* table offers, a row of status "absent" is not inserted yet
    notices,      \* expiry notifications inserted for each offer, in order
    visits,       \* number of Visit rows whose offer_id is the offer
    completed,    \* how many of them are COMPLETED
    agreements,   \* number of Agreement rows whose offer_id is the offer
    req,          \* the request each worker has open
    sweep         \* the sweep each sweeper has open

vars == <<offers, notices, visits, completed, agreements, req, sweep>>

-----------------------------------------------------------------------------
(* Data *)

Open   == {"PENDING", "COUNTERED"}              \* what blocks a new submission
Closed == {"COUNTERED", "ACCEPTED", "REJECTED", "EXPIRED"}

\* The age of an offer is how many of the marks 24, 36 and 48 hours have passed
\* since its timer started: all that the sweeper can tell apart.
H24 == 1
H36 == 2
Window == 3

Bucket == {"h24", "h36", "h48"}                 \* expiry_notifications_sent

Offer == [ status        : {"absent", "PENDING"} \cup Closed,
           seeker        : Seekers \cup {None},
           round         : 1..MaxRounds,
           parent        : OfferId \cup {None},
           landlordTurn  : BOOLEAN,             \* awaiting_landlord_response
           requiresVisit : BOOLEAN,
           age           : 0..Window,           \* now - (expires_at - 48h)
           sent          : SUBSET Bucket,
           by            : {"seeker", "landlord"} ]   \* who wrote the round

Response == {"counter", "accept", "reject"}

Request == [ op            : {"idle", "submit"} \cup Response,
             seeker        : Seekers \cup {None},
             offer         : OfferId \cup {None},
             requiresVisit : BOOLEAN,
             by            : {"seeker", "landlord"} ]

Sweep == [ open : BOOLEAN,
           plan : [OfferId -> Bucket \cup {"none"}],
           seen : [OfferId -> SUBSET Bucket] ]

Idle == [ op |-> "idle", seeker |-> None, offer |-> None,
          requiresVisit |-> FALSE, by |-> "seeker" ]

NoSweep == [ open |-> FALSE,
             plan |-> [o \in OfferId |-> "none"],
             seen |-> [o \in OfferId |-> {}] ]

NoRow == [ status |-> "absent", seeker |-> None, round |-> 1,
           parent |-> None, landlordTurn |-> TRUE, requiresVisit |-> FALSE,
           age |-> 0, sent |-> {}, by |-> "seeker" ]

Init ==
    /\ offers     = [o \in OfferId |-> NoRow]
    /\ notices    = [o \in OfferId |-> <<>>]
    /\ visits     = [o \in OfferId |-> 0]
    /\ completed  = [o \in OfferId |-> 0]
    /\ agreements = [o \in OfferId |-> 0]
    /\ req        = [w \in Workers |-> Idle]
    /\ sweep      = [k \in Sweepers |-> NoSweep]

-----------------------------------------------------------------------------
(* Sessions *)

NoSessionOpen ==
    /\ \A w \in Workers : req[w].op = "idle"
    /\ \A k \in Sweepers : ~sweep[k].open

MayStart == Overlap \/ NoSessionOpen

Finish(w) == req' = [req EXCEPT ![w] = Idle]

\* The session ends without a commit.
Abort(w) ==
    /\ req[w].op # "idle"
    /\ Finish(w)
    /\ UNCHANGED <<offers, notices, visits, completed, agreements, sweep>>

-----------------------------------------------------------------------------
(* submit_offer *)

Of(s) == {o \in OfferId : offers[o].status # "absent" /\ offers[o].seeker = s}

\* Fault: only rounds that await the landlord are looked for.
HasOfferAtLandlord(s) == \E o \in Of(s) : offers[o].status = "PENDING" /\ offers[o].landlordTurn

\* _latest_open_offer_for(...) is not None
HasOpenOffer(s) == \E o \in Of(s) : offers[o].status \in Open

\* _completed_visit_exists
CompletedVisitExists(s) == \E o \in Of(s) : completed[o] > 0

\* ... whose scalar_one_or_none raises when several rows match.
SeveralCompletedVisits(s) ==
    \/ \E o \in Of(s) : completed[o] > 1
    \/ \E o, p \in Of(s) : o # p /\ completed[o] > 0 /\ completed[p] > 0

\* The checks on listing.status, which reviews, suspensions and payments may
\* change at any moment, are left to chance: no submission has to happen.
BeginSubmit(w, s) ==
    /\ req[w].op = "idle"
    /\ MayStart
    /\ ~HasOpenOffer(s)
    /\ ~SeveralCompletedVisits(s)
    /\ req' = [req EXCEPT ![w] =
                 [ op |-> "submit", seeker |-> s, offer |-> None,
                   requiresVisit |-> ~CompletedVisitExists(s), by |-> "seeker" ]]
    /\ UNCHANGED <<offers, notices, visits, completed, agreements, sweep>>

FirstRound(s, requiresVisit) ==
    [ status |-> "PENDING", seeker |-> s, round |-> 1, parent |-> None,
      landlordTurn |-> TRUE, requiresVisit |-> requiresVisit,
      age |-> 0, sent |-> {}, by |-> "seeker" ]

CommitSubmit(w, o) ==
    /\ req[w].op = "submit"
    /\ offers[o].status = "absent"
    /\ offers' = [offers EXCEPT ![o] = FirstRound(req[w].seeker, req[w].requiresVisit)]
    /\ Finish(w)
    /\ UNCHANGED <<notices, visits, completed, agreements, sweep>>

-----------------------------------------------------------------------------
(* counter_offer, accept_offer, reject_offer *)

Actor == Seekers \cup {"landlord"}

\* Fault: either party may respond.
IsParty(actor, o) == actor \in {"landlord", offers[o].seeker}

\* The two "not_your_turn" checks.
IsTurnOf(actor, o) ==
    IF offers[o].landlordTurn THEN actor = "landlord"
                              ELSE actor = offers[o].seeker

BelowRoundCap(o) == offers[o].round < MaxRounds

IsOpenForResponse(o) == offers[o].status = "PENDING"

BeginRespond(w, op, o, actor) ==
    /\ req[w].op = "idle"
    /\ MayStart
    /\ IsOpenForResponse(o)
    /\ IsTurnOf(actor, o)
    /\ op = "counter" => BelowRoundCap(o)
    /\ req' = [req EXCEPT ![w] =
                 [ op |-> op, seeker |-> None, offer |-> o,
                   requiresVisit |-> offers[o].requiresVisit,
                   by |-> IF actor = "landlord" THEN "landlord" ELSE "seeker" ]]
    /\ UNCHANGED <<offers, notices, visits, completed, agreements, sweep>>

\* The columns a round copies from the one it answers never change once
\* inserted, so it makes no difference that they are read at the commit.
NextRound(o, by) ==
    [ status |-> "PENDING", seeker |-> offers[o].seeker, round |-> offers[o].round + 1,
      parent |-> o, landlordTurn |-> ~offers[o].landlordTurn,
      requiresVisit |-> offers[o].requiresVisit, age |-> 0, sent |-> {}, by |-> by ]

CommitCounter(w, n) ==
    LET o == req[w].offer IN
    /\ req[w].op = "counter"
    /\ offers[n].status = "absent"
    /\ offers' = [offers EXCEPT ![o].status = "COUNTERED", ![n] = NextRound(o, req[w].by)]
    /\ Finish(w)
    /\ UNCHANGED <<notices, visits, completed, agreements, sweep>>

\* Fault: acceptance does not reach the generator.
KeepAgreements(o) == agreements' = agreements

\* generate_agreement_for_offer selects by offer_id before it inserts.  It does
\* so after the flush of the offer's UPDATE, while this session holds the row,
\* hence against everything committed before.
GenerateAgreement(o) ==
    agreements' = [agreements EXCEPT ![o] = IF @ = 0 THEN 1 ELSE @]

CommitAccept(w) ==
    LET o == req[w].offer IN
    /\ req[w].op = "accept"
    /\ offers' = [offers EXCEPT ![o].status = "ACCEPTED"]
    /\ IF req[w].requiresVisit
       THEN /\ visits' = [visits EXCEPT ![o] = @ + 1]
            /\ UNCHANGED agreements
       ELSE /\ GenerateAgreement(o)
            /\ UNCHANGED visits
    /\ Finish(w)
    /\ UNCHANGED <<notices, completed, sweep>>

CommitReject(w) ==
    LET o == req[w].offer IN
    /\ req[w].op = "reject"
    /\ offers' = [offers EXCEPT ![o].status = "REJECTED"]
    /\ Finish(w)
    /\ UNCHANGED <<notices, visits, completed, agreements, sweep>>

-----------------------------------------------------------------------------
(* The sweeper: _process_open_offers *)

\* Fault: expiry at the 36-hour mark.
DueEarly(o) ==
    IF offers[o].age >= H36 THEN "h48"
    ELSE IF offers[o].age >= H24 /\ "h24" \notin offers[o].sent THEN "h24"
    ELSE "none"

\* Fault: the reminders, but no expiry.
DueReminders(o) ==
    IF offers[o].age >= H36 /\ "h36" \notin offers[o].sent THEN "h36"
    ELSE IF offers[o].age >= H24 /\ "h24" \notin offers[o].sent THEN "h24"
    ELSE "none"

\* The if/elif chain, on the row as the sweep's SELECT returned it.
Due(o) ==
    LET sent == offers[o].sent
        age  == offers[o].age
    IN  IF age >= Window /\ "h48" \notin sent THEN "h48"
        ELSE IF age >= H36 /\ "h36" \notin sent THEN "h36"
        ELSE IF age >= H24 /\ "h24" \notin sent THEN "h24"
        ELSE "none"

Swept == {o \in OfferId : offers[o].status = "PENDING"}

BeginSweep(k) ==
    /\ ~sweep[k].open
    /\ MayStart
    /\ sweep' = [sweep EXCEPT ![k] =
                   [ open |-> TRUE,
                     plan |-> [o \in OfferId |-> IF o \in Swept THEN Due(o) ELSE "none"],
                     seen |-> [o \in OfferId |-> IF o \in Swept THEN offers[o].sent ELSE {}] ]]
    /\ UNCHANGED <<offers, notices, visits, completed, agreements, req>>

\* Fault: the flag of the bucket is not recorded.
RowWithoutFlag(k, o) ==
    IF sweep[k].plan[o] = "h48" THEN [offers[o] EXCEPT !.status = "EXPIRED"] ELSE offers[o]

\* Fault: the UPDATE writes every column back as it was read.
RowWrittenWhole(k, o) ==
    LET b == sweep[k].plan[o] IN
    IF b = "none" THEN offers[o]
    ELSE [offers[o] EXCEPT !.status = IF b = "h48" THEN "EXPIRED" ELSE "PENDING",
                           !.sent = sweep[k].seen[o] \cup {b}]

\* The row after the sweep's UPDATE: only the columns the sweep changed.
RowAfterSweep(k, o) ==
    LET b == sweep[k].plan[o] IN
    CASE b = "none" -> offers[o]
      [] b = "h48"  -> [offers[o] EXCEPT !.status = "EXPIRED",
                                         !.sent = sweep[k].seen[o] \cup {b}]
      [] OTHER      -> [offers[o] EXCEPT !.sent = sweep[k].seen[o] \cup {b}]

CommitSweep(k) ==
    /\ sweep[k].open
    /\ offers' = [o \in OfferId |-> RowAfterSweep(k, o)]
    /\ notices' = [o \in OfferId |-> IF sweep[k].plan[o] = "none" THEN notices[o]
                                     ELSE Append(notices[o], sweep[k].plan[o])]
    /\ sweep' = [sweep EXCEPT ![k] = NoSweep]
    /\ UNCHANGED <<visits, completed, agreements, req>>

\* One failing dispatch fails the whole batch: there is a single commit.
AbortSweep(k) ==
    /\ sweep[k].open
    /\ sweep' = [sweep EXCEPT ![k] = NoSweep]
    /\ UNCHANGED <<offers, notices, visits, completed, agreements, req>>

-----------------------------------------------------------------------------
(* Environment: time and the visit pipeline *)

\* An offer that nobody has answered passes its next mark.  Offers age
\* independently of each other.
TimePasses(o) ==
    /\ offers[o].status = "PENDING"
    /\ offers[o].age < Window
    /\ offers' = [offers EXCEPT ![o].age = @ + 1]
    /\ UNCHANGED <<notices, visits, completed, agreements, req, sweep>>

\* admin_approve_visit_report completes a visit and generates the agreement
\* (module Visits has the pipeline in between).
VisitCompletes(o) ==
    /\ MayStart
    /\ completed[o] < visits[o]
    /\ completed' = [completed EXCEPT ![o] = @ + 1]
    /\ GenerateAgreement(o)
    /\ UNCHANGED <<offers, notices, visits, req, sweep>>

-----------------------------------------------------------------------------

Requests ==
    \E w \in Workers :
        \/ Abort(w)
        \/ \E s \in Seekers : BeginSubmit(w, s)
        \/ \E op \in Response, o \in OfferId, actor \in Actor :
              BeginRespond(w, op, o, actor)
        \/ \E o \in OfferId : CommitSubmit(w, o) \/ CommitCounter(w, o)
        \/ CommitAccept(w)
        \/ CommitReject(w)

Sweeping ==
    \E k \in Sweepers : BeginSweep(k) \/ CommitSweep(k) \/ AbortSweep(k)

Environment == \E o \in OfferId : TimePasses(o) \/ VisitCompletes(o)

Next == Requests \/ Sweeping \/ Environment

Spec == Init /\ [][Next]_vars

\* Time passes, Beat keeps starting the sweep, and a sweep does not fail for
\* ever: sweeper.py runs every minute and a failed one is simply run again.
Fairness ==
    /\ \A o \in OfferId : WF_vars(TimePasses(o))
    /\ \A k \in Sweepers : WF_vars(BeginSweep(k)) /\ SF_vars(CommitSweep(k))

FairSpec == Spec /\ Fairness

-----------------------------------------------------------------------------
(* Properties *)

\* Types of the tables and of the open sessions.
TypeOK ==
    /\ offers     \in [OfferId -> Offer]
    /\ notices    \in [OfferId -> Seq(Bucket)]
    /\ visits     \in [OfferId -> Nat]
    /\ completed  \in [OfferId -> Nat]
    /\ agreements \in [OfferId -> Nat]
    /\ req        \in [Workers -> Request]
    /\ sweep      \in [Sweepers -> Sweep]

Live(o) == offers[o].status = "PENDING"

\* Round o answers round p of the same seeker, who had the turn; p is closed.
Answers(o, p) ==
    /\ p \in OfferId
    /\ offers[p].status \in Closed
    /\ offers[p].seeker = offers[o].seeker
    /\ offers[p].requiresVisit = offers[o].requiresVisit
    /\ offers[o].round = offers[p].round + 1
    /\ offers[o].landlordTurn = ~offers[p].landlordTurn
    /\ offers[o].by = IF offers[p].landlordTurn THEN "landlord" ELSE "seeker"

\* parent_offer_id walks back from any round to round 1, one round at a time,
\* through rounds of the same thread that can no longer be answered; the turn
\* alternates along the way.  It must survive double clicks (two counters of
\* one round) and sweeps that overwrite a round being answered.
ThreadShape ==
    \A o \in OfferId : offers[o].status # "absent" =>
        IF offers[o].parent = None
        THEN offers[o].round = 1 /\ offers[o].landlordTurn /\ offers[o].by = "seeker"
        ELSE Answers(o, offers[o].parent)

\* _build_thread_view infers who wrote a round from its parity, and that the
\* landlord answers exactly the odd rounds.
SubmitterParity ==
    \A o \in OfferId : offers[o].status # "absent" =>
        LET odd == offers[o].round % 2 = 1 IN
        /\ offers[o].by = IF odd THEN "seeker" ELSE "landlord"
        /\ offers[o].landlordTurn = odd

\* However requests and sweeps overlap, the rows form threads of rounds in
\* which the parties take turns.
RoundsFormThreads == ThreadShape /\ SubmitterParity

\* Tables keep their types, and rounds form threads (offers/service.py).
OffersInv == TypeOK /\ RoundsFormThreads

\* An offer is EXPIRED only when its responder had the whole 48-hour window,
\* however stale the row was when the sweep decided.
ExpiredOnlyAfterWindow ==
    \A o \in OfferId : offers[o].status = "EXPIRED" => offers[o].age = Window

\* The flags on the row tell exactly which expiry notifications went out, and
\* none went out twice: what makes re-runs of the sweeper idempotent.
NoticesMatchFlags ==
    \A o \in OfferId :
        /\ {notices[o][i] : i \in DOMAIN notices[o]} = offers[o].sent
        /\ \A i, j \in DOMAIN notices[o] : notices[o][i] = notices[o][j] => i = j

\* An accepted offer has what its acceptance is for: the visit request, or the
\* agreement when no visit is needed.  It fails if the two are not one commit.
AcceptedIsCarriedOut ==
    \A o \in OfferId : offers[o].status = "ACCEPTED" =>
        IF offers[o].requiresVisit THEN visits[o] > 0 ELSE agreements[o] > 0

\* Sessions working from stale rows may overwrite one answer by another, but
\* never put an answered round up for an answer again.
ClosedStaysClosed ==
    [][\A o \in OfferId : offers[o].status \in Closed => offers'[o].status \in Closed]_vars

\* "Acceptance: terminal." (service.py:9): nothing overwrites an acceptance.
AcceptanceIsTerminal ==
    [][\A o \in OfferId : offers[o].status = "ACCEPTED" => offers'[o].status = "ACCEPTED"]_vars

(* Refinement *)

LiveRows(s) == {o \in Of(s) : Live(o)}

\* With two rounds under negotiation, which the duplicate_offer check of
\* submit_offer is to prevent, a seeker is in no state of Negotiation.
LiveRound ==
    [s \in Seekers |-> IF LiveRows(s) = {} THEN 0
                       ELSE IF Cardinality(LiveRows(s)) > 1 THEN MaxRounds + 1
                       ELSE CHOOSE r \in {offers[o].round : o \in LiveRows(s)} : TRUE]

Deals == [s \in Seekers |-> Cardinality({o \in Of(s) : offers[o].status = "ACCEPTED"})]

Contract == INSTANCE Negotiation WITH live <- LiveRound, deals <- Deals

\* Executed one session at a time, the code implements the negotiation it
\* promises: one live round per seeker, rounds in order, and acceptances that
\* nothing takes back.
ImplementsNegotiation == Contract!Spec

\* Every round put to a party is answered or expires.
EveryRoundIsClosed ==
    \A o \in OfferId : Live(o) ~> ~Live(o)
=============================================================================
