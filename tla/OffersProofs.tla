---------------------------- MODULE OffersProofs ----------------------------
(***************************************************************************)
(* For every set of seekers, rows, overlapping requests and overlapping    *)
(* sweeps: the tables stay well-typed, the rounds form threads, an offer   *)
(* expires only after its window, and an acceptance is carried out.  One   *)
(* session at a time, the code implements the abstract Negotiation.  With  *)
(* one sweeper the flags of a row match the notifications sent.            *)
(***************************************************************************)
EXTENDS Offers, FiniteSetTheorems, TLAPS

\* What an open request took from its row still holds of the row: the columns
\* it relies on are never updated.
RequestsAgree ==
    \A w \in Workers :
        /\ req[w].op \in Response =>
             LET o == req[w].offer IN
             /\ o \in OfferId
             /\ offers[o].status # "absent"
             /\ req[w].requiresVisit = offers[o].requiresVisit
             /\ req[w].by = IF offers[o].landlordTurn THEN "landlord" ELSE "seeker"
        /\ req[w].op = "counter" => offers[req[w].offer].round < MaxRounds

\* A sweep has plans only for rows that exist, and expires only rows whose
\* window is over: an age once reached is kept.
PlansAreDue ==
    \A k \in Sweepers, o \in OfferId :
        /\ sweep[k].plan[o] # "none" => offers[o].status # "absent"
        /\ sweep[k].plan[o] = "h48" => offers[o].age = Window

IInv ==
    /\ TypeOK
    /\ RequestsAgree
    /\ PlansAreDue
    /\ ThreadShape
    /\ ExpiredOnlyAfterWindow
    /\ AcceptedIsCarriedOut
    /\ SubmitterParity

USE OffersAssumption

LEMMA InitIInv == Init => IInv
  <1> SUFFICES ASSUME Init PROVE IInv
      OBVIOUS
  <1>1. TypeOK
    <2>1. NoRow \in Offer
      BY DEF NoRow, Offer, Bucket, Closed, Window
    <2>2. Idle \in Request
      BY DEF Idle, Request, Response
    <2>3. NoSweep \in Sweep
      BY DEF NoSweep, Sweep, Bucket
    <2>4. QED
      BY <2>1, <2>2, <2>3 DEF Init, TypeOK
  <1>2. RequestsAgree
    BY DEF Init, RequestsAgree, Idle, Response
  <1>3. PlansAreDue
    BY DEF Init, PlansAreDue, NoSweep
  <1>4. ThreadShape /\ ExpiredOnlyAfterWindow /\ AcceptedIsCarriedOut /\ SubmitterParity
    BY DEF Init, ThreadShape, ExpiredOnlyAfterWindow, AcceptedIsCarriedOut,
           SubmitterParity, NoRow
  <1>5. QED
    BY <1>1, <1>2, <1>3, <1>4 DEF IInv

-----------------------------------------------------------------------------
(* What a step does to the rows *)

\* The updates the sessions make are updates of rows.
LEMMA RowUpdates ==
    ASSUME NEW r \in Offer
    PROVE  /\ \A st \in Closed : [r EXCEPT !.status = st] \in Offer
           /\ \A a \in 0..Window : [r EXCEPT !.age = a] \in Offer
           /\ \A b \in SUBSET Bucket : [r EXCEPT !.sent = b] \in Offer
           /\ \A b \in SUBSET Bucket :
                 [r EXCEPT !.status = "EXPIRED", !.sent = b] \in Offer
  BY DEF Offer, Closed

\* A row that exists keeps its identity, its answer if it has one, and an age
\* that has reached the window.
RowKept(o) ==
    offers[o].status # "absent" =>
        /\ offers'[o].status # "absent"
        /\ offers'[o].round = offers[o].round
        /\ offers'[o].parent = offers[o].parent
        /\ offers'[o].seeker = offers[o].seeker
        /\ offers'[o].landlordTurn = offers[o].landlordTurn
        /\ offers'[o].requiresVisit = offers[o].requiresVisit
        /\ offers'[o].by = offers[o].by
        /\ offers[o].status \in Closed => offers'[o].status \in Closed
        /\ offers[o].age = Window => offers'[o].age = Window

LEMMA StepKeepsRows ==
    ASSUME TypeOK, RequestsAgree, PlansAreDue, [Next]_vars
    PROVE  \A o \in OfferId : RowKept(o)
  <1> USE DEF RowKept
  <1>1. ASSUME NEW w \in Workers, NEW n \in OfferId, CommitSubmit(w, n)
        PROVE  \A o \in OfferId : RowKept(o)
    BY <1>1 DEF CommitSubmit, TypeOK, Offer
  <1>2. ASSUME NEW w \in Workers, NEW n \in OfferId, CommitCounter(w, n)
        PROVE  \A o \in OfferId : RowKept(o)
    <2> DEFINE c == req[w].offer
    <2>1. c \in OfferId /\ c # n
      BY <1>2 DEF CommitCounter, RequestsAgree, Response
    <2>2. offers'[c] = [offers[c] EXCEPT !.status = "COUNTERED"]
      BY <1>2, <2>1 DEF CommitCounter, TypeOK
    <2>3. RowKept(c)
      BY <2>1, <2>2 DEF TypeOK, Offer, Closed
    <2>4. RowKept(n)
      BY <1>2 DEF CommitCounter
    <2>5. \A o \in OfferId \ {c, n} : offers'[o] = offers[o]
      BY <1>2 DEF CommitCounter, TypeOK
    <2>6. QED
      BY <2>3, <2>4, <2>5
  <1>3. ASSUME NEW w \in Workers, CommitAccept(w)
        PROVE  \A o \in OfferId : RowKept(o)
    BY SMTT(20), <1>3 DEF CommitAccept, TypeOK, Offer, Closed
  <1>4. ASSUME NEW w \in Workers, CommitReject(w)
        PROVE  \A o \in OfferId : RowKept(o)
    BY <1>4 DEF CommitReject, TypeOK, Offer, Closed
  <1>5. ASSUME NEW k \in Sweepers, CommitSweep(k)
        PROVE  \A o \in OfferId : RowKept(o)
    <2>1. \A o \in OfferId : offers'[o] = RowAfterSweep(k, o)
      BY <1>5 DEF CommitSweep
    <2>2. ASSUME NEW o \in OfferId PROVE RowKept(o)
      <3> DEFINE b == sweep[k].seen[o] \cup {sweep[k].plan[o]}
      <3>0. offers[o] \in Offer
        BY DEF TypeOK
      <3>1. CASE sweep[k].plan[o] = "none"
        BY <2>1, <3>1 DEF RowAfterSweep
      <3>2. CASE sweep[k].plan[o] = "h48"
        <4>1. offers'[o] = [offers[o] EXCEPT !.status = "EXPIRED", !.sent = b]
          BY <2>1, <3>2 DEF RowAfterSweep
        <4>2. QED
          BY <3>0, <4>1 DEF Offer, Closed
      <3>3. CASE sweep[k].plan[o] \notin {"none", "h48"}
        <4>1. offers'[o] = [offers[o] EXCEPT !.sent = b]
          BY <2>1, <3>3 DEF RowAfterSweep
        <4>2. QED
          BY <3>0, <4>1 DEF Offer
      <3>4. QED
        BY <3>1, <3>2, <3>3
    <2>3. QED
      BY <2>2
  <1>6. ASSUME NEW n \in OfferId, TimePasses(n)
        PROVE  \A o \in OfferId : RowKept(o)
    BY SMTT(20), <1>6 DEF TimePasses, TypeOK, Offer, Closed
  <1>7. ASSUME UNCHANGED offers
        PROVE  \A o \in OfferId : RowKept(o)
    BY <1>7
  <1>8. QED
    BY <1>1, <1>2, <1>3, <1>4, <1>5, <1>6, <1>7
       DEF Next, Requests, Sweeping, Environment, Abort, BeginSubmit, BeginRespond,
           BeginSweep, AbortSweep, VisitCompletes, vars

\* Rows come into being by a submission or a counter, and in no other way.
LEMMA OnlyInsertsAddRows ==
    ASSUME TypeOK, RequestsAgree, PlansAreDue, [Next]_vars,
           NEW o \in OfferId, offers[o].status = "absent", offers'[o].status # "absent"
    PROVE  \E w \in Workers : CommitSubmit(w, o) \/ CommitCounter(w, o)
  <1>1. ASSUME NEW w \in Workers, NEW n \in OfferId, CommitSubmit(w, n) \/ CommitCounter(w, n)
        PROVE  n = o
    <2>1. CommitCounter(w, n) => req[w].offer \in OfferId /\ offers[req[w].offer].status # "absent"
      BY DEF CommitCounter, RequestsAgree, Response
    <2>2. QED
      BY <1>1, <2>1 DEF CommitSubmit, CommitCounter, TypeOK
  <1>2. ASSUME NEW w \in Workers, CommitAccept(w) \/ CommitReject(w) PROVE FALSE
    <2>1. req[w].offer \in OfferId /\ offers[req[w].offer].status # "absent"
      BY <1>2 DEF CommitAccept, CommitReject, RequestsAgree, Response
    <2>2. QED
      BY <1>2, <2>1 DEF CommitAccept, CommitReject, TypeOK
  <1>3. ASSUME NEW k \in Sweepers, CommitSweep(k) PROVE FALSE
    <2>1. sweep[k].plan[o] = "none"
      BY DEF PlansAreDue
    <2>2. QED
      BY <1>3, <2>1 DEF CommitSweep, RowAfterSweep
  <1>4. ASSUME NEW n \in OfferId, TimePasses(n) PROVE FALSE
    BY <1>4 DEF TimePasses, TypeOK
  <1>5. QED
    BY <1>1, <1>2, <1>3, <1>4
       DEF Next, Requests, Sweeping, Environment, Abort, BeginSubmit, BeginRespond,
           BeginSweep, AbortSweep, VisitCompletes, vars

-----------------------------------------------------------------------------
(* Each part of the invariant *)

LEMMA NextTypeOK ==
    ASSUME TypeOK, RequestsAgree, [Next]_vars
    PROVE  TypeOK'
  <1> USE DEF TypeOK
  <1>1. ASSUME NEW w \in Workers, Abort(w) PROVE TypeOK'
    BY <1>1 DEF Abort, Finish, Idle, Request, Response
  <1>2. ASSUME NEW w \in Workers, NEW s \in Seekers, BeginSubmit(w, s) PROVE TypeOK'
    BY <1>2 DEF BeginSubmit, CompletedVisitExists, Request, Response
  <1>3. ASSUME NEW w \in Workers, NEW op \in Response, NEW o \in OfferId,
               NEW actor \in Actor, BeginRespond(w, op, o, actor)
        PROVE  TypeOK'
    BY <1>3 DEF BeginRespond, Request, Offer
  <1>4. ASSUME NEW w \in Workers, NEW o \in OfferId, CommitSubmit(w, o) PROVE TypeOK'
    <2>1. FirstRound(req[w].seeker, req[w].requiresVisit) \in Offer
      BY DEF FirstRound, Offer, Request, Bucket, Closed, Window
    <2>2. QED
      BY <1>4, <2>1 DEF CommitSubmit, Finish, Idle, Request, Response
  <1>5. ASSUME NEW w \in Workers, NEW n \in OfferId, CommitCounter(w, n) PROVE TypeOK'
    <2> DEFINE o == req[w].offer
    <2>1. o \in OfferId /\ offers[o].round < MaxRounds
      BY <1>5 DEF CommitCounter, RequestsAgree, Response
    <2>2. NextRound(o, req[w].by) \in Offer
      <3>1. offers[o] \in Offer /\ req[w] \in Request
        BY <2>1
      <3>2. offers[o].round + 1 \in 1..MaxRounds
        <4>1. offers[o].round \in 1..MaxRounds
          BY <3>1 DEF Offer
        <4>2. QED
          BY ONLY <2>1, <4>1, OffersAssumption
      <3>3. QED
        BY <2>1, <3>1, <3>2, SMTT(30) DEF NextRound, Offer, Request, Window
    <2>3. [offers[o] EXCEPT !.status = "COUNTERED"] \in Offer
      BY <2>1, RowUpdates DEF Closed
    <2>4. offers' \in [OfferId -> Offer]
      BY <1>5, <2>1, <2>2, <2>3 DEF CommitCounter
    <2>5. QED
      BY <1>5, <2>4 DEF CommitCounter, Finish, Idle, Request, Response
  <1>6. ASSUME NEW w \in Workers, CommitAccept(w) PROVE TypeOK'
    <2>1. req[w].offer \in OfferId
      BY <1>6 DEF CommitAccept, RequestsAgree, Response
    <2>2. offers' \in [OfferId -> Offer]
      BY <1>6, <2>1, RowUpdates DEF CommitAccept, Closed
    <2>3. visits' \in [OfferId -> Nat] /\ agreements' \in [OfferId -> Nat]
      <3>1. visits \in [OfferId -> Nat] /\ agreements \in [OfferId -> Nat]
        OBVIOUS
      <3>2. \/ visits' = [visits EXCEPT ![req[w].offer] = @ + 1] /\ agreements' = agreements
            \/ visits' = visits /\ GenerateAgreement(req[w].offer)
        BY <1>6 DEF CommitAccept
      <3>3. QED
        BY ONLY <2>1, <3>1, <3>2 DEF GenerateAgreement
    <2>4. QED
      BY <1>6, <2>2, <2>3 DEF CommitAccept, Finish, Idle, Request, Response
  <1>7. ASSUME NEW w \in Workers, CommitReject(w) PROVE TypeOK'
    <2>1. req[w].offer \in OfferId
      BY <1>7 DEF CommitReject, RequestsAgree, Response
    <2>2. offers' \in [OfferId -> Offer]
      BY <1>7, <2>1, RowUpdates DEF CommitReject, Closed
    <2>3. QED
      BY <1>7, <2>2 DEF CommitReject, Finish, Idle, Request, Response
  <1>8. ASSUME NEW k \in Sweepers, BeginSweep(k) PROVE TypeOK'
    <2>1. [ open |-> TRUE,
            plan |-> [o \in OfferId |-> IF o \in Swept THEN Due(o) ELSE "none"],
            seen |-> [o \in OfferId |-> IF o \in Swept THEN offers[o].sent ELSE {}] ]
          \in Sweep
      BY DEF Sweep, Due, Bucket, Offer
    <2>2. QED
      BY <1>8, <2>1 DEF BeginSweep
  <1>9. ASSUME NEW k \in Sweepers, CommitSweep(k) PROVE TypeOK'
    <2>1. ASSUME NEW o \in OfferId PROVE RowAfterSweep(k, o) \in Offer
      <3>1. sweep[k].plan[o] \in Bucket \cup {"none"} /\ sweep[k].seen[o] \in SUBSET Bucket
        BY DEF Sweep
      <3>2. CASE sweep[k].plan[o] = "none"
        BY <3>2 DEF RowAfterSweep
      <3>3. CASE sweep[k].plan[o] = "h48"
        BY <3>1, <3>3, RowUpdates DEF RowAfterSweep, Bucket
      <3>4. CASE sweep[k].plan[o] \notin {"none", "h48"}
        BY <3>1, <3>4, RowUpdates DEF RowAfterSweep, Bucket
      <3>5. QED
        BY <3>2, <3>3, <3>4
    <2>2. ASSUME NEW o \in OfferId, sweep[k].plan[o] # "none"
          PROVE  Append(notices[o], sweep[k].plan[o]) \in Seq(Bucket)
      BY <2>2 DEF Sweep
    <2>3. NoSweep \in Sweep
      BY DEF NoSweep, Sweep, Bucket
    <2>4. QED
      BY <1>9, <2>1, <2>2, <2>3 DEF CommitSweep
  <1>10. ASSUME NEW k \in Sweepers, AbortSweep(k) PROVE TypeOK'
    BY <1>10 DEF AbortSweep, NoSweep, Sweep
  <1>11. ASSUME NEW o \in OfferId, TimePasses(o) PROVE TypeOK'
    <2>1. offers[o].age + 1 \in 0..Window
      <3>1. offers[o].age \in 0..Window /\ offers[o].age < Window
        BY <1>11 DEF TimePasses, Offer
      <3>2. QED
        BY ONLY <3>1 DEF Window
    <2>2. QED
      BY <1>11, <2>1, RowUpdates DEF TimePasses
  <1>12. ASSUME NEW o \in OfferId, VisitCompletes(o) PROVE TypeOK'
    BY <1>12 DEF VisitCompletes, GenerateAgreement
  <1>13. CASE UNCHANGED vars
    BY <1>13 DEF vars
  <1>14. QED
    BY <1>1, <1>2, <1>3, <1>4, <1>5, <1>6, <1>7, <1>8, <1>9, <1>10, <1>11, <1>12, <1>13
       DEF Next, Requests, Sweeping, Environment

LEMMA NextRequestsAgree ==
    ASSUME TypeOK, RequestsAgree, PlansAreDue, [Next]_vars
    PROVE  RequestsAgree'
  <1> DEFINE Agrees(w) ==
        /\ req[w].op \in Response =>
             LET o == req[w].offer IN
             /\ o \in OfferId
             /\ offers[o].status # "absent"
             /\ req[w].requiresVisit = offers[o].requiresVisit
             /\ req[w].by = IF offers[o].landlordTurn THEN "landlord" ELSE "seeker"
        /\ req[w].op = "counter" => offers[req[w].offer].round < MaxRounds
  <1>1. \A o \in OfferId : RowKept(o)
    BY StepKeepsRows
  <1>2. ASSUME NEW w \in Workers, req'[w] = req[w] PROVE Agrees(w)'
    BY <1>1, <1>2 DEF RequestsAgree, RowKept, Response
  <1>3. ASSUME NEW w \in Workers, req'[w] = Idle PROVE Agrees(w)'
    BY <1>3 DEF Idle, Response
  <1>4. ASSUME NEW v \in Workers, Finish(v) PROVE RequestsAgree'
    <2>1. \A w \in Workers : req'[w] = req[w] \/ req'[w] = Idle
      BY <1>4 DEF Finish, TypeOK
    <2>2. QED
      BY <1>2, <1>3, <2>1 DEF RequestsAgree
  <1>5. ASSUME NEW v \in Workers, NEW s \in Seekers, BeginSubmit(v, s)
        PROVE  RequestsAgree'
    <2>1. Agrees(v)'
      BY <1>5 DEF BeginSubmit, TypeOK, Response
    <2>2. \A w \in Workers \ {v} : req'[w] = req[w]
      BY <1>5 DEF BeginSubmit, TypeOK
    <2>3. QED
      BY <1>2, <2>1, <2>2 DEF RequestsAgree
  <1>6. ASSUME NEW v \in Workers, NEW op \in Response, NEW o \in OfferId,
               NEW actor \in Actor, BeginRespond(v, op, o, actor)
        PROVE  RequestsAgree'
    <2>1. Agrees(v)'
      <3>1. req'[v] = [ op |-> op, seeker |-> None, offer |-> o,
                        requiresVisit |-> offers[o].requiresVisit,
                        by |-> IF actor = "landlord" THEN "landlord" ELSE "seeker" ]
        BY <1>6 DEF BeginRespond, TypeOK
      <3>2. /\ offers' = offers
            /\ offers[o].status = "PENDING"
            /\ op = "counter" => offers[o].round < MaxRounds
            /\ IF offers[o].landlordTurn THEN actor = "landlord" ELSE actor = offers[o].seeker
        BY <1>6 DEF BeginRespond, IsOpenForResponse, IsTurnOf, BelowRoundCap
      <3>3. offers[o].landlordTurn \/ actor # "landlord"
        BY <3>2 DEF TypeOK, Offer, Actor
      <3>4. QED
        BY <3>1, <3>2, <3>3 DEF Response
    <2>2. \A w \in Workers \ {v} : req'[w] = req[w]
      BY <1>6 DEF BeginRespond, TypeOK
    <2>3. QED
      BY <1>2, <2>1, <2>2 DEF RequestsAgree
  <1>7. ASSUME UNCHANGED req PROVE RequestsAgree'
    BY <1>2, <1>7 DEF RequestsAgree
  <1>8. QED
    BY <1>4, <1>5, <1>6, <1>7
       DEF Next, Requests, Sweeping, Environment, Abort, CommitSubmit, CommitCounter,
           CommitAccept, CommitReject, BeginSweep, CommitSweep, AbortSweep, TimePasses,
           VisitCompletes, vars

LEMMA NextPlansAreDue ==
    ASSUME TypeOK, RequestsAgree, PlansAreDue, [Next]_vars
    PROVE  PlansAreDue'
  <1> DEFINE Due1(k, o) ==
        /\ sweep[k].plan[o] # "none" => offers[o].status # "absent"
        /\ sweep[k].plan[o] = "h48" => offers[o].age = Window
  <1>1. \A o \in OfferId : RowKept(o)
    BY StepKeepsRows
  <1>2. ASSUME NEW k \in Sweepers, NEW o \in OfferId, sweep'[k] = sweep[k]
        PROVE  Due1(k, o)'
    BY <1>1, <1>2 DEF PlansAreDue, RowKept
  <1>3. ASSUME NEW k \in Sweepers, NEW o \in OfferId, sweep'[k] = NoSweep
        PROVE  Due1(k, o)'
    BY <1>3 DEF NoSweep
  <1>4. ASSUME NEW k \in Sweepers, BeginSweep(k) PROVE PlansAreDue'
    <2>1. ASSUME NEW o \in OfferId PROVE Due1(k, o)'
      <3>1. sweep'[k].plan[o] = IF o \in Swept THEN Due(o) ELSE "none"
        BY <1>4 DEF BeginSweep, TypeOK
      <3>2. offers[o].age \in 0..Window /\ offers' = offers
        BY <1>4 DEF BeginSweep, TypeOK, Offer
      <3>3. Due(o) = "h48" => offers[o].age = Window
        BY <3>2 DEF Due, Window
      <3>4. QED
        BY <3>1, <3>2, <3>3 DEF Swept
    <2>2. \A i \in Sweepers \ {k} : sweep'[i] = sweep[i]
      BY <1>4 DEF BeginSweep, TypeOK
    <2>3. QED
      BY <1>2, <2>1, <2>2 DEF PlansAreDue
  <1>5. ASSUME NEW k \in Sweepers, CommitSweep(k) \/ AbortSweep(k) PROVE PlansAreDue'
    <2>1. \A i \in Sweepers : sweep'[i] = sweep[i] \/ sweep'[i] = NoSweep
      BY <1>5 DEF CommitSweep, AbortSweep, TypeOK
    <2>2. QED
      BY <1>2, <1>3, <2>1 DEF PlansAreDue
  <1>6. ASSUME UNCHANGED sweep PROVE PlansAreDue'
    BY <1>2, <1>6 DEF PlansAreDue
  <1>7. QED
    BY <1>4, <1>5, <1>6
       DEF Next, Requests, Sweeping, Environment, Abort, BeginSubmit, BeginRespond,
           CommitSubmit, CommitCounter, CommitAccept, CommitReject, TimePasses,
           VisitCompletes, vars

\* The shape of one row within its thread.
Shaped(o) ==
    offers[o].status # "absent" =>
        IF offers[o].parent = None
        THEN offers[o].round = 1 /\ offers[o].landlordTurn /\ offers[o].by = "seeker"
        ELSE Answers(o, offers[o].parent)

LEMMA NextThreadShape ==
    ASSUME TypeOK, RequestsAgree, PlansAreDue, ThreadShape, [Next]_vars
    PROVE  ThreadShape'
  <1>1. \A o \in OfferId : RowKept(o)
    BY StepKeepsRows
  <1>2. ASSUME NEW o \in OfferId, offers[o].status # "absent" PROVE Shaped(o)'
    <2>1. Shaped(o)
      BY DEF ThreadShape, Shaped
    <2>2. CASE offers[o].parent = None
      BY <1>1, <1>2, <2>1, <2>2 DEF Shaped, RowKept
    <2>3. CASE offers[o].parent # None
      <3>1. Answers(o, offers[o].parent)
        BY <1>2, <2>1, <2>3 DEF Shaped
      <3>2. offers[o].parent \in OfferId /\ offers[offers[o].parent].status # "absent"
        BY <3>1 DEF Answers, Closed
      <3>3. QED
        BY <1>1, <1>2, <2>3, <3>1, <3>2 DEF Shaped, Answers, RowKept
    <2>4. QED
      BY <2>2, <2>3
  <1>3. ASSUME NEW w \in Workers, NEW n \in OfferId, CommitSubmit(w, n)
        PROVE  ThreadShape'
    <2>1. Shaped(n)'
      <3>1. offers'[n] = FirstRound(req[w].seeker, req[w].requiresVisit)
        BY <1>3 DEF CommitSubmit, TypeOK
      <3>2. QED
        BY <3>1 DEF Shaped, FirstRound
    <2>2. \A o \in OfferId \ {n} : offers'[o] = offers[o]
      BY <1>3 DEF CommitSubmit, TypeOK
    <2>3. QED
      BY <1>2, <2>1, <2>2 DEF ThreadShape, Shaped
  <1>4. ASSUME NEW w \in Workers, NEW n \in OfferId, CommitCounter(w, n)
        PROVE  ThreadShape'
    <2> DEFINE c == req[w].offer
    <2>1. /\ c \in OfferId
          /\ offers[c].status # "absent"
          /\ req[w].by = IF offers[c].landlordTurn THEN "landlord" ELSE "seeker"
      BY <1>4 DEF CommitCounter, RequestsAgree, Response
    <2>2. c # n
      BY <1>4, <2>1 DEF CommitCounter
    <2>3. offers'[n] = NextRound(c, req[w].by)
      BY <1>4, <2>1, <2>2 DEF CommitCounter, TypeOK
    <2>4. offers'[c].status \in Closed
      <3>1. offers'[c] = [offers[c] EXCEPT !.status = "COUNTERED"]
        BY <1>4, <2>1, <2>2 DEF CommitCounter, TypeOK
      <3>2. QED
        BY <2>1, <3>1 DEF TypeOK, Offer, Closed
    <2>5. Shaped(n)'
      <3>1. c # None
        BY <2>1
      <3>2. RowKept(c)
        BY <1>1, <2>1
      <3>3. QED
        BY <2>1, <2>3, <2>4, <3>1, <3>2 DEF Shaped, Answers, NextRound, RowKept
    <2>6. \A o \in OfferId \ {n} : offers[o].status = "absent" => offers'[o].status = "absent"
      BY <1>4, <2>1 DEF CommitCounter, TypeOK
    <2>7. QED
      BY <1>2, <2>5, <2>6 DEF ThreadShape, Shaped
  <1>5. ASSUME \A o \in OfferId : offers[o].status = "absent" => offers'[o].status = "absent"
        PROVE  ThreadShape'
    BY <1>2, <1>5 DEF ThreadShape, Shaped
  <1>6. ASSUME NEW w \in Workers, CommitAccept(w) \/ CommitReject(w)
        PROVE  ThreadShape'
    <2>1. req[w].offer \in OfferId /\ offers[req[w].offer].status # "absent"
      BY <1>6 DEF CommitAccept, CommitReject, RequestsAgree, Response
    <2>2. QED
      BY <1>5, <1>6, <2>1 DEF CommitAccept, CommitReject, TypeOK
  <1>7. ASSUME NEW k \in Sweepers, CommitSweep(k) PROVE ThreadShape'
    <2>1. ASSUME NEW o \in OfferId, offers[o].status = "absent"
          PROVE  offers'[o].status = "absent"
      <3>1. sweep[k].plan[o] = "none"
        BY <2>1 DEF PlansAreDue
      <3>2. QED
        BY <1>7, <2>1, <3>1 DEF CommitSweep, RowAfterSweep
    <2>2. QED
      BY <1>5, <2>1
  <1>8. ASSUME NEW o \in OfferId, TimePasses(o) PROVE ThreadShape'
    BY <1>5, <1>8 DEF TimePasses, TypeOK
  <1>9. ASSUME UNCHANGED offers PROVE ThreadShape'
    BY <1>5, <1>9
  <1>10. QED
    BY <1>3, <1>4, <1>6, <1>7, <1>8, <1>9
       DEF Next, Requests, Sweeping, Environment, Abort, BeginSubmit, BeginRespond,
           BeginSweep, AbortSweep, VisitCompletes, vars

LEMMA NextExpiredOnlyAfterWindow ==
    ASSUME TypeOK, RequestsAgree, PlansAreDue, ExpiredOnlyAfterWindow, [Next]_vars
    PROVE  ExpiredOnlyAfterWindow'
  <1>1. \A o \in OfferId : RowKept(o)
    BY StepKeepsRows
  <1>2. ASSUME NEW o \in OfferId, offers[o].status = "EXPIRED"
        PROVE  offers'[o].age = Window
    BY <1>1, <1>2 DEF RowKept, ExpiredOnlyAfterWindow
  <1>3. ASSUME \A o \in OfferId : offers'[o].status = "EXPIRED" => offers[o].status = "EXPIRED"
        PROVE  ExpiredOnlyAfterWindow'
    BY <1>2, <1>3 DEF ExpiredOnlyAfterWindow
  <1>4. ASSUME NEW k \in Sweepers, CommitSweep(k) PROVE ExpiredOnlyAfterWindow'
    <2>1. ASSUME NEW o \in OfferId, offers'[o].status = "EXPIRED"
          PROVE  offers'[o].age = Window
      <3>1. offers'[o] = RowAfterSweep(k, o) /\ offers[o] \in Offer
        BY <1>4 DEF CommitSweep, TypeOK
      <3>2. CASE sweep[k].plan[o] = "none"
        BY <1>2, <2>1, <3>1, <3>2 DEF RowAfterSweep
      <3>3. CASE sweep[k].plan[o] = "h48"
        <4>1. offers[o].age = Window /\ offers[o].status # "absent"
          BY <3>3 DEF PlansAreDue
        <4>2. QED
          BY <1>1, <4>1 DEF RowKept
      <3>4. CASE sweep[k].plan[o] \notin {"none", "h48"}
        <4> DEFINE b == sweep[k].seen[o] \cup {sweep[k].plan[o]}
        <4>1. offers'[o] = [offers[o] EXCEPT !.sent = b]
          BY <3>1, <3>4 DEF RowAfterSweep
        <4>2. offers[o].status = "EXPIRED"
          BY <2>1, <3>1, <4>1 DEF Offer
        <4>3. QED
          BY <1>2, <4>2
      <3>5. QED
        BY <3>2, <3>3, <3>4
    <2>2. QED
      BY <2>1 DEF ExpiredOnlyAfterWindow
  <1>5. ASSUME NEW w \in Workers, NEW n \in OfferId, CommitSubmit(w, n)
        PROVE  ExpiredOnlyAfterWindow'
    BY <1>3, <1>5 DEF CommitSubmit, FirstRound, TypeOK
  <1>6. ASSUME NEW w \in Workers, NEW n \in OfferId, CommitCounter(w, n)
        PROVE  ExpiredOnlyAfterWindow'
    <2> DEFINE c == req[w].offer
    <2>1. c \in OfferId /\ c # n
      BY <1>6 DEF CommitCounter, RequestsAgree, Response
    <2>2. offers'[n] = NextRound(c, req[w].by)
      BY <1>6, <2>1 DEF CommitCounter, TypeOK
    <2>3. offers'[c] = [offers[c] EXCEPT !.status = "COUNTERED"] /\ offers[c] \in Offer
      BY <1>6, <2>1 DEF CommitCounter, TypeOK
    <2>4. offers'[n].status = "PENDING" /\ offers'[c].status = "COUNTERED"
      BY <2>2, <2>3 DEF NextRound, Offer
    <2>5. \A o \in OfferId \ {c, n} : offers'[o] = offers[o]
      BY <1>6 DEF CommitCounter, TypeOK
    <2>6. QED
      BY <1>3, <2>4, <2>5
  <1>7. ASSUME NEW w \in Workers, CommitAccept(w) \/ CommitReject(w)
        PROVE  ExpiredOnlyAfterWindow'
    <2>1. req[w].offer \in OfferId
      BY <1>7 DEF CommitAccept, CommitReject, RequestsAgree, Response
    <2>2. \E st \in {"ACCEPTED", "REJECTED"} :
             offers' = [offers EXCEPT ![req[w].offer].status = st]
      BY <1>7 DEF CommitAccept, CommitReject
    <2>3. QED
      BY <1>3, <2>1, <2>2 DEF TypeOK, Offer
  <1>8. ASSUME NEW o \in OfferId, TimePasses(o) PROVE ExpiredOnlyAfterWindow'
    BY <1>3, <1>8 DEF TimePasses, TypeOK, Offer
  <1>9. ASSUME UNCHANGED offers PROVE ExpiredOnlyAfterWindow'
    BY <1>3, <1>9
  <1>10. QED
    BY <1>4, <1>5, <1>6, <1>7, <1>8, <1>9
       DEF Next, Requests, Sweeping, Environment, Abort, BeginSubmit, BeginRespond,
           BeginSweep, AbortSweep, VisitCompletes, vars

LEMMA NextAcceptedIsCarriedOut ==
    ASSUME TypeOK, RequestsAgree, PlansAreDue, AcceptedIsCarriedOut, [Next]_vars
    PROVE  AcceptedIsCarriedOut'
  <1> DEFINE Carried(o) == IF offers[o].requiresVisit THEN visits[o] > 0 ELSE agreements[o] > 0
  <1>1. \A o \in OfferId : RowKept(o)
    BY StepKeepsRows
  <1>2. ASSUME NEW o \in OfferId,
               offers[o].status # "absent",
               Carried(o),
               visits'[o] >= visits[o],
               agreements'[o] >= agreements[o]
        PROVE  Carried(o)'
    <2>1. offers'[o].requiresVisit = offers[o].requiresVisit
      BY <1>1, <1>2 DEF RowKept
    <2>2. /\ visits[o] \in Nat /\ agreements[o] \in Nat
          /\ visits'[o] \in Nat /\ agreements'[o] \in Nat
      BY NextTypeOK DEF TypeOK
    <2>3. QED
      BY <1>2, <2>1, <2>2
  <1>3. ASSUME \A o \in OfferId : offers'[o].status = "ACCEPTED" => offers[o].status = "ACCEPTED",
               \A o \in OfferId : visits'[o] >= visits[o] /\ agreements'[o] >= agreements[o]
        PROVE  AcceptedIsCarriedOut'
    BY <1>2, <1>3 DEF AcceptedIsCarriedOut
  <1>4. \A o \in OfferId : visits[o] >= visits[o] /\ agreements[o] >= agreements[o]
    BY DEF TypeOK
  <1>5. ASSUME NEW w \in Workers, CommitAccept(w) PROVE AcceptedIsCarriedOut'
    <2>0. PICK c \in OfferId : c = req[w].offer
      BY <1>5 DEF CommitAccept, RequestsAgree, Response
    <2>1. /\ offers[c].status # "absent"
          /\ req[w].requiresVisit = offers[c].requiresVisit
      BY <1>5, <2>0 DEF CommitAccept, RequestsAgree, Response
    <2>2. offers'[c].requiresVisit = offers[c].requiresVisit
      BY <1>1, <2>1 DEF RowKept
    <2>3. visits \in [OfferId -> Nat] /\ agreements \in [OfferId -> Nat]
      BY DEF TypeOK
    <2>4. IF offers[c].requiresVisit
          THEN visits' = [visits EXCEPT ![c] = @ + 1] /\ agreements' = agreements
          ELSE GenerateAgreement(c) /\ visits' = visits
      BY <1>5, <2>0, <2>1 DEF CommitAccept
    <2>5. Carried(c)'
      <3>1. CASE offers[c].requiresVisit
        BY <2>1, <2>2, <2>3, <2>4, <3>1
      <3>2. CASE ~offers[c].requiresVisit
        <4>1. agreements'[c] = IF agreements[c] = 0 THEN 1 ELSE agreements[c]
          BY <2>1, <2>3, <2>4, <3>2 DEF GenerateAgreement
        <4>2. agreements'[c] > 0
          BY <2>1, <2>3, <4>1
        <4>3. QED
          BY <2>2, <3>2, <4>2
      <3>3. QED
        BY <3>1, <3>2
    <2>6. \A o \in OfferId : visits'[o] >= visits[o] /\ agreements'[o] >= agreements[o]
      BY <2>1, <2>3, <2>4 DEF GenerateAgreement
    <2>7. \A o \in OfferId \ {c} : offers'[o] = offers[o]
      BY <1>5, <2>0 DEF CommitAccept, TypeOK
    <2>8. ASSUME NEW o \in OfferId, o # c, offers'[o].status = "ACCEPTED"
          PROVE  Carried(o)'
      <3>1. offers[o].status = "ACCEPTED"
        BY <2>7, <2>8
      <3>2. Carried(o)
        BY <3>1 DEF AcceptedIsCarriedOut
      <3>3. QED
        BY <1>2, <2>6, <3>1, <3>2
    <2>9. QED
      BY <2>5, <2>8 DEF AcceptedIsCarriedOut
  <1>6. ASSUME NEW o \in OfferId, VisitCompletes(o) PROVE AcceptedIsCarriedOut'
    <2>1. agreements \in [OfferId -> Nat]
      BY DEF TypeOK
    <2>2. \A p \in OfferId : agreements'[p] >= agreements[p]
      BY <1>6, <2>1 DEF VisitCompletes, GenerateAgreement
    <2>3. QED
      BY <1>3, <1>4, <1>6, <2>2 DEF VisitCompletes
  <1>7. ASSUME NEW k \in Sweepers, CommitSweep(k) PROVE AcceptedIsCarriedOut'
    <2>1. ASSUME NEW o \in OfferId, offers'[o].status = "ACCEPTED"
          PROVE  offers[o].status = "ACCEPTED"
      <3> DEFINE b == sweep[k].seen[o] \cup {sweep[k].plan[o]}
      <3>1. offers'[o] = RowAfterSweep(k, o) /\ offers[o] \in Offer
        BY <1>7 DEF CommitSweep, TypeOK
      <3>2. \/ offers'[o] = offers[o]
            \/ offers'[o] = [offers[o] EXCEPT !.status = "EXPIRED", !.sent = b]
            \/ offers'[o] = [offers[o] EXCEPT !.sent = b]
        BY <3>1 DEF RowAfterSweep
      <3>3. QED
        BY <2>1, <3>1, <3>2 DEF Offer
    <2>2. QED
      BY <1>3, <1>4, <1>7, <2>1 DEF CommitSweep
  <1>8. ASSUME NEW w \in Workers, NEW n \in OfferId, CommitSubmit(w, n)
        PROVE  AcceptedIsCarriedOut'
    BY <1>3, <1>4, <1>8 DEF CommitSubmit, FirstRound, TypeOK
  <1>9. ASSUME NEW w \in Workers, NEW n \in OfferId, CommitCounter(w, n)
        PROVE  AcceptedIsCarriedOut'
    <2> DEFINE c == req[w].offer
    <2>1. c \in OfferId /\ c # n
      BY <1>9 DEF CommitCounter, RequestsAgree, Response
    <2>2. offers'[n] = NextRound(c, req[w].by)
      BY <1>9, <2>1 DEF CommitCounter, TypeOK
    <2>3. offers'[c] = [offers[c] EXCEPT !.status = "COUNTERED"] /\ offers[c] \in Offer
      BY <1>9, <2>1 DEF CommitCounter, TypeOK
    <2>4. offers'[n].status = "PENDING" /\ offers'[c].status = "COUNTERED"
      BY <2>2, <2>3 DEF NextRound, Offer
    <2>5. \A o \in OfferId \ {c, n} : offers'[o] = offers[o]
      BY <1>9 DEF CommitCounter, TypeOK
    <2>6. QED
      BY <1>3, <1>4, <1>9, <2>4, <2>5 DEF CommitCounter
  <1>10. ASSUME NEW w \in Workers, CommitReject(w) PROVE AcceptedIsCarriedOut'
    <2>1. req[w].offer \in OfferId
      BY <1>10 DEF CommitReject, RequestsAgree, Response
    <2>2. QED
      BY <1>3, <1>4, <1>10, <2>1 DEF CommitReject, TypeOK, Offer
  <1>11. ASSUME NEW o \in OfferId, TimePasses(o) PROVE AcceptedIsCarriedOut'
    BY <1>3, <1>4, <1>11 DEF TimePasses, TypeOK, Offer
  <1>12. ASSUME UNCHANGED <<offers, visits, agreements>> PROVE AcceptedIsCarriedOut'
    BY <1>3, <1>4, <1>12
  <1>13. QED
    BY <1>5, <1>6, <1>7, <1>8, <1>9, <1>10, <1>11, <1>12
       DEF Next, Requests, Sweeping, Environment, Abort, BeginSubmit, BeginRespond,
           BeginSweep, AbortSweep, vars

LEMMA ParityFlips ==
    ASSUME NEW n \in Nat
    PROVE  ((n + 1) % 2 = 1) <=> ~(n % 2 = 1)
  OBVIOUS

\* Parity follows from the shape of the thread alone, one row at a time.
Parity(o) ==
    LET odd == offers[o].round % 2 = 1 IN
    /\ offers[o].by = IF odd THEN "seeker" ELSE "landlord"
    /\ offers[o].landlordTurn = odd

LEMMA NextSubmitterParity ==
    ASSUME TypeOK, RequestsAgree, PlansAreDue, SubmitterParity, [Next]_vars
    PROVE  SubmitterParity'
  <1>1. \A o \in OfferId : RowKept(o)
    BY StepKeepsRows
  <1>2. ASSUME NEW o \in OfferId, offers[o].status # "absent" PROVE Parity(o)'
    BY <1>1, <1>2 DEF RowKept, SubmitterParity, Parity
  <1>3. ASSUME NEW o \in OfferId, offers[o].status = "absent", offers'[o].status # "absent"
        PROVE  Parity(o)'
    <2>1. CASE \E w \in Workers : CommitSubmit(w, o)
      <3>1. PICK w \in Workers : CommitSubmit(w, o)
        BY <2>1
      <3>2. offers'[o] = FirstRound(req[w].seeker, req[w].requiresVisit)
        BY <3>1 DEF CommitSubmit, TypeOK
      <3>3. /\ offers'[o].round = 1
            /\ offers'[o].landlordTurn = TRUE
            /\ offers'[o].by = "seeker"
        BY <3>2 DEF FirstRound
      <3>4. 1 % 2 = 1
        OBVIOUS
      <3>5. QED
        BY <3>3, <3>4 DEF Parity
    <2>2. CASE \E w \in Workers : CommitCounter(w, o)
      <3>1. PICK w \in Workers : CommitCounter(w, o)
        BY <2>2
      <3>2. PICK c \in OfferId : c = req[w].offer
        BY <3>1 DEF CommitCounter, RequestsAgree, Response
      <3>3. /\ offers[c].status # "absent"
            /\ req[w].by = IF offers[c].landlordTurn THEN "landlord" ELSE "seeker"
        BY <3>1, <3>2 DEF CommitCounter, RequestsAgree, Response
      <3>4. offers'[o] = NextRound(c, req[w].by)
        BY <1>3, <3>1, <3>2, <3>3 DEF CommitCounter, TypeOK
      <3>5. Parity(c)
        BY <3>3 DEF SubmitterParity, Parity
      <3>6. offers[c].round \in Nat
        BY DEF TypeOK, Offer
      <3>7. (offers'[o].round % 2 = 1) <=> ~(offers[c].round % 2 = 1)
        BY <3>4, <3>6, ParityFlips DEF NextRound
      <3>8. /\ offers'[o].by = req[w].by
            /\ offers'[o].landlordTurn = ~offers[c].landlordTurn
        BY <3>4 DEF NextRound
      <3>9. QED
        BY <3>3, <3>5, <3>7, <3>8 DEF Parity
    <2>3. QED
      BY <1>3, <2>1, <2>2, OnlyInsertsAddRows
  <1>4. QED
    BY <1>2, <1>3 DEF SubmitterParity, Parity

-----------------------------------------------------------------------------
(* The theorems *)

THEOREM Invariance == Spec => []IInv
  <1>1. IInv /\ [Next]_vars => IInv'
    BY NextTypeOK, NextRequestsAgree, NextPlansAreDue, NextThreadShape,
       NextExpiredOnlyAfterWindow, NextAcceptedIsCarriedOut, NextSubmitterParity DEF IInv
  <1>2. QED
    BY InitIInv, <1>1, PTL DEF Spec

\* The tables and the open sessions are well-typed; in particular no round
\* number exceeds the cap, however many counters overlap.
THEOREM TypeCorrectness == Spec => []TypeOK
  <1>1. IInv => TypeOK
    BY DEF IInv
  <1>2. QED
    BY Invariance, <1>1, PTL

\* Rounds form threads in which every answered round stays closed, and whose
\* rounds alternate between the parties: nobody can skip one
\* (sprint-8-status.md names this as what the state machine relies on).
THEOREM ThreadsAreWellFormed == Spec => []OffersInv
  <1>1. IInv => OffersInv
    BY DEF IInv, RoundsFormThreads, OffersInv
  <1>2. QED
    BY Invariance, <1>1, PTL

\* No overlap of sweeps and answers makes an offer expire early.
THEOREM NoEarlyExpiry == Spec => []ExpiredOnlyAfterWindow
  <1>1. IInv => ExpiredOnlyAfterWindow
    BY DEF IInv
  <1>2. QED
    BY Invariance, <1>1, PTL

\* An accepted offer has its visit request or its agreement.
THEOREM AcceptanceIsCarriedOut == Spec => []AcceptedIsCarriedOut
  <1>1. IInv => AcceptedIsCarriedOut
    BY DEF IInv
  <1>2. QED
    BY Invariance, <1>1, PTL

\* A closed round is never put up for an answer again.
THEOREM ClosedForGood == Spec => ClosedStaysClosed
  <1>1. IInv /\ [Next]_vars =>
          [\A o \in OfferId : offers[o].status \in Closed => offers'[o].status \in Closed]_vars
    BY StepKeepsRows DEF IInv, RowKept, Closed
  <1>2. QED
    BY Invariance, <1>1, PTL DEF Spec, ClosedStaysClosed

-----------------------------------------------------------------------------
(* Sessions that do not overlap *)

Alone ==
    /\ \A w, v \in Workers : req[w].op # "idle" /\ req[v].op # "idle" => w = v
    /\ \A k, l \in Sweepers : sweep[k].open /\ sweep[l].open => k = l
    /\ \A w \in Workers, k \in Sweepers : req[w].op = "idle" \/ ~sweep[k].open

\* What an open session has read is still so.
RequestHolds(r) ==
    /\ r.op = "submit" => r.seeker \in Seekers /\ LiveRows(r.seeker) = {}
    /\ r.op \in Response => offers[r.offer].status = "PENDING"

SweepHolds(sw) ==
    \A o \in OfferId : sw.plan[o] # "none" => sw.open /\ offers[o].status = "PENDING"

\* At most one round of a seeker awaits an answer, and only so many rows were
\* ever inserted.
Rows == {o \in OfferId : offers[o].status # "absent"}

RowsFit ==
    /\ \A o \in Rows : offers[o].seeker \in Seekers
    /\ \A s \in Seekers : \A o, p \in LiveRows(s) : o = p
    /\ IsFiniteSet(Rows)

SerialInv ==
    /\ Alone
    /\ \A w \in Workers : RequestHolds(req[w])
    /\ \A k \in Sweepers : SweepHolds(sweep[k])
    /\ RowsFit

\* What a step does to the statuses.
StatusKept(o) == offers'[o].status = offers[o].status

Inserted(n, s, round) ==
    /\ offers[n].status = "absent"
    /\ offers'[n].status = "PENDING"
    /\ offers'[n].seeker = s
    /\ offers'[n].round = round

Submitted(n, s) ==
    /\ s \in Seekers /\ LiveRows(s) = {}
    /\ Inserted(n, s, 1)
    /\ \A o \in OfferId \ {n} : StatusKept(o)

Countered(c, n) ==
    /\ offers[c].status = "PENDING" /\ offers[c].round < MaxRounds
    /\ offers'[c].status = "COUNTERED"
    /\ Inserted(n, offers[c].seeker, offers[c].round + 1)
    /\ \A o \in OfferId \ {c, n} : StatusKept(o)

Answered(c, status) ==
    /\ offers[c].status = "PENDING"
    /\ offers'[c].status = status
    /\ \A o \in OfferId \ {c} : StatusKept(o)

Expired(S) ==
    /\ \A o \in S : offers[o].status = "PENDING" /\ offers'[o].status = "EXPIRED"
    /\ \A o \in OfferId \ S : StatusKept(o)

LEMMA StatusSteps ==
    ASSUME IInv, SerialInv, [Next]_vars
    PROVE  \/ \A o \in OfferId : StatusKept(o)
           \/ \E n \in OfferId, s \in Seekers : Submitted(n, s)
           \/ \E c, n \in OfferId : Countered(c, n)
           \/ \E c \in OfferId, status \in {"ACCEPTED", "REJECTED"} : Answered(c, status)
           \/ \E S \in SUBSET OfferId : Expired(S)
  <1>0. offers \in [OfferId -> Offer] /\ TypeOK /\ RequestsAgree
    BY DEF IInv, TypeOK
  <1>1. ASSUME NEW w \in Workers, NEW n \in OfferId, CommitSubmit(w, n)
        PROVE  \E s \in Seekers : Submitted(n, s)
    <2>1. req[w].seeker \in Seekers /\ LiveRows(req[w].seeker) = {}
      BY <1>1 DEF CommitSubmit, SerialInv, RequestHolds
    <2>2. Inserted(n, req[w].seeker, 1) /\ \A o \in OfferId \ {n} : StatusKept(o)
      BY <1>0, <1>1 DEF CommitSubmit, Inserted, StatusKept, FirstRound
    <2>3. QED
      BY <2>1, <2>2 DEF Submitted
  <1>2. ASSUME NEW w \in Workers, NEW n \in OfferId, CommitCounter(w, n)
        PROVE  \E c \in OfferId : Countered(c, n)
    <2>1. PICK c \in OfferId : c = req[w].offer
      BY <1>0, <1>2 DEF CommitCounter, RequestsAgree, Response
    <2>2. offers[c].status = "PENDING" /\ offers[c].round < MaxRounds
      BY <1>0, <1>2, <2>1 DEF CommitCounter, RequestsAgree, SerialInv, RequestHolds, Response
    <2>3. offers[n].status = "absent" /\ c # n
      BY <1>2, <2>2 DEF CommitCounter
    <2>4. offers'[n] = NextRound(c, req[w].by)
      BY <1>0, <1>2, <2>1, <2>3 DEF CommitCounter
    <2>5. offers'[c] = [offers[c] EXCEPT !.status = "COUNTERED"] /\ offers[c] \in Offer
      BY <1>0, <1>2, <2>1, <2>3 DEF CommitCounter
    <2>6. offers'[c].status = "COUNTERED"
      BY <2>5 DEF Offer
    <2>7. Inserted(n, offers[c].seeker, offers[c].round + 1)
      BY <2>3, <2>4 DEF Inserted, NextRound
    <2>8. \A o \in OfferId \ {c, n} : StatusKept(o)
      BY <1>0, <1>2, <2>1 DEF CommitCounter, StatusKept
    <2>9. QED
      BY <2>2, <2>6, <2>7, <2>8 DEF Countered
  <1>3. ASSUME NEW w \in Workers, CommitAccept(w) \/ CommitReject(w)
        PROVE  \E c \in OfferId, status \in {"ACCEPTED", "REJECTED"} : Answered(c, status)
    <2>1. PICK c \in OfferId : c = req[w].offer
      BY <1>0, <1>3 DEF CommitAccept, CommitReject, RequestsAgree, Response
    <2>2. offers[c].status = "PENDING"
      BY <1>3, <2>1 DEF CommitAccept, CommitReject, SerialInv, RequestHolds, Response
    <2>3. PICK status \in {"ACCEPTED", "REJECTED"} : offers' = [offers EXCEPT ![c].status = status]
      BY <1>3, <2>1 DEF CommitAccept, CommitReject
    <2>4. Answered(c, status)
      BY <1>0, <2>2, <2>3 DEF Answered, StatusKept, Offer
    <2>5. QED
      BY <2>4
  <1>4. ASSUME NEW k \in Sweepers, CommitSweep(k)
        PROVE  \E S \in SUBSET OfferId : Expired(S)
    <2> DEFINE S == {o \in OfferId : sweep[k].plan[o] = "h48"}
    <2>1. ASSUME NEW o \in S PROVE offers[o].status = "PENDING" /\ offers'[o].status = "EXPIRED"
      BY <1>0, <1>4 DEF CommitSweep, RowAfterSweep, SerialInv, SweepHolds, Offer
    <2>2. ASSUME NEW o \in OfferId \ S PROVE StatusKept(o)
      <3>1. offers'[o] = RowAfterSweep(k, o) /\ offers[o] \in Offer
        BY <1>0, <1>4 DEF CommitSweep
      <3>2. CASE sweep[k].plan[o] = "none"
        BY <3>1, <3>2 DEF RowAfterSweep, StatusKept
      <3>3. CASE sweep[k].plan[o] \notin {"none", "h48"}
        BY <3>1, <3>3 DEF RowAfterSweep, StatusKept, Offer
      <3>4. QED
        BY <3>2, <3>3
    <2>3. Expired(S)
      BY <2>1, <2>2 DEF Expired
    <2>4. QED
      BY <2>3
  <1>5. ASSUME NEW n \in OfferId, TimePasses(n) PROVE \A o \in OfferId : StatusKept(o)
    BY <1>0, <1>5 DEF TimePasses, StatusKept, Offer
  <1>6. CASE UNCHANGED offers
    BY <1>6 DEF StatusKept
  <1>7. QED
    BY <1>1, <1>2, <1>3, <1>4, <1>5, <1>6
       DEF Next, Requests, Sweeping, Environment, Abort, BeginSubmit, BeginRespond,
           BeginSweep, AbortSweep, VisitCompletes, vars

\* One live round per seeker, through every kind of step.
LEMMA NextRowsFit ==
    ASSUME IInv, SerialInv, [Next]_vars
    PROVE  RowsFit'
  <1>0. \A o \in OfferId : RowKept(o)
    BY StepKeepsRows DEF IInv
  <1>1. ASSUME NEW new, Rows' = Rows \cup new, IsFiniteSet(new)
        PROVE  IsFiniteSet(Rows')
    BY <1>1, FS_Union DEF SerialInv, RowsFit
  <1>2. ASSUME \A o \in OfferId : offers'[o].status = "absent" <=> offers[o].status = "absent",
               \A o \in OfferId : offers'[o].status = "PENDING" => offers[o].status = "PENDING"
        PROVE  RowsFit'
    <2>1. Rows' = Rows
      BY <1>2 DEF Rows
    <2>2. \A o \in Rows : offers'[o].seeker = offers[o].seeker
      BY <1>0 DEF RowKept, Rows
    <2>3. ASSUME NEW s \in Seekers, NEW o \in OfferId, o \in LiveRows(s)'
          PROVE  o \in LiveRows(s)
      BY <1>2, <2>1, <2>2, <2>3 DEF LiveRows, Of, Live, Rows
    <2>4. \A s \in Seekers : LiveRows(s)' \subseteq OfferId
      BY DEF LiveRows, Of
    <2>5. QED
      BY <2>1, <2>2, <2>3, <2>4 DEF SerialInv, RowsFit
  <1>3. ASSUME NEW n \in OfferId, NEW t \in Seekers, NEW round, Inserted(n, t, round),
               \A o \in LiveRows(t) : offers'[o].status # "PENDING",
               \A o \in OfferId \ {n} : /\ offers'[o].status = "absent" <=> offers[o].status = "absent"
                                        /\ offers'[o].status = "PENDING" => offers[o].status = "PENDING"
        PROVE  RowsFit'
    <2>1. Rows' = Rows \cup {n}
      BY <1>3 DEF Rows, Inserted
    <2>2. IsFiniteSet(Rows')
      BY <1>1, <2>1, FS_Singleton
    <2>3. \A o \in Rows : offers'[o].seeker = offers[o].seeker
      BY <1>0 DEF RowKept, Rows
    <2>4. \A o \in Rows' : offers'[o].seeker \in Seekers
      BY <1>3, <2>1, <2>3 DEF SerialInv, RowsFit, Inserted
    <2>5. ASSUME NEW s \in Seekers, NEW o \in LiveRows(s)', o # n
          PROVE  o \in LiveRows(s) /\ s # t
      <3>1. o \in OfferId /\ offers'[o].status = "PENDING" /\ offers'[o].seeker = s
        BY <2>5 DEF LiveRows, Of, Live
      <3>2. offers[o].status = "PENDING" /\ o \in Rows
        BY <1>3, <2>5, <3>1 DEF Rows
      <3>3. o \in LiveRows(s)
        BY <2>3, <3>1, <3>2 DEF LiveRows, Of, Live, Rows
      <3>4. QED
        BY <1>3, <3>1, <3>3
    <2>6. \A s \in Seekers : n \in LiveRows(s)' => s = t
      BY <1>3 DEF LiveRows, Of, Inserted
    <2>7. \A s \in Seekers : \A o, p \in LiveRows(s)' : o = p
      BY <2>5, <2>6 DEF SerialInv, RowsFit
    <2>8. QED
      BY <2>2, <2>4, <2>7 DEF RowsFit
  <1>4. CASE \A o \in OfferId : StatusKept(o)
    BY <1>2, <1>4 DEF StatusKept
  <1>5. ASSUME NEW n \in OfferId, NEW t \in Seekers, Submitted(n, t) PROVE RowsFit'
    BY <1>3, <1>5 DEF Submitted, StatusKept
  <1>6. ASSUME NEW c \in OfferId, NEW n \in OfferId, Countered(c, n) PROVE RowsFit'
    <2>1. offers[c].seeker \in Seekers
      BY <1>6 DEF Countered, SerialInv, RowsFit, Rows
    <2>2. c \in LiveRows(offers[c].seeker)
      BY <1>6 DEF Countered, LiveRows, Of, Live
    <2>3. \A o \in LiveRows(offers[c].seeker) : offers'[o].status # "PENDING"
      BY <1>6, <2>1, <2>2 DEF Countered, SerialInv, RowsFit
    <2>4. \A o \in OfferId \ {n} : /\ offers'[o].status = "absent" <=> offers[o].status = "absent"
                                   /\ offers'[o].status = "PENDING" => offers[o].status = "PENDING"
      BY <1>6 DEF Countered, StatusKept
    <2>5. QED
      BY <1>3, <1>6, <2>1, <2>3, <2>4 DEF Countered
  <1>7. ASSUME NEW c \in OfferId, NEW status \in {"ACCEPTED", "REJECTED"}, Answered(c, status)
        PROVE  RowsFit'
    BY <1>2, <1>7 DEF Answered, StatusKept
  <1>8. ASSUME NEW S \in SUBSET OfferId, Expired(S) PROVE RowsFit'
    BY <1>2, <1>8 DEF Expired, StatusKept
  <1>9. QED
    BY <1>4, <1>5, <1>6, <1>7, <1>8, StatusSteps

\* The kinds of steps, as far as sessions are concerned.
Closing ==
    \/ \E w \in Workers : req[w].op # "idle" /\ Finish(w) /\ sweep' = sweep
    \/ \E k \in Sweepers : sweep[k].open /\ sweep' = [sweep EXCEPT ![k] = NoSweep] /\ req' = req

LEMMA SessionSteps ==
    ASSUME [Next]_vars
    PROVE  \/ Closing
           \/ \E w \in Workers, s \in Seekers : BeginSubmit(w, s)
           \/ \E w \in Workers, op \in Response, o \in OfferId, actor \in Actor :
                 BeginRespond(w, op, o, actor)
           \/ \E k \in Sweepers : BeginSweep(k)
           \/ UNCHANGED <<req, sweep>> /\ \E o \in OfferId : TimePasses(o)
           \/ UNCHANGED <<req, sweep, offers>>
  <1>1. ASSUME NEW w \in Workers, NEW n \in OfferId, CommitSubmit(w, n) \/ CommitCounter(w, n)
        PROVE  Closing
    BY <1>1 DEF CommitSubmit, CommitCounter, Closing
  <1>2. ASSUME NEW w \in Workers, CommitAccept(w) \/ CommitReject(w) \/ Abort(w)
        PROVE  Closing
    BY <1>2 DEF CommitAccept, CommitReject, Abort, Closing
  <1>3. ASSUME NEW k \in Sweepers, CommitSweep(k) \/ AbortSweep(k)
        PROVE  Closing
    BY <1>3 DEF CommitSweep, AbortSweep, Closing
  <1>4. ASSUME Environment
        PROVE  /\ UNCHANGED <<req, sweep>>
               /\ UNCHANGED offers \/ \E o \in OfferId : TimePasses(o)
    BY <1>4 DEF Environment, TimePasses, VisitCompletes
  <1>5. QED
    BY <1>1, <1>2, <1>3, <1>4 DEF Next, Requests, Sweeping, vars

LEMMA NextSessionsHold ==
    ASSUME ~Overlap, IInv, SerialInv, [Next]_vars
    PROVE  /\ Alone'
           /\ \A w \in Workers : RequestHolds(req[w])'
           /\ \A k \in Sweepers : SweepHolds(sweep[k])'
  <1> DEFINE Goal == /\ Alone'
                     /\ \A w \in Workers : RequestHolds(req[w])'
                     /\ \A k \in Sweepers : SweepHolds(sweep[k])'
  <1>0. /\ req \in [Workers -> Request] /\ sweep \in [Sweepers -> Sweep]
        /\ offers \in [OfferId -> Offer]
    BY DEF IInv, TypeOK
  <1>1. NoSweep.open = FALSE /\ \A o \in OfferId : NoSweep.plan[o] = "none"
    BY DEF NoSweep
  <1>2. ASSUME \A w \in Workers : req'[w].op = "idle",
               \A k \in Sweepers : ~sweep'[k].open /\ \A o \in OfferId : sweep'[k].plan[o] = "none"
        PROVE  Goal
    BY <1>2 DEF Alone, RequestHolds, SweepHolds, Response
  <1>3. ASSUME NEW k \in Sweepers, ~sweep[k].open
        PROVE  \A o \in OfferId : sweep[k].plan[o] = "none"
    BY <1>3 DEF SerialInv, SweepHolds
  <1>4. CASE Closing
    <2>1. ASSUME NEW w \in Workers, req[w].op # "idle", Finish(w), sweep' = sweep PROVE Goal
      <3>1. \A v \in Workers : req'[v].op = "idle"
        BY <1>0, <2>1 DEF SerialInv, Alone, Finish, Idle
      <3>2. \A k \in Sweepers : ~sweep[k].open
        BY <2>1 DEF SerialInv, Alone
      <3>3. QED
        BY <1>2, <1>3, <2>1, <3>1, <3>2
    <2>2. ASSUME NEW k \in Sweepers, sweep[k].open, sweep' = [sweep EXCEPT ![k] = NoSweep], req' = req
          PROVE  Goal
      <3>1. \A w \in Workers : req'[w].op = "idle"
        BY <2>2 DEF SerialInv, Alone
      <3>2. ASSUME NEW l \in Sweepers
            PROVE  ~sweep'[l].open /\ \A o \in OfferId : sweep'[l].plan[o] = "none"
        <4>1. CASE l = k
          BY <1>0, <1>1, <2>2, <4>1
        <4>2. CASE l # k
          <5>1. ~sweep[l].open /\ sweep'[l] = sweep[l]
            BY <1>0, <2>2, <4>2 DEF SerialInv, Alone
          <5>2. QED
            BY <1>3, <5>1
        <4>3. QED
          BY <4>1, <4>2
      <3>3. QED
        BY <1>2, <3>1, <3>2
    <2>3. QED
      BY <1>4, <2>1, <2>2 DEF Closing
  <1>5. ASSUME NEW w \in Workers, NEW r, NoSessionOpen, req' = [req EXCEPT ![w] = r],
               UNCHANGED <<offers, sweep>>, RequestHolds(r)
        PROVE  Goal
    <2>1. \A v \in Workers : req'[v] = IF v = w THEN r ELSE req[v]
      BY <1>0, <1>5
    <2>2. \A v \in Workers : req[v].op = "idle"
      BY <1>5 DEF NoSessionOpen
    <2>3. \A k \in Sweepers : ~sweep'[k].open /\ SweepHolds(sweep[k])'
      BY <1>5 DEF NoSessionOpen, SerialInv, SweepHolds
    <2>4. ASSUME NEW v \in Workers PROVE RequestHolds(req[v])'
      <3>1. CASE v = w
        BY <1>5, <2>1, <3>1 DEF RequestHolds, LiveRows, Of, Live
      <3>2. CASE v # w
        BY <2>1, <2>2, <3>2 DEF RequestHolds, Response
      <3>3. QED
        BY <3>1, <3>2
    <2>5. Alone'
      BY <2>1, <2>2, <2>3 DEF Alone
    <2>6. QED
      BY <2>3, <2>4, <2>5
  <1>6. ASSUME NEW w \in Workers, NEW s \in Seekers, BeginSubmit(w, s) PROVE Goal
    <2> DEFINE r == [ op |-> "submit", seeker |-> s, offer |-> None,
                      requiresVisit |-> ~CompletedVisitExists(s), by |-> "seeker" ]
    <2>1. /\ NoSessionOpen /\ req' = [req EXCEPT ![w] = r] /\ UNCHANGED <<offers, sweep>>
          /\ ~HasOpenOffer(s)
      BY <1>6 DEF BeginSubmit, MayStart
    <2>2. LiveRows(s) = {}
      BY <2>1 DEF HasOpenOffer, Open, LiveRows, Live
    <2>3. RequestHolds(r)
      BY <2>2 DEF RequestHolds, Response
    <2> HIDE DEF r
    <2>4. QED
      BY <1>5, <2>1, <2>3
  <1>7. ASSUME NEW w \in Workers, NEW op \in Response, NEW o \in OfferId, NEW actor \in Actor,
               BeginRespond(w, op, o, actor)
        PROVE  Goal
    <2> DEFINE r == [ op |-> op, seeker |-> None, offer |-> o,
                      requiresVisit |-> offers[o].requiresVisit,
                      by |-> IF actor = "landlord" THEN "landlord" ELSE "seeker" ]
    <2>1. /\ NoSessionOpen /\ req' = [req EXCEPT ![w] = r] /\ UNCHANGED <<offers, sweep>>
          /\ offers[o].status = "PENDING"
      BY <1>7 DEF BeginRespond, MayStart, IsOpenForResponse
    <2>2. RequestHolds(r)
      BY <2>1 DEF RequestHolds, Response
    <2> HIDE DEF r
    <2>3. QED
      BY <1>5, <2>1, <2>2
  <1>8. ASSUME NEW k \in Sweepers, BeginSweep(k) PROVE Goal
    <2> DEFINE sw == [ open |-> TRUE,
                       plan |-> [o \in OfferId |-> IF o \in Swept THEN Due(o) ELSE "none"],
                       seen |-> [o \in OfferId |-> IF o \in Swept THEN offers[o].sent ELSE {}] ]
    <2>1. NoSessionOpen /\ sweep' = [sweep EXCEPT ![k] = sw] /\ UNCHANGED <<offers, req>>
      BY <1>8 DEF BeginSweep, MayStart
    <2>2. SweepHolds(sw)
      BY DEF SweepHolds, Swept
    <2> HIDE DEF sw
    <2>3. \A l \in Sweepers : sweep'[l] = IF l = k THEN sw ELSE sweep[l]
      BY <1>0, <2>1
    <2>4. ASSUME NEW l \in Sweepers PROVE SweepHolds(sweep[l])'
      <3>1. SweepHolds(sweep'[l])
        BY <2>2, <2>3 DEF SerialInv
      <3>2. QED
        BY <2>1, <3>1 DEF SweepHolds
    <2>5. \A w \in Workers : req'[w].op = "idle" /\ RequestHolds(req[w])'
      BY <2>1 DEF NoSessionOpen, RequestHolds, Response
    <2>6. Alone'
      BY <2>1, <2>3, <2>5 DEF Alone, NoSessionOpen
    <2>7. QED
      BY <2>4, <2>5, <2>6
  <1>9. ASSUME UNCHANGED <<req, sweep>>, \A o \in OfferId : StatusKept(o),
               \A o \in OfferId : RowKept(o)
        PROVE  Goal
    <2>1. \A s \in Seekers : LiveRows(s)' = LiveRows(s)
      BY <1>9 DEF LiveRows, Of, Live, StatusKept, RowKept
    <2>2. ASSUME NEW w \in Workers PROVE RequestHolds(req[w])'
      <3>1. RequestHolds(req[w]) /\ req'[w] = req[w]
        BY <1>9 DEF SerialInv
      <3>2. req[w].op \in Response => req[w].offer \in OfferId
        BY DEF IInv, RequestsAgree
      <3>3. QED
        BY <1>9, <2>1, <3>1, <3>2 DEF RequestHolds, StatusKept
    <2>3. \A k \in Sweepers : SweepHolds(sweep[k])'
      BY <1>9 DEF SerialInv, SweepHolds, StatusKept
    <2>4. QED
      BY <1>9, <2>2, <2>3 DEF SerialInv, Alone
  <1>10. \A o \in OfferId : RowKept(o)
    BY StepKeepsRows DEF IInv
  <1>11. ASSUME NEW n \in OfferId, TimePasses(n) PROVE \A o \in OfferId : StatusKept(o)
    BY <1>0, <1>11 DEF TimePasses, StatusKept, Offer
  <1>12. ASSUME UNCHANGED offers PROVE \A o \in OfferId : StatusKept(o)
    BY <1>12 DEF StatusKept
  <1>13. QED
    BY <1>4, <1>6, <1>7, <1>8, <1>9, <1>10, <1>11, <1>12, SessionSteps

LEMMA SerialInvariance == ASSUME ~Overlap PROVE Spec => [](IInv /\ SerialInv)
  <1>1. Init => SerialInv
    <2> SUFFICES ASSUME Init PROVE SerialInv
        OBVIOUS
    <2>1. /\ \A w \in Workers : req[w].op = "idle"
          /\ \A k \in Sweepers : ~sweep[k].open /\ \A o \in OfferId : sweep[k].plan[o] = "none"
      BY DEF Init, Idle, NoSweep
    <2>2. Rows = {}
      BY DEF Init, Rows, NoRow
    <2>3. RowsFit
      BY <2>2, FS_EmptySet DEF RowsFit, Rows, LiveRows, Of
    <2>4. Alone
      BY <2>1 DEF Alone
    <2>5. QED
      BY <2>1, <2>3, <2>4 DEF SerialInv, RequestHolds, SweepHolds, Response
  <1>2. IInv /\ SerialInv /\ [Next]_vars => SerialInv'
    BY NextRowsFit, NextSessionsHold DEF SerialInv
  <1>3. Spec => []IInv
    BY Invariance
  <1>4. QED
    BY <1>1, <1>2, <1>3, PTL DEF Spec

-----------------------------------------------------------------------------
(* What a step does to the negotiation *)

AcceptedRows(s) == {o \in Of(s) : offers[o].status = "ACCEPTED"}

\* The mapping, one seeker at a time.
LiveFits(s) ==
    /\ LiveRows(s) = {} => LiveRound[s] = 0
    /\ \A o \in LiveRows(s) : LiveRound[s] = offers[o].round
    /\ Deals[s] = Cardinality(AcceptedRows(s))
    /\ IsFiniteSet(AcceptedRows(s))

MappingFits ==
    /\ LiveRound = [s \in Seekers |-> LiveRound[s]]
    /\ Deals = [s \in Seekers |-> Deals[s]]
    /\ \A s \in Seekers : LiveFits(s)

Ready == IInv /\ SerialInv /\ MappingFits

LEMMA MappingIs ==
    ASSUME IInv, SerialInv
    PROVE  MappingFits
  <1>1. ASSUME NEW s \in Seekers PROVE LiveFits(s)
    <2>1. LiveRows(s) = {} => LiveRound[s] = 0
      BY DEF LiveRound
    <2>2. ASSUME NEW o \in LiveRows(s) PROVE LiveRound[s] = offers[o].round
      <3>1. LiveRows(s) = {o}
        BY DEF SerialInv, RowsFit
      <3>2. Cardinality(LiveRows(s)) = 1
        BY <3>1, FS_Singleton
      <3>3. {offers[p].round : p \in LiveRows(s)} = {offers[o].round}
        BY <3>1
      <3>4. LiveRound[s] = CHOOSE r \in {offers[o].round} : TRUE
        BY <3>1, <3>2, <3>3 DEF LiveRound
      <3>5. QED
        BY <3>4
    <2>3. Deals[s] = Cardinality(AcceptedRows(s))
      BY DEF Deals, AcceptedRows
    <2>4. IsFiniteSet(AcceptedRows(s))
      <3>1. AcceptedRows(s) \subseteq Rows
        BY DEF AcceptedRows, Of, Rows
      <3>2. QED
        BY <3>1, FS_Subset DEF SerialInv, RowsFit
    <2>5. QED
      BY <2>1, <2>2, <2>3, <2>4 DEF LiveFits
  <1>2. LiveRound = [s \in Seekers |-> LiveRound[s]] /\ Deals = [s \in Seekers |-> Deals[s]]
    BY DEF LiveRound, Deals
  <1>3. QED
    BY <1>1, <1>2 DEF MappingFits

Refines == [Contract!Next]_(Contract!vars)

\* The step does not touch the negotiation with seeker s.
Untouched(s) == LiveRound'[s] = LiveRound[s] /\ Deals'[s] = Deals[s]

LEMMA UntouchedByRows ==
    ASSUME Ready, Ready', \A o \in OfferId : RowKept(o), NEW s \in Seekers,
           LiveRows(s)' = LiveRows(s), AcceptedRows(s)' = AcceptedRows(s)
    PROVE  Untouched(s)
  <1>1. Deals'[s] = Deals[s]
    BY DEF Ready, MappingFits, LiveFits
  <1>2. ASSUME LiveRows(s) = {} PROVE LiveRound'[s] = LiveRound[s]
    BY <1>2 DEF Ready, MappingFits, LiveFits
  <1>3. ASSUME NEW o \in LiveRows(s) PROVE LiveRound'[s] = LiveRound[s]
    <2>1. offers'[o].round = offers[o].round
      BY DEF LiveRows, Of, RowKept
    <2>2. LiveRound[s] = offers[o].round /\ LiveRound'[s] = offers'[o].round
      BY DEF Ready, MappingFits, LiveFits
    <2>3. QED
      BY <2>1, <2>2
  <1>4. QED
    BY <1>1, <1>2, <1>3 DEF Untouched

\* Rows that exist already stay with their seeker.
LEMMA MembersKept ==
    ASSUME \A o \in OfferId : RowKept(o), NEW o \in OfferId, StatusKept(o), NEW s \in Seekers
    PROVE  /\ o \in LiveRows(s)' <=> o \in LiveRows(s)
           /\ o \in AcceptedRows(s)' <=> o \in AcceptedRows(s)
  BY DEF RowKept, StatusKept, LiveRows, AcceptedRows, Of, Live

LEMMA SameRows ==
    ASSUME NEW A \in SUBSET OfferId, NEW B \in SUBSET OfferId,
           \A o \in OfferId : o \in A <=> o \in B
    PROVE  A = B
  OBVIOUS

LEMMA SubmitRefines ==
    ASSUME Ready, Ready', \A o \in OfferId : RowKept(o),
           NEW n \in OfferId, NEW s \in Seekers, Submitted(n, s)
    PROVE  Refines
  <1>1. /\ n \in LiveRows(s)' /\ offers'[n].round = 1
        /\ \A t \in Seekers : n \notin LiveRows(t) /\ n \notin AcceptedRows(t)'
                              /\ n \notin AcceptedRows(t)
        /\ \A t \in Seekers \ {s} : n \notin LiveRows(t)'
    BY DEF Submitted, Inserted, LiveRows, AcceptedRows, Of, Live
  <1>2. \A o \in OfferId \ {n}, t \in Seekers : /\ o \in LiveRows(t)' <=> o \in LiveRows(t)
                                                /\ o \in AcceptedRows(t)' <=> o \in AcceptedRows(t)
    BY MembersKept DEF Submitted
  <1>3. \A t \in Seekers : LiveRows(t) \subseteq OfferId /\ AcceptedRows(t) \subseteq OfferId
                           /\ LiveRows(t)' \subseteq OfferId /\ AcceptedRows(t)' \subseteq OfferId
    BY DEF LiveRows, AcceptedRows, Of
  <1>4. \A t \in Seekers : AcceptedRows(t)' = AcceptedRows(t)
    BY <1>1, <1>2, <1>3
  <1>5. \A t \in Seekers \ {s} : Untouched(t)
    <2>1. \A t \in Seekers \ {s} : LiveRows(t)' = LiveRows(t)
      BY <1>1, <1>2, <1>3
    <2>2. QED
      BY <1>4, <2>1, UntouchedByRows
  <1>6. LiveRound[s] = 0 /\ LiveRound'[s] = 1 /\ Deals'[s] = Deals[s]
    BY <1>1, <1>4 DEF Submitted, Ready, MappingFits, LiveFits
  <1>7. LiveRound' = [LiveRound EXCEPT ![s] = 1] /\ Deals' = Deals
    BY <1>5, <1>6 DEF Untouched, Ready, MappingFits
  <1>8. Contract!Submit(s)
    BY <1>6, <1>7 DEF Contract!Submit
  <1>9. QED
    BY <1>8 DEF Refines, Contract!Next

LEMMA CounterRefines ==
    ASSUME Ready, Ready', \A o \in OfferId : RowKept(o),
           NEW c \in OfferId, NEW n \in OfferId, Countered(c, n)
    PROVE  Refines
  <1>0. PICK s \in Seekers : s = offers[c].seeker
    BY DEF Countered, Ready, SerialInv, RowsFit, Rows
  <1>1. /\ n \in LiveRows(s)' /\ offers'[n].round = offers[c].round + 1
        /\ c \in LiveRows(s)
        /\ \A t \in Seekers \ {s} : n \notin LiveRows(t)' /\ c \notin LiveRows(t)
        /\ \A t \in Seekers : n \notin LiveRows(t) /\ c \notin LiveRows(t)'
    BY <1>0 DEF Countered, Inserted, LiveRows, Of, Live
  <1>2. \A t \in Seekers, o \in {c, n} : o \notin AcceptedRows(t)' /\ o \notin AcceptedRows(t)
    BY DEF Countered, Inserted, AcceptedRows
  <1>3. \A o \in OfferId \ {c, n}, t \in Seekers : /\ o \in LiveRows(t)' <=> o \in LiveRows(t)
                                                   /\ o \in AcceptedRows(t)' <=> o \in AcceptedRows(t)
    BY MembersKept DEF Countered
  <1>4. \A t \in Seekers : LiveRows(t) \subseteq OfferId /\ AcceptedRows(t) \subseteq OfferId
                           /\ LiveRows(t)' \subseteq OfferId /\ AcceptedRows(t)' \subseteq OfferId
    BY DEF LiveRows, AcceptedRows, Of
  <1>5. ASSUME NEW t \in Seekers PROVE AcceptedRows(t)' = AcceptedRows(t)
    <2>1. \A o \in OfferId : o \in AcceptedRows(t)' <=> o \in AcceptedRows(t)
      BY <1>2, <1>3
    <2>2. QED
      BY <1>4, <2>1, SameRows
  <1>6. \A t \in Seekers \ {s} : Untouched(t)
    <2>1. \A t \in Seekers \ {s} : LiveRows(t)' = LiveRows(t)
      BY <1>1, <1>3, <1>4, SameRows
    <2>2. QED
      BY <1>5, <2>1, UntouchedByRows
  <1>7. /\ LiveRound[s] = offers[c].round /\ LiveRound'[s] = offers[c].round + 1
        /\ Deals'[s] = Deals[s]
    BY <1>1, <1>5 DEF Ready, MappingFits, LiveFits
  <1>8. LiveRound[s] \in 1 .. (MaxRounds - 1)
    <2>1. offers[c].round \in 1 .. MaxRounds /\ offers[c].round < MaxRounds
      BY DEF Countered, Ready, IInv, TypeOK, Offer
    <2>2. QED
      BY <1>7, <2>1
  <1>9. LiveRound' = [LiveRound EXCEPT ![s] = LiveRound[s] + 1] /\ Deals' = Deals
    BY <1>6, <1>7 DEF Untouched, Ready, MappingFits
  <1>10. Contract!Counter(s)
    BY <1>8, <1>9 DEF Contract!Counter
  <1>11. QED
    BY <1>10 DEF Refines, Contract!Next

LEMMA AnswerRefines ==
    ASSUME Ready, Ready', \A o \in OfferId : RowKept(o),
           NEW c \in OfferId, NEW status \in {"ACCEPTED", "REJECTED"}, Answered(c, status)
    PROVE  Refines
  <1>0. PICK s \in Seekers : s = offers[c].seeker
    BY DEF Answered, Ready, SerialInv, RowsFit, Rows
  <1>1. /\ c \in LiveRows(s) /\ c \notin AcceptedRows(s) /\ offers'[c].seeker = s
        /\ \A t \in Seekers \ {s} : /\ c \notin LiveRows(t) /\ c \notin AcceptedRows(t)
                                    /\ c \notin LiveRows(t)' /\ c \notin AcceptedRows(t)'
        /\ c \notin LiveRows(s)'
        /\ c \in AcceptedRows(s)' <=> status = "ACCEPTED"
    BY <1>0 DEF Answered, LiveRows, AcceptedRows, Of, Live, RowKept
  <1>2. \A o \in OfferId \ {c}, t \in Seekers : /\ o \in LiveRows(t)' <=> o \in LiveRows(t)
                                                /\ o \in AcceptedRows(t)' <=> o \in AcceptedRows(t)
    BY MembersKept DEF Answered
  <1>3. \A t \in Seekers : LiveRows(t) \subseteq OfferId /\ AcceptedRows(t) \subseteq OfferId
                           /\ LiveRows(t)' \subseteq OfferId /\ AcceptedRows(t)' \subseteq OfferId
    BY DEF LiveRows, AcceptedRows, Of
  <1>4. \A t \in Seekers \ {s} : Untouched(t)
    <2>1. \A t \in Seekers \ {s} : LiveRows(t)' = LiveRows(t) /\ AcceptedRows(t)' = AcceptedRows(t)
      BY <1>1, <1>2, <1>3
    <2>2. QED
      BY <2>1, UntouchedByRows
  <1>5. LiveRows(s) = {c}
    BY <1>1 DEF Ready, SerialInv, RowsFit
  <1>6. LiveRows(s)' = {}
    BY <1>1, <1>2, <1>3, <1>5
  <1>7. LiveRound[s] > 0 /\ LiveRound'[s] = 0
    <2>1. LiveRound[s] = offers[c].round /\ LiveRound'[s] = 0
      BY <1>1, <1>6 DEF Ready, MappingFits, LiveFits
    <2>2. offers[c].round \in 1 .. MaxRounds
      BY DEF Ready, IInv, TypeOK, Offer
    <2>3. QED
      BY <2>1, <2>2
  <1>8. ASSUME status = "ACCEPTED" PROVE Refines
    <2>1. AcceptedRows(s)' = AcceptedRows(s) \cup {c}
      BY <1>1, <1>2, <1>3, <1>8
    <2>2. Deals'[s] = Deals[s] + 1
      <3>1. /\ Deals[s] = Cardinality(AcceptedRows(s)) /\ IsFiniteSet(AcceptedRows(s))
            /\ Deals'[s] = Cardinality(AcceptedRows(s) \cup {c})
        BY <2>1 DEF Ready, MappingFits, LiveFits
      <3>2. c \notin AcceptedRows(s)
        BY <1>1
      <3>3. Cardinality(AcceptedRows(s) \cup {c}) = Cardinality(AcceptedRows(s)) + 1
        BY ONLY <3>1, <3>2, FS_AddElement
      <3>4. QED
        BY <3>1, <3>3
    <2>3. /\ LiveRound' = [LiveRound EXCEPT ![s] = 0]
          /\ Deals' = [Deals EXCEPT ![s] = Deals[s] + 1]
      BY <1>4, <1>7, <2>2 DEF Untouched, Ready, MappingFits
    <2>4. Contract!Accept(s)
      BY <1>7, <2>3 DEF Contract!Accept
    <2>5. QED
      BY <2>4 DEF Refines, Contract!Next
  <1>9. ASSUME status = "REJECTED" PROVE Refines
    <2>1. AcceptedRows(s)' = AcceptedRows(s)
      <3>1. \A o \in OfferId : o \in AcceptedRows(s)' <=> o \in AcceptedRows(s)
        BY <1>1, <1>2, <1>9
      <3>2. QED
        BY <1>3, <3>1, SameRows
    <2>2. Deals'[s] = Deals[s]
      BY <2>1 DEF Ready, MappingFits, LiveFits
    <2>3. /\ LiveRound' = [t \in Seekers |-> IF t \in {s} THEN 0 ELSE LiveRound[t]]
          /\ Deals' = Deals
      BY <1>4, <1>7, <2>2 DEF Untouched, Ready, MappingFits
    <2>4. Contract!Lapse({s})
      BY <1>7, <2>3 DEF Contract!Lapse
    <2>5. {s} \in SUBSET Seekers
      OBVIOUS
    <2>6. QED
      BY <2>4, <2>5 DEF Refines, Contract!Next
  <1>10. QED
    BY <1>8, <1>9

LEMMA ExpiryRefines ==
    ASSUME Ready, Ready', \A o \in OfferId : RowKept(o),
           NEW S \in SUBSET OfferId, Expired(S)
    PROVE  Refines
  <1> DEFINE T == {offers[o].seeker : o \in S}
  <1>1. T \in SUBSET Seekers
    BY DEF Expired, Ready, SerialInv, RowsFit, Rows
  <1>2. \A o \in S, t \in Seekers : o \notin LiveRows(t)' /\ o \notin AcceptedRows(t)
                                    /\ o \notin AcceptedRows(t)'
    BY DEF Expired, LiveRows, AcceptedRows, Live
  <1>3. \A o \in OfferId \ S, t \in Seekers : /\ o \in LiveRows(t)' <=> o \in LiveRows(t)
                                              /\ o \in AcceptedRows(t)' <=> o \in AcceptedRows(t)
    BY MembersKept DEF Expired
  <1>4. \A t \in Seekers : LiveRows(t) \subseteq OfferId /\ AcceptedRows(t) \subseteq OfferId
                           /\ LiveRows(t)' \subseteq OfferId /\ AcceptedRows(t)' \subseteq OfferId
    BY DEF LiveRows, AcceptedRows, Of
  <1>5. \A t \in Seekers : AcceptedRows(t)' = AcceptedRows(t)
    BY <1>2, <1>3, <1>4
  <1>6. ASSUME NEW t \in Seekers \ T PROVE Untouched(t)
    <2>1. \A o \in S : o \notin LiveRows(t)
      BY <1>6 DEF LiveRows, Of
    <2>2. LiveRows(t)' = LiveRows(t)
      BY <1>2, <1>3, <1>4, <2>1, SameRows
    <2>3. QED
      BY <1>5, <2>2, UntouchedByRows
  <1>7. ASSUME NEW t \in T PROVE LiveRound[t] > 0 /\ LiveRound'[t] = 0
    <2>1. PICK o \in S : offers[o].seeker = t
      OBVIOUS
    <2>2. t \in Seekers /\ o \in LiveRows(t)
      BY <1>1, <2>1 DEF Expired, LiveRows, Of, Live
    <2>3. LiveRows(t) = {o}
      BY <2>2 DEF Ready, SerialInv, RowsFit
    <2>4. LiveRows(t)' = {}
      BY <1>2, <1>3, <1>4, <2>2, <2>3
    <2>5. LiveRound[t] = offers[o].round /\ LiveRound'[t] = 0
      BY <2>2, <2>4 DEF Ready, MappingFits, LiveFits
    <2>6. offers[o].round \in 1 .. MaxRounds
      BY DEF Ready, IInv, TypeOK, Offer
    <2>7. QED
      BY <2>5, <2>6
  <1>8. \A t \in Seekers : Deals'[t] = Deals[t]
    BY <1>5 DEF Ready, MappingFits, LiveFits
  <1> HIDE DEF T
  <1>9. /\ LiveRound' = [t \in Seekers |-> IF t \in T THEN 0 ELSE LiveRound[t]]
        /\ Deals' = Deals
    BY <1>1, <1>6, <1>7, <1>8 DEF Untouched, Ready, MappingFits
  <1>10. Contract!Lapse(T)
    BY <1>7, <1>9 DEF Contract!Lapse
  <1>11. QED
    BY <1>1, <1>10 DEF Refines, Contract!Next

LEMMA NextRefines ==
    ASSUME Ready, Ready', [Next]_vars
    PROVE  Refines
  <1>1. \A o \in OfferId : RowKept(o)
    BY StepKeepsRows DEF Ready, IInv
  <1>2. CASE \A o \in OfferId : StatusKept(o)
    <2>1. \A t \in Seekers : LiveRows(t) \subseteq OfferId /\ AcceptedRows(t) \subseteq OfferId
                             /\ LiveRows(t)' \subseteq OfferId /\ AcceptedRows(t)' \subseteq OfferId
      BY DEF LiveRows, AcceptedRows, Of
    <2>2. \A t \in Seekers : LiveRows(t)' = LiveRows(t) /\ AcceptedRows(t)' = AcceptedRows(t)
      BY <1>1, <1>2, <2>1, MembersKept
    <2>3. \A t \in Seekers : Untouched(t)
      BY <1>1, <2>2, UntouchedByRows
    <2>4. LiveRound' = LiveRound /\ Deals' = Deals
      BY <2>3 DEF Untouched, Ready, MappingFits
    <2>5. QED
      BY <2>4 DEF Refines, Contract!vars
  <1>3. QED
    BY <1>1, <1>2, SubmitRefines, CounterRefines, AnswerRefines, ExpiryRefines, StatusSteps DEF Ready

\* Executed one session at a time, failing anywhere, the sweeper included,
\* offers/service.py gives every seeker the negotiation it promises: one live
\* round, rounds in order up to the cap, acceptances that count for good.
THEOREM NegotiationIsKept == ASSUME ~Overlap PROVE Spec => ImplementsNegotiation
  <1>1. Init => Contract!Init
    <2> SUFFICES ASSUME Init PROVE Contract!Init
        OBVIOUS
    <2>1. \A s \in Seekers : Of(s) = {}
      BY DEF Init, Of, NoRow
    <2>2. LiveRound = [s \in Seekers |-> 0]
      BY <2>1 DEF LiveRound, LiveRows
    <2>3. Deals = [s \in Seekers |-> 0]
      BY <2>1, FS_EmptySet DEF Deals
    <2>4. QED
      BY <2>2, <2>3 DEF Contract!Init
  <1>2. Ready /\ Ready' /\ [Next]_vars => [Contract!Next]_(Contract!vars)
    BY NextRefines DEF Refines
  <1>3. Spec => []Ready
    <2>1. IInv /\ SerialInv => Ready
      BY MappingIs DEF Ready
    <2>2. Spec => [](IInv /\ SerialInv)
      BY SerialInvariance
    <2>3. QED
      BY <2>1, <2>2, PTL
  <1>4. QED
    BY <1>1, <1>2, <1>3, PTL DEF Spec, ImplementsNegotiation, Contract!Spec

\* One session at a time nothing overwrites an acceptance; that the sweeper
\* does with overlap is the finding of run offers_accept_swept.
THEOREM AcceptanceStands == ASSUME ~Overlap PROVE Spec => AcceptanceIsTerminal
  <1>1. IInv /\ SerialInv /\ [Next]_vars =>
          [\A o \in OfferId : offers[o].status = "ACCEPTED" => offers'[o].status = "ACCEPTED"]_vars
    <2> SUFFICES ASSUME IInv, SerialInv, [Next]_vars, NEW o \in OfferId,
                        offers[o].status = "ACCEPTED"
                 PROVE  offers'[o].status = "ACCEPTED"
        OBVIOUS
    <2>1. QED
      BY StatusSteps DEF StatusKept, Submitted, Inserted, Countered, Answered, Expired
  <1>2. QED
    BY <1>1, SerialInvariance, PTL DEF Spec, AcceptanceIsTerminal

-----------------------------------------------------------------------------
(* The notifications of a single sweeper *)

OneSweeper == \A k, l \in Sweepers : k = l

\* The plan of the open sweep is for flags the row still does not have.
PlanIsNews(k, o) ==
    sweep[k].plan[o] # "none" =>
        sweep[k].seen[o] = offers[o].sent /\ sweep[k].plan[o] \notin offers[o].sent

NoticesInv ==
    /\ NoticesMatchFlags
    /\ \A o \in OfferId : offers[o].status = "absent" => offers[o].sent = {}
    /\ \A k \in Sweepers, o \in OfferId : PlanIsNews(k, o)

LEMMA OtherStepsKeepFlags ==
    ASSUME IInv, NoticesInv, [Next]_vars, ~(\E k \in Sweepers : CommitSweep(k))
    PROVE  notices' = notices /\ \A o \in OfferId : offers'[o].sent = offers[o].sent
  <1>0. offers \in [OfferId -> Offer] /\ RequestsAgree
    BY DEF IInv, TypeOK
  <1>1. ASSUME NEW w \in Workers, NEW n \in OfferId, CommitSubmit(w, n)
        PROVE  notices' = notices /\ \A o \in OfferId : offers'[o].sent = offers[o].sent
    BY <1>0, <1>1 DEF CommitSubmit, FirstRound, NoticesInv
  <1>2. ASSUME NEW w \in Workers, NEW n \in OfferId, CommitCounter(w, n)
        PROVE  notices' = notices /\ \A o \in OfferId : offers'[o].sent = offers[o].sent
    <2>1. PICK c \in OfferId : c = req[w].offer /\ offers[c].status # "absent"
      BY <1>0, <1>2 DEF CommitCounter, RequestsAgree, Response
    <2>2. offers[n].status = "absent" /\ c # n /\ notices' = notices
      BY <1>2, <2>1 DEF CommitCounter
    <2>3. offers'[n].sent = {} /\ offers[n].sent = {}
      BY <1>0, <1>2, <2>1, <2>2 DEF CommitCounter, NextRound, NoticesInv
    <2>4. offers'[c].sent = offers[c].sent
      <3>1. offers'[c] = [offers[c] EXCEPT !.status = "COUNTERED"] /\ offers[c] \in Offer
        BY <1>0, <1>2, <2>1, <2>2 DEF CommitCounter
      <3>2. QED
        BY <3>1 DEF Offer
    <2>5. \A o \in OfferId \ {c, n} : offers'[o] = offers[o]
      BY <1>0, <1>2, <2>1 DEF CommitCounter
    <2>6. QED
      BY <2>2, <2>3, <2>4, <2>5
  <1>3. ASSUME NEW w \in Workers, CommitAccept(w) \/ CommitReject(w)
        PROVE  notices' = notices /\ \A o \in OfferId : offers'[o].sent = offers[o].sent
    BY <1>0, <1>3 DEF CommitAccept, CommitReject, Offer
  <1>4. ASSUME NEW n \in OfferId, TimePasses(n)
        PROVE  notices' = notices /\ \A o \in OfferId : offers'[o].sent = offers[o].sent
    BY <1>0, <1>4 DEF TimePasses, Offer
  <1>5. CASE UNCHANGED <<offers, notices>>
    BY <1>5
  <1>6. QED
    BY <1>1, <1>2, <1>3, <1>4, <1>5
       DEF Next, Requests, Sweeping, Environment, Abort, BeginSubmit, BeginRespond,
           BeginSweep, AbortSweep, VisitCompletes, vars

\* A sequence without repetitions, and an element it has not.
LEMMA AppendNew ==
    ASSUME NEW q \in Seq(Bucket), NEW b \in Bucket, b \notin {q[i] : i \in DOMAIN q},
           \A i, j \in DOMAIN q : q[i] = q[j] => i = j
    PROVE  LET r == Append(q, b) IN
           /\ {r[i] : i \in DOMAIN r} = {q[i] : i \in DOMAIN q} \cup {b}
           /\ \A i, j \in DOMAIN r : r[i] = r[j] => i = j
  <1> DEFINE r == Append(q, b)
  <1>1. /\ Len(q) \in Nat /\ DOMAIN q = 1 .. Len(q) /\ DOMAIN r = 1 .. (Len(q) + 1)
        /\ \A i \in 1 .. Len(q) : r[i] = q[i]
        /\ r[Len(q) + 1] = b
    OBVIOUS
  <1>2. DOMAIN r = DOMAIN q \cup {Len(q) + 1}
    BY <1>1
  <1> HIDE DEF r
  <1>3. {r[i] : i \in DOMAIN r} = {q[i] : i \in DOMAIN q} \cup {b}
    BY <1>1, <1>2
  <1>4. \A i, j \in DOMAIN r : r[i] = r[j] => i = j
    BY <1>1, <1>2
  <1>5. QED
    BY <1>3, <1>4 DEF r

LEMMA NextNoticesInv ==
    ASSUME OneSweeper, IInv, NoticesInv, [Next]_vars
    PROVE  NoticesInv'
  <1>0. /\ offers \in [OfferId -> Offer] /\ notices \in [OfferId -> Seq(Bucket)]
        /\ sweep \in [Sweepers -> Sweep] /\ PlansAreDue
    BY DEF IInv, TypeOK
  <1>1. \A o \in OfferId : RowKept(o)
    BY StepKeepsRows DEF IInv
  <1>2. ASSUME NEW k \in Sweepers, CommitSweep(k) PROVE NoticesInv'
    <2>1. ASSUME NEW l \in Sweepers, NEW o \in OfferId PROVE PlanIsNews(l, o)'
      BY <1>0, <1>2 DEF CommitSweep, OneSweeper, NoSweep, PlanIsNews
    <2>2. ASSUME NEW o \in OfferId
          PROVE  /\ {notices'[o][i] : i \in DOMAIN notices'[o]} = offers'[o].sent
                 /\ \A i, j \in DOMAIN notices'[o] : notices'[o][i] = notices'[o][j] => i = j
                 /\ offers'[o].status = "absent" => offers'[o].sent = {}
      <3> DEFINE b == sweep[k].plan[o]
      <3>0. /\ {notices[o][i] : i \in DOMAIN notices[o]} = offers[o].sent
            /\ \A i, j \in DOMAIN notices[o] : notices[o][i] = notices[o][j] => i = j
            /\ offers[o].status = "absent" => offers[o].sent = {}
            /\ b # "none" => sweep[k].seen[o] = offers[o].sent /\ b \notin offers[o].sent
        BY DEF NoticesInv, NoticesMatchFlags, PlanIsNews
      <3>1. offers'[o] = RowAfterSweep(k, o) /\ offers[o] \in Offer
        BY <1>0, <1>2 DEF CommitSweep
      <3>2. CASE b = "none"
        <4>1. notices'[o] = notices[o] /\ offers'[o] = offers[o]
          BY <1>2, <3>1, <3>2 DEF CommitSweep, RowAfterSweep
        <4>2. QED
          BY <3>0, <4>1
      <3>3. CASE b # "none"
        <4>1. b \in Bucket /\ notices[o] \in Seq(Bucket) /\ notices'[o] = Append(notices[o], b)
          BY <1>0, <1>2, <3>3 DEF CommitSweep, Sweep
        <4>2. offers'[o].sent = offers[o].sent \cup {b}
          BY <3>0, <3>1, <3>3 DEF RowAfterSweep, Offer
        <4>3. offers[o].status # "absent"
          BY <1>0, <3>3 DEF PlansAreDue
        <4>4. offers'[o].status # "absent"
          BY <1>1, <4>3 DEF RowKept
        <4> HIDE DEF b
        <4>5. QED
          BY <3>0, <3>3, <4>1, <4>2, <4>4, AppendNew
      <3>4. QED
        BY <3>2, <3>3
    <2>3. QED
      BY <2>1, <2>2 DEF NoticesInv, NoticesMatchFlags
  <1>3. CASE ~(\E k \in Sweepers : CommitSweep(k))
    <2>1. notices' = notices /\ \A o \in OfferId : offers'[o].sent = offers[o].sent
      BY <1>3, OtherStepsKeepFlags
    <2>2. NoticesMatchFlags'
      BY <2>1 DEF NoticesInv, NoticesMatchFlags
    <2>3. \A o \in OfferId : offers'[o].status = "absent" => offers'[o].sent = {}
      BY <1>1, <2>1 DEF RowKept, NoticesInv
    <2>4. ASSUME NEW k \in Sweepers, BeginSweep(k), NEW l \in Sweepers, NEW o \in OfferId
          PROVE  PlanIsNews(l, o)'
      <3>1. /\ sweep'[l].plan[o] = IF o \in Swept THEN Due(o) ELSE "none"
            /\ sweep'[l].seen[o] = IF o \in Swept THEN offers[o].sent ELSE {}
        BY <1>0, <2>4 DEF BeginSweep, OneSweeper
      <3>2. Due(o) # "none" => Due(o) \notin offers[o].sent
        BY DEF Due
      <3>3. QED
        BY <2>1, <3>1, <3>2 DEF PlanIsNews
    <2>5. ASSUME NEW k \in Sweepers, AbortSweep(k), NEW l \in Sweepers, NEW o \in OfferId
          PROVE  PlanIsNews(l, o)'
      BY <1>0, <2>5 DEF AbortSweep, OneSweeper, NoSweep, PlanIsNews
    <2>6. ASSUME sweep' = sweep, NEW l \in Sweepers, NEW o \in OfferId PROVE PlanIsNews(l, o)'
      BY <2>1, <2>6 DEF PlanIsNews, NoticesInv
    <2>7. sweep' = sweep \/ \E k \in Sweepers : BeginSweep(k) \/ AbortSweep(k)
      BY <1>3 DEF Next, Requests, Sweeping, Environment, Abort, BeginSubmit, BeginRespond,
         CommitSubmit, CommitCounter, CommitAccept, CommitReject, TimePasses, VisitCompletes, vars
    <2>8. QED
      BY <2>2, <2>3, <2>4, <2>5, <2>6, <2>7 DEF NoticesInv
  <1>4. QED
    BY <1>2, <1>3

\* With one sweeper, however its runs overlap with answers and fail, the flags
\* of a row tell exactly which notifications went out, each of them once
\* (_process_open_offers; a second sweeper would repeat them).
THEOREM FlagsTellTheNotices == ASSUME OneSweeper PROVE Spec => []NoticesMatchFlags
  <1>1. Init => NoticesInv
    <2> SUFFICES ASSUME Init PROVE NoticesInv
        OBVIOUS
    <2>1. \A o \in OfferId : notices[o] = <<>> /\ offers[o].sent = {}
      BY DEF Init, NoRow
    <2>2. NoticesMatchFlags
      BY <2>1 DEF NoticesMatchFlags
    <2>3. \A k \in Sweepers, o \in OfferId : PlanIsNews(k, o)
      BY DEF Init, NoSweep, PlanIsNews
    <2>4. QED
      BY <2>1, <2>2, <2>3 DEF NoticesInv
  <1>2. IInv /\ NoticesInv /\ [Next]_vars => NoticesInv'
    BY NextNoticesInv
  <1>3. NoticesInv => NoticesMatchFlags
    BY DEF NoticesInv
  <1>4. Spec => []IInv
    BY Invariance
  <1>5. QED
    BY <1>1, <1>2, <1>3, <1>4, PTL DEF Spec
=============================================================================
