---------------------------- MODULE VisitsProofs ----------------------------
(***************************************************************************)
(* For every set of visits, agents and overlapping requests: tables and    *)
(* sessions keep their types, and no agreement is unlocked on a visit      *)
(* without the report of an eligible agent.  One session at a time, who    *)
(* confirmed a visit conducts it, a visit that is over is final, and the   *)
(* code implements the abstract Conduct.                                   *)
(***************************************************************************)
EXTENDS Visits, TLAPS

Reported == {"REPORT_PENDING", "REPORT_QUERIED", "COMPLETED"}

\* No former inspector is on a row, and a visit gets past AGENT_ASSIGNED only
\* through a confirmation.
RowsAgree ==
    \A v \in VisitId :
        /\ visits[v].agent \notin Inspectors
        /\ visits[v].author \notin Inspectors
        /\ visits[v].status \in Reported \cup {"SCHEDULED"} => confirmer[v] # None

\* What an open session relies on has not gone away since it read the row:
\* confirmations and reports are overwritten, never erased.
SessionsAgree ==
    \A w \in Workers :
        /\ req[w].op # "idle" => req[w].visit \in VisitId
        /\ req[w].op \in {"assign", "confirm", "report"} => req[w].agent \in Agents \ Inspectors
        /\ req[w].op \in Review \cup {"report"} => confirmer[req[w].visit] # None
        /\ req[w].op \in Review => visits[req[w].visit].author # None

IInv == TypeOK /\ RowsAgree /\ SessionsAgree /\ AgreementHasReport

USE VisitsAssumption

LEMMA InitIInv == Init => IInv
  <1> SUFFICES ASSUME Init PROVE IInv
      OBVIOUS
  <1>1. NoVisit \in Visit
    BY DEF NoVisit, Visit, Status
  <1>2. Idle \in Request
    BY <1>1 DEF Idle, Request, ListingStatus, Status
  <1>3. TypeOK
    BY <1>1, <1>2 DEF Init, TypeOK, ListingStatus, NoVisit
  <1>4. RowsAgree
    BY DEF Init, RowsAgree, Reported, NoVisit
  <1>5. SessionsAgree
    BY DEF Init, SessionsAgree, Idle, Review
  <1>6. AgreementHasReport
    BY DEF Init, AgreementHasReport
  <1>7. QED
    BY <1>3, <1>4, <1>5, <1>6 DEF IInv

-----------------------------------------------------------------------------
(* What a step does to a row *)

\* Confirmations and reports may be replaced and never go away, agents and
\* authors are eligible, a status that needs a confirmation or a report comes
\* with it, and so does an agreement.
RowStep(v) ==
    /\ visits'[v] \in Visit
    /\ visits'[v].agent \notin Inspectors
    /\ visits'[v].author = visits[v].author \/ visits'[v].author \in Agents \ Inspectors
    /\ confirmer'[v] = confirmer[v] \/ confirmer'[v] \in Agents
    /\ \/ visits'[v].status = visits[v].status
       \/ /\ visits'[v].status \in Reported \cup {"SCHEDULED"} => confirmer'[v] # None
          /\ visits'[v].status \in Reported => visits'[v].author # None
    /\ \/ agreement'[v] = agreement[v]
       \/ /\ visits'[v].author # None
          /\ confirmer'[v] # None

\* The step of row u when a step leaves that row alone.
LEMMA RowKept ==
    ASSUME TypeOK, RowsAgree, NEW u \in VisitId,
           visits'[u] = visits[u], confirmer'[u] = confirmer[u], agreement'[u] = agreement[u]
    PROVE  RowStep(u)
  BY DEF RowStep, RowsAgree, TypeOK

\* Every step takes every row as RowStep says.
LEMMA RowSteps ==
    ASSUME IInv, [Next]_vars
    PROVE  \A u \in VisitId : RowStep(u)
  <1> SUFFICES ASSUME NEW u \in VisitId PROVE RowStep(u)
      OBVIOUS
  <1>0. TypeOK /\ RowsAgree
    BY DEF IInv
  <1>1. CASE UNCHANGED <<visits, confirmer, agreement>>
    BY <1>0, <1>1, RowKept
  <1>2. ASSUME NEW v \in VisitId, RequestVisit(v) PROVE RowStep(u)
    BY <1>0, <1>2, RowKept DEF RequestVisit, RowStep, RowsAgree, Reported, TypeOK, Visit, Status, Assignable
  <1>3. ASSUME NEW w \in Workers, NEW v \in VisitId, Commit(w), u # req[w].visit PROVE RowStep(u)
    <2>1. /\ visits'[u] = visits[u] 
          /\ confirmer'[u] = confirmer[u]
          /\ agreement'[u] = agreement[u]
      BY <1>0, <1>3 DEF Commit, Running, Reviewed, CommitAssign, CommitConfirm, CommitConflict,
         CommitReport, CommitCancel, CommitApprove, CommitQuery, CommitFlag, TypeOK
    <2>2. QED
      BY <1>0, <2>1, RowKept
  <1>4. ASSUME NEW w \in Workers, Commit(w), u = req[w].visit PROVE RowStep(u)
    <2>0. req[w] \in Request /\ visits[u] \in Visit /\ visits \in [VisitId -> Visit]
      BY <1>0 DEF TypeOK
    <2> USE <1>0, <1>4, <2>0 DEF Running, Reviewed, RowStep, RowsAgree, TypeOK
    <2>1. CASE CommitAssign(w, u)
      <3>1. PICK st \in {visits[u].status, "AGENT_ASSIGNED"}, a \in {visits[u].agent, req[w].agent} :
               visits' = [visits EXCEPT ![u].agent = a, ![u].status = st]
        BY <2>1 DEF CommitAssign, Written
      <3>2. req[w].agent \in Agents \ Inspectors
        BY <2>1 DEF CommitAssign, IInv, SessionsAgree
      <3>3. /\ visits'[u] = [status |-> st, agent |-> a, author |-> visits[u].author]
            /\ UNCHANGED <<confirmer, agreement>>
        BY <2>1, <3>1 DEF CommitAssign, Visit
      <3>4. visits'[u] \in Visit /\ a \notin Inspectors
        BY <3>1, <3>2, <3>3 DEF Visit, Status, Assignable
      <3>5. QED
        BY <3>1, <3>3, <3>4 DEF Reported
    <2>2. CASE CommitConfirm(w, u)
      <3>1. req[w].agent \in Agents
        BY <2>2 DEF CommitConfirm, IInv, SessionsAgree
      <3>2. QED
        BY <2>2, <3>1, VisitsAssumption DEF CommitConfirm, Visit, Status, Reportable, Reported
    <2>3. CASE CommitConflict(w, u)
      BY <2>3, VisitsAssumption DEF CommitConflict, Visit, Status, Assignable, Reported
    <2>4. CASE CommitReport(w, u)
      <3>1. req[w].agent \in Agents \ Inspectors /\ confirmer[u] # None
        BY <2>4 DEF CommitReport, IInv, SessionsAgree
      <3>2. QED
        BY <2>4, <3>1, VisitsAssumption DEF CommitReport, Visit, Status, Reported
    <2>5. CASE CommitCancel(w, u)
      BY <2>5 DEF CommitCancel, Visit, Status, Over, Reported
    <2>6. ASSUME NEW op \in Review, req[w].op = op PROVE confirmer[u] # None /\ visits[u].author # None
      BY <2>6 DEF IInv, SessionsAgree
    <2>7. CASE CommitApprove(w, u)
      BY <2>6, <2>7 DEF CommitApprove, Review, Visit, Status, Over, Reported
    <2>8. CASE CommitQuery(w, u)
      BY <2>6, <2>8 DEF CommitQuery, Review, Visit, Status, Reportable, Reported
    <2>9. CASE CommitFlag(w, u)
      BY <2>6, <2>9 DEF CommitFlag, Review, Visit, Status, Over, Reported
    <2>10. \/ CommitAssign(w, u) \/ CommitConfirm(w, u) \/ CommitConflict(w, u)
           \/ CommitReport(w, u) \/ CommitCancel(w, u)
           \/ CommitApprove(w, u) \/ CommitQuery(w, u) \/ CommitFlag(w, u)
      <3>1. PICK v \in VisitId :
              \/ CommitAssign(w, v) \/ CommitConfirm(w, v) \/ CommitConflict(w, v)
              \/ CommitReport(w, v) \/ CommitCancel(w, v)
              \/ CommitApprove(w, v) \/ CommitQuery(w, v) \/ CommitFlag(w, v)
        BY ONLY <1>4 DEF Commit
      <3>2. req[w].visit = v
        BY ONLY <3>1 DEF Running, Reviewed, CommitAssign, CommitConfirm, CommitConflict,
           CommitReport, CommitCancel, CommitApprove, CommitQuery, CommitFlag
      <3>3. u = v
        BY ONLY <1>4, <3>2
      <3>4. QED
        BY ONLY <3>1, <3>3
    <2>11. QED
      BY ONLY <2>1, <2>2, <2>3, <2>4, <2>5, <2>7, <2>8, <2>9, <2>10
  <1>5. ASSUME NEW w \in Workers, Begin(w) \/ Abort(w) PROVE UNCHANGED <<visits, confirmer, agreement>>
    BY <1>5 DEF Begin, BeginAssign, BeginConfirm, BeginReport, BeginCancel, BeginReview, Start, Abort
  <1>6. ASSUME ListingChanges \/ UNCHANGED vars PROVE UNCHANGED <<visits, confirmer, agreement>>
    BY <1>6 DEF ListingChanges, vars
  <1>7. QED
    BY <1>1, <1>2, <1>3, <1>4, <1>5, <1>6 DEF Next

-----------------------------------------------------------------------------
(* What a step does to a session *)

\* A session stays, ends, or starts with what SessionsAgree says of it.
SessionStep(w) ==
    \/ req'[w] \in {req[w], Idle}
    \/ /\ req'[w] \in Request
       /\ req'[w].visit \in VisitId
       /\ req'[w].op \in {"assign", "confirm", "report"} => req'[w].agent \in Agents \ Inspectors
       /\ req'[w].op \in Review \cup {"report"} => confirmer[req'[w].visit] # None
       /\ req'[w].op \in Review => visits[req'[w].visit].author # None

\* The guards of a request establish what its session relies on.
LEMMA StartStep ==
    ASSUME TypeOK, NEW w \in Workers, NEW v \in VisitId, NEW g \in Agents \cup {None},
           NEW op \in {"assign", "confirm", "conflict", "report", "cancel"} \cup Review,
           Start(w, op, v, g),
           op \in {"assign", "confirm", "report"} => g \in Agents \ Inspectors,
           op \in Review \cup {"report"} => confirmer[v] # None,
           op \in Review => visits[v].author # None
    PROVE  \A u \in Workers : SessionStep(u)
  <1> DEFINE started == [op |-> op, visit |-> v, agent |-> g, seen |-> visits[v], live |-> listing]
  <1>1. req' = [req EXCEPT ![w] = started]
    BY DEF Start
  <1>2. started \in Request
    BY DEF TypeOK, Request
  <1>3. QED
    BY <1>1, <1>2 DEF TypeOK, SessionStep

\* Every step takes every session as SessionStep says.
LEMMA SessionSteps ==
    ASSUME IInv, [Next]_vars
    PROVE  \A u \in Workers : SessionStep(u)
  <1>0. TypeOK /\ RowsAgree
    BY DEF IInv
  <1>1. ASSUME NEW w \in Workers, Begin(w) PROVE \A u \in Workers : SessionStep(u)
    <2>1. ASSUME NEW v \in VisitId, NEW g \in Agents, BeginAssign(w, v, g)
          PROVE  \A u \in Workers : SessionStep(u)
      BY <1>0, <2>1, StartStep DEF BeginAssign, Review
    <2>2. ASSUME NEW v \in VisitId, NEW g \in Agents, NEW op \in {"confirm", "conflict"},
                 BeginConfirm(w, v, g, op)
          PROVE  \A u \in Workers : SessionStep(u)
      BY <1>0, <2>2, StartStep DEF BeginConfirm, IsAssignee, RowsAgree, Review
    <2>3. ASSUME NEW v \in VisitId, NEW g \in Agents, BeginReport(w, v, g)
          PROVE  \A u \in Workers : SessionStep(u)
      BY <1>0, <2>3, StartStep DEF BeginReport, IsAssignee, RowsAgree, Review, Reportable, Reported
    <2>4. ASSUME NEW v \in VisitId, BeginCancel(w, v) PROVE \A u \in Workers : SessionStep(u)
      BY <1>0, <2>4, StartStep DEF BeginCancel, Review
    <2>5. ASSUME NEW v \in VisitId, NEW op \in Review, BeginReview(w, v, op)
          PROVE  \A u \in Workers : SessionStep(u)
      <3>1. confirmer[v] # None /\ visits[v].author # None
        BY <1>0, <2>5 DEF BeginReview, AwaitsReview, RowsAgree, TypeOK, Reported
      <3>2. QED
        BY <1>0, <2>5, <3>1, StartStep DEF BeginReview, Review
    <2>6. QED
      BY <1>1, <2>1, <2>2, <2>3, <2>4, <2>5 DEF Begin
  <1>2. ASSUME NEW w \in Workers, Commit(w) \/ Abort(w) PROVE Finish(w)
    BY <1>2 DEF Commit, Abort, Reviewed, CommitAssign, CommitConfirm, CommitConflict,
       CommitReport, CommitCancel, CommitApprove, CommitQuery, CommitFlag
  <1>3. ASSUME NEW w \in Workers, Finish(w) PROVE \A u \in Workers : SessionStep(u)
    BY <1>0, <1>3 DEF Finish, SessionStep, TypeOK
  <1>4. ASSUME UNCHANGED req PROVE \A u \in Workers : SessionStep(u)
    BY <1>4 DEF SessionStep
  <1>5. ASSUME ListingChanges \/ UNCHANGED vars \/ \E v \in VisitId : RequestVisit(v)
        PROVE  UNCHANGED req
    BY <1>5 DEF ListingChanges, RequestVisit, vars
  <1>6. QED
    BY <1>1, <1>2, <1>3, <1>4, <1>5 DEF Next

-----------------------------------------------------------------------------
(* The invariant *)

LEMMA NextRowsAgree ==
    ASSUME IInv, [Next]_vars
    PROVE  RowsAgree'
  <1> SUFFICES ASSUME NEW v \in VisitId
               PROVE  /\ visits'[v].agent \notin Inspectors
                      /\ visits'[v].author \notin Inspectors
                      /\ visits'[v].status \in Reported \cup {"SCHEDULED"} => confirmer'[v] # None
      BY DEF RowsAgree
  <1>1. RowStep(v)
    BY RowSteps
  <1>2. RowsAgree
    BY DEF IInv
  <1>3. QED
    BY <1>1, <1>2 DEF RowStep, RowsAgree

LEMMA NextAgreementHasReport ==
    ASSUME IInv, [Next]_vars
    PROVE  AgreementHasReport'
  <1> SUFFICES ASSUME NEW v \in VisitId, agreement'[v]
               PROVE  visits'[v].author \in Agents \ Inspectors /\ confirmer'[v] # None
      BY DEF AgreementHasReport
  <1>1. RowStep(v)
    BY RowSteps
  <1>2. visits'[v].author \notin Inspectors
    BY NextRowsAgree DEF RowsAgree
  <1>3. visits'[v].author # None /\ confirmer'[v] # None
    BY <1>1 DEF RowStep, IInv, AgreementHasReport
  <1>4. visits'[v].author \in Agents \cup {None}
    BY <1>1 DEF RowStep, Visit
  <1>5. QED
    BY <1>2, <1>3, <1>4

LEMMA NextSessionsAgree ==
    ASSUME IInv, [Next]_vars
    PROVE  SessionsAgree'
  <1> SUFFICES ASSUME NEW w \in Workers
               PROVE  /\ req'[w].op # "idle" => req'[w].visit \in VisitId
                      /\ req'[w].op \in {"assign", "confirm", "report"}
                            => req'[w].agent \in Agents \ Inspectors
                      /\ req'[w].op \in Review \cup {"report"} => confirmer'[req'[w].visit] # None
                      /\ req'[w].op \in Review => visits'[req'[w].visit].author # None
      BY DEF SessionsAgree
  <1>1. \A v \in VisitId : /\ confirmer[v] # None => confirmer'[v] # None
                           /\ visits[v].author # None => visits'[v].author # None
    BY RowSteps DEF RowStep
  <1>2. SessionsAgree
    BY DEF IInv
  <1>3. SessionStep(w)
    BY SessionSteps
  <1>4. CASE req'[w] = req[w]
    BY <1>1, <1>2, <1>4 DEF SessionsAgree, Review
  <1>5. CASE req'[w] = Idle
    BY <1>5 DEF Idle, Review
  <1>6. CASE req'[w] \notin {req[w], Idle}
    BY <1>1, <1>3, <1>6 DEF SessionStep
  <1>7. QED
    BY <1>4, <1>5, <1>6

\* The tables outside rows and sessions, and what the others are functions of.
LEMMA NextTables ==
    ASSUME TypeOK, [Next]_vars
    PROVE  /\ visits'    = [v \in VisitId |-> visits'[v]]
           /\ confirmer' = [v \in VisitId |-> confirmer'[v]]
           /\ req'       = [w \in Workers |-> req'[w]]
           /\ outcome'   \in [VisitId -> SUBSET Review]
           /\ agreement' \in [VisitId -> BOOLEAN]
           /\ listing'   \in ListingStatus
  <1> USE DEF TypeOK
  <1>1. ASSUME NEW w \in Workers, Begin(w)
        PROVE  \E r : req' = [req EXCEPT ![w] = r]
    BY <1>1 DEF Begin, BeginAssign, BeginConfirm, BeginReport, BeginCancel, BeginReview, Start
  <1>2. ASSUME NEW w \in Workers, Begin(w)
        PROVE  UNCHANGED <<visits, confirmer, outcome, agreement, listing>>
    BY <1>2 DEF Begin, BeginAssign, BeginConfirm, BeginReport, BeginCancel, BeginReview, Start
  <1>3. CASE \E w \in Workers : Begin(w)
    BY <1>1, <1>2, <1>3
  <1>4. CASE \E w \in Workers : Abort(w)
    BY <1>4 DEF Abort, Finish
  <1>5. CASE \E v \in VisitId : RequestVisit(v)
    BY <1>5 DEF RequestVisit
  <1>6. CASE ListingChanges
    BY <1>6 DEF ListingChanges, ListingStatus
  <1>7. CASE UNCHANGED vars
    BY <1>7 DEF vars
  <1>8. ASSUME NEW w \in Workers, NEW v \in VisitId,
               \/ CommitAssign(w, v) \/ CommitConfirm(w, v)
               \/ CommitConflict(w, v) \/ CommitReport(w, v) \/ CommitCancel(w, v)
        PROVE  /\ req' = [req EXCEPT ![w] = Idle]
               /\ \E r : visits' = [visits EXCEPT ![v] = r]
               /\ \E g : confirmer' = [confirmer EXCEPT ![v] = g]
               /\ UNCHANGED <<outcome, agreement, listing>>
    BY <1>8 DEF CommitAssign, CommitConfirm, CommitConflict, CommitReport, CommitCancel, Finish
  <1>9. ASSUME NEW w \in Workers, NEW v \in VisitId,
               CommitApprove(w, v) \/ CommitQuery(w, v) \/ CommitFlag(w, v)
        PROVE  /\ req' = [req EXCEPT ![w] = Idle]
               /\ \E r : visits' = [visits EXCEPT ![v] = r]
               /\ UNCHANGED confirmer
               /\ \E op \in Review : outcome' = [outcome EXCEPT ![v] = @ \cup {op}]
               /\ agreement' \in {agreement, [agreement EXCEPT ![v] = TRUE]}
               /\ listing' \in {listing, "LIVE_UNVERIFIED"}
    BY <1>9 DEF CommitApprove, CommitQuery, CommitFlag, Reviewed, Review, Finish
  <1>10. CASE \E w \in Workers : Commit(w)
    <2>1. PICK w \in Workers, v \in VisitId :
            \/ CommitAssign(w, v) \/ CommitConfirm(w, v)
            \/ CommitConflict(w, v) \/ CommitReport(w, v) \/ CommitCancel(w, v)
            \/ CommitApprove(w, v) \/ CommitQuery(w, v) \/ CommitFlag(w, v)
      BY <1>10 DEF Commit
    <2>2. CASE CommitApprove(w, v) \/ CommitQuery(w, v) \/ CommitFlag(w, v)
      <3>1. PICK op \in Review : outcome' = [outcome EXCEPT ![v] = @ \cup {op}]
        BY <1>9, <2>2
      <3>2. outcome' \in [VisitId -> SUBSET Review]
        BY <3>1
      <3>3. agreement' \in [VisitId -> BOOLEAN] /\ listing' \in ListingStatus
        BY <1>9, <2>2 DEF ListingStatus
      <3>4. /\ req' = [req EXCEPT ![w] = Idle]
            /\ \E r : visits' = [visits EXCEPT ![v] = r]
            /\ UNCHANGED confirmer
        BY <1>9, <2>2
      <3>5. QED
        BY <3>2, <3>3, <3>4
    <2>3. CASE ~ (CommitApprove(w, v) \/ CommitQuery(w, v) \/ CommitFlag(w, v))
      BY <1>8, <2>1, <2>3
    <2>4. QED
      BY <2>2, <2>3
  <1>11. QED
    BY <1>3, <1>4, <1>5, <1>6, <1>7, <1>10 DEF Next

LEMMA NextTypeOK ==
    ASSUME IInv, [Next]_vars
    PROVE  TypeOK'
  <1>0. TypeOK
    BY DEF IInv
  <1>1. \A v \in VisitId : /\ visits'[v] \in Visit
                           /\ confirmer'[v] \in Agents \cup {None}
    BY <1>0, RowSteps DEF RowStep, TypeOK
  <1>2. \A v \in VisitId : visits'[v].status \in Reported => visits'[v].author # None
    BY <1>0, RowSteps DEF RowStep, TypeOK, Reported
  <1>3. Idle \in Request
    BY DEF Idle, NoVisit, Request, Visit, Status, ListingStatus
  <1>4. \A w \in Workers : req'[w] \in Request
    BY <1>0, <1>3, SessionSteps DEF SessionStep, TypeOK
  <1>5. QED
    BY <1>0, <1>1, <1>2, <1>4, NextTables DEF TypeOK, Reported

-----------------------------------------------------------------------------
(* The theorems *)

\* The inductive invariant.
THEOREM Invariance == Spec => []IInv
  <1>1. Init => IInv
    BY InitIInv
  <1>2. IInv /\ [Next]_vars => IInv'
    BY NextTypeOK, NextRowsAgree, NextSessionsAgree, NextAgreementHasReport DEF IInv
  <1>3. QED
    BY <1>1, <1>2, PTL DEF Spec

\* Rows of visits and open sessions have their types, with a report stored by
\* the time the status says there is one; and however many requests overlap, the
\* approval of a visit unlocks an agreement only on the report of an agent who
\* did not inspect the listing, and only after a confirmation
\* (visits/service.py, agents/service.py).
THEOREM AgreementsRestOnReports == Spec => []VisitsInv
  <1>1. IInv => VisitsInv
    BY DEF IInv, VisitsInv
  <1>2. QED
    BY <1>1, Invariance, PTL

-----------------------------------------------------------------------------
(* Sessions that do not overlap *)

Alone == \A w, u \in Workers : req[w].op # "idle" /\ req[u].op # "idle" => w = u

\* The guards an open session has passed still hold of the row it has read.
Holds(r) ==
    /\ r.op # "idle" => r.visit \in VisitId /\ r.seen = visits[r.visit]
    /\ r.op = "assign" => IsAssignable(r.visit)
    /\ r.op \in {"confirm", "conflict"} =>
          visits[r.visit].status = "AGENT_ASSIGNED" /\ visits[r.visit].agent = r.agent
    /\ r.op = "report" => visits[r.visit].status \in Reportable /\ visits[r.visit].agent = r.agent
    /\ r.op = "cancel" => IsCancellable(r.visit)
    /\ r.op \in Review => AwaitsReview(r.visit)

SerialInv == Alone /\ (\A w \in Workers : Holds(req[w])) /\ ConductedByConfirmer

LEMMA IdleHolds ==
    ASSUME NEW r, r.op = "idle"
    PROVE  Holds(r) /\ Holds(r)'
  BY DEF Holds, Review

\* No session is left after the end of the only one.
LEMMA FinishLeavesNone ==
    ASSUME TypeOK, Alone, NEW w \in Workers, req[w].op # "idle", Finish(w)
    PROVE  Alone' /\ \A u \in Workers : Holds(req[u])'
  <1>1. \A u \in Workers : req'[u].op = "idle"
    BY DEF TypeOK, Alone, Finish, Idle
  <1>2. QED
    BY <1>1 DEF Alone, Holds, Review

\* A session that starts is the only one.
LEMMA StartIsAlone ==
    ASSUME ~Overlap, TypeOK, SerialInv, NEW w \in Workers, NEW v \in VisitId, NEW g, NEW op,
           Start(w, op, v, g),
           NEW r, r = [op |-> op, visit |-> v, agent |-> g, seen |-> visits[v], live |-> listing],
           Holds(r)
    PROVE  SerialInv'
  <1>1. /\ req' = [req EXCEPT ![w] = r] /\ UNCHANGED <<visits, confirmer>>
        /\ \A u \in Workers : req[u].op = "idle"
    BY DEF Start, MayStart
  <1>2. req \in [Workers -> Request]
    BY DEF TypeOK
  <1>3. Alone'
    BY <1>1, <1>2 DEF Alone
  <1>4. ASSUME NEW u \in Workers PROVE Holds(req[u])'
    <2>1. CASE u = w
      <3>1. req'[u] = r
        BY <1>1, <1>2, <2>1
      <3>2. QED
        BY <1>1, <3>1 DEF Holds, IsAssignable, IsCancellable, AwaitsReview
    <2>2. CASE u # w
      <3>1. req'[u].op = "idle"
        BY <1>1, <1>2, <2>2
      <3>2. QED
        BY <3>1 DEF Holds, Review
    <2>3. QED
      BY <2>1, <2>2
  <1>5. QED
    BY <1>1, <1>3, <1>4 DEF SerialInv, ConductedByConfirmer

LEMMA BeginKeepsSerialInv ==
    ASSUME ~Overlap, TypeOK, SerialInv, NEW w \in Workers, Begin(w)
    PROVE  SerialInv'
  <1>1. ASSUME NEW v \in VisitId, NEW g \in Agents, BeginAssign(w, v, g) PROVE SerialInv'
    <2>1. PICK r : r = [op |-> "assign", visit |-> v, agent |-> g, seen |-> visits[v], live |-> listing]
      OBVIOUS
    <2>2. QED
      BY <1>1, <2>1, StartIsAlone DEF BeginAssign, Holds, Review
  <1>2. ASSUME NEW v \in VisitId, NEW g \in Agents, NEW op \in {"confirm", "conflict"},
               BeginConfirm(w, v, g, op)
        PROVE  SerialInv'
    <2>1. PICK r : r = [op |-> op, visit |-> v, agent |-> g, seen |-> visits[v], live |-> listing]
      OBVIOUS
    <2>2. QED
      BY <1>2, <2>1, StartIsAlone DEF BeginConfirm, IsAssignee, Holds, Review
  <1>3. ASSUME NEW v \in VisitId, NEW g \in Agents, BeginReport(w, v, g) PROVE SerialInv'
    <2>1. PICK r : r = [op |-> "report", visit |-> v, agent |-> g, seen |-> visits[v], live |-> listing]
      OBVIOUS
    <2>2. QED
      BY <1>3, <2>1, StartIsAlone DEF BeginReport, IsAssignee, Holds, Review
  <1>4. ASSUME NEW v \in VisitId, BeginCancel(w, v) PROVE SerialInv'
    <2>1. PICK r : r = [op |-> "cancel", visit |-> v, agent |-> None, seen |-> visits[v], live |-> listing]
      OBVIOUS
    <2>2. QED
      BY <1>4, <2>1, StartIsAlone DEF BeginCancel, Holds, Review
  <1>5. ASSUME NEW v \in VisitId, NEW op \in Review, BeginReview(w, v, op) PROVE SerialInv'
    <2>1. PICK r : r = [op |-> op, visit |-> v, agent |-> None, seen |-> visits[v], live |-> listing]
      OBVIOUS
    <2>2. QED
      BY <1>5, <2>1, StartIsAlone DEF BeginReview, Holds, Review
  <1>6. QED
    BY <1>1, <1>2, <1>3, <1>4, <1>5 DEF Begin

\* What a commit does to the row of its session, and to no other.
CommittedRow(u, w) ==
    /\ visits[u].status \notin {"absent"} \cup Over
    /\ \/ visits'[u].status \in Assignable \cup {"CANCELLED"}
       \/ /\ visits'[u].status = "SCHEDULED"
          /\ visits'[u].agent = confirmer'[u]
       \/ /\ visits'[u].status \in Reported
          /\ visits'[u].agent = confirmer'[u]
          /\ visits'[u].author = visits'[u].agent

LEMMA CommitSteps ==
    ASSUME TypeOK, SerialInv, NEW w \in Workers, NEW v \in VisitId,
           \/ CommitAssign(w, v) \/ CommitConfirm(w, v) \/ CommitConflict(w, v)
           \/ CommitReport(w, v) \/ CommitCancel(w, v)
           \/ CommitApprove(w, v) \/ CommitQuery(w, v) \/ CommitFlag(w, v)
    PROVE  /\ CommittedRow(v, w) /\ req[w].op # "idle" /\ Finish(w)
           /\ \A u \in VisitId \ {v} : /\ visits'[u] = visits[u] /\ confirmer'[u] = confirmer[u]
                                       /\ outcome'[u] = outcome[u]
  <1>0. /\ visits \in [VisitId -> Visit] /\ visits[v] \in Visit /\ Holds(req[w])
        /\ confirmer \in [VisitId -> Agents \cup {None}] /\ outcome \in [VisitId -> SUBSET Review]
    BY DEF TypeOK, SerialInv
  <1>1. \/ visits[v].status \in Reportable \cup {"REPORT_PENDING", "COMPLETED"}
              /\ visits[v].agent = confirmer[v]
        \/ visits[v].status \notin Reportable \cup {"REPORT_PENDING", "COMPLETED"}
    BY DEF SerialInv, ConductedByConfirmer
  <1> USE <1>0, <1>1 DEF CommittedRow, Running, Holds, Finish, Visit
  <1>2. CASE CommitAssign(w, v)
    <2>1. /\ req[w].seen = visits[v] /\ IsAssignable(v)
          /\ UNCHANGED <<confirmer, outcome>> /\ req[w].op # "idle" /\ Finish(w)
      BY <1>2 DEF CommitAssign
    <2>2. visits'[v].status = "AGENT_ASSIGNED"
      BY <1>2, <2>1 DEF CommitAssign, Written
    <2>3. \A u \in VisitId \ {v} : visits'[u] = visits[u]
      BY <1>2 DEF CommitAssign
    <2>4. QED
      BY <2>1, <2>2, <2>3 DEF IsAssignable, Assignable, Over
  <1>3. CASE CommitConfirm(w, v)
    BY <1>3 DEF CommitConfirm, Over
  <1>4. CASE CommitConflict(w, v)
    BY <1>4 DEF CommitConflict, Over, Assignable
  <1>5. CASE CommitReport(w, v)
    BY <1>5 DEF CommitReport, Over, Reportable, Reported
  <1>6. CASE CommitCancel(w, v)
    BY <1>6 DEF CommitCancel, IsCancellable, Over
  <1>7. ASSUME NEW op \in Review, NEW status \in {"COMPLETED", "REPORT_QUERIED"},
               Reviewed(w, v, op, status), UNCHANGED confirmer
        PROVE  /\ CommittedRow(v, w) /\ req[w].op # "idle" /\ Finish(w)
               /\ \A u \in VisitId \ {v} : /\ visits'[u] = visits[u]
                                           /\ confirmer'[u] = confirmer[u] /\ outcome'[u] = outcome[u]
    <2>1. /\ visits[v].status = "REPORT_PENDING" /\ visits[v].agent = confirmer[v]
          /\ req[w].op # "idle" /\ Finish(w)
      BY <1>7 DEF Reviewed, AwaitsReview, Review
    <2>2. visits[v].author = visits[v].agent
      BY <2>1 DEF SerialInv, ConductedByConfirmer
    <2>3. /\ visits'[v].status = status /\ visits'[v].agent = confirmer'[v]
          /\ visits'[v].author = visits'[v].agent
      BY <1>7, <2>1, <2>2 DEF Reviewed
    <2>4. \A u \in VisitId \ {v} : visits'[u] = visits[u] /\ outcome'[u] = outcome[u]
      BY <1>7 DEF Reviewed
    <2>5. QED
      BY <1>7, <2>1, <2>3, <2>4 DEF Over, Reported
  <1>8. CASE CommitApprove(w, v) \/ CommitQuery(w, v) \/ CommitFlag(w, v)
    BY <1>7, <1>8 DEF CommitApprove, CommitQuery, CommitFlag, Review
  <1>9. QED
    BY <1>2, <1>3, <1>4, <1>5, <1>6, <1>8

LEMMA NextSerialInv ==
    ASSUME ~Overlap, IInv, SerialInv, [Next]_vars
    PROVE  SerialInv'
  <1>0. TypeOK
    BY DEF IInv
  <1>1. CASE \E w \in Workers : Begin(w)
    BY <1>0, <1>1, BeginKeepsSerialInv
  <1>2. ASSUME NEW w \in Workers, Commit(w) PROVE SerialInv'
    <2>1. PICK v \in VisitId :
            \/ CommitAssign(w, v) \/ CommitConfirm(w, v) \/ CommitConflict(w, v)
            \/ CommitReport(w, v) \/ CommitCancel(w, v)
            \/ CommitApprove(w, v) \/ CommitQuery(w, v) \/ CommitFlag(w, v)
      BY <1>2 DEF Commit
    <2>2. CommittedRow(v, w) /\ req[w].op # "idle" /\ Finish(w)
      BY <1>0, <2>1, CommitSteps
    <2>3. \A u \in VisitId \ {v} : visits'[u] = visits[u] /\ confirmer'[u] = confirmer[u]
      BY <1>0, <2>1, CommitSteps
    <2>4. ConductedByConfirmer'
      BY <2>2, <2>3 DEF CommittedRow, SerialInv, ConductedByConfirmer, Reported, Reportable, Assignable
    <2>5. QED
      BY <1>0, <2>2, <2>4, FinishLeavesNone DEF SerialInv
  <1>3. ASSUME NEW w \in Workers, Abort(w) PROVE SerialInv'
    BY <1>0, <1>3, FinishLeavesNone DEF Abort, SerialInv, ConductedByConfirmer
  <1>4. ASSUME NEW v \in VisitId, RequestVisit(v) PROVE SerialInv'
    <2>1. /\ visits[v].status = "absent" /\ visits \in [VisitId -> Visit] /\ UNCHANGED <<confirmer, req>>
          /\ visits' = [visits EXCEPT ![v].status = "PENDING_ASSIGNMENT"]
      BY <1>0, <1>4 DEF RequestVisit, TypeOK
    <2>2. ASSUME NEW w \in Workers PROVE Holds(req[w])'
      <3>1. req[w].op # "idle" => req[w].visit # v
        BY <1>0, <2>1 DEF SerialInv, Holds, IsAssignable, Assignable, Reportable, IsCancellable,
           AwaitsReview, TypeOK, Request
      <3>2. req[w].op # "idle" => visits'[req[w].visit] = visits[req[w].visit]
        BY <2>1, <3>1 DEF SerialInv, Holds
      <3>3. QED
        BY <2>1, <3>2 DEF SerialInv, Holds, IsAssignable, IsCancellable, AwaitsReview, Review
    <2>3. ConductedByConfirmer'
      BY <2>1 DEF SerialInv, ConductedByConfirmer, Reportable, Visit
    <2>4. QED
      BY <2>1, <2>2, <2>3 DEF SerialInv, Alone
  <1>5. CASE UNCHANGED <<visits, confirmer, req>>
    BY <1>5 DEF SerialInv, Alone, Holds, IsAssignable, IsCancellable, AwaitsReview, ConductedByConfirmer
  <1>6. QED
    BY <1>1, <1>2, <1>3, <1>4, <1>5 DEF Next, ListingChanges, vars

LEMMA SerialInvariance == ASSUME ~Overlap PROVE Spec => [](IInv /\ SerialInv)
  <1>1. Init => SerialInv
    BY DEF Init, SerialInv, Alone, Holds, Idle, Review, ConductedByConfirmer, NoVisit, Reportable
  <1>2. IInv /\ SerialInv /\ [Next]_vars => SerialInv'
    BY NextSerialInv
  <1>3. Spec => []IInv
    BY Invariance
  <1>4. Spec /\ []IInv => []SerialInv
    BY <1>1, <1>2, PTL DEF Spec
  <1>5. QED
    BY <1>3, <1>4, PTL

\* One session at a time, the agent who is to conduct a visit, or did conduct
\* it, is the one who confirmed it and whose report is reviewed: reassignments
\* and conflicts come before the confirmation (visits/service.py,
\* agents/service.py).
THEOREM ConfirmersConduct == ASSUME ~Overlap PROVE Spec => []ConductedByConfirmer
  <1>1. IInv /\ SerialInv => ConductedByConfirmer
    BY DEF SerialInv
  <1>2. Spec => [](IInv /\ SerialInv)
    BY SerialInvariance
  <1>3. QED
    BY <1>1, <1>2, PTL

\* One session at a time, a visit that is over is changed and reviewed no more
\* (agents/service.py).
THEOREM OverForGood == ASSUME ~Overlap PROVE Spec => OverIsFinal
  <1> DEFINE Final == \A v \in VisitId : visits[v].status \in Over =>
                         visits'[v] = visits[v] /\ outcome'[v] = outcome[v]
  <1>1. IInv /\ SerialInv /\ [Next]_vars => Final
    <2> SUFFICES ASSUME IInv, SerialInv, [Next]_vars, NEW u \in VisitId, visits[u].status \in Over
                 PROVE  visits'[u] = visits[u] /\ outcome'[u] = outcome[u]
        OBVIOUS
    <2>0. TypeOK
      BY DEF IInv
    <2>1. ASSUME NEW w \in Workers, Commit(w)
          PROVE  visits'[u] = visits[u] /\ outcome'[u] = outcome[u]
      <3>1. PICK v \in VisitId :
              \/ CommitAssign(w, v) \/ CommitConfirm(w, v) \/ CommitConflict(w, v)
              \/ CommitReport(w, v) \/ CommitCancel(w, v)
              \/ CommitApprove(w, v) \/ CommitQuery(w, v) \/ CommitFlag(w, v)
        BY <2>1 DEF Commit
      <3>2. CommittedRow(v, w)
        BY <2>0, <3>1, CommitSteps
      <3>3. u # v
        BY <3>2 DEF CommittedRow
      <3>4. QED
        BY <2>0, <3>1, <3>3, CommitSteps
    <2>2. ASSUME NEW v \in VisitId, RequestVisit(v)
          PROVE  visits'[u] = visits[u] /\ outcome'[u] = outcome[u]
      BY <2>0, <2>2 DEF RequestVisit, Over, TypeOK
    <2>3. CASE UNCHANGED <<visits, outcome>>
      BY <2>3
    <2>4. QED
      BY <2>1, <2>2, <2>3 DEF Next, Begin, BeginAssign, BeginConfirm, BeginReport, BeginCancel,
         BeginReview, Start, Abort, ListingChanges, vars
  <1>2. Spec => [](IInv /\ SerialInv)
    BY SerialInvariance
  <1>3. QED
    BY <1>1, <1>2, PTL DEF Spec, OverIsFinal

-----------------------------------------------------------------------------
(* Visits implement the abstract conduct *)

\* Nobody has taken on a visit that can still be assigned.
NotTakenOn ==
    \A v \in VisitId : visits[v].status \in {"absent"} \cup Assignable => confirmer[v] = None

Refines == Promise!Next \/ UNCHANGED Promise!vars

\* The columns after a step that takes one row to the given values.
LEMMA OneRow ==
    ASSUME TypeOK, NEW v \in VisitId, NEW status, NEW agent, NEW author,
           visits'[v].status = status, visits'[v].agent = agent, visits'[v].author = author,
           \A u \in VisitId \ {v} : visits'[u] = visits[u]
    PROVE  /\ StatusOf' = [StatusOf EXCEPT ![v] = status]
           /\ AgentOf'  = [AgentOf EXCEPT ![v] = agent]
           /\ AuthorOf' = [AuthorOf EXCEPT ![v] = author]
           /\ agent = visits[v].agent => AgentOf' = AgentOf
           /\ author = visits[v].author => AuthorOf' = AuthorOf
           /\ StatusOf[v] = visits[v].status /\ AgentOf[v] = visits[v].agent
  BY DEF StatusOf, AgentOf, AuthorOf

\* A step that leaves the tables alone is a stutter of the abstract conduct.
LEMMA Unseen ==
    ASSUME NotTakenOn, UNCHANGED <<visits, confirmer, outcome, agreement>>
    PROVE  Refines /\ NotTakenOn'
  BY DEF Refines, Promise!vars, StatusOf, AgentOf, AuthorOf, NotTakenOn

LEMMA RequestRefines ==
    ASSUME TypeOK, NotTakenOn, NEW v \in VisitId, RequestVisit(v)
    PROVE  Refines /\ NotTakenOn'
  <1>1. /\ visits \in [VisitId -> Visit] /\ visits[v].status = "absent"
        /\ visits'[v] = [visits[v] EXCEPT !.status = "PENDING_ASSIGNMENT"]
        /\ \A u \in VisitId \ {v} : visits'[u] = visits[u]
        /\ UNCHANGED <<confirmer, outcome, agreement>>
    BY DEF TypeOK, RequestVisit
  <1>2. /\ visits'[v].status = "PENDING_ASSIGNMENT"
        /\ visits'[v].agent = visits[v].agent /\ visits'[v].author = visits[v].author
    BY <1>1 DEF Visit
  <1>3. Promise!Request(v)
    BY <1>1, <1>2, OneRow DEF Promise!Request, Promise!Move
  <1>4. NotTakenOn'
    BY <1>1, <1>2 DEF NotTakenOn
  <1>5. QED
    BY <1>3, <1>4 DEF Refines, Promise!Next

LEMMA CommitRefines ==
    ASSUME IInv, SerialInv, NotTakenOn, NEW w \in Workers, NEW v \in VisitId,
           \/ CommitAssign(w, v) \/ CommitConfirm(w, v) \/ CommitConflict(w, v)
           \/ CommitReport(w, v) \/ CommitCancel(w, v)
           \/ CommitApprove(w, v) \/ CommitQuery(w, v) \/ CommitFlag(w, v)
    PROVE  Refines /\ NotTakenOn'
  <1>0. /\ TypeOK /\ visits \in [VisitId -> Visit] /\ visits[v] \in Visit /\ Holds(req[w])
        /\ confirmer \in [VisitId -> Agents \cup {None}] /\ outcome \in [VisitId -> SUBSET Review]
        /\ agreement \in [VisitId -> BOOLEAN]
    BY DEF IInv, TypeOK, SerialInv
  <1>1. /\ \A u \in VisitId \ {v} : /\ visits'[u] = visits[u] /\ confirmer'[u] = confirmer[u]
                                     /\ outcome'[u] = outcome[u]
        /\ visits[v].status \notin {"absent"} \cup Over
    BY <1>0, CommitSteps DEF CommittedRow
  <1>2. NotTakenOn'
    <2>1. visits'[v].status \in Assignable => visits[v].status \in Assignable /\ confirmer'[v] = confirmer[v]
      <3>1. CASE CommitAssign(w, v)
        BY <1>0, <3>1 DEF CommitAssign, Running, Holds, IsAssignable
      <3>2. CASE CommitConflict(w, v)
        BY <1>0, <3>2 DEF CommitConflict, Running, Holds, Assignable
      <3>3. CASE CommitConfirm(w, v) \/ CommitReport(w, v) \/ CommitCancel(w, v)
        <4>1. visits'[v].status \in {"SCHEDULED", "REPORT_PENDING", "CANCELLED"}
          BY <1>0, <3>3 DEF CommitConfirm, CommitReport, CommitCancel, Visit
        <4>2. QED
          BY <4>1 DEF Assignable
      <3>4. CASE CommitApprove(w, v) \/ CommitQuery(w, v) \/ CommitFlag(w, v)
        <4>1. visits'[v].status \in {"COMPLETED", "REPORT_QUERIED"}
          BY <1>0, <3>4 DEF CommitApprove, CommitQuery, CommitFlag, Reviewed, Visit
        <4>2. QED
          BY <4>1 DEF Assignable
      <3>5. QED
        BY <3>1, <3>2, <3>3, <3>4
    <2>2. visits'[v].status # "absent"
      BY <1>0, CommitSteps DEF CommittedRow, Assignable, Reported
    <2>3. QED
      BY <1>1, <2>1, <2>2 DEF NotTakenOn
  <1>3. CASE CommitAssign(w, v)
    <2>1. /\ req[w].seen = visits[v] /\ visits[v].status \in Assignable
          /\ req[w].agent \in Agents \ Inspectors /\ UNCHANGED <<confirmer, outcome, agreement>>
      BY <1>0, <1>3 DEF CommitAssign, Running, Holds, IsAssignable, IInv, SessionsAgree
    <2>2. /\ visits'[v].status = "AGENT_ASSIGNED" /\ visits'[v].agent = req[w].agent
          /\ visits'[v].author = visits[v].author
      BY <1>0, <1>3, <2>1 DEF CommitAssign, Written, Visit
    <2>3. Promise!Ask(v, req[w].agent)
      BY <1>0, <1>1, <2>1, <2>2, OneRow DEF Promise!Ask, Promise!Move, Assignable
    <2>4. QED
      BY <1>2, <2>1, <2>3 DEF Refines, Promise!Next
  <1>4. CASE CommitConfirm(w, v)
    <2>1. /\ visits[v].status = "AGENT_ASSIGNED" /\ visits[v].agent = req[w].agent
          /\ confirmer' = [confirmer EXCEPT ![v] = req[w].agent] /\ UNCHANGED <<outcome, agreement>>
      BY <1>0, <1>4 DEF CommitConfirm, Running, Holds
    <2>2. /\ visits'[v].status = "SCHEDULED" /\ visits'[v].agent = visits[v].agent
          /\ visits'[v].author = visits[v].author
      BY <1>0, <1>4 DEF CommitConfirm, Visit
    <2>3. confirmer[v] = None
      BY <2>1 DEF NotTakenOn, Assignable
    <2>4. Promise!TakeOn(v)
      BY <1>0, <1>1, <2>1, <2>2, <2>3, OneRow DEF Promise!TakeOn, Promise!Move
    <2>5. QED
      BY <1>2, <2>4 DEF Refines, Promise!Next
  <1>5. CASE CommitConflict(w, v)
    <2>1. visits[v].status = "AGENT_ASSIGNED" /\ UNCHANGED <<confirmer, outcome, agreement>>
      BY <1>0, <1>5 DEF CommitConflict, Running, Holds
    <2>2. /\ visits'[v].status = "PENDING_ASSIGNMENT" /\ visits'[v].agent = None
          /\ visits'[v].author = visits[v].author
      BY <1>0, <1>5 DEF CommitConflict, Visit
    <2>3. Promise!HandBack(v)
      BY <1>0, <1>1, <2>1, <2>2, OneRow DEF Promise!HandBack, Promise!Move
    <2>4. QED
      BY <1>2, <2>3 DEF Refines, Promise!Next
  <1>6. CASE CommitReport(w, v)
    <2>1. /\ visits[v].status \in Reportable /\ visits[v].agent = req[w].agent
          /\ UNCHANGED <<confirmer, outcome, agreement>>
      BY <1>0, <1>6 DEF CommitReport, Running, Holds
    <2>2. /\ visits'[v].status = "REPORT_PENDING" /\ visits'[v].agent = visits[v].agent
          /\ visits'[v].author = req[w].agent
      BY <1>0, <1>6 DEF CommitReport, Visit
    <2>3. req[w].agent = confirmer[v]
      BY <2>1 DEF SerialInv, ConductedByConfirmer
    <2>4. Promise!Report(v)
      BY <1>0, <1>1, <2>1, <2>2, <2>3, OneRow DEF Promise!Report, Promise!Move, Reportable
    <2>5. QED
      BY <1>2, <2>4 DEF Refines, Promise!Next
  <1>7. CASE CommitCancel(w, v)
    <2>1. UNCHANGED <<confirmer, outcome, agreement>>
      BY <1>7 DEF CommitCancel
    <2>2. /\ visits'[v].status = "CANCELLED" /\ visits'[v].agent = visits[v].agent
          /\ visits'[v].author = visits[v].author
      BY <1>0, <1>7 DEF CommitCancel, Visit
    <2>3. Promise!Cancel(v)
      BY <1>0, <1>1, <2>1, <2>2, OneRow DEF Promise!Cancel, Over
    <2>4. QED
      BY <1>2, <2>3 DEF Refines, Promise!Next
  <1>8. ASSUME NEW op \in Review, NEW status, Reviewed(w, v, op, status), UNCHANGED confirmer
        PROVE  Promise!ReviewAs(v, op, status)
    <2>1. /\ visits[v].status = "REPORT_PENDING"
          /\ outcome' = [outcome EXCEPT ![v] = @ \cup {op}]
      BY <1>0, <1>8 DEF Reviewed, Running, Holds, AwaitsReview
    <2>2. /\ visits'[v].status = status /\ visits'[v].agent = visits[v].agent
          /\ visits'[v].author = visits[v].author
      BY <1>0, <1>8 DEF Reviewed, Visit
    <2>3. QED
      BY <1>0, <1>1, <1>8, <2>1, <2>2, OneRow DEF Promise!ReviewAs, Promise!Move
  <1>9. CASE CommitApprove(w, v)
    <2>1. Promise!Approve(v)
      BY <1>8, <1>9 DEF CommitApprove, Promise!Approve, Review
    <2>2. QED
      BY <1>2, <2>1 DEF Refines, Promise!Next
  <1>10. CASE CommitQuery(w, v)
    <2>1. Promise!Query(v)
      BY <1>8, <1>10 DEF CommitQuery, Promise!Query, Review
    <2>2. QED
      BY <1>2, <2>1 DEF Refines, Promise!Next
  <1>11. CASE CommitFlag(w, v)
    <2>1. Promise!Flag(v)
      BY <1>8, <1>11 DEF CommitFlag, Promise!Flag, Review
    <2>2. QED
      BY <1>2, <2>1 DEF Refines, Promise!Next
  <1>12. QED
    BY <1>3, <1>4, <1>5, <1>6, <1>7, <1>9, <1>10, <1>11

LEMMA NextRefines ==
    ASSUME IInv, SerialInv, NotTakenOn, [Next]_vars
    PROVE  Refines /\ NotTakenOn'
  <1>1. ASSUME NEW w \in Workers, Commit(w) PROVE Refines /\ NotTakenOn'
    <2>1. PICK v \in VisitId :
            \/ CommitAssign(w, v) \/ CommitConfirm(w, v) \/ CommitConflict(w, v)
            \/ CommitReport(w, v) \/ CommitCancel(w, v)
            \/ CommitApprove(w, v) \/ CommitQuery(w, v) \/ CommitFlag(w, v)
      BY <1>1 DEF Commit
    <2>2. QED
      BY <2>1, CommitRefines
  <1>2. ASSUME NEW v \in VisitId, RequestVisit(v) PROVE Refines /\ NotTakenOn'
    BY <1>2, RequestRefines DEF IInv
  <1>3. CASE UNCHANGED <<visits, confirmer, outcome, agreement>>
    BY <1>3, Unseen
  <1>4. QED
    BY <1>1, <1>2, <1>3 DEF Next, Begin, BeginAssign, BeginConfirm, BeginReport, BeginCancel,
       BeginReview, Start, Abort, ListingChanges, vars

\* Executed one session at a time, whichever sessions fail, an agent takes a
\* visit on at most once and reports on it, each report is reviewed once, an
\* agreement follows an approval and nothing else, and a visit that is over is
\* over (visits/service.py, agents/service.py).
THEOREM ConductIsKept == ASSUME ~Overlap PROVE Spec => ImplementsConduct
  <1>1. Init => Promise!Init /\ NotTakenOn
    BY DEF Init, Promise!Init, StatusOf, AgentOf, AuthorOf, NoVisit, NotTakenOn
  <1>2. IInv /\ SerialInv /\ NotTakenOn /\ [Next]_vars
            => [Promise!Next]_(Promise!vars) /\ NotTakenOn'
    BY NextRefines DEF Refines
  <1>3. Spec => [](IInv /\ SerialInv)
    BY SerialInvariance
  <1>4. QED
    BY <1>1, <1>2, <1>3, PTL DEF Spec, ImplementsConduct, Promise!Spec
=============================================================================
