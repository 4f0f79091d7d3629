------------------------------- MODULE Visits -------------------------------
(***************************************************************************)
(* Visits to one listing: an administrator assigns a trusted agent         *)
(* (backend/app/visits/service.py), the agent confirms, reports, or hands  *)
(* the visit back, and the administrator reviews the report                *)
(* (backend/app/agents/service.py).                                        *)
(*                                                                         *)
(* Sessions are those of module Offers: Begin reads the row and runs the   *)
(* guards, Commit writes the columns whose value the session changed,      *)
(* Abort ends it without a commit, and Overlap says whether sessions may   *)
(* be open at the same time.                                               *)
(***************************************************************************)
CONSTANTS
    VisitId,      \* identities of the rows of table visits
    Agents,       \* users with role TRUSTED_AGENT
    Inspectors,   \* those of them who filed an inspection report on the listing
                  \* when INSPECTOR was their role
    Workers,      \* slots for requests that are open at the same time
    None,         \* NULL in a column, or no row
    Overlap       \* may sessions overlap in time?

ASSUME VisitsAssumption ==
    /\ None \notin VisitId \cup Agents
    /\ Inspectors \subseteq Agents
    /\ Overlap \in BOOLEAN

VARIABLES
    visits,       \* table visits, "absent" is not inserted yet
    confirmer,    \* ghost: the agent who confirmed the schedule on the row
    outcome,      \* ghost: the reviews committed for a visit's reports
    agreement,    \* was an agreement asked for on the visit's approval?
    listing,      \* listing.status; VERIFIED stands for every other one
    req           \* the request each worker has open

vars == <<visits, confirmer, outcome, agreement, listing, req>>

-----------------------------------------------------------------------------
(* Data *)

Assignable == {"PENDING_ASSIGNMENT", "AGENT_ASSIGNED"}
Reportable == {"SCHEDULED", "REPORT_QUERIED"}
Over       == {"COMPLETED", "CANCELLED"}
Status     == {"absent", "REPORT_PENDING"} \cup Assignable \cup Reportable \cup Over

Visit == [ status : Status,
           agent  : Agents \cup {None},         \* assigned_agent_id
           author : Agents \cup {None} ]        \* who wrote visit_report

Review == {"approve", "query", "flag"}

ListingStatus == {"VERIFIED", "LIVE_UNVERIFIED", "SUSPENDED"}

Request == [ op    : {"idle", "assign", "confirm", "conflict", "report", "cancel"} \cup Review,
             visit : VisitId \cup {None},
             agent : Agents \cup {None},
             seen  : Visit,                     \* the row, and listing.status,
             live  : ListingStatus ]            \* as they were read

NoVisit == [status |-> "absent", agent |-> None, author |-> None]

Idle == [op |-> "idle", visit |-> None, agent |-> None, seen |-> NoVisit,
         live |-> "VERIFIED"]

Init ==
    /\ visits    = [v \in VisitId |-> NoVisit]
    /\ confirmer = [v \in VisitId |-> None]
    /\ outcome   = [v \in VisitId |-> {}]
    /\ agreement = [v \in VisitId |-> FALSE]
    /\ listing   = "VERIFIED"
    /\ req       = [w \in Workers |-> Idle]

-----------------------------------------------------------------------------
(* Sessions *)

MayStart == Overlap \/ \A w \in Workers : req[w].op = "idle"

Start(w, op, v, agent) ==
    /\ req[w].op = "idle"
    /\ MayStart
    /\ req' = [req EXCEPT ![w] = [op |-> op, visit |-> v, agent |-> agent,
                                  seen |-> visits[v], live |-> listing]]
    /\ UNCHANGED <<visits, confirmer, outcome, agreement, listing>>

Running(w, op, v) == req[w].op = op /\ req[w].visit = v

Finish(w) == req' = [req EXCEPT ![w] = Idle]

Abort(w) ==
    /\ req[w].op # "idle"
    /\ Finish(w)
    /\ UNCHANGED <<visits, confirmer, outcome, agreement, listing>>

\* A column is written only when the session changes the value it has read.
Written(read, value, stored) == IF read = value THEN stored ELSE value

-----------------------------------------------------------------------------
(* accept_offer inserts the row *)

RequestVisit(v) ==
    /\ visits[v].status = "absent"
    /\ visits' = [visits EXCEPT ![v].status = "PENDING_ASSIGNMENT"]
    /\ UNCHANGED <<confirmer, outcome, agreement, listing, req>>

-----------------------------------------------------------------------------
(* assign_agent *)

IsAssignable(v) == visits[v].status \in Assignable

BeginAssign(w, v, g) ==
    /\ IsAssignable(v)
    /\ g \notin Inspectors                      \* role_separation_violation
    /\ Start(w, "assign", v, g)

CommitAssign(w, v) ==
    /\ Running(w, "assign", v)
    /\ LET seen == req[w].seen
       IN  visits' = [visits EXCEPT
               ![v].agent  = Written(seen.agent, req[w].agent, @),
               ![v].status = Written(seen.status, "AGENT_ASSIGNED", @)]
    /\ Finish(w)
    /\ UNCHANGED <<confirmer, outcome, agreement, listing>>

-----------------------------------------------------------------------------
(* The agent: _load_for_agent and the operations behind it *)

\* Fault: an agent may act on the visit of another.
AnyAgent(v, g) == g \in Agents

IsAssignee(v, g) == visits[v].agent = g

BeginConfirm(w, v, g, op) ==
    /\ op \in {"confirm", "conflict"}
    /\ IsAssignee(v, g)
    /\ visits[v].status = "AGENT_ASSIGNED"
    /\ Start(w, op, v, g)

CommitConfirm(w, v) ==
    /\ Running(w, "confirm", v)
    /\ visits' = [visits EXCEPT ![v].status = "SCHEDULED"]
    /\ confirmer' = [confirmer EXCEPT ![v] = req[w].agent]
    /\ Finish(w)
    /\ UNCHANGED <<outcome, agreement, listing>>

\* A conflict hands the visit back to the queue.
CommitConflict(w, v) ==
    /\ Running(w, "conflict", v)
    /\ visits' = [visits EXCEPT ![v].status = "PENDING_ASSIGNMENT", ![v].agent = None]
    /\ Finish(w)
    /\ UNCHANGED <<confirmer, outcome, agreement, listing>>

BeginReport(w, v, g) ==
    /\ IsAssignee(v, g)
    /\ visits[v].status \in Reportable
    /\ Start(w, "report", v, g)

CommitReport(w, v) ==
    /\ Running(w, "report", v)
    /\ visits' = [visits EXCEPT ![v].status = "REPORT_PENDING", ![v].author = req[w].agent]
    /\ Finish(w)
    /\ UNCHANGED <<confirmer, outcome, agreement, listing>>

-----------------------------------------------------------------------------
(* cancel_visit: the seeker, the landlord, the agent or an administrator *)

\* Fault: a completed visit may still be cancelled.
NotCancelled(v) == visits[v].status \notin {"absent", "CANCELLED"}

IsCancellable(v) == visits[v].status \notin {"absent"} \cup Over

BeginCancel(w, v) == IsCancellable(v) /\ Start(w, "cancel", v, None)

CommitCancel(w, v) ==
    /\ Running(w, "cancel", v)
    /\ visits' = [visits EXCEPT ![v].status = "CANCELLED"]
    /\ Finish(w)
    /\ UNCHANGED <<confirmer, outcome, agreement, listing>>

-----------------------------------------------------------------------------
(* Review of the report: admin_approve_, admin_query_, admin_flag_visit_report *)

\* Fault: any visit that is not over may be reviewed.
NotOver(v) == visits[v].status \notin {"absent"} \cup Over

AwaitsReview(v) == visits[v].status = "REPORT_PENDING"

BeginReview(w, v, op) ==
    /\ AwaitsReview(v)
    /\ Start(w, op, v, None)

Reviewed(w, v, op, status) ==
    /\ Running(w, op, v)
    /\ visits' = [visits EXCEPT ![v].status = status]
    /\ outcome' = [outcome EXCEPT ![v] = @ \cup {op}]
    /\ Finish(w)

\* generate_agreement_for_offer, see module Agreements.
CommitApprove(w, v) ==
    /\ Reviewed(w, v, "approve", "COMPLETED")
    /\ agreement' = [agreement EXCEPT ![v] = TRUE]
    /\ UNCHANGED <<confirmer, listing>>

CommitQuery(w, v) ==
    /\ Reviewed(w, v, "query", "REPORT_QUERIED")
    /\ UNCHANGED <<confirmer, agreement, listing>>

CommitFlag(w, v) ==
    /\ Reviewed(w, v, "flag", "COMPLETED")
    /\ listing' = IF req[w].live = "VERIFIED" THEN "LIVE_UNVERIFIED" ELSE listing
    /\ UNCHANGED <<confirmer, agreement>>

\* What administrators do with the listing meanwhile (admin/service.py).
ListingChanges ==
    /\ listing' \in {"VERIFIED", "SUSPENDED"} \ {listing}
    /\ UNCHANGED <<visits, confirmer, outcome, agreement, req>>

-----------------------------------------------------------------------------

Begin(w) ==
    \E v \in VisitId :
        \/ \E g \in Agents : \/ BeginAssign(w, v, g)
                             \/ \E op \in {"confirm", "conflict"} : BeginConfirm(w, v, g, op)
                             \/ BeginReport(w, v, g)
        \/ BeginCancel(w, v)
        \/ \E op \in Review : BeginReview(w, v, op)

Commit(w) ==
    \E v \in VisitId :
        \/ CommitAssign(w, v)
        \/ CommitConfirm(w, v)
        \/ CommitConflict(w, v)
        \/ CommitReport(w, v)
        \/ CommitCancel(w, v)
        \/ CommitApprove(w, v)
        \/ CommitQuery(w, v)
        \/ CommitFlag(w, v)

Next ==
    \/ \E w \in Workers : Begin(w) \/ Commit(w) \/ Abort(w)
    \/ \E v \in VisitId : RequestVisit(v)
    \/ ListingChanges

Spec == Init /\ [][Next]_vars

-----------------------------------------------------------------------------
(* Properties *)

\* Types of the tables and of the open sessions; a report is stored by the time
\* the status says there is one.
TypeOK ==
    /\ visits    \in [VisitId -> Visit]
    /\ \A v \in VisitId :
          visits[v].status \in {"REPORT_PENDING", "REPORT_QUERIED", "COMPLETED"}
              => visits[v].author # None
    /\ confirmer \in [VisitId -> Agents \cup {None}]
    /\ outcome   \in [VisitId -> SUBSET Review]
    /\ agreement \in [VisitId -> BOOLEAN]
    /\ listing   \in ListingStatus
    /\ req       \in [Workers -> Request]

\* However requests overlap, an agreement is only unlocked on a report that an
\* agent, and not one who inspected the listing, has written after confirming
\* a schedule for the visit.
AgreementHasReport ==
    \A v \in VisitId : agreement[v] =>
        /\ visits[v].author \in Agents \ Inspectors
        /\ confirmer[v] # None

\* Rows and sessions are in their types, and agreements rest on reports,
\* however requests overlap.
VisitsInv == TypeOK /\ AgreementHasReport

\* When sessions do not overlap, the agent who is to conduct a scheduled visit,
\* or did conduct it, is the one who confirmed it and whose report is reviewed:
\* "the agent has 2 hours to confirm or flag a conflict" (models/visit.py:5).
ConductedByConfirmer ==
    \A v \in VisitId :
        /\ visits[v].status \in Reportable \cup {"REPORT_PENDING", "COMPLETED"}
              => visits[v].agent = confirmer[v]
        /\ visits[v].status \in {"REPORT_PENDING", "REPORT_QUERIED", "COMPLETED"}
              => visits[v].author = visits[v].agent

\* When sessions do not overlap, a visit that is over stays over and is reviewed
\* no more: "Visit can no longer be cancelled." (agents/service.py:326)
OverIsFinal ==
    [][\A v \in VisitId : visits[v].status \in Over =>
          visits'[v] = visits[v] /\ outcome'[v] = outcome[v]]_vars

(* Refinement *)

StatusOf == [v \in VisitId |-> visits[v].status]
AgentOf  == [v \in VisitId |-> visits[v].agent]
AuthorOf == [v \in VisitId |-> visits[v].author]

Promise == INSTANCE Conduct WITH
    Eligible <- Agents \ Inspectors, phase <- StatusOf, asked <- AgentOf, reporter <- AuthorOf,
    conductor <- confirmer, verdicts <- outcome, agreed <- agreement

\* Executed one session at a time, visits implement the abstract conduct: an
\* agent takes a visit on once and reports on it, each report is reviewed once,
\* and a visit that is over is over (visits/service.py, agents/service.py).
ImplementsConduct == Promise!Spec
=============================================================================
