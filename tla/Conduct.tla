------------------------------- MODULE Conduct ------------------------------
(***************************************************************************)
(* What visits/service.py and agents/service.py promise of a visit: one    *)
(* agent takes it on, for good, reports on it, and each report is reviewed *)
(* once; an agreement follows an approval and nothing else.                *)
(***************************************************************************)
CONSTANTS
    VisitId,
    Eligible,    \* agents who may conduct visits to the listing
    None

VARIABLES
    phase,       \* of each visit
    asked,       \* the agent it is, or was, assigned to
    conductor,   \* the agent who took it on
    reporter,    \* the agent whose report it has
    verdicts,    \* the reviews of its reports
    agreed       \* does an agreement follow?

vars == <<phase, asked, conductor, reporter, verdicts, agreed>>

Init ==
    /\ phase     = [v \in VisitId |-> "absent"]
    /\ asked     = [v \in VisitId |-> None]
    /\ conductor = [v \in VisitId |-> None]
    /\ reporter  = [v \in VisitId |-> None]
    /\ verdicts  = [v \in VisitId |-> {}]
    /\ agreed    = [v \in VisitId |-> FALSE]

Move(v, from, to) ==
    /\ phase[v] \in from
    /\ phase' = [phase EXCEPT ![v] = to]

Request(v) ==
    /\ Move(v, {"absent"}, "PENDING_ASSIGNMENT")
    /\ UNCHANGED <<asked, conductor, reporter, verdicts, agreed>>

Ask(v, agent) ==
    /\ Move(v, {"PENDING_ASSIGNMENT", "AGENT_ASSIGNED"}, "AGENT_ASSIGNED")
    /\ asked' = [asked EXCEPT ![v] = agent]
    /\ UNCHANGED <<conductor, reporter, verdicts, agreed>>

HandBack(v) ==
    /\ Move(v, {"AGENT_ASSIGNED"}, "PENDING_ASSIGNMENT")
    /\ asked' = [asked EXCEPT ![v] = None]
    /\ UNCHANGED <<conductor, reporter, verdicts, agreed>>

TakeOn(v) ==
    /\ Move(v, {"AGENT_ASSIGNED"}, "SCHEDULED")
    /\ conductor[v] = None
    /\ conductor' = [conductor EXCEPT ![v] = asked[v]]
    /\ UNCHANGED <<asked, reporter, verdicts, agreed>>

Report(v) ==
    /\ Move(v, {"SCHEDULED", "REPORT_QUERIED"}, "REPORT_PENDING")
    /\ reporter' = [reporter EXCEPT ![v] = conductor[v]]
    /\ UNCHANGED <<asked, conductor, verdicts, agreed>>

ReviewAs(v, verdict, to) ==
    /\ Move(v, {"REPORT_PENDING"}, to)
    /\ verdicts' = [verdicts EXCEPT ![v] = @ \cup {verdict}]
    /\ UNCHANGED <<asked, conductor, reporter>>

Approve(v) == ReviewAs(v, "approve", "COMPLETED") /\ agreed' = [agreed EXCEPT ![v] = TRUE]
Query(v)   == ReviewAs(v, "query", "REPORT_QUERIED") /\ UNCHANGED agreed
Flag(v)    == ReviewAs(v, "flag", "COMPLETED") /\ UNCHANGED agreed

Cancel(v) ==
    /\ phase[v] \notin {"absent", "COMPLETED", "CANCELLED"}
    /\ phase' = [phase EXCEPT ![v] = "CANCELLED"]
    /\ UNCHANGED <<asked, conductor, reporter, verdicts, agreed>>

Next ==
    \E v \in VisitId :
        \/ Request(v)
        \/ \E agent \in Eligible : Ask(v, agent)
        \/ HandBack(v) \/ TakeOn(v) \/ Report(v)
        \/ Approve(v) \/ Query(v) \/ Flag(v)
        \/ Cancel(v)

Spec == Init /\ [][Next]_vars
=============================================================================
