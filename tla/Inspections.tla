---------------------------- MODULE Inspections -----------------------------
(***************************************************************************)
(* The inspections of one listing: administrators assign them to an        *)
(* inspector, the inspector fills in and submits reports                   *)
(* (backend/app/inspector/service.py), administrators review them and      *)
(* award the physical badge (backend/app/admin/review_service.py).         *)
(***************************************************************************)
EXTENDS Naturals, FiniteSets, Report, Sessions

CONSTANTS
    Inspectors,
    ReportId,         \* identities of the rows of table inspection_reports
    MaxEvidence       \* bound: pieces of evidence on one report

ASSUME InspectionsAssumption == MaxEvidence \in Nat

VARIABLES
    account,      \* what each inspector has completed of the activation
    reports,      \* table inspection_reports: "absent", or the inspector and the report
    before,       \* <<q, r>>: the submitted_at of r is later than that of q, or q has none
    subject,      \* the listing: may it be inspected, is it documented, its physical badges
    review        \* the request each worker has open

inspectionVars == <<account, reports, before, subject, review, overlap>>

-----------------------------------------------------------------------------
(* Data *)

Unassigned == [status |-> "absent"]

Partial  == 1     \* an assessment that is not the checklist the review asks for
Complete == 2

Step == {"invited", "photo", "nin", "conduct"}

ReportRow == [status : ReportStatus, assessment : {Empty, Partial, Complete},
              evidence : 0 .. MaxEvidence, pinned : BOOLEAN, inspector : Inspectors]

\* assignable: the status is LIVE_UNVERIFIED, DOC_VERIFIED or FULLY_VERIFIED;
\* documented: an active document badge, or a student listing, which needs none.
Subject == [assignable : BOOLEAN, documented : BOOLEAN, physical : Nat]

ReviewRequest ==
    {Idle} \cup [report : ReportId, seen : ReportRow \cup {Unassigned}, new : ReportRow,
                 badge : BOOLEAN]

InspectionsInit ==
    /\ overlap \in Modes
    /\ account = [i \in Inspectors |-> {}]
    /\ reports = [r \in ReportId |-> Unassigned]
    /\ before = {}
    /\ subject \in [assignable : BOOLEAN, documented : BOOLEAN, physical : {0}]
    /\ review  = [w \in Workers |-> Idle]

-----------------------------------------------------------------------------
(* Sessions *)

OpenReview(w, r, new, badge) ==
    /\ review[w] = Idle
    /\ MayStart(review)
    /\ review' = [review EXCEPT ![w] =
           [report |-> r, seen |-> reports[r], new |-> new, badge |-> badge]]
    /\ UNCHANGED <<account, reports, before, subject, overlap>>

BecomesPending(v) == v.new.status = "PENDING" /\ v.seen # Unassigned /\ v.seen # v.new

\* submitted_at is set to the present.
Latest(r) == {p \in before : p[1] # r} \cup ((ReportId \ {r}) \X {r})

CommitReview(w) ==
    /\ review[w] # Idle
    /\ LET v == review[w]
       IN  /\ reports' = [reports EXCEPT ![v.report] =
                  IF v.seen = Unassigned THEN v.new ELSE WrittenRow(v.seen, v.new, @)]
           /\ before' = IF BecomesPending(v) THEN Latest(v.report) ELSE before
           /\ subject' = [subject EXCEPT !.physical = @ + (IF v.badge THEN 1 ELSE 0)]
    /\ review' = [review EXCEPT ![w] = Idle]
    /\ UNCHANGED <<account, overlap>>

AbortReview(w) ==
    /\ review[w] # Idle
    /\ review' = [review EXCEPT ![w] = Idle]
    /\ UNCHANGED <<account, reports, before, subject, overlap>>

-----------------------------------------------------------------------------
(* Activation *)

InviteInspector ==
    \E i \in Inspectors :
        /\ account[i] = {}                                  \* user_exists
        /\ account' = [account EXCEPT ![i] = {"invited"}]
        /\ UNCHANGED <<reports, before, subject, review, overlap>>

\* The photo and the NIN come through the users service.
CompleteProfile ==
    \E i \in Inspectors, step \in {"photo", "nin"} :
        /\ "invited" \in account[i]
        /\ account' = [account EXCEPT ![i] = @ \cup {step}]
        /\ UNCHANGED <<reports, before, subject, review, overlap>>

AcknowledgeConduct ==
    \E i \in Inspectors :
        /\ "invited" \in account[i]
        /\ account' = [account EXCEPT ![i] = @ \cup {"conduct"}]
        /\ UNCHANGED <<reports, before, subject, review, overlap>>

IsActivationComplete(i) == account[i] = Step

-----------------------------------------------------------------------------
(* Assignment *)

OpenStatuses == {"ASSIGNED", "IN_PROGRESS", "PENDING", "QUERIED"}

OpenReports(i) ==
    {r \in ReportId : reports[r].status \in OpenStatuses /\ reports[r].inspector = i}

\* A fresh row: not one another session is inserting.
AssignInspection(w) ==
    \E i \in Inspectors, r \in ReportId :
        /\ subject.assignable
        /\ IsActivationComplete(i)
        /\ OpenReports(i) = {}
        /\ reports[r] = Unassigned
        /\ \A other \in Workers : review[other] # Idle => review[other].report # r
        /\ OpenReview(w, r, [column \in DOMAIN NewReport \cup {"inspector"} |->
                 IF column = "inspector" THEN i ELSE NewReport[column]], FALSE)

-----------------------------------------------------------------------------
(* The inspector; a repeated request is a step of its own *)

Assigned(r) == reports[r] # Unassigned

SaveDraft(w) ==
    \E r \in ReportId, assessment \in {Empty, Partial, Complete}, pinned \in BOOLEAN :
        /\ Assigned(r)
        /\ Editable(reports[r])
        /\ OpenReview(w, r, Saved(reports[r], assessment, pinned), FALSE)

RegisterEvidence(w) ==
    \E r \in ReportId :
        /\ Assigned(r)
        /\ Editable(reports[r])
        /\ reports[r].evidence < MaxEvidence
        /\ OpenReview(w, r, Registered(reports[r]), FALSE)

SubmitReport(w) ==
    \E r \in ReportId :
        /\ Assigned(r)
        /\ MaySubmit(reports[r])
        /\ OpenReview(w, r, Submitted(reports[r]), FALSE)

-----------------------------------------------------------------------------
(* Review *)

\* Fault: an approval can be taken back.
PendingOrApproved(r) == reports[r].status \in {"PENDING", "APPROVED"}

AwaitsReview(r) == reports[r].status = "PENDING"

\* query_inspection_report, reject_inspection_report.
Refuse(w, verdict) ==
    \E r \in ReportId :
        /\ AwaitsReview(r)
        /\ OpenReview(w, r, [reports[r] EXCEPT !.status = verdict], FALSE)

\* _complete_physical_badge_award; a listing with two badges makes the look-up raise.
CompleteAward(w, r) ==
    /\ subject.physical = 0
    /\ subject.documented
    /\ reports[r].assessment = Complete
    /\ OpenReview(w, r, [reports[r] EXCEPT !.status = "APPROVED"], TRUE)

ApproveInspection(w) == \E r \in ReportId : AwaitsReview(r) /\ CompleteAward(w, r)

\* award_physical_badge_for_listing: the latest submission among those that are
\* pending or approved.
AwardForListing(w) ==
    LET Candidates == {r \in ReportId : reports[r].status \in {"PENDING", "APPROVED"}}
    IN  \E r \in Candidates :
            /\ \A q \in Candidates \ {r} : <<q, r>> \in before
            /\ CompleteAward(w, r)

\* Modules Listings and Accounts: the status moves freely, a document badge stays.
ListingChanges ==
    /\ \E a \in BOOLEAN, d \in {subject.documented, TRUE} :
          subject' = [subject EXCEPT !.assignable = a, !.documented = d]
    /\ UNCHANGED <<account, reports, before, review, overlap>>

InspectionsNext ==
    \/ InviteInspector
    \/ CompleteProfile
    \/ AcknowledgeConduct
    \/ ListingChanges
    \/ \E w \in Workers :
        \/ AssignInspection(w)
        \/ SaveDraft(w)
        \/ RegisterEvidence(w)
        \/ SubmitReport(w)
        \/ Refuse(w, "QUERIED")
        \/ Refuse(w, "REJECTED")
        \/ ApproveInspection(w)
        \/ AwardForListing(w)
        \/ CommitReview(w)
        \/ AbortReview(w)

InspectionsSpec == InspectionsInit /\ [][InspectionsNext]_inspectionVars

-----------------------------------------------------------------------------
(* Properties *)

\* Types; and however requests overlap, a report that has content is no longer
\* ASSIGNED.
InspectionsTypeOK ==
    /\ account \in [Inspectors -> SUBSET Step]
    /\ reports \in [ReportId -> ReportRow \cup {Unassigned}]
    /\ before \subseteq ReportId \X ReportId
    /\ subject \in Subject
    /\ review  \in [Workers -> ReviewRequest]
    /\ \A r \in ReportId : reports[r].status = "ASSIGNED" =>
           reports[r].evidence = 0 /\ reports[r].assessment = Empty /\ ~reports[r].pinned

\* However drafts, evidence, submissions and reviews overlap, a report that was
\* ever submitted has an assessment, evidence and a pin.
SubmittedIsComplete ==
    \A r \in ReportId :
        reports[r].status \in {"PENDING", "QUERIED", "APPROVED", "REJECTED"} =>
            reports[r].assessment # Empty /\ reports[r].evidence > 0 /\ reports[r].pinned

\* When sessions do not overlap, an inspector has at most one open report on
\* the listing, which assign_inspection relies on: with two, its look-up raises.
OneOpenReport == ~overlap => \A i \in Inspectors : Cardinality(OpenReports(i)) <= 1

\* When sessions do not overlap, the physical badge rests on exactly one
\* approved report, whose assessment is complete.
BadgeRestsOnApproval ==
    ~overlap =>
        LET Approved == {r \in ReportId : reports[r].status = "APPROVED"}
        IN  /\ Cardinality(Approved) = subject.physical
            /\ subject.physical <= 1
            /\ \A r \in Approved : reports[r].assessment = Complete

\* A report is complete when it is submitted, is the only open one of its
\* inspector, and has earned the badge it led to (inspector/service.py,
\* admin/review_service.py).
InspectionsInv ==
    /\ InspectionsTypeOK
    /\ SubmittedIsComplete
    /\ OneOpenReport
    /\ BadgeRestsOnApproval

\* When sessions do not overlap, what the administrator reviews is what was
\* submitted: the content of a report changes only while it is with the
\* inspector ("Reports lock when status moves out of ASSIGNED/IN_PROGRESS",
\* inspector/service.py:6, or back in a query), and a verdict is final.
LockedWhileReviewed ==
    [][~overlap => \A r \in ReportId :
          reports[r].status \in {"PENDING", "APPROVED", "REJECTED"} =>
              /\ \A column \in {"assessment", "evidence", "pinned"} :
                     reports'[r][column] = reports[r][column]
              /\ reports[r].status # "PENDING" => reports'[r].status = reports[r].status
      ]_inspectionVars

(* Refinement *)

Open == {"ASSIGNED", "IN_PROGRESS", "QUERIED"}

StageIn(row) == IF row.status \in Open THEN "open" ELSE row.status

ContentIn(row) ==
    IF row.status = "absent"
    THEN [assessment |-> Empty, evidence |-> 0, pinned |-> FALSE]
    ELSE [assessment |-> row.assessment, evidence |-> row.evidence, pinned |-> row.pinned]

StageOf   == [r \in ReportId |-> StageIn(reports[r])]
ContentOf == [r \in ReportId |-> ContentIn(reports[r])]
HeldBy    == [i \in Inspectors |-> {r \in ReportId : Assigned(r) /\ reports[r].inspector = i}]

Exam == INSTANCE Examination WITH
    Content <- [assessment : {Empty, Partial, Complete}, evidence : 0 .. MaxEvidence,
                pinned : BOOLEAN],
    stage <- StageOf, held <- HeldBy, content <- ContentOf, badges <- subject.physical

\* Executed one session at a time, inspections implement the abstract
\* examination: what the administrator reviews is what one inspector handed in
\* ("Reports lock when status moves out of ASSIGNED/IN_PROGRESS",
\* inspector/service.py:6, or back in a query), nothing that was captured gets
\* lost, a verdict is final and one approval brings the one badge.
ImplementsExamination ==
    Exam!Init /\ [][~overlap => [Exam!Next]_(Exam!vars)]_inspectionVars
=============================================================================
