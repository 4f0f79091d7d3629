------------------------------- MODULE Report -------------------------------
(***************************************************************************)
(* The row of an inspection report and what the operations of the          *)
(* inspector make of it (backend/app/inspector/service.py), for modules    *)
(* Inspections and SyncQueue.                                              *)
(***************************************************************************)
EXTENDS Naturals

ReportStatus == {"ASSIGNED", "IN_PROGRESS", "PENDING", "QUERIED", "APPROVED", "REJECTED"}

Empty == 0      \* an assessment without a field; a version of it otherwise

NewReport == [status |-> "ASSIGNED", assessment |-> Empty, evidence |-> 0, pinned |-> FALSE]

\* Fault: a submitted report may still be edited.
BeforeVerdict(report) ==
    report.status \in {"ASSIGNED", "IN_PROGRESS", "QUERIED", "PENDING"}

Editable(report) == report.status \in {"ASSIGNED", "IN_PROGRESS", "QUERIED"}

Started(status) == IF status = "ASSIGNED" THEN "IN_PROGRESS" ELSE status

\* What is sent is merged into what is there, so neither the fields nor the pin
\* can be emptied.
Saved(report, assessment, pinned) ==
    [report EXCEPT !.assessment = IF assessment = Empty THEN @ ELSE assessment,
                   !.pinned = @ \/ pinned,
                   !.status = Started(@)]

Registered(report) == [report EXCEPT !.evidence = @ + 1, !.status = Started(@)]

MaySubmit(report) ==
    /\ Editable(report)
    /\ report.assessment # Empty
    /\ report.evidence > 0
    /\ report.pinned

Submitted(report) == [report EXCEPT !.status = "PENDING"]

=============================================================================
