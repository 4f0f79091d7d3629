---------------------------- MODULE Examination -----------------------------
(***************************************************************************)
(* What inspector/service.py and admin/review_service.py promise of the    *)
(* reports on a listing: an inspector works on one at a time, hands it in  *)
(* when it is whole, and nobody changes it from then on unless it is sent  *)
(* back; a verdict is final, and one approval earns the one badge.         *)
(***************************************************************************)
EXTENDS Naturals

CONSTANTS
    Inspectors,
    ReportId,
    Content      \* contents of a report: assessment, evidence, pinned

VARIABLES
    stage,       \* of each report
    held,        \* the reports an inspector was ever given
    content,     \* of each report
    badges       \* badges the listing was awarded

vars == <<stage, held, content, badges>>

Blank == [assessment |-> 0, evidence |-> 0, pinned |-> FALSE]

Whole(c) == c.assessment # 0 /\ c.evidence > 0 /\ c.pinned

Checked(c) == c.assessment = 2

\* What is there is not taken away.
Adds(c, d) ==
    /\ c.assessment # 0 => d.assessment # 0
    /\ c.evidence <= d.evidence
    /\ c.pinned => d.pinned

Init ==
    /\ stage   = [r \in ReportId |-> "absent"]
    /\ held    = [i \in Inspectors |-> {}]
    /\ content = [r \in ReportId |-> Blank]
    /\ badges  = 0

Move(r, from, to) ==
    /\ stage[r] = from
    /\ stage' = [stage EXCEPT ![r] = to]

Assign(i, r) ==
    /\ \A q \in held[i] : stage[q] \in {"APPROVED", "REJECTED"}
    /\ Move(r, "absent", "open")
    /\ held' = [held EXCEPT ![i] = @ \cup {r}]
    /\ UNCHANGED <<content, badges>>

Work(r) ==
    /\ stage[r] = "open"
    /\ \E c \in Content :
          /\ Adds(content[r], c)
          /\ content' = [content EXCEPT ![r] = c]
    /\ UNCHANGED <<stage, held, badges>>

HandIn(r) ==
    /\ Whole(content[r])
    /\ Move(r, "open", "PENDING")
    /\ UNCHANGED <<held, content, badges>>

SendBack(r) == Move(r, "PENDING", "open") /\ UNCHANGED <<held, content, badges>>

Reject(r) == Move(r, "PENDING", "REJECTED") /\ UNCHANGED <<held, content, badges>>

Approve(r) ==
    /\ Checked(content[r])
    /\ Move(r, "PENDING", "APPROVED")
    /\ badges = 0 /\ badges' = 1
    /\ UNCHANGED <<held, content>>

Next ==
    \E r \in ReportId :
        \/ \E i \in Inspectors : Assign(i, r)
        \/ Work(r) \/ HandIn(r)
        \/ SendBack(r) \/ Reject(r) \/ Approve(r)

Spec == Init /\ [][Next]_vars
=============================================================================
