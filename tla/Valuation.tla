----------------------------- MODULE Valuation ------------------------------
(***************************************************************************)
(* The valuation report of one listing: it shows the infrastructure scores *)
(* of the listing's area (backend/app/inspector/area_scoring.py), is kept  *)
(* in the listing's row and in Redis, and is generated again when one of   *)
(* them changes (backend/app/verification/reports.py).                     *)
(*                                                                         *)
(* Redis is written in the middle of a session, after a call to a slow     *)
(* external service and before the commit.                                 *)
(***************************************************************************)
EXTENDS Integers, Sessions

CONSTANTS
    Coordinates,  \* latitudes of the listing, in tenths of a cell
    MaxScore      \* bound: versions of the area's scores

ASSUME ValuationAssumption == Coordinates \subseteq Int /\ MaxScore \in Nat

VARIABLES
    place,        \* where the listing is
    scores,       \* table area_scores: the version of the record of each cell, 0 for none
    row,          \* of the listing: tier, badge and the stored report
    cache,        \* the Redis key valuation_report:<id>
    report,       \* the request each worker has open
    spoiled       \* ghost: has a session that wrote the cache rolled back since?

valuationVars == <<place, scores, row, cache, report, spoiled, overlap>>

NoReport == -1
Tier == {"LOWER", "FULLY_VERIFIED", "AGREED"}

\* snap_to_cell: int() drops the fraction, towards zero.
SnapToCell(x) == IF x >= 0 THEN x \div 10 ELSE -((-x) \div 10)
Cells         == {SnapToCell(x) : x \in Coordinates}

\* The range regenerate_reports_for_area_score looks for listings in.
InCell(x, cell) == cell * 10 <= x /\ x < cell * 10 + 10

ValuationInit ==
    /\ overlap \in Modes
    /\ place  \in Coordinates
    /\ scores = [c \in Cells |-> 0]
    /\ row    = [tier |-> "LOWER", badge |-> FALSE, stored |-> NoReport]
    /\ cache  = NoReport
    /\ report = [w \in Workers |-> Idle]
    /\ spoiled = FALSE

-----------------------------------------------------------------------------
(* Sessions: Redis first, then the commit *)

AreaScore == scores[SnapToCell(place)]

OpenSession(w, op, cell, score, newRow, redis, value) ==
    /\ report[w] = Idle
    /\ MayStart(report)
    /\ report' = [report EXCEPT ![w] =
           [op |-> op, cell |-> cell, seenScore |-> scores[cell], score |-> score,
            seen |-> row, new |-> newRow, redis |-> redis, value |-> value]]
    /\ UNCHANGED <<place, scores, row, cache, spoiled, overlap>>

\* generate_and_store_valuation_report, in a session that makes the row newRow:
\* the scores are read now, Redis is written later.
Generate(w, op, cell, score, shown, newRow) ==
    OpenSession(w, op, cell, score, [newRow EXCEPT !.stored = shown], "due", shown)

\* _cache_report, or the delete of invalidate_listing_report_cache.
WriteCache(w) ==
    /\ report[w] # Idle
    /\ report[w].redis = "due"
    /\ cache' = report[w].value
    /\ spoiled' = FALSE
    /\ report' = [report EXCEPT ![w].redis = "done"]
    /\ UNCHANGED <<place, scores, row, overlap>>

CommitReport(w) ==
    /\ report[w] # Idle
    /\ report[w].op # "read"                  \* the public page commits nothing
    /\ report[w].redis # "due"
    /\ LET s == report[w]
       IN  /\ scores' = [scores EXCEPT ![s.cell] = Written(s.seenScore, s.score, @)]
           /\ row' = WrittenRow(s.seen, s.new, row)
    /\ report' = [report EXCEPT ![w] = Idle]
    /\ UNCHANGED <<place, cache, spoiled, overlap>>

EndReport(w) ==
    /\ report[w] # Idle
    /\ spoiled' = (spoiled \/ (report[w].op # "read" /\ report[w].redis = "done"))
    /\ report' = [report EXCEPT ![w] = Idle]
    /\ UNCHANGED <<place, scores, row, cache, overlap>>

-----------------------------------------------------------------------------
(* Scores *)

\* Fault: the report of the listing is not generated again.
NoListing(cell) == FALSE

\* The listings regenerate_reports_for_area_score selects.
ShowsTheArea(cell) == row.badge /\ InCell(place, cell)

\* upsert_area_score, then regenerate_reports_for_area_score.
ScoreArea(w, x) ==
    LET cell  == SnapToCell(x)
        score == scores[cell] + 1
    IN  /\ score <= MaxScore
        /\ IF ShowsTheArea(cell)
           THEN Generate(w, "score", cell, score, score, row)
           ELSE OpenSession(w, "score", cell, score, row, "no", NoReport)

\* submit_infrastructure_score: where the inspector stands.
InspectorScores(w) == \E x \in Coordinates : ScoreArea(w, x)

\* update_listing_area_score: where the listing is.
AdminScores(w) == ScoreArea(w, place)

-----------------------------------------------------------------------------
(* Reports *)

\* The end of _complete_physical_badge_award (module Inspections).
AwardBadge(w) ==
    /\ ~row.badge
    /\ Generate(w, "award", SnapToCell(place), AreaScore, AreaScore,
                [row EXCEPT !.tier = "FULLY_VERIFIED", !.badge = TRUE])

Invalidated == [row EXCEPT !.stored = NoReport]

\* edit_listing with a price.
EditPrice(w) ==
    OpenSession(w, "price", SnapToCell(place), AreaScore, Invalidated, "due", NoReport)

CanRegenerate == row.tier \in {"FULLY_VERIFIED", "AGREED"}

\* get_or_generate_valuation_report, for a signed-in visitor of the public page.
ReadReport(w) ==
    /\ cache = NoReport
    /\ \/ /\ CanRegenerate
          /\ Generate(w, "read", SnapToCell(place), AreaScore, AreaScore, row)
       \/ /\ ~CanRegenerate
          /\ row.stored # NoReport
          /\ OpenSession(w, "read", SnapToCell(place), AreaScore, row, "due", row.stored)

\* Other modules: a payment, or a suspension and a restoration; a listing is
\* published again as FULLY_VERIFIED with its badge.
TierChanges ==
    /\ \E tier \in Tier :
          /\ tier = "FULLY_VERIFIED" => row.badge
          /\ row' = [row EXCEPT !.tier = tier]
    /\ UNCHANGED <<place, scores, cache, report, spoiled, overlap>>

ValuationNext ==
    \/ TierChanges
    \/ \E w \in Workers :
        \/ InspectorScores(w)
        \/ AdminScores(w)
        \/ AwardBadge(w)
        \/ EditPrice(w)
        \/ ReadReport(w)
        \/ WriteCache(w)
        \/ CommitReport(w)
        \/ EndReport(w)

ValuationSpec == ValuationInit /\ [][ValuationNext]_valuationVars

-----------------------------------------------------------------------------

\* When sessions do not overlap, and none rolled back after it wrote Redis, a
\* listing with the physical badge has the present scores of its area in its
\* cached report, which has no expiry, and in its stored one, from which the
\* cache is filled again.
ReportShowsScores ==
    ~overlap /\ ~spoiled /\ row.badge /\ (\A w \in Workers : report[w] = Idle) =>
        cache \in {NoReport, AreaScore} /\ row.stored \in {NoReport, AreaScore}
=============================================================================
