-------------------------- MODULE InspectionsProofs --------------------------
(***************************************************************************)
(* Inspections: for any inspectors, reports and workers, and however       *)
(* sessions overlap, a report that was submitted is complete; one session  *)
(* at a time, an inspector has one open report, what is reviewed is what   *)
(* was submitted, and the physical badge rests on one approved report;     *)
(* the code implements the abstract Examination.                           *)
(* Valuation: one session at a time, a badged listing shows the present    *)
(* scores.  SyncQueue: the app gives no photo up before its last attempt.  *)
(***************************************************************************)
EXTENDS Inspections, Valuation, SyncQueue, FiniteSetTheorems, TLAPS

USE SessionsAssumption, InspectionsAssumption, ValuationAssumption, SyncQueueAssumption

-----------------------------------------------------------------------------
(* Inspections: the invariant *)

Request == [report : ReportId, seen : ReportRow \cup {Unassigned}, new : ReportRow,
            badge : BOOLEAN]

Handed == {"PENDING", "QUERIED", "APPROVED", "REJECTED"}

\* A report has content once it is begun, and all of it once it is submitted.
RowIsSound(kept) ==
    /\ kept.status = "ASSIGNED" => kept.evidence = 0 /\ kept.assessment = Empty /\ ~kept.pinned
    /\ kept.status \in Handed => kept.assessment # Empty /\ kept.evidence > 0 /\ kept.pinned

\* What was begun stays begun, and what was there is not emptied.
Grows(kept, later) ==
    /\ kept.status # "ASSIGNED" => later.status # "ASSIGNED"
    /\ kept.assessment # Empty => later.assessment # Empty
    /\ kept.evidence > 0 => later.evidence > 0
    /\ kept.pinned => later.pinned

\* However sessions overlap: what an open session read has since only grown,
\* and a report that is being assigned has no row.
RequestFits(v, stored) ==
    /\ RowIsSound(v.new)
    /\ v.seen = Unassigned => stored = Unassigned
    /\ v.seen # Unassigned =>
         /\ stored # Unassigned
         /\ RowIsSound(v.seen)
         /\ Grows(v.seen, v.new)
         /\ Grows(v.seen, stored)

Tables ==
    /\ overlap \in BOOLEAN
    /\ account \in [Inspectors -> SUBSET Step]
    /\ reports \in [ReportId -> ReportRow \cup {Unassigned}]
    /\ before \subseteq ReportId \X ReportId
    /\ subject \in Subject
    /\ review  \in [Workers -> {Idle} \cup Request]
    /\ \A r \in ReportId : reports[r] # Unassigned => RowIsSound(reports[r])
    /\ \A w \in Workers : review[w] # Idle => RequestFits(review[w], reports[review[w].report])
    /\ \A v, w \in Workers :
          review[v] # Idle /\ review[w] # Idle /\ review[v].seen = Unassigned
              /\ review[w].report = review[v].report => v = w

IsOpen(kept)     == kept.status \in OpenStatuses
IsApproved(kept) == kept.status = "APPROVED"

\* One session at a time: the row is still the one that was read; a report is
\* assigned to an inspector without an open one; only the administrator has a
\* session on a pending report, nobody on one with a verdict; and an approval
\* comes with the badge, once.
RequestIsFresh(v) ==
    /\ v.seen = reports[v.report]
    /\ v.seen = Unassigned =>
          \A r \in ReportId : IsOpen(reports[r]) => reports[r].inspector # v.new.inspector
    /\ v.seen # Unassigned =>
          /\ v.seen.status \notin {"APPROVED", "REJECTED"}
          /\ v.seen.status = "PENDING" => v.new = [v.seen EXCEPT !.status = v.new.status]
          /\ v.new.inspector = v.seen.inspector
          /\ IsOpen(v.seen)
    /\ v.badge => subject.physical = 0 /\ v.new.assessment = Complete
    /\ v.badge <=> IsApproved(v.new)

OneAtATime ==
    /\ \A v, w \in Workers : review[v] # Idle /\ review[w] # Idle => v = w
    /\ \A w \in Workers : review[w] # Idle => RequestIsFresh(review[w])

\* One session at a time: open reports have different inspectors, and there is
\* an approved report exactly when there is a badge.
ReportsAgree ==
    /\ \A r, q \in ReportId :
          /\ IsOpen(reports[r]) /\ IsOpen(reports[q])
          /\ reports[r].inspector = reports[q].inspector
          => r = q
    /\ \A r, q \in ReportId : IsApproved(reports[r]) /\ IsApproved(reports[q]) => r = q
    /\ \A r \in ReportId : IsApproved(reports[r]) => reports[r].assessment = Complete
    /\ subject.physical = IF \E r \in ReportId : IsApproved(reports[r]) THEN 1 ELSE 0

ReviewInv == Tables /\ (~overlap => OneAtATime /\ ReportsAgree)

LEMMA UnassignedIsNoRow ==
  /\ Unassigned \notin ReportRow /\ Idle \notin Request
  /\ ~IsOpen(Unassigned) /\ ~IsApproved(Unassigned)
  <1>1. Unassigned.status \notin ReportStatus
    BY DEF Unassigned, ReportStatus
  <1>2. Unassigned \notin ReportRow
    BY <1>1 DEF ReportRow
  <1>3. "report" \notin DOMAIN Idle
    BY DEF Idle
  <1>4. Idle \notin Request
    BY <1>3 DEF Request
  <1>5. QED
    BY <1>2, <1>4 DEF Unassigned, IsOpen, IsApproved, OpenStatuses

LEMMA InitReviewInv == InspectionsInit => ReviewInv
  <1> SUFFICES ASSUME InspectionsInit PROVE ReviewInv
      OBVIOUS
  <1>1. /\ overlap \in BOOLEAN /\ account \in [Inspectors -> SUBSET Step] /\ before = {}
        /\ reports \in [ReportId -> ReportRow \cup {Unassigned}]
        /\ \A r \in ReportId : reports[r] = Unassigned
        /\ review \in [Workers -> {Idle} \cup Request]
        /\ \A w \in Workers : review[w] = Idle
    BY DEF InspectionsInit
  <1>2. subject \in Subject /\ subject.physical = 0
    BY DEF InspectionsInit, Subject
  <1>3. QED
    BY <1>1, <1>2, UnassignedIsNoRow DEF ReviewInv, Tables, OneAtATime, ReportsAgree

-----------------------------------------------------------------------------
(* Inspections: sessions *)

\* Steps that leave reports, sessions and badges alone.
LEMMA ReportsStay ==
  ASSUME ReviewInv, UNCHANGED <<reports, before, review, overlap>>,
         account' \in [Inspectors -> SUBSET Step],
         subject' \in Subject, subject'.physical = subject.physical
  PROVE  ReviewInv'
  <1>1. Tables'
    BY DEF ReviewInv, Tables
  <1>2. OneAtATime => OneAtATime'
    BY DEF OneAtATime, RequestIsFresh
  <1>3. ReportsAgree => ReportsAgree'
    BY DEF ReportsAgree
  <1>4. QED
    BY <1>1, <1>2, <1>3 DEF ReviewInv

\* A session that opens, for a row that fits.
LEMMA OpenReviewKeeps ==
  ASSUME ReviewInv, NEW w \in Workers, NEW r \in ReportId, NEW new \in ReportRow,
         NEW badge \in BOOLEAN, OpenReview(w, r, new, badge),
         RowIsSound(new),
         reports[r] = Unassigned => \A v \in Workers : review[v] # Idle => review[v].report # r,
         reports[r] # Unassigned => Grows(reports[r], new),
         ~overlap =>
            /\ reports[r] = Unassigned =>
                  \A q \in ReportId : IsOpen(reports[q]) => reports[q].inspector # new.inspector
            /\ reports[r] # Unassigned =>
                  /\ reports[r].status \notin {"APPROVED", "REJECTED"}
                  /\ reports[r].status = "PENDING" =>
                        new = [reports[r] EXCEPT !.status = new.status]
                  /\ new.inspector = reports[r].inspector
                  /\ IsOpen(reports[r])
            /\ badge => subject.physical = 0 /\ new.assessment = Complete
            /\ badge <=> IsApproved(new)
  PROVE  ReviewInv'
  <1>0. PICK seen \in ReportRow \cup {Unassigned} : seen = reports[r]
    BY DEF ReviewInv, Tables
  <1> DEFINE req == [report |-> r, seen |-> seen, new |-> new, badge |-> badge]
  <1>2. /\ req \in Request /\ req.report = r /\ req.seen = seen /\ req.new = new
        /\ req.badge = badge
    BY DEF Request
  <1>1. /\ review' = [review EXCEPT ![w] = req]
        /\ UNCHANGED <<account, reports, before, subject, overlap>>
        /\ review \in [Workers -> {Idle} \cup Request]
    BY <1>0 DEF OpenReview, ReviewInv, Tables
  <1> HIDE DEF req
  <1>3. \A v \in Workers : review'[v] = IF v = w THEN req ELSE review[v]
    BY <1>1
  <1>4. review' \in [Workers -> {Idle} \cup Request]
    BY <1>1, <1>2
  <1>5. RequestFits(req, seen)
    <2>1. seen # Unassigned => RowIsSound(seen)
      BY <1>0 DEF ReviewInv, Tables
    <2>2. seen # Unassigned => Grows(seen, seen)
      BY DEF Grows
    <2>3. QED
      BY <1>0, <1>2, <2>1, <2>2 DEF RequestFits
  <1>6. \A v \in Workers : review'[v] # Idle =>
            RequestFits(review'[v], reports[review'[v].report])
    BY <1>0, <1>2, <1>3, <1>5 DEF ReviewInv, Tables
  <1>7. \A u, v \in Workers :
            review'[u] # Idle /\ review'[v] # Idle /\ review'[u].seen = Unassigned
                /\ review'[v].report = review'[u].report => u = v
    <2> SUFFICES ASSUME NEW u \in Workers, NEW v \in Workers,
                        review'[u] # Idle, review'[v] # Idle, review'[u].seen = Unassigned,
                        review'[v].report = review'[u].report, u # v
                 PROVE  FALSE
        OBVIOUS
    <2>1. CASE u = w
      BY <1>0, <1>2, <1>3, <2>1
    <2>2. CASE v = w
      <3>1. review'[u] = review[u] /\ review[u].report = r
        BY <1>2, <1>3, <2>2
      <3>2. reports[r] = Unassigned
        BY <3>1 DEF ReviewInv, Tables, RequestFits
      <3>3. QED
        BY <3>1, <3>2
    <2>3. CASE u # w /\ v # w
      BY <1>3, <2>3 DEF ReviewInv, Tables
    <2>4. QED
      BY <2>1, <2>2, <2>3
  <1>8. Tables'
    BY <1>1, <1>4, <1>6, <1>7 DEF ReviewInv, Tables
  <1>9. ~overlap => OneAtATime'
    <2> SUFFICES ASSUME ~overlap PROVE OneAtATime'
        OBVIOUS
    <2>1. \A v \in Workers : v # w => review'[v] = Idle
      BY <1>3 DEF OpenReview, MayStart
    <2>2. RequestIsFresh(req)
      BY <1>0, <1>2 DEF RequestIsFresh
    <2>3. RequestIsFresh(review[w])'
      BY <1>1, <1>3, <2>2 DEF RequestIsFresh
    <2>4. QED
      BY <2>1, <2>3 DEF OneAtATime
  <1>10. ReportsAgree => ReportsAgree'
    BY <1>1 DEF ReportsAgree
  <1>11. QED
    BY <1>1, <1>8, <1>9, <1>10 DEF ReviewInv

LEMMA AbortReviewKeeps ==
  ASSUME ReviewInv, NEW w \in Workers, AbortReview(w) PROVE ReviewInv'
  <1>1. /\ review' = [review EXCEPT ![w] = Idle]
        /\ UNCHANGED <<account, reports, before, subject, overlap>>
        /\ review \in [Workers -> {Idle} \cup Request]
    BY DEF AbortReview, ReviewInv, Tables
  <1>2. \A v \in Workers : review'[v] = IF v = w THEN Idle ELSE review[v]
    BY <1>1
  <1>3. review' \in [Workers -> {Idle} \cup Request]
    BY <1>1
  <1>4. \A v \in Workers : review'[v] # Idle => review'[v] = review[v] /\ review[v] # Idle
    BY <1>2
  <1>5. Tables'
    BY <1>1, <1>3, <1>4 DEF ReviewInv, Tables
  <1>6. OneAtATime => OneAtATime'
    <2> SUFFICES ASSUME OneAtATime PROVE OneAtATime'
        OBVIOUS
    <2>1. \A v \in Workers : review'[v] # Idle => RequestIsFresh(review[v])'
      <3> SUFFICES ASSUME NEW v \in Workers, review'[v] # Idle PROVE RequestIsFresh(review[v])'
          OBVIOUS
      <3>1. review'[v] = review[v] /\ RequestIsFresh(review[v])
        BY <1>4 DEF OneAtATime
      <3>2. QED
        BY <1>1, <3>1 DEF RequestIsFresh
    <2>2. QED
      BY <1>4, <2>1 DEF OneAtATime
  <1>7. ReportsAgree => ReportsAgree'
    BY <1>1 DEF ReportsAgree
  <1>8. QED
    BY <1>1, <1>5, <1>6, <1>7 DEF ReviewInv

-----------------------------------------------------------------------------
(* Inspections: the commit *)

\* The columns of a row that is written.
LEMMA WrittenColumns ==
  ASSUME NEW seen \in ReportRow, NEW new \in ReportRow, NEW stored \in ReportRow
  PROVE  LET kept == WrittenRow(seen, new, stored)
         IN  /\ kept \in ReportRow
             /\ kept.status     = Written(seen.status, new.status, stored.status)
             /\ kept.assessment = Written(seen.assessment, new.assessment, stored.assessment)
             /\ kept.evidence   = Written(seen.evidence, new.evidence, stored.evidence)
             /\ kept.pinned     = Written(seen.pinned, new.pinned, stored.pinned)
             /\ seen = stored => kept = new
  <1> DEFINE kept == WrittenRow(seen, new, stored)
  <1>1. DOMAIN stored = {"status", "assessment", "evidence", "pinned", "inspector"}
    BY DEF ReportRow
  <1>2. kept = [status     |-> Written(seen.status, new.status, stored.status),
               assessment |-> Written(seen.assessment, new.assessment, stored.assessment),
               evidence   |-> Written(seen.evidence, new.evidence, stored.evidence),
               pinned     |-> Written(seen.pinned, new.pinned, stored.pinned),
               inspector  |-> Written(seen.inspector, new.inspector, stored.inspector)]
    BY <1>1 DEF WrittenRow
  <1> HIDE DEF kept
  <1>3. kept \in ReportRow
    BY <1>2 DEF Written, ReportRow
  <1>4. seen = stored => kept = new
    BY <1>2 DEF Written, ReportRow
  <1>5. QED
    BY <1>2, <1>3, <1>4 DEF kept

\* Two sessions on one report: whatever each of them read, what is written is
\* sound, and takes nothing away.
LEMMA WrittenIsSound ==
  ASSUME NEW seen \in ReportRow, NEW new \in ReportRow, NEW stored \in ReportRow,
         RowIsSound(seen), RowIsSound(new), RowIsSound(stored),
         Grows(seen, new), Grows(seen, stored)
  PROVE  /\ RowIsSound(WrittenRow(seen, new, stored))
         /\ Grows(stored, WrittenRow(seen, new, stored))
  <1> DEFINE kept == WrittenRow(seen, new, stored)
  <1>1. /\ kept.status     = Written(seen.status, new.status, stored.status)
        /\ kept.assessment = Written(seen.assessment, new.assessment, stored.assessment)
        /\ kept.evidence   = Written(seen.evidence, new.evidence, stored.evidence)
        /\ kept.pinned     = Written(seen.pinned, new.pinned, stored.pinned)
    BY WrittenColumns
  <1> HIDE DEF kept
  <1>2. /\ {seen.evidence, new.evidence, stored.evidence} \subseteq Nat
        /\ {seen.pinned, new.pinned, stored.pinned} \subseteq BOOLEAN
    BY DEF ReportRow
  <1>3. /\ stored.status # "ASSIGNED" => kept.status # "ASSIGNED"
        /\ stored.assessment # Empty => kept.assessment # Empty
        /\ stored.evidence > 0 => kept.evidence > 0
    BY <1>1, <1>2 DEF Written, Grows
  <1>4. stored.pinned => kept.pinned
    BY <1>1, <1>2 DEF Written, Grows
  <1>5. ASSUME kept.status = "ASSIGNED"
        PROVE  kept.evidence = 0 /\ kept.assessment = Empty /\ ~kept.pinned
    <2>1. stored.status = "ASSIGNED" /\ seen.status = "ASSIGNED" /\ new.status = "ASSIGNED"
      BY <1>1, <1>3, <1>5 DEF Written, Grows
    <2>2. QED
      BY <1>1, <2>1 DEF Written, RowIsSound
  <1>6. ASSUME kept.status \in Handed
        PROVE  kept.assessment # Empty /\ kept.evidence > 0 /\ kept.pinned
    <2>1. CASE seen.status = new.status
      <3>1. stored.status \in Handed
        BY <1>1, <1>6, <2>1 DEF Written
      <3>2. QED
        BY <1>3, <1>4, <3>1 DEF RowIsSound
    <2>2. CASE seen.status # new.status
      <3>1. new.assessment # Empty /\ new.evidence > 0 /\ new.pinned
        BY <1>1, <1>6, <2>2 DEF Written, RowIsSound
      <3>2. kept.assessment # Empty
        BY <1>1, <3>1 DEF Written, Grows
      <3>3. kept.evidence > 0
        BY <1>1, <1>2, <3>1 DEF Written, Grows
      <3>4. kept.pinned
        BY <1>1, <1>2, <3>1 DEF Written, Grows
      <3>5. QED
        BY <3>2, <3>3, <3>4
    <2>3. QED
      BY <2>1, <2>2
  <1>7. QED
    BY <1>3, <1>4, <1>5, <1>6 DEF RowIsSound, Grows, kept

\* The row a session writes, and its part of the invariant.
LEMMA CommitWrites ==
  ASSUME ReviewInv, NEW w \in Workers, CommitReview(w)
  PROVE  \E v \in Request, kept \in ReportRow, stored \in ReportRow \cup {Unassigned} :
           /\ review[w] = v /\ review[w] # Idle /\ stored = reports[v.report]
           /\ reports' = [reports EXCEPT ![v.report] = kept]
           /\ RowIsSound(kept)
           /\ stored # Unassigned => Grows(stored, kept)
           /\ v.seen = stored => kept = v.new
  <1>1. review[w] # Idle /\ review \in [Workers -> {Idle} \cup Request]
    BY DEF CommitReview, ReviewInv, Tables
  <1>2. PICK v \in Request : review[w] = v
    BY <1>1
  <1>3. PICK stored \in ReportRow \cup {Unassigned} : stored = reports[v.report]
    BY <1>2 DEF ReviewInv, Tables, Request
  <1>4. RequestFits(v, stored) /\ (stored # Unassigned => RowIsSound(stored))
    BY <1>1, <1>2, <1>3 DEF ReviewInv, Tables, Request
  <1>5. v.seen \in ReportRow \cup {Unassigned} /\ v.new \in ReportRow
    BY <1>2 DEF Request
  <1>6. reports' = [reports EXCEPT ![v.report] =
                      IF v.seen = Unassigned THEN v.new ELSE WrittenRow(v.seen, v.new, stored)]
    BY <1>2, <1>3 DEF CommitReview
  <1>7. CASE v.seen = Unassigned
    <2>1. stored = Unassigned /\ RowIsSound(v.new)
      BY <1>4, <1>7 DEF RequestFits
    <2>2. QED
      BY <1>1, <1>2, <1>3, <1>5, <1>6, <1>7, <2>1
  <1>8. CASE v.seen # Unassigned
    <2>1. /\ stored \in ReportRow /\ v.seen \in ReportRow /\ RowIsSound(stored)
          /\ RowIsSound(v.seen) /\ RowIsSound(v.new) /\ Grows(v.seen, v.new)
          /\ Grows(v.seen, stored)
      BY <1>4, <1>5, <1>8 DEF RequestFits
    <2> DEFINE kept == WrittenRow(v.seen, v.new, stored)
    <2>2. kept \in ReportRow /\ (v.seen = stored => kept = v.new)
      BY <1>5, <2>1, WrittenColumns
    <2>3. RowIsSound(kept) /\ Grows(stored, kept)
      BY <1>5, <2>1, WrittenIsSound
    <2>4. reports' = [reports EXCEPT ![v.report] = kept]
      BY <1>6, <1>8
    <2> HIDE DEF kept
    <2>5. QED
      BY <1>1, <1>2, <1>3, <2>2, <2>3, <2>4
  <1>9. QED
    BY <1>7, <1>8

LEMMA GrowsOn ==
  ASSUME NEW a \in ReportRow, NEW b \in ReportRow, NEW c \in ReportRow, Grows(a, b), Grows(b, c)
  PROVE  Grows(a, c)
  BY DEF Grows

LEMMA CommitReviewKeeps ==
  ASSUME ReviewInv, NEW w \in Workers, CommitReview(w) PROVE ReviewInv'
  <1>1. PICK v \in Request, kept \in ReportRow, stored \in ReportRow \cup {Unassigned} :
           /\ review[w] = v /\ review[w] # Idle /\ stored = reports[v.report]
           /\ reports' = [reports EXCEPT ![v.report] = kept]
           /\ RowIsSound(kept)
           /\ stored # Unassigned => Grows(stored, kept)
           /\ v.seen = stored => kept = v.new
    BY CommitWrites
  <1>2. /\ review' = [review EXCEPT ![w] = Idle]
        /\ subject' = [subject EXCEPT !.physical = @ + (IF v.badge THEN 1 ELSE 0)]
        /\ UNCHANGED <<account, overlap>>
        /\ review \in [Workers -> {Idle} \cup Request]
        /\ reports \in [ReportId -> ReportRow \cup {Unassigned}]
        /\ v.report \in ReportId
    BY <1>1 DEF CommitReview, ReviewInv, Tables, Request
  <1>3. \A u \in Workers : review'[u] = IF u = w THEN Idle ELSE review[u]
    BY <1>2
  <1>4. review' \in [Workers -> {Idle} \cup Request]
    BY <1>2
  <1>5. /\ reports' \in [ReportId -> ReportRow \cup {Unassigned}]
        /\ \A r \in ReportId : reports'[r] = IF r = v.report THEN kept ELSE reports[r]
    BY <1>1, <1>2
  <1>6. kept # Unassigned
    BY UnassignedIsNoRow
  <1>7. before' \subseteq ReportId \X ReportId
    <2>1. before' = before \/ before' = Latest(v.report)
      BY <1>1 DEF CommitReview
    <2>2. before \subseteq ReportId \X ReportId
      BY DEF ReviewInv, Tables
    <2>3. Latest(v.report) \subseteq ReportId \X ReportId
      BY <1>2, <2>2 DEF Latest
    <2>4. QED
      BY <2>1, <2>2, <2>3
  <1>8. subject' \in Subject /\ subject'.physical = subject.physical + (IF v.badge THEN 1 ELSE 0)
    <2>1. subject \in Subject /\ v.badge \in BOOLEAN
      BY DEF ReviewInv, Tables, Request
    <2>2. QED
      BY <1>2, <2>1 DEF Subject
  <1>9. \A u \in Workers : review'[u] # Idle =>
            RequestFits(review'[u], reports'[review'[u].report])
    <2> SUFFICES ASSUME NEW u \in Workers, review'[u] # Idle
                 PROVE  RequestFits(review'[u], reports'[review'[u].report])
        OBVIOUS
    <2>1. u # w /\ review'[u] = review[u]
      BY <1>3
    <2>2. PICK x \in Request : review[u] = x
      BY <1>2, <2>1
    <2>3. /\ RequestFits(x, reports[x.report]) /\ x.report \in ReportId
          /\ x.seen \in ReportRow \cup {Unassigned}
      BY <2>1, <2>2 DEF ReviewInv, Tables, Request
    <2>4. CASE x.report # v.report
      BY <1>5, <2>1, <2>2, <2>3, <2>4
    <2>5. CASE x.report = v.report
      <3>1. x.seen # Unassigned
        BY <1>1, <2>1, <2>2, <2>5 DEF ReviewInv, Tables
      <3>2. stored \in ReportRow /\ x.seen \in ReportRow /\ Grows(x.seen, stored)
        BY <1>1, <2>3, <2>5, <3>1 DEF RequestFits
      <3>3. Grows(x.seen, kept)
        BY <1>1, <3>2, UnassignedIsNoRow, GrowsOn
      <3>4. QED
        BY <1>5, <1>6, <2>1, <2>2, <2>3, <2>5, <3>1, <3>3 DEF RequestFits
    <2>6. QED
      BY <2>4, <2>5
  <1>10. Tables'
    <2>1. \A r \in ReportId : reports'[r] # Unassigned => RowIsSound(reports'[r])
      BY <1>1, <1>5 DEF ReviewInv, Tables
    <2>2. \A t, u \in Workers :
              review'[t] # Idle /\ review'[u] # Idle /\ review'[t].seen = Unassigned
                  /\ review'[u].report = review'[t].report => t = u
      BY <1>3 DEF ReviewInv, Tables
    <2>3. overlap' \in BOOLEAN /\ account' \in [Inspectors -> SUBSET Step]
      BY <1>2 DEF ReviewInv, Tables
    <2>4. QED
      BY <1>4, <1>5, <1>7, <1>8, <1>9, <2>1, <2>2, <2>3 DEF Tables
  <1>11. ASSUME ~overlap PROVE OneAtATime' /\ ReportsAgree'
    <2>0. OneAtATime /\ ReportsAgree /\ RequestIsFresh(v)
      BY <1>1, <1>11 DEF ReviewInv, OneAtATime
    <2>1. \A u \in Workers : review'[u] = Idle
      BY <1>1, <1>3, <2>0 DEF OneAtATime
    <2>2. OneAtATime'
      BY <2>1 DEF OneAtATime
    <2>3. kept = v.new /\ v.seen = reports[v.report] /\ (v.badge <=> IsApproved(kept))
          /\ ~IsApproved(v.seen)
      BY <1>1, <2>0, UnassignedIsNoRow DEF RequestIsFresh, IsApproved
    <2>4. ASSUME NEW q \in ReportId, q # v.report, IsOpen(kept), IsOpen(reports[q])
          PROVE  reports[q].inspector # kept.inspector
      BY <1>2, <2>0, <2>3, <2>4 DEF RequestIsFresh, ReportsAgree
    <2>5. \A r, q \in ReportId :
             /\ IsOpen(reports'[r]) /\ IsOpen(reports'[q])
             /\ reports'[r].inspector = reports'[q].inspector
             => r = q
      BY <1>5, <2>0, <2>4 DEF ReportsAgree
    <2>6. CASE v.badge
      <3>1. subject.physical = 0 /\ kept.assessment = Complete /\ IsApproved(kept)
        BY <2>0, <2>3, <2>6 DEF RequestIsFresh
      <3>2. \A r \in ReportId : ~IsApproved(reports[r])
        BY <2>0, <3>1 DEF ReportsAgree
      <3>3. \A r \in ReportId : IsApproved(reports'[r]) <=> r = v.report
        BY <1>5, <3>1, <3>2
      <3>4. \A r \in ReportId : IsApproved(reports'[r]) => reports'[r].assessment = Complete
        BY <1>5, <3>1, <3>3
      <3>5. subject'.physical = 1
        BY <1>8, <2>6, <3>1
      <3>6. QED
        BY <1>2, <2>2, <2>5, <3>3, <3>4, <3>5 DEF ReportsAgree
    <2>7. CASE ~v.badge
      <3>1. \A r \in ReportId : IsApproved(reports'[r]) <=> IsApproved(reports[r])
        BY <1>5, <2>3, <2>7
      <3>2. \A r \in ReportId : IsApproved(reports'[r]) => reports'[r].assessment = Complete
        BY <1>5, <2>0, <2>3, <2>7, <3>1 DEF ReportsAgree
      <3>3. subject'.physical = subject.physical
        BY <1>8, <2>7 DEF ReviewInv, Tables, Subject
      <3>4. QED
        BY <2>0, <2>2, <2>5, <3>1, <3>2, <3>3 DEF ReportsAgree
    <2>8. QED
      BY <2>6, <2>7
  <1>12. QED
    BY <1>2, <1>10, <1>11 DEF ReviewInv

-----------------------------------------------------------------------------
(* Inspections: operations *)

\* A report one session changes is assigned, and no session assigns it.
LEMMA AssignedRow ==
  ASSUME ReviewInv, NEW r \in ReportId, Assigned(r)
  PROVE  /\ reports[r] \in ReportRow /\ RowIsSound(reports[r]) /\ reports[r] # Unassigned
  BY DEF ReviewInv, Tables, Assigned

LEMMA NewReportFits ==
  ASSUME NEW i \in Inspectors
  PROVE  LET new == [column \in DOMAIN NewReport \cup {"inspector"} |->
                       IF column = "inspector" THEN i ELSE NewReport[column]]
         IN  new \in ReportRow /\ RowIsSound(new) /\ new.inspector = i /\ ~IsApproved(new)
  <1> DEFINE new == [column \in DOMAIN NewReport \cup {"inspector"} |->
                       IF column = "inspector" THEN i ELSE NewReport[column]]
  <1>1. DOMAIN NewReport \cup {"inspector"} =
           {"status", "assessment", "evidence", "pinned", "inspector"}
    BY DEF NewReport
  <1>2. new = [column \in {"status", "assessment", "evidence", "pinned", "inspector"} |->
                 IF column = "inspector" THEN i ELSE NewReport[column]]
    BY <1>1
  <1>3. /\ NewReport["status"] = "ASSIGNED" /\ NewReport["assessment"] = Empty
        /\ NewReport["evidence"] = 0 /\ NewReport["pinned"] = FALSE
    BY DEF NewReport
  <1> HIDE DEF new
  <1>4. /\ new.status = "ASSIGNED" /\ new.assessment = Empty /\ new.evidence = 0
        /\ new.pinned = FALSE /\ new.inspector = i
    BY <1>2, <1>3
  <1>5. new = [status |-> "ASSIGNED", assessment |-> Empty, evidence |-> 0, pinned |-> FALSE,
               inspector |-> i]
    BY <1>2, <1>4
  <1>6. new \in ReportRow
    BY <1>5 DEF ReportRow, ReportStatus
  <1>7. RowIsSound(new) /\ ~IsApproved(new)
    BY <1>4 DEF RowIsSound, Handed, IsApproved
  <1>8. QED
    BY <1>4, <1>6, <1>7 DEF new

LEMMA AssignInspectionKeeps ==
  ASSUME ReviewInv, NEW w \in Workers, AssignInspection(w) PROVE ReviewInv'
  <1> DEFINE fresh(i) == [column \in DOMAIN NewReport \cup {"inspector"} |->
                            IF column = "inspector" THEN i ELSE NewReport[column]]
  <1>1. PICK i \in Inspectors, r \in ReportId :
           /\ OpenReports(i) = {} /\ reports[r] = Unassigned
           /\ \A other \in Workers : review[other] # Idle => review[other].report # r
           /\ OpenReview(w, r, fresh(i), FALSE)
    BY DEF AssignInspection
  <1>2. /\ fresh(i) \in ReportRow /\ RowIsSound(fresh(i)) /\ fresh(i).inspector = i
        /\ ~IsApproved(fresh(i))
    BY NewReportFits
  <1>3. \A q \in ReportId : IsOpen(reports[q]) => reports[q].inspector # i
    BY <1>1 DEF OpenReports, IsOpen
  <1> HIDE DEF fresh
  <1>4. QED
    BY <1>1, <1>2, <1>3, OpenReviewKeeps

LEMMA SaveDraftKeeps ==
  ASSUME ReviewInv, NEW w \in Workers, SaveDraft(w) PROVE ReviewInv'
  <1>1. PICK r \in ReportId, assessment \in {Empty, Partial, Complete}, pinned \in BOOLEAN :
           /\ Assigned(r) /\ Editable(reports[r])
           /\ OpenReview(w, r, Saved(reports[r], assessment, pinned), FALSE)
    BY DEF SaveDraft
  <1>2. PICK kept \in ReportRow : kept = reports[r]
    BY <1>1, AssignedRow
  <1>3. RowIsSound(kept) /\ reports[r] # Unassigned
    BY <1>1, <1>2, AssignedRow
  <1> DEFINE new == Saved(kept, assessment, pinned)
  <1>4. /\ new.status = Started(kept.status)
        /\ new.assessment = IF assessment = Empty THEN kept.assessment ELSE assessment
        /\ new.evidence = kept.evidence /\ new.pinned = (kept.pinned \/ pinned)
        /\ new.inspector = kept.inspector
    BY DEF Saved, ReportRow
  <1>5. kept.status \in {"ASSIGNED", "IN_PROGRESS", "QUERIED"}
    BY <1>1, <1>2 DEF Editable
  <1>6. Started(kept.status) \in {"IN_PROGRESS", "QUERIED"}
        /\ (kept.status = "QUERIED" <=> Started(kept.status) = "QUERIED")
    BY <1>5 DEF Started
  <1>7. new \in ReportRow
    <2>1. kept.status \in ReportStatus /\ Started(kept.status) \in ReportStatus
      BY <1>6 DEF ReportRow, ReportStatus
    <2>2. QED
      BY <2>1 DEF Saved, ReportRow
  <1> HIDE DEF new
  <1>8. RowIsSound(new) /\ Grows(kept, new)
    BY <1>3, <1>4, <1>6 DEF RowIsSound, Grows, Handed
  <1>9. ~IsApproved(new) /\ IsOpen(kept) /\ new.inspector = kept.inspector
    BY <1>4, <1>5, <1>6 DEF IsApproved, IsOpen, OpenStatuses
  <1>10. OpenReview(w, r, new, FALSE)
    BY <1>1, <1>2 DEF new
  <1>11. QED
    BY <1>2, <1>3, <1>5, <1>7, <1>8, <1>9, <1>10, OpenReviewKeeps

LEMMA RegisterEvidenceKeeps ==
  ASSUME ReviewInv, NEW w \in Workers, RegisterEvidence(w) PROVE ReviewInv'
  <1>1. PICK r \in ReportId :
           /\ Assigned(r) /\ Editable(reports[r]) /\ reports[r].evidence < MaxEvidence
           /\ OpenReview(w, r, Registered(reports[r]), FALSE)
    BY DEF RegisterEvidence
  <1>2. PICK kept \in ReportRow : kept = reports[r]
    BY <1>1, AssignedRow
  <1>3. RowIsSound(kept) /\ reports[r] # Unassigned
    BY <1>1, <1>2, AssignedRow
  <1> DEFINE new == Registered(kept)
  <1>4. /\ new.status = Started(kept.status) /\ new.assessment = kept.assessment
        /\ new.evidence = kept.evidence + 1 /\ new.pinned = kept.pinned
        /\ new.inspector = kept.inspector
    BY DEF Registered, ReportRow
  <1>5. kept.status \in {"ASSIGNED", "IN_PROGRESS", "QUERIED"}
    BY <1>1, <1>2 DEF Editable
  <1>6. Started(kept.status) \in {"IN_PROGRESS", "QUERIED"}
        /\ (kept.status = "QUERIED" <=> Started(kept.status) = "QUERIED")
    BY <1>5 DEF Started
  <1>7. kept.evidence \in 0 .. MaxEvidence /\ kept.evidence + 1 \in 0 .. MaxEvidence
    BY <1>1, <1>2 DEF ReportRow
  <1>8. new \in ReportRow
    <2>1. Started(kept.status) \in ReportStatus
      BY <1>6 DEF ReportStatus
    <2>2. QED
      BY <1>7, <2>1 DEF Registered, ReportRow
  <1> HIDE DEF new
  <1>9. RowIsSound(new) /\ Grows(kept, new)
    BY <1>3, <1>4, <1>6, <1>7 DEF RowIsSound, Grows, Handed
  <1>10. ~IsApproved(new) /\ IsOpen(kept) /\ new.inspector = kept.inspector
    BY <1>4, <1>5, <1>6 DEF IsApproved, IsOpen, OpenStatuses
  <1>11. OpenReview(w, r, new, FALSE)
    BY <1>1, <1>2 DEF new
  <1>12. QED
    BY <1>2, <1>3, <1>5, <1>8, <1>9, <1>10, <1>11, OpenReviewKeeps

\* Operations that write only the status.
LEMMA StatusKeeps ==
  ASSUME ReviewInv, NEW w \in Workers, NEW r \in ReportId, Assigned(r),
         NEW status \in Handed, NEW badge \in BOOLEAN,
         OpenReview(w, r, [reports[r] EXCEPT !.status = status], badge),
         reports[r].assessment # Empty, reports[r].evidence > 0, reports[r].pinned,
         ~overlap =>
            /\ IsOpen(reports[r])
            /\ badge => subject.physical = 0 /\ reports[r].assessment = Complete
            /\ badge <=> status = "APPROVED"
  PROVE  ReviewInv'
  <1>1. PICK kept \in ReportRow : kept = reports[r]
    BY AssignedRow
  <1>2. RowIsSound(kept) /\ reports[r] # Unassigned
    BY <1>1, AssignedRow
  <1> DEFINE new == [kept EXCEPT !.status = status]
  <1>3. /\ new \in ReportRow /\ new.status = status /\ new.assessment = kept.assessment
        /\ new.evidence = kept.evidence /\ new.pinned = kept.pinned
        /\ new.inspector = kept.inspector
    BY DEF ReportRow, ReportStatus, Handed
  <1>4. new = [kept EXCEPT !.status = new.status] /\ OpenReview(w, r, new, badge)
    BY <1>1, <1>3
  <1> HIDE DEF new
  <1>5. RowIsSound(new) /\ Grows(kept, new)
    BY <1>1, <1>3 DEF RowIsSound, Grows, Handed
  <1>6. ~overlap => kept.status \notin {"APPROVED", "REJECTED"}
    BY <1>1 DEF IsOpen, OpenStatuses
  <1>7. QED
    BY <1>1, <1>2, <1>3, <1>4, <1>5, <1>6, OpenReviewKeeps DEF IsApproved

LEMMA SubmitReportKeeps ==
  ASSUME ReviewInv, NEW w \in Workers, SubmitReport(w) PROVE ReviewInv'
  <1>1. PICK r \in ReportId :
           Assigned(r) /\ MaySubmit(reports[r]) /\ OpenReview(w, r, Submitted(reports[r]), FALSE)
    BY DEF SubmitReport
  <1>2. OpenReview(w, r, [reports[r] EXCEPT !.status = "PENDING"], FALSE)
    BY <1>1 DEF Submitted
  <1>3. /\ reports[r].assessment # Empty /\ reports[r].evidence > 0 /\ reports[r].pinned
        /\ IsOpen(reports[r])
    BY <1>1 DEF MaySubmit, Editable, IsOpen, OpenStatuses
  <1>4. "PENDING" \in Handed
    BY DEF Handed
  <1>5. QED
    BY <1>1, <1>2, <1>3, <1>4, StatusKeeps

\* A report that was handed in has its row, and everything in it.
LEMMA HandedRow ==
  ASSUME ReviewInv, NEW r \in ReportId, reports[r].status \in Handed
  PROVE  /\ Assigned(r)
         /\ reports[r].assessment # Empty /\ reports[r].evidence > 0 /\ reports[r].pinned
  BY DEF ReviewInv, Tables, Assigned, RowIsSound, Handed, Unassigned

LEMMA RefuseKeeps ==
  ASSUME ReviewInv, NEW w \in Workers, NEW verdict \in {"QUERIED", "REJECTED"},
         Refuse(w, verdict)
  PROVE  ReviewInv'
  <1>1. PICK r \in ReportId :
           /\ reports[r].status = "PENDING"
           /\ OpenReview(w, r, [reports[r] EXCEPT !.status = verdict], FALSE)
    BY DEF Refuse, AwaitsReview
  <1>2. reports[r].status \in Handed /\ IsOpen(reports[r]) /\ verdict \in Handed
    BY <1>1 DEF Handed, IsOpen, OpenStatuses
  <1>3. QED
    BY <1>1, <1>2, HandedRow, StatusKeeps

LEMMA CompleteAwardKeeps ==
  ASSUME ReviewInv, NEW w \in Workers, NEW r \in ReportId, CompleteAward(w, r),
         reports[r].status \in {"PENDING", "APPROVED"}
  PROVE  ReviewInv'
  <1>1. /\ subject.physical = 0 /\ reports[r].assessment = Complete
        /\ OpenReview(w, r, [reports[r] EXCEPT !.status = "APPROVED"], TRUE)
    BY DEF CompleteAward
  <1>2. reports[r].status \in Handed /\ "APPROVED" \in Handed
    BY DEF Handed
  <1>3. ~overlap => IsOpen(reports[r])
    <2>1. ~overlap => ~IsApproved(reports[r])
      BY <1>1 DEF ReviewInv, ReportsAgree
    <2>2. QED
      BY <2>1 DEF IsOpen, IsApproved, OpenStatuses
  <1>4. QED
    BY <1>1, <1>2, <1>3, HandedRow, StatusKeeps

LEMMA AwardKeeps ==
  ASSUME ReviewInv, NEW w \in Workers, ApproveInspection(w) \/ AwardForListing(w)
  PROVE  ReviewInv'
  <1>1. CASE ApproveInspection(w)
    <2>1. PICK r \in ReportId : reports[r].status = "PENDING" /\ CompleteAward(w, r)
      BY <1>1 DEF ApproveInspection, AwaitsReview
    <2>2. QED
      BY <2>1, CompleteAwardKeeps
  <1>2. CASE AwardForListing(w)
    <2>1. PICK r \in ReportId :
             reports[r].status \in {"PENDING", "APPROVED"} /\ CompleteAward(w, r)
      BY <1>2 DEF AwardForListing
    <2>2. QED
      BY <2>1, CompleteAwardKeeps
  <1>3. QED
    BY <1>1, <1>2

LEMMA ActivationKeeps ==
  ASSUME ReviewInv, InviteInspector \/ CompleteProfile \/ AcknowledgeConduct
  PROVE  ReviewInv'
  <1>1. /\ account' \in [Inspectors -> SUBSET Step]
        /\ UNCHANGED <<reports, before, subject, review, overlap>>
    BY DEF InviteInspector, CompleteProfile, AcknowledgeConduct, Step, ReviewInv, Tables
  <1>2. subject' \in Subject /\ subject'.physical = subject.physical
    BY <1>1 DEF ReviewInv, Tables
  <1>3. QED
    BY <1>1, <1>2, ReportsStay

LEMMA ListingChangesKeeps ==
  ASSUME ReviewInv, ListingChanges PROVE ReviewInv'
  <1>1. PICK a \in BOOLEAN, d \in {subject.documented, TRUE} :
           subject' = [subject EXCEPT !.assignable = a, !.documented = d]
    BY DEF ListingChanges
  <1>2. subject \in Subject /\ account \in [Inspectors -> SUBSET Step]
    BY DEF ReviewInv, Tables
  <1>3. subject' \in Subject /\ subject'.physical = subject.physical
    BY <1>1, <1>2 DEF Subject
  <1>4. UNCHANGED <<account, reports, before, review, overlap>>
    BY DEF ListingChanges
  <1>5. QED
    BY <1>2, <1>3, <1>4, ReportsStay

-----------------------------------------------------------------------------
(* Inspections: the theorems *)

\* However requests overlap, a session writes what it made of the row it read,
\* and one at a time, nobody else wrote that row (inspector/service.py).
THEOREM ReviewInvariance == InspectionsSpec => []ReviewInv
  <1>1. InspectionsInit => ReviewInv
    BY InitReviewInv
  <1>2. ReviewInv /\ [InspectionsNext]_inspectionVars => ReviewInv'
    <2>1. ASSUME ReviewInv, UNCHANGED inspectionVars PROVE ReviewInv'
      <3>1. /\ UNCHANGED <<reports, before, review, overlap>>
            /\ account' \in [Inspectors -> SUBSET Step] /\ subject' \in Subject
            /\ subject'.physical = subject.physical
        BY <2>1 DEF inspectionVars, ReviewInv, Tables
      <3>2. QED
        BY <2>1, <3>1, ReportsStay
    <2>2. QED
      BY <2>1, ActivationKeeps, ListingChangesKeeps, AssignInspectionKeeps, SaveDraftKeeps,
         RegisterEvidenceKeeps, SubmitReportKeeps, RefuseKeeps, AwardKeeps, CommitReviewKeeps,
         AbortReviewKeeps DEF InspectionsNext
  <1>3. QED
    BY <1>1, <1>2, PTL DEF InspectionsSpec

\* At most one report of an inspector is open where two would be the same.
LEMMA OneIsEnough ==
  ASSUME NEW S, \A a, b \in S : a = b
  PROVE  /\ IsFiniteSet(S) /\ Cardinality(S) <= 1
         /\ Cardinality(S) = IF S = {} THEN 0 ELSE 1
  <1>1. CASE S = {}
    BY <1>1, FS_EmptySet
  <1>2. CASE S # {}
    <2>1. PICK a \in S : S = {a}
      BY <1>2
    <2>2. QED
      <3>1. IsFiniteSet({a}) /\ Cardinality({a}) = 1
        BY FS_Singleton
      <3>2. QED
        BY <1>2, <2>1, <3>1
  <1>3. QED
    BY <1>1, <1>2

\* A report is complete when it is submitted, is the only open one of its
\* inspector, and has earned the badge it led to (inspector/service.py,
\* admin/review_service.py).
THEOREM ReportsEarnBadges == InspectionsSpec => []InspectionsInv
  <1>1. ReviewInv => InspectionsInv
    <2> SUFFICES ASSUME ReviewInv PROVE InspectionsInv
        OBVIOUS
    <2>1. \A r \in ReportId : reports[r] # Unassigned => RowIsSound(reports[r])
      BY DEF ReviewInv, Tables
    <2>2. ReviewRequest = {Idle} \cup Request
      BY DEF ReviewRequest, Request
    <2>3. InspectionsTypeOK
      BY <2>1, <2>2 DEF ReviewInv, Tables, InspectionsTypeOK, RowIsSound, Unassigned
    <2>4. SubmittedIsComplete
      BY <2>1 DEF SubmittedIsComplete, RowIsSound, Handed, Unassigned
    <2>5. OneOpenReport
      <3> SUFFICES ASSUME ~overlap, NEW i \in Inspectors PROVE Cardinality(OpenReports(i)) <= 1
          BY DEF OneOpenReport
      <3>1. \A r, q \in OpenReports(i) : r = q
        BY DEF OpenReports, ReviewInv, ReportsAgree, IsOpen
      <3>2. QED
        BY <3>1, OneIsEnough
    <2>6. BadgeRestsOnApproval
      <3> SUFFICES ASSUME ~overlap
                   PROVE  LET Approved == {r \in ReportId : reports[r].status = "APPROVED"}
                          IN  /\ Cardinality(Approved) = subject.physical
                              /\ subject.physical <= 1
                              /\ \A r \in Approved : reports[r].assessment = Complete
          BY DEF BadgeRestsOnApproval
      <3> DEFINE Approved == {r \in ReportId : reports[r].status = "APPROVED"}
      <3>1. /\ \A r, q \in Approved : r = q
            /\ \A r \in Approved : reports[r].assessment = Complete
            /\ subject.physical = IF Approved = {} THEN 0 ELSE 1
        BY DEF ReviewInv, ReportsAgree, IsApproved
      <3> HIDE DEF Approved
      <3>2. Cardinality(Approved) = subject.physical
        BY <3>1, OneIsEnough
      <3>3. QED
        BY <3>1, <3>2 DEF Approved
    <2>7. QED
      BY <2>3, <2>4, <2>5, <2>6 DEF InspectionsInv
  <1>2. QED
    BY <1>1, ReviewInvariance, PTL

\* One session at a time, the content of a report changes only while it is with
\* the inspector ("Reports lock when status moves out of ASSIGNED/IN_PROGRESS",
\* inspector/service.py), and a verdict is final.
THEOREM ReportsAreLocked == InspectionsSpec => LockedWhileReviewed
  <1> DEFINE Locked(r) ==
        reports[r].status \in {"PENDING", "APPROVED", "REJECTED"} =>
              /\ \A column \in {"assessment", "evidence", "pinned"} :
                     reports'[r][column] = reports[r][column]
              /\ reports[r].status # "PENDING" => reports'[r].status = reports[r].status
  <1>1. ASSUME ReviewInv, [InspectionsNext]_inspectionVars, ~overlap, NEW r \in ReportId
        PROVE  Locked(r)
    <2>1. CASE reports' = reports
      BY <2>1
    <2>2. CASE \E w \in Workers : CommitReview(w)
      <3>1. PICK w \in Workers : CommitReview(w)
        BY <2>2
      <3>2. PICK v \in Request, kept \in ReportRow, stored \in ReportRow \cup {Unassigned} :
               /\ review[w] = v /\ review[w] # Idle /\ stored = reports[v.report]
               /\ reports' = [reports EXCEPT ![v.report] = kept]
               /\ v.seen = stored => kept = v.new
        BY <1>1, <3>1, CommitWrites
      <3>3. RequestIsFresh(v) /\ v.report \in ReportId
        BY <1>1, <3>2 DEF ReviewInv, OneAtATime, Request
      <3>4. \A q \in ReportId : reports'[q] = IF q = v.report THEN kept ELSE reports[q]
        BY <1>1, <3>2, <3>3 DEF ReviewInv, Tables
      <3>5. CASE r # v.report
        BY <3>4, <3>5
      <3>6. CASE r = v.report
        <4>1. kept = v.new /\ v.seen = reports[r]
          BY <3>2, <3>3, <3>6 DEF RequestIsFresh
        <4>2. CASE v.seen = Unassigned
          BY <4>1, <4>2 DEF Unassigned
        <4>3. CASE v.seen # Unassigned
          <5>1. /\ v.seen.status \notin {"APPROVED", "REJECTED"} /\ v.seen \in ReportRow
                /\ v.seen.status = "PENDING" => v.new = [v.seen EXCEPT !.status = v.new.status]
            BY <3>3, <4>3 DEF RequestIsFresh, Request
          <5>2. v.seen.status = "PENDING" =>
                   /\ v.new.assessment = v.seen.assessment /\ v.new.evidence = v.seen.evidence
                   /\ v.new.pinned = v.seen.pinned
            BY <5>1 DEF ReportRow
          <5>3. reports'[r] = v.new
            BY <3>4, <3>6, <4>1
          <5>4. QED
            BY <4>1, <5>1, <5>2, <5>3
        <4>4. QED
          BY <4>2, <4>3
      <3>7. QED
        BY <3>5, <3>6
    <2>3. QED
      BY <1>1, <2>1, <2>2 DEF InspectionsNext, inspectionVars, InviteInspector, CompleteProfile,
         AcknowledgeConduct, ListingChanges, AssignInspection, SaveDraft, RegisterEvidence,
         SubmitReport, Refuse, ApproveInspection, AwardForListing, CompleteAward, OpenReview,
         AbortReview
  <1>2. ReviewInv /\ [InspectionsNext]_inspectionVars =>
          (~overlap => \A r \in ReportId : Locked(r))
    BY <1>1
  <1>3. QED
    BY <1>2, ReviewInvariance, PTL DEF InspectionsSpec, LockedWhileReviewed

-----------------------------------------------------------------------------
(* Inspections implement the abstract examination *)

InHand(kept) == kept.status \in Open

\* What an operation of the inspector, and one of the administrator, makes of a row.
Edits(seen, new)   == InHand(seen) /\ InHand(new) /\ Exam!Adds(ContentIn(seen), ContentIn(new))
HandsIn(seen, new) == /\ InHand(seen) /\ new.status = "PENDING"
                      /\ Exam!Whole(ContentIn(seen)) /\ ContentIn(new) = ContentIn(seen)
Judges(seen, new)  == /\ seen.status \in {"PENDING", "APPROVED"}
                      /\ new.status \in {"QUERIED", "REJECTED", "APPROVED"}
                      /\ ContentIn(new) = ContentIn(seen)

\* An open session does one of the things a report can have done to it.
Does(seen, new) ==
    \/ seen = Unassigned /\ new.status = "ASSIGNED" /\ ContentIn(new) = Exam!Blank
    \/ /\ seen # Unassigned /\ new.inspector = seen.inspector
       /\ Edits(seen, new) \/ HandsIn(seen, new) \/ Judges(seen, new)

EachDoes == \A w \in Workers : review[w] # Idle => Does(review[w].seen, review[w].new)

\* The content of a row, whatever its status.
LEMMA ContentOfRow ==
  ASSUME NEW kept \in ReportRow
  PROVE  /\ ContentIn(kept) = [assessment |-> kept.assessment, evidence |-> kept.evidence,
                              pinned |-> kept.pinned]
         /\ ContentIn(kept).assessment = kept.assessment
         /\ ContentIn(kept).evidence = kept.evidence
         /\ ContentIn(kept).pinned = kept.pinned
         /\ ContentIn(kept) \in [assessment : {Empty, Partial, Complete},
                                evidence : 0 .. MaxEvidence, pinned : BOOLEAN]
         /\ \A status : ContentIn([kept EXCEPT !.status = status]) = ContentIn(kept)
                        \/ status = "absent"
  <1>1. kept.status # "absent"
    BY DEF ReportRow, ReportStatus
  <1>2. ContentIn(kept) = [assessment |-> kept.assessment, evidence |-> kept.evidence,
                          pinned |-> kept.pinned]
    BY <1>1 DEF ContentIn
  <1>3. ASSUME NEW status, status # "absent"
        PROVE  ContentIn([kept EXCEPT !.status = status]) = ContentIn(kept)
    BY <1>2, <1>3 DEF ContentIn, ReportRow
  <1>4. ContentIn(kept) \in [assessment : {Empty, Partial, Complete},
                            evidence : 0 .. MaxEvidence, pinned : BOOLEAN]
    BY <1>2 DEF ReportRow
  <1>5. QED
    BY <1>2, <1>3, <1>4

\* A session that opens with something to do.
LEMMA OpenDoes ==
  ASSUME ReviewInv, EachDoes, NEW w \in Workers, NEW r \in ReportId, NEW new \in ReportRow,
         NEW badge, OpenReview(w, r, new, badge), Does(reports[r], new)
  PROVE  EachDoes'
  <1> DEFINE req == [report |-> r, seen |-> reports[r], new |-> new, badge |-> badge]
  <1>1. review' = [review EXCEPT ![w] = req]
    BY DEF OpenReview
  <1>2. req.seen = reports[r] /\ req.new = new
    OBVIOUS
  <1> HIDE DEF req
  <1>3. \A u \in Workers : review'[u] = IF u = w THEN req ELSE review[u]
    BY <1>1 DEF ReviewInv, Tables
  <1>4. QED
    BY <1>2, <1>3 DEF EachDoes

LEMMA AssignDoes ==
  ASSUME ReviewInv, EachDoes, NEW w \in Workers, AssignInspection(w) PROVE EachDoes'
  <1> DEFINE fresh(i) == [column \in DOMAIN NewReport \cup {"inspector"} |->
                            IF column = "inspector" THEN i ELSE NewReport[column]]
  <1>1. PICK i \in Inspectors, r \in ReportId :
           reports[r] = Unassigned /\ OpenReview(w, r, fresh(i), FALSE)
    BY DEF AssignInspection
  <1>2. /\ fresh(i).status = "ASSIGNED" /\ fresh(i).assessment = Empty
        /\ fresh(i).evidence = 0 /\ fresh(i).pinned = FALSE
    BY DEF NewReport
  <1>3. fresh(i) \in ReportRow
    BY NewReportFits
  <1> HIDE DEF fresh
  <1>4. ContentIn(fresh(i)) = Exam!Blank
    BY <1>2, <1>3, ContentOfRow DEF Exam!Blank, Empty
  <1>5. QED
    BY <1>1, <1>2, <1>3, <1>4, OpenDoes DEF Does

\* What an inspector saves or registers.
LEMMA EditDoes ==
  ASSUME NEW seen \in ReportRow, NEW new \in ReportRow, InHand(seen),
         new.status = Started(seen.status), new.inspector = seen.inspector,
         new.assessment = seen.assessment \/ new.assessment # Empty,
         new.evidence >= seen.evidence, seen.pinned => new.pinned
  PROVE  Does(seen, new)
  <1>1. InHand(new)
    BY DEF InHand, Open, Started
  <1>2. Exam!Adds(ContentIn(seen), ContentIn(new))
    <2>1. seen.evidence \in Nat /\ new.evidence \in Nat
      BY DEF ReportRow
    <2>2. QED
      BY <2>1, ContentOfRow DEF Exam!Adds, Empty
  <1>3. QED
    BY <1>1, <1>2, UnassignedIsNoRow DEF Does, Edits

LEMMA SaveDraftDoes ==
  ASSUME ReviewInv, EachDoes, NEW w \in Workers, SaveDraft(w) PROVE EachDoes'
  <1>1. PICK r \in ReportId, assessment \in {Empty, Partial, Complete}, pinned \in BOOLEAN :
           /\ Assigned(r) /\ Editable(reports[r])
           /\ OpenReview(w, r, Saved(reports[r], assessment, pinned), FALSE)
    BY DEF SaveDraft
  <1>2. PICK seen \in ReportRow : seen = reports[r]
    BY <1>1, AssignedRow
  <1> DEFINE new == Saved(seen, assessment, pinned)
  <1>3. /\ new.status = Started(seen.status)
        /\ new.assessment = IF assessment = Empty THEN seen.assessment ELSE assessment
        /\ new.evidence = seen.evidence /\ new.pinned = (seen.pinned \/ pinned)
        /\ new.inspector = seen.inspector
    BY DEF Saved, ReportRow
  <1>4. InHand(seen)
    BY <1>1, <1>2 DEF InHand, Open, Editable
  <1>5. new \in ReportRow
    <2>1. Started(seen.status) \in ReportStatus
      BY DEF ReportRow, ReportStatus, Started
    <2>2. QED
      BY <2>1 DEF Saved, ReportRow
  <1>6. OpenReview(w, r, new, FALSE)
    BY <1>1, <1>2
  <1> HIDE DEF new
  <1>7. new.evidence >= seen.evidence
    BY <1>3 DEF ReportRow
  <1>8. Does(seen, new)
    BY <1>3, <1>4, <1>5, <1>7, EditDoes
  <1>9. QED
    BY <1>2, <1>5, <1>6, <1>8, OpenDoes

LEMMA RegisterEvidenceDoes ==
  ASSUME ReviewInv, EachDoes, NEW w \in Workers, RegisterEvidence(w) PROVE EachDoes'
  <1>1. PICK r \in ReportId :
           /\ Assigned(r) /\ Editable(reports[r]) /\ reports[r].evidence < MaxEvidence
           /\ OpenReview(w, r, Registered(reports[r]), FALSE)
    BY DEF RegisterEvidence
  <1>2. PICK seen \in ReportRow : seen = reports[r]
    BY <1>1, AssignedRow
  <1> DEFINE new == Registered(seen)
  <1>3. /\ new.status = Started(seen.status) /\ new.assessment = seen.assessment
        /\ new.evidence = seen.evidence + 1 /\ new.pinned = seen.pinned
        /\ new.inspector = seen.inspector
    BY DEF Registered, ReportRow
  <1>4. InHand(seen)
    BY <1>1, <1>2 DEF InHand, Open, Editable
  <1>5. seen.evidence \in 0 .. MaxEvidence /\ seen.evidence + 1 \in 0 .. MaxEvidence
    BY <1>1, <1>2 DEF ReportRow
  <1>6. new \in ReportRow
    <2>1. Started(seen.status) \in ReportStatus
      BY DEF ReportRow, ReportStatus, Started
    <2>2. QED
      BY <1>5, <2>1 DEF Registered, ReportRow
  <1>7. OpenReview(w, r, new, FALSE)
    BY <1>1, <1>2
  <1> HIDE DEF new
  <1>8. new.evidence >= seen.evidence
    BY <1>3, <1>5
  <1>9. Does(seen, new)
    BY <1>3, <1>4, <1>6, <1>8, EditDoes
  <1>10. QED
    BY <1>2, <1>6, <1>7, <1>9, OpenDoes

\* Operations that write only the status.
LEMMA StatusDoes ==
  ASSUME ReviewInv, EachDoes, NEW w \in Workers, NEW r \in ReportId, Assigned(r),
         NEW status \in Handed, NEW badge,
         OpenReview(w, r, [reports[r] EXCEPT !.status = status], badge),
         \/ status = "PENDING" /\ MaySubmit(reports[r])
         \/ status # "PENDING" /\ reports[r].status \in {"PENDING", "APPROVED"}
  PROVE  EachDoes'
  <1>1. PICK seen \in ReportRow : seen = reports[r]
    BY AssignedRow
  <1> DEFINE new == [seen EXCEPT !.status = status]
  <1>2. /\ new \in ReportRow /\ new.status = status /\ new.inspector = seen.inspector
        /\ OpenReview(w, r, new, badge)
    BY <1>1 DEF ReportRow, ReportStatus, Handed
  <1>3. ContentIn(new) = ContentIn(seen)
    BY ContentOfRow DEF Handed
  <1> HIDE DEF new
  <1>4. CASE status = "PENDING" /\ MaySubmit(seen)
    <2>1. InHand(seen)
      BY <1>4 DEF MaySubmit, Editable, InHand, Open
    <2>2. Exam!Whole(ContentIn(seen))
      BY <1>4, ContentOfRow DEF MaySubmit, Exam!Whole, Empty
    <2>3. Does(seen, new)
      BY <1>2, <1>3, <1>4, <2>1, <2>2, UnassignedIsNoRow DEF Does, HandsIn
    <2>4. QED
      BY <1>1, <1>2, <2>3, OpenDoes
  <1>5. CASE status # "PENDING" /\ seen.status \in {"PENDING", "APPROVED"}
    <2>1. Does(seen, new)
      BY <1>2, <1>3, <1>5, UnassignedIsNoRow DEF Does, Judges, Handed
    <2>2. QED
      BY <1>1, <1>2, <2>1, OpenDoes
  <1>6. QED
    BY <1>1, <1>4, <1>5

LEMMA SubmitReportDoes ==
  ASSUME ReviewInv, EachDoes, NEW w \in Workers, SubmitReport(w) PROVE EachDoes'
  <1>1. PICK r \in ReportId :
           /\ Assigned(r) /\ MaySubmit(reports[r])
           /\ OpenReview(w, r, [reports[r] EXCEPT !.status = "PENDING"], FALSE)
    BY DEF SubmitReport, Submitted
  <1>2. "PENDING" \in Handed
    BY DEF Handed
  <1>3. QED
    BY <1>1, <1>2, StatusDoes

LEMMA ReviewDoes ==
  ASSUME ReviewInv, EachDoes, NEW w \in Workers,
         \/ Refuse(w, "QUERIED") \/ Refuse(w, "REJECTED")
         \/ ApproveInspection(w) \/ AwardForListing(w)
  PROVE  EachDoes'
  <1>1. PICK r \in ReportId, status \in {"QUERIED", "REJECTED", "APPROVED"}, badge \in BOOLEAN :
           /\ reports[r].status \in {"PENDING", "APPROVED"}
           /\ OpenReview(w, r, [reports[r] EXCEPT !.status = status], badge)
    BY DEF Refuse, AwaitsReview, ApproveInspection, AwardForListing, CompleteAward
  <1>2. status \in Handed /\ reports[r].status \in Handed /\ status # "PENDING"
    BY <1>1 DEF Handed
  <1>3. Assigned(r)
    BY <1>2, HandedRow
  <1>4. QED
    BY <1>1, <1>2, <1>3, StatusDoes

Examines == Exam!Next \/ UNCHANGED Exam!vars

\* Steps that leave the rows and the badges alone.
LEMMA ExamStutters ==
  ASSUME UNCHANGED <<reports, review>>, subject'.physical = subject.physical, EachDoes
  PROVE  Examines /\ EachDoes'
  BY DEF Examines, Exam!vars, StageOf, ContentOf, HeldBy, Assigned, EachDoes

\* A session that opens or is aborted is not seen in the tables.
LEMMA OpeningStutters ==
  ASSUME UNCHANGED <<reports, subject>> PROVE Examines
  BY DEF Examines, Exam!vars, StageOf, ContentOf, HeldBy, Assigned

\* The columns after a commit that writes one row.
LEMMA OneReport ==
  ASSUME reports \in [ReportId -> ReportRow \cup {Unassigned}], NEW r \in ReportId,
         NEW kept \in ReportRow, reports' = [reports EXCEPT ![r] = kept]
  PROVE  /\ StageOf' = [StageOf EXCEPT ![r] = StageIn(kept)]
         /\ ContentOf' = [ContentOf EXCEPT ![r] = ContentIn(kept)]
         /\ StageOf[r] = StageIn(reports[r]) /\ ContentOf[r] = ContentIn(reports[r])
         /\ StageIn(kept) = StageIn(reports[r]) => StageOf' = StageOf
         /\ ContentIn(kept) = ContentIn(reports[r]) => ContentOf' = ContentOf
  <1>1. \A q \in ReportId : reports'[q] = IF q = r THEN kept ELSE reports[q]
    OBVIOUS
  <1>2. StageOf' = [q \in ReportId |-> StageIn(reports'[q])]
    BY DEF StageOf, StageIn
  <1>3. ContentOf' = [q \in ReportId |-> ContentIn(reports'[q])]
    BY DEF ContentOf, ContentIn
  <1>4. StageOf' = [StageOf EXCEPT ![r] = StageIn(kept)] /\ StageOf[r] = StageIn(reports[r])
    BY <1>1, <1>2 DEF StageOf
  <1>5. ContentOf' = [ContentOf EXCEPT ![r] = ContentIn(kept)] /\ ContentOf[r] = ContentIn(reports[r])
    BY <1>1, <1>3 DEF ContentOf
  <1>6. StageIn(kept) = StageIn(reports[r]) => StageOf' = StageOf
    BY <1>1, <1>2 DEF StageOf
  <1>7. ContentIn(kept) = ContentIn(reports[r]) => ContentOf' = ContentOf
    BY <1>1, <1>3 DEF ContentOf
  <1>8. QED
    BY <1>4, <1>5, <1>6, <1>7

\* An inspector is given a report once, and it stays theirs.
LEMMA OneHolder ==
  ASSUME reports \in [ReportId -> ReportRow \cup {Unassigned}], NEW r \in ReportId,
         NEW kept \in ReportRow, reports' = [reports EXCEPT ![r] = kept]
  PROVE  /\ reports[r] # Unassigned /\ kept.inspector = reports[r].inspector => HeldBy' = HeldBy
         /\ reports[r] = Unassigned =>
              HeldBy' = [HeldBy EXCEPT ![kept.inspector] = @ \cup {r}]
  <1> DEFINE H(i) == {q \in ReportId : Assigned(q) /\ reports[q].inspector = i}
             K(i) == {q \in ReportId : reports'[q] # Unassigned /\ reports'[q].inspector = i}
  <1>1. \A q \in ReportId : reports'[q] = IF q = r THEN kept ELSE reports[q]
    OBVIOUS
  <1>2. HeldBy = [i \in Inspectors |-> H(i)] /\ HeldBy' = [i \in Inspectors |-> K(i)]
    BY DEF HeldBy, Assigned
  <1>3. kept # Unassigned /\ kept.inspector \in Inspectors
    BY UnassignedIsNoRow DEF ReportRow
  <1>4. ASSUME reports[r] # Unassigned, kept.inspector = reports[r].inspector PROVE HeldBy' = HeldBy
    <2>1. \A i \in Inspectors : K(i) = H(i)
      BY <1>1, <1>3, <1>4 DEF Assigned
    <2> HIDE DEF K, H
    <2>2. QED
      BY <1>2, <2>1
  <1>5. ASSUME reports[r] = Unassigned
        PROVE  HeldBy' = [HeldBy EXCEPT ![kept.inspector] = @ \cup {r}]
    <2>1. \A i \in Inspectors : K(i) = IF i = kept.inspector THEN H(i) \cup {r} ELSE H(i)
      BY <1>1, <1>3, <1>5 DEF Assigned
    <2> HIDE DEF K, H
    <2>2. QED
      BY <1>2, <1>3, <2>1
  <1>6. QED
    BY <1>4, <1>5

\* One session at a time, a commit is the step its operation promises.
LEMMA CommitExamines ==
  ASSUME ReviewInv, EachDoes, ~overlap, NEW w \in Workers, CommitReview(w) PROVE Examines
  <1>1. PICK v \in Request, kept \in ReportRow, stored \in ReportRow \cup {Unassigned} :
           /\ review[w] = v /\ review[w] # Idle /\ stored = reports[v.report]
           /\ reports' = [reports EXCEPT ![v.report] = kept]
           /\ v.seen = stored => kept = v.new
    BY CommitWrites
  <1>2. /\ RequestIsFresh(v) /\ Does(v.seen, v.new) /\ ReportsAgree
        /\ v.report \in ReportId /\ v.badge \in BOOLEAN
        /\ reports \in [ReportId -> ReportRow \cup {Unassigned}]
        /\ subject \in Subject
    BY <1>1 DEF ReviewInv, OneAtATime, EachDoes, Request, Tables
  <1> DEFINE r == v.report
  <1>3. kept = v.new /\ v.seen = reports[r] /\ stored = reports[r] /\ Does(reports[r], kept)
    BY <1>1, <1>2 DEF RequestIsFresh
  <1>4. subject'.physical = subject.physical + (IF v.badge THEN 1 ELSE 0) /\ subject.physical \in Nat
    BY <1>1, <1>2 DEF CommitReview, Subject
  <1>5. v.badge <=> kept.status = "APPROVED"
    BY <1>2, <1>3 DEF RequestIsFresh, IsApproved
  <1>6. /\ StageOf' = [StageOf EXCEPT ![r] = StageIn(kept)]
        /\ ContentOf' = [ContentOf EXCEPT ![r] = ContentIn(kept)]
        /\ StageOf[r] = StageIn(reports[r]) /\ ContentOf[r] = ContentIn(reports[r])
        /\ StageIn(kept) = StageIn(reports[r]) => StageOf' = StageOf
        /\ ContentIn(kept) = ContentIn(reports[r]) => ContentOf' = ContentOf
    BY <1>1, <1>2, OneReport
  <1>7. /\ reports[r] # Unassigned /\ kept.inspector = reports[r].inspector => HeldBy' = HeldBy
        /\ reports[r] = Unassigned => HeldBy' = [HeldBy EXCEPT ![kept.inspector] = @ \cup {r}]
    BY <1>1, <1>2, OneHolder
  <1>8. CASE reports[r] = Unassigned
    <2>1. kept.status = "ASSIGNED" /\ ContentIn(kept) = Exam!Blank
      BY <1>3, <1>8 DEF Does
    <2>2. StageOf[r] = "absent" /\ StageIn(kept) = "open" /\ subject'.physical = subject.physical
      BY <1>4, <1>5, <1>6, <1>8, <2>1 DEF StageIn, Open, Unassigned
    <2>3. ContentOf' = ContentOf
      BY <1>6, <1>8, <2>1 DEF ContentIn, Unassigned, Exam!Blank, Empty
    <2>4. ASSUME NEW q \in HeldBy[kept.inspector]
          PROVE  StageOf[q] \in {"APPROVED", "REJECTED"}
      <3>1. kept.inspector \in Inspectors
        BY DEF ReportRow
      <3>2. q \in ReportId /\ reports[q] # Unassigned /\ reports[q].inspector = kept.inspector
        BY <2>4, <3>1 DEF HeldBy, Assigned
      <3>3. ~IsOpen(reports[q]) /\ reports[q] \in ReportRow
        BY <1>2, <1>3, <1>8, <3>2 DEF RequestIsFresh
      <3>4. reports[q].status \in {"APPROVED", "REJECTED"}
        BY <3>3 DEF IsOpen, OpenStatuses, ReportRow, ReportStatus
      <3>5. QED
        BY <3>2, <3>4 DEF StageOf, StageIn, Open
    <2>5. Exam!Assign(kept.inspector, r)
      BY <1>6, <1>7, <1>8, <2>2, <2>3, <2>4 DEF Exam!Assign, Exam!Move
    <2>6. kept.inspector \in Inspectors
      BY DEF ReportRow
    <2>7. QED
      BY <1>2, <2>5, <2>6 DEF Examines, Exam!Next
  <1>9. CASE reports[r] # Unassigned
    <2>1. /\ HeldBy' = HeldBy
          /\ Edits(reports[r], kept) \/ HandsIn(reports[r], kept) \/ Judges(reports[r], kept)
      BY <1>3, <1>7, <1>9 DEF Does
    <2>2. CASE Edits(reports[r], kept)
      <3>1. /\ StageOf[r] = "open" /\ StageOf' = StageOf
            /\ Exam!Adds(ContentOf[r], ContentIn(kept))
        BY <1>6, <2>2 DEF Edits, InHand, StageIn
      <3>2. subject'.physical = subject.physical
        BY <1>4, <1>5, <2>2 DEF Edits, InHand, Open
      <3>3. Exam!Work(r)
        BY <1>6, <2>1, <3>1, <3>2, ContentOfRow DEF Exam!Work
      <3>4. QED
        BY <1>2, <3>3 DEF Examines, Exam!Next
    <2>3. CASE HandsIn(reports[r], kept)
      <3>1. /\ StageOf[r] = "open" /\ StageIn(kept) = "PENDING" /\ ContentOf' = ContentOf
            /\ Exam!Whole(ContentOf[r])
        BY <1>6, <2>3 DEF HandsIn, InHand, StageIn, Open
      <3>2. subject'.physical = subject.physical
        BY <1>4, <1>5, <2>3 DEF HandsIn
      <3>3. Exam!HandIn(r)
        BY <1>6, <2>1, <3>1, <3>2 DEF Exam!HandIn, Exam!Move
      <3>4. QED
        BY <1>2, <3>3 DEF Examines, Exam!Next
    <2>4. CASE Judges(reports[r], kept)
      <3>1. StageOf[r] = "PENDING" /\ ContentOf' = ContentOf
        <4>1. reports[r].status = "PENDING"
          BY <1>2, <1>3, <1>9, <2>4 DEF RequestIsFresh, Judges
        <4>2. QED
          BY <1>6, <2>4, <4>1 DEF Judges, StageIn, Open
      <3>2. CASE kept.status = "QUERIED"
        <4>1. Exam!SendBack(r)
          BY <1>4, <1>5, <1>6, <2>1, <3>1, <3>2 DEF Exam!SendBack, Exam!Move, StageIn, Open
        <4>2. QED
          BY <1>2, <4>1 DEF Examines, Exam!Next
      <3>3. CASE kept.status = "REJECTED"
        <4>1. Exam!Reject(r)
          BY <1>4, <1>5, <1>6, <2>1, <3>1, <3>3 DEF Exam!Reject, Exam!Move, StageIn, Open
        <4>2. QED
          BY <1>2, <4>1 DEF Examines, Exam!Next
      <3>4. CASE kept.status = "APPROVED"
        <4>1. subject.physical = 0 /\ subject'.physical = 1 /\ kept.assessment = Complete
          BY <1>2, <1>3, <1>4, <1>5, <3>4 DEF RequestIsFresh
        <4>2. Exam!Checked(ContentOf[r])
          BY <1>6, <2>4, <4>1, ContentOfRow DEF Judges, Exam!Checked, Complete
        <4>3. Exam!Approve(r)
          BY <1>6, <2>1, <3>1, <3>4, <4>1, <4>2 DEF Exam!Approve, Exam!Move, StageIn, Open
        <4>4. QED
          BY <1>2, <4>3 DEF Examines, Exam!Next
      <3>5. QED
        BY <2>4, <3>2, <3>3, <3>4 DEF Judges
    <2>5. QED
      BY <2>1, <2>2, <2>3, <2>4
  <1>10. QED
    BY <1>8, <1>9

\* A session that ends has nothing more to do.
LEMMA ClosingDoes ==
  ASSUME ReviewInv, EachDoes, NEW w \in Workers, CommitReview(w) \/ AbortReview(w) PROVE EachDoes'
  <1>1. review' = [review EXCEPT ![w] = Idle] /\ review \in [Workers -> {Idle} \cup Request]
    BY DEF CommitReview, AbortReview, ReviewInv, Tables
  <1>2. \A u \in Workers : review'[u] = IF u = w THEN Idle ELSE review[u]
    BY <1>1
  <1>3. QED
    BY <1>2 DEF EachDoes

\* Executed one session at a time, inspections implement the abstract
\* examination: what is reviewed is what one inspector handed in, nothing that was
\* captured gets lost, and one approval brings the one badge
\* (inspector/service.py, admin/review_service.py).
THEOREM ExaminationIsKept == InspectionsSpec => ImplementsExamination
  <1>1. InspectionsInit => Exam!Init /\ EachDoes
    <2> SUFFICES ASSUME InspectionsInit PROVE Exam!Init /\ EachDoes
        OBVIOUS
    <2>1. /\ \A r \in ReportId : reports[r] = Unassigned
          /\ \A w \in Workers : review[w] = Idle
          /\ subject.physical = 0
      BY DEF InspectionsInit
    <2>2. StageIn(Unassigned) = "absent" /\ ContentIn(Unassigned) = Exam!Blank
      BY DEF StageIn, ContentIn, Unassigned, Open, Exam!Blank, Empty
    <2>3. StageOf = [r \in ReportId |-> "absent"] /\ ContentOf = [r \in ReportId |-> Exam!Blank]
      BY <2>1, <2>2 DEF StageOf, ContentOf
    <2>4. HeldBy = [i \in Inspectors |-> {}]
      BY <2>1 DEF HeldBy, Assigned
    <2>5. QED
      BY <2>1, <2>3, <2>4 DEF Exam!Init, EachDoes
  <1>2. ASSUME ReviewInv, EachDoes, [InspectionsNext]_inspectionVars
        PROVE  EachDoes' /\ (~overlap => Examines)
    <2>1. CASE UNCHANGED inspectionVars
      BY <1>2, <2>1, ExamStutters DEF inspectionVars
    <2>2. CASE InviteInspector \/ CompleteProfile \/ AcknowledgeConduct
      BY <1>2, <2>2, ExamStutters DEF InviteInspector, CompleteProfile, AcknowledgeConduct
    <2>3. CASE ListingChanges
      <3>1. subject \in Subject
        BY <1>2 DEF ReviewInv, Tables
      <3>2. subject'.physical = subject.physical /\ UNCHANGED <<reports, review>>
        BY <2>3, <3>1 DEF ListingChanges, Subject
      <3>3. QED
        BY <1>2, <3>2, ExamStutters
    <2>4. ASSUME NEW w \in Workers,
                 \/ AssignInspection(w) \/ SaveDraft(w) \/ RegisterEvidence(w) \/ SubmitReport(w)
                 \/ Refuse(w, "QUERIED") \/ Refuse(w, "REJECTED")
                 \/ ApproveInspection(w) \/ AwardForListing(w)
          PROVE  EachDoes' /\ Examines
      <3>1. EachDoes'
        BY <1>2, <2>4, AssignDoes, SaveDraftDoes, RegisterEvidenceDoes, SubmitReportDoes, ReviewDoes
      <3>2. UNCHANGED <<reports, subject>>
        BY <2>4 DEF AssignInspection, SaveDraft, RegisterEvidence, SubmitReport, Refuse,
           ApproveInspection, AwardForListing, CompleteAward, OpenReview
      <3>3. QED
        BY <3>1, <3>2, OpeningStutters
    <2>5. ASSUME NEW w \in Workers, CommitReview(w) PROVE EachDoes' /\ (~overlap => Examines)
      BY <1>2, <2>5, ClosingDoes, CommitExamines
    <2>6. ASSUME NEW w \in Workers, AbortReview(w) PROVE EachDoes' /\ Examines
      <3>1. UNCHANGED <<reports, subject>>
        BY <2>6 DEF AbortReview
      <3>2. QED
        BY <1>2, <2>6, <3>1, ClosingDoes, OpeningStutters
    <2>7. QED
      BY <1>2, <2>1, <2>2, <2>3, <2>4, <2>5, <2>6 DEF InspectionsNext
  <1>3. ReviewInv /\ EachDoes /\ [InspectionsNext]_inspectionVars =>
          EachDoes' /\ (~overlap => [Exam!Next]_(Exam!vars))
    BY <1>2 DEF Examines
  <1>4. QED
    BY <1>1, <1>3, ReviewInvariance, PTL DEF InspectionsSpec, ImplementsExamination

-----------------------------------------------------------------------------
(* Valuation: the invariant *)

ListingRow == [tier : Tier, badge : BOOLEAN, stored : Int]

Opened == [op : {"score", "award", "price", "read"}, cell : Cells, seenScore : Nat, score : Nat,
           seen : ListingRow, new : ListingRow, redis : {"no", "due", "done"}, value : Int]

\* The scores of the listing's area when session s has committed.
AfterCommit(s) == IF s.cell = SnapToCell(place) THEN s.score ELSE AreaScore

\* The public page fills the cache with what is stored or generated now.
ReadFits(s) ==
    /\ s.redis # "no"
    /\ row.badge => s.value \in {NoReport, AreaScore}

\* Any other session leaves behind, in the row and in the cache, the scores
\* there will be; one that leaves the cache alone changes neither them nor the
\* badge.
WriteFits(s) ==
    /\ s.new.badge => /\ s.new.stored \in {NoReport, AfterCommit(s)}
                      /\ s.redis # "no" => s.value \in {NoReport, AfterCommit(s)}
                      /\ s.redis = "no" => row.badge /\ AfterCommit(s) = AreaScore
    /\ s.redis = "done" => cache = s.value /\ ~spoiled

OpenedFits(s) ==
    /\ s.seen.badge = row.badge /\ s.seen.stored = row.stored
    /\ s.seenScore = scores[s.cell]
    /\ IF s.op = "read" THEN ReadFits(s) ELSE WriteFits(s)

\* No session has the cache ahead of the tables.
CacheIsCommitted ==
    \A w \in Workers : report[w] # Idle => report[w].op = "read" \/ report[w].redis # "done"

ShowsScores ==
    /\ place \in Coordinates
    /\ scores \in [Cells -> Nat]
    /\ row \in ListingRow
    /\ report \in [Workers -> {Idle} \cup Opened]
    /\ \A v, w \in Workers : report[v] # Idle /\ report[w] # Idle => v = w
    /\ \A w \in Workers : report[w] # Idle => OpenedFits(report[w])
    /\ row.badge => row.stored \in {NoReport, AreaScore}
    /\ row.badge /\ ~spoiled /\ CacheIsCommitted => cache \in {NoReport, AreaScore}

LEMMA IdleIsNotOpened == Idle \notin Opened /\ Idle.op # "read"
  <1>1. "cell" \notin DOMAIN Idle
    BY DEF Idle
  <1>2. QED
    BY <1>1 DEF Opened, Idle

LEMMA InitShowsScores == ValuationInit => ShowsScores
  <1> SUFFICES ASSUME ValuationInit PROVE ShowsScores
      OBVIOUS
  <1>1. /\ place \in Coordinates /\ scores \in [Cells -> Nat]
        /\ report \in [Workers -> {Idle} \cup Opened]
        /\ \A w \in Workers : report[w] = Idle
    BY DEF ValuationInit
  <1>2. row \in ListingRow /\ ~row.badge
    BY DEF ValuationInit, ListingRow, Tier, NoReport
  <1>3. QED
    BY <1>1, <1>2 DEF ShowsScores

\* The cells of area_scoring.py and of reports.py agree north of the equator.
LEMMA CellsAgree ==
  ASSUME NEW x \in Int, x >= 0, NEW c \in Int
  PROVE  InCell(x, c) <=> c = SnapToCell(x)
  BY DEF InCell, SnapToCell

LEMMA SnapTypes == ASSUME NEW x \in Coordinates PROVE SnapToCell(x) \in Cells /\ SnapToCell(x) \in Int
  BY DEF SnapToCell, Cells

LEMMA CellTypes == Cells \subseteq Int
  BY SnapTypes DEF Cells

LEMMA AreaScoreType == ShowsScores => AreaScore \in Nat
  BY SnapTypes DEF ShowsScores, AreaScore

-----------------------------------------------------------------------------
(* Valuation: sessions *)

\* A session that opens when no other is.
LEMMA OpenSessionKeeps ==
  ASSUME ShowsScores, ~overlap, NEW w \in Workers, NEW op \in {"score", "award", "price", "read"},
         NEW cell \in Cells, NEW score \in Nat, NEW newRow \in ListingRow,
         NEW redis \in {"no", "due"}, NEW value \in Int,
         OpenSession(w, op, cell, score, newRow, redis, value),
         op = "read" => redis # "no" /\ (row.badge => value \in {NoReport, AreaScore}),
         op # "read" /\ newRow.badge =>
            LET after == IF cell = SnapToCell(place) THEN score ELSE AreaScore
            IN  /\ newRow.stored \in {NoReport, after}
                /\ redis # "no" => value \in {NoReport, after}
                /\ redis = "no" => row.badge /\ after = AreaScore
  PROVE  ShowsScores'
  <1>0. PICK seen \in ListingRow, seenScore \in Nat : seen = row /\ seenScore = scores[cell]
    BY DEF ShowsScores
  <1> DEFINE s == [op |-> op, cell |-> cell, seenScore |-> seenScore, score |-> score,
                   seen |-> seen, new |-> newRow, redis |-> redis, value |-> value]
  <1>1. /\ s \in Opened /\ s.op = op /\ s.cell = cell /\ s.seenScore = seenScore
        /\ s.score = score /\ s.seen = seen /\ s.new = newRow /\ s.redis = redis
        /\ s.value = value
    BY DEF Opened
  <1>2. /\ report' = [report EXCEPT ![w] = s]
        /\ UNCHANGED <<place, scores, row, cache, spoiled, overlap>>
        /\ \A v \in Workers : report[v] = Idle
    BY <1>0 DEF OpenSession, MayStart
  <1> HIDE DEF s
  <1>3. /\ report' \in [Workers -> {Idle} \cup Opened]
        /\ \A v \in Workers : report'[v] = IF v = w THEN s ELSE Idle
    BY <1>1, <1>2 DEF ShowsScores
  <1>4. OpenedFits(s)
    BY <1>0, <1>1 DEF OpenedFits, ReadFits, WriteFits, AfterCommit
  <1>5. OpenedFits(s)'
    BY <1>2, <1>4 DEF OpenedFits, ReadFits, WriteFits, AfterCommit, AreaScore
  <1>6. \A v \in Workers : report'[v] # Idle => OpenedFits(report[v])'
    <2> SUFFICES ASSUME NEW v \in Workers, report'[v] # Idle PROVE OpenedFits(report[v])'
        OBVIOUS
    <2>1. report'[v] = s
      BY <1>3
    <2>2. QED
      BY <1>2, <1>4, <2>1 DEF OpenedFits, ReadFits, WriteFits, AfterCommit, AreaScore
  <1>7. (row.badge /\ ~spoiled /\ CacheIsCommitted => cache \in {NoReport, AreaScore})'
    BY <1>2 DEF ShowsScores, CacheIsCommitted, AreaScore
  <1>8. (row.badge => row.stored \in {NoReport, AreaScore})'
    BY <1>2 DEF ShowsScores, AreaScore
  <1>9. QED
    BY <1>2, <1>3, <1>6, <1>7, <1>8 DEF ShowsScores

LEMMA WriteCacheKeeps ==
  ASSUME ShowsScores, ~overlap, NEW w \in Workers, WriteCache(w) PROVE ShowsScores'
  <1>1. PICK s \in Opened : report[w] = s /\ s # Idle
    BY IdleIsNotOpened DEF WriteCache, ShowsScores
  <1> DEFINE t == [s EXCEPT !.redis = "done"]
  <1>2. /\ report' = [report EXCEPT ![w] = t] /\ s.redis = "due"
        /\ cache' = s.value /\ spoiled' = FALSE
        /\ UNCHANGED <<place, scores, row, overlap>>
    BY <1>1 DEF WriteCache
  <1>3. /\ t \in Opened /\ t.op = s.op /\ t.cell = s.cell /\ t.seenScore = s.seenScore
        /\ t.score = s.score /\ t.seen = s.seen /\ t.new = s.new /\ t.redis = "done"
        /\ t.value = s.value
    BY DEF Opened
  <1> HIDE DEF t
  <1>4. OpenedFits(s) /\ \A v \in Workers : v # w => report[v] = Idle
    BY <1>1 DEF ShowsScores
  <1>5. /\ report' \in [Workers -> {Idle} \cup Opened]
        /\ \A v \in Workers : report'[v] = IF v = w THEN t ELSE Idle
    BY <1>2, <1>3, <1>4 DEF ShowsScores
  <1>6. \A v \in Workers : report'[v] # Idle => OpenedFits(report[v])'
    <2> SUFFICES ASSUME NEW v \in Workers, report'[v] # Idle PROVE OpenedFits(report[v])'
        OBVIOUS
    <2>1. report'[v] = t
      BY <1>5
    <2>2. QED
      BY <1>2, <1>3, <1>4, <2>1 DEF OpenedFits, ReadFits, WriteFits, AfterCommit, AreaScore
  <1>7. (row.badge /\ ~spoiled /\ CacheIsCommitted => cache \in {NoReport, AreaScore})'
    <2> SUFFICES ASSUME row'.badge, CacheIsCommitted' PROVE cache' \in {NoReport, AreaScore'}
        OBVIOUS
    <2>1. report'[w] = t /\ t # Idle
      BY <1>3, <1>5, IdleIsNotOpened
    <2>2. s.op = "read"
      BY <1>3, <2>1 DEF CacheIsCommitted
    <2>3. QED
      BY <1>2, <1>4, <2>2 DEF OpenedFits, ReadFits, AreaScore
  <1>8. (row.badge => row.stored \in {NoReport, AreaScore})'
    BY <1>2 DEF ShowsScores, AreaScore
  <1>9. QED
    BY <1>2, <1>5, <1>6, <1>7, <1>8 DEF ShowsScores

\* Once a session has ended, none is open.
LEMMA LeavesNone ==
  ASSUME ShowsScores, NEW w \in Workers, report[w] # Idle,
         report' = [report EXCEPT ![w] = Idle]
  PROVE  report' \in [Workers -> {Idle} \cup Opened] /\ \A v \in Workers : report'[v] = Idle
  BY DEF ShowsScores

LEMMA CommitReportKeeps ==
  ASSUME ShowsScores, ~overlap, NEW w \in Workers, CommitReport(w) PROVE ShowsScores'
  <1>1. PICK s \in Opened : report[w] = s /\ s # Idle
    BY IdleIsNotOpened DEF CommitReport, ShowsScores
  <1>2. /\ s.op # "read" /\ s.redis \in {"no", "done"}
        /\ scores' = [scores EXCEPT ![s.cell] = Written(s.seenScore, s.score, @)]
        /\ row' = WrittenRow(s.seen, s.new, row)
        /\ report' = [report EXCEPT ![w] = Idle]
        /\ UNCHANGED <<place, cache, spoiled, overlap>>
    BY <1>1 DEF CommitReport, Opened
  <1>3. OpenedFits(s) /\ WriteFits(s)
    BY <1>1, <1>2 DEF ShowsScores, OpenedFits
  <1>4. s.cell \in Cells /\ s.score \in Nat /\ s.seen \in ListingRow /\ s.new \in ListingRow
    BY DEF Opened
  <1>5. /\ report' \in [Workers -> {Idle} \cup Opened]
        /\ \A v \in Workers : report'[v] = Idle
    BY <1>1, <1>2, LeavesNone
  <1>6. /\ scores' \in [Cells -> Nat]
        /\ \A c \in Cells : scores'[c] = IF c = s.cell THEN s.score ELSE scores[c]
    BY <1>2, <1>3, <1>4 DEF ShowsScores, OpenedFits, Written
  <1>7. AreaScore' = AfterCommit(s)
    BY <1>2, <1>6, SnapTypes DEF ShowsScores, AreaScore, AfterCommit
  <1>8. row' \in ListingRow /\ row'.badge = s.new.badge /\ row'.stored = s.new.stored
    <2>1. row \in ListingRow /\ DOMAIN row = {"tier", "badge", "stored"}
      BY DEF ShowsScores, ListingRow
    <2>2. row' = [tier   |-> Written(s.seen.tier, s.new.tier, row.tier),
                  badge  |-> Written(s.seen.badge, s.new.badge, row.badge),
                  stored |-> Written(s.seen.stored, s.new.stored, row.stored)]
      BY <1>2, <2>1 DEF WrittenRow
    <2>3. row' \in ListingRow
      BY <1>4, <2>1, <2>2 DEF ListingRow, Written
    <2>4. QED
      BY <1>3, <2>2, <2>3 DEF OpenedFits, Written
  <1>9. row'.badge => row'.stored \in {NoReport, AreaScore'}
    BY <1>3, <1>7, <1>8 DEF WriteFits
  <1>10. row'.badge /\ ~spoiled' => cache' \in {NoReport, AreaScore'}
    <2>1. CASE s.redis = "done"
      BY <1>2, <1>3, <1>7, <1>8, <2>1 DEF WriteFits
    <2>2. CASE s.redis = "no"
      <3>1. CacheIsCommitted
        BY <1>1, <2>2 DEF CacheIsCommitted, ShowsScores
      <3>2. QED
        BY <1>2, <1>3, <1>7, <1>8, <2>2, <3>1 DEF WriteFits, ShowsScores
    <2>3. QED
      BY <1>2, <2>1, <2>2
  <1>11. QED
    BY <1>2, <1>5, <1>6, <1>8, <1>9, <1>10 DEF ShowsScores

LEMMA EndReportKeeps ==
  ASSUME ShowsScores, ~overlap, NEW w \in Workers, EndReport(w) PROVE ShowsScores'
  <1>1. /\ report[w] # Idle /\ report' = [report EXCEPT ![w] = Idle]
        /\ spoiled' = (spoiled \/ (report[w].op # "read" /\ report[w].redis = "done"))
        /\ UNCHANGED <<place, scores, row, cache, overlap>>
    BY DEF EndReport
  <1>2. /\ report' \in [Workers -> {Idle} \cup Opened]
        /\ \A v \in Workers : report'[v] = Idle
    BY <1>1, LeavesNone
  <1>3. ~spoiled' => ~spoiled /\ CacheIsCommitted
    BY <1>1 DEF CacheIsCommitted, ShowsScores
  <1>4. AreaScore' = AreaScore
    BY <1>1 DEF AreaScore
  <1>5. QED
    BY <1>1, <1>2, <1>3, <1>4 DEF ShowsScores

\* The tier of the row may change at any time.
LEMMA TierChangesKeeps ==
  ASSUME ShowsScores, ~overlap, TierChanges PROVE ShowsScores'
  <1>1. PICK tier \in Tier : row' = [row EXCEPT !.tier = tier]
    BY DEF TierChanges
  <1>2. row' \in ListingRow /\ row'.badge = row.badge /\ row'.stored = row.stored
    <2>1. row \in ListingRow
      BY DEF ShowsScores
    <2>2. QED
      BY <1>1, <2>1 DEF ListingRow
  <1>3. UNCHANGED <<place, scores, cache, report, spoiled, overlap>>
    BY DEF TierChanges
  <1>4. AreaScore' = AreaScore /\ (CacheIsCommitted' <=> CacheIsCommitted)
    BY <1>3 DEF AreaScore, CacheIsCommitted
  <1>5. \A w \in Workers : report[w] # Idle => OpenedFits(report[w])'
    BY <1>2, <1>3, <1>4 DEF ShowsScores, OpenedFits, ReadFits, WriteFits, AfterCommit
  <1>6. QED
    BY <1>2, <1>3, <1>4, <1>5 DEF ShowsScores

-----------------------------------------------------------------------------
(* Valuation: operations *)

LEMMA ScoreAreaKeeps ==
  ASSUME ShowsScores, ~overlap, \A x \in Coordinates : x >= 0,
         NEW w \in Workers, NEW x \in Coordinates, ScoreArea(w, x)
  PROVE  ShowsScores'
  <1> DEFINE cell  == SnapToCell(x)
             score == scores[cell] + 1
  <1>1. PICK old \in Nat : old = scores[cell]
    BY SnapTypes DEF ShowsScores
  <1>2. PICK seen \in ListingRow : seen = row
    BY DEF ShowsScores
  <1>3. cell \in Cells /\ cell \in Int /\ old + 1 \in Nat
    BY SnapTypes
  <1>4. InCell(place, cell) <=> cell = SnapToCell(place)
    BY <1>3, CellsAgree DEF ShowsScores
  <1>5. CASE ShowsTheArea(cell)
    <2> DEFINE newRow == [seen EXCEPT !.stored = old + 1]
    <2>1. newRow \in ListingRow /\ newRow.stored = old + 1
      BY DEF ListingRow
    <2>2. OpenSession(w, "score", cell, old + 1, newRow, "due", old + 1)
      BY <1>1, <1>2, <1>5 DEF ScoreArea, Generate
    <2>3. cell = SnapToCell(place)
      BY <1>4, <1>5 DEF ShowsTheArea
    <2> HIDE DEF newRow, cell
    <2>4. QED
      BY <1>3, <2>1, <2>2, <2>3, OpenSessionKeeps
  <1>6. CASE ~ShowsTheArea(cell)
    <2>1. OpenSession(w, "score", cell, old + 1, seen, "no", NoReport)
      BY <1>1, <1>2, <1>6 DEF ScoreArea
    <2>2. row.badge => cell # SnapToCell(place)
      BY <1>4, <1>6 DEF ShowsTheArea
    <2>3. seen.badge => seen.stored \in {NoReport, AreaScore}
      BY <1>2 DEF ShowsScores
    <2>4. NoReport \in Int
      BY DEF NoReport
    <2> HIDE DEF cell
    <2>5. QED
      BY <1>2, <1>3, <2>1, <2>2, <2>3, <2>4, OpenSessionKeeps
  <1>7. QED
    BY <1>5, <1>6

LEMMA AwardBadgeKeeps ==
  ASSUME ShowsScores, ~overlap, NEW w \in Workers, AwardBadge(w) PROVE ShowsScores'
  <1>1. PICK seen \in ListingRow, here \in Cells, score \in Nat :
           seen = row /\ here = SnapToCell(place) /\ score = AreaScore
    BY SnapTypes, AreaScoreType DEF ShowsScores
  <1> DEFINE badged == [seen EXCEPT !.tier = "FULLY_VERIFIED", !.badge = TRUE]
             newRow == [badged EXCEPT !.stored = score]
  <1>2. newRow \in ListingRow /\ newRow.stored = score
    <2>1. badged \in ListingRow
      BY DEF ListingRow, Tier
    <2> HIDE DEF badged
    <2>2. QED
      BY <2>1 DEF ListingRow
  <1>3. OpenSession(w, "award", here, score, newRow, "due", score)
    BY <1>1 DEF AwardBadge, Generate
  <1> HIDE DEF newRow
  <1>4. QED
    BY <1>1, <1>2, <1>3, OpenSessionKeeps

LEMMA EditPriceKeeps ==
  ASSUME ShowsScores, ~overlap, NEW w \in Workers, EditPrice(w) PROVE ShowsScores'
  <1>1. PICK seen \in ListingRow, here \in Cells, score \in Nat :
           seen = row /\ here = SnapToCell(place) /\ score = AreaScore
    BY SnapTypes, AreaScoreType DEF ShowsScores
  <1> DEFINE newRow == [seen EXCEPT !.stored = NoReport]
  <1>2. newRow \in ListingRow /\ newRow.stored = NoReport /\ NoReport \in Int
    BY DEF ListingRow, NoReport
  <1>3. OpenSession(w, "price", here, score, newRow, "due", NoReport)
    BY <1>1 DEF EditPrice, Invalidated
  <1> HIDE DEF newRow
  <1>4. QED
    BY <1>1, <1>2, <1>3, OpenSessionKeeps

LEMMA ReadReportKeeps ==
  ASSUME ShowsScores, ~overlap, NEW w \in Workers, ReadReport(w) PROVE ShowsScores'
  <1>1. PICK seen \in ListingRow, here \in Cells, score \in Nat :
           seen = row /\ here = SnapToCell(place) /\ score = AreaScore
    BY SnapTypes, AreaScoreType DEF ShowsScores
  <1>2. CASE CanRegenerate
    <2> DEFINE newRow == [seen EXCEPT !.stored = score]
    <2>1. newRow \in ListingRow
      BY DEF ListingRow
    <2>2. OpenSession(w, "read", here, score, newRow, "due", score)
      BY <1>1, <1>2 DEF ReadReport, Generate
    <2> HIDE DEF newRow
    <2>3. QED
      BY <1>1, <2>1, <2>2, OpenSessionKeeps
  <1>3. CASE ~CanRegenerate
    <2>1. OpenSession(w, "read", here, score, seen, "due", seen.stored)
      BY <1>1, <1>3 DEF ReadReport
    <2>2. seen.stored \in Int /\ (row.badge => seen.stored \in {NoReport, AreaScore})
      BY <1>1 DEF ShowsScores, ListingRow
    <2>3. QED
      BY <1>1, <2>1, <2>2, OpenSessionKeeps
  <1>4. QED
    BY <1>2, <1>3

-----------------------------------------------------------------------------
(* Valuation: the theorem *)

\* For any coordinates north of the equator and east of Greenwich, where Nigeria
\* lies (elsewhere the cells of area_scoring.py and of reports.py disagree): one
\* session at a time, and unless one rolled back after it wrote Redis, a badged
\* listing shows the present scores of its area (verification/reports.py).
THEOREM ReportsAreFresh ==
  ASSUME \A x \in Coordinates : x >= 0
  PROVE  ValuationSpec => []ReportShowsScores
  <1> DEFINE Inv == ~overlap => ShowsScores
  <1>1. ValuationInit => Inv
    BY InitShowsScores
  <1>2. Inv /\ [ValuationNext]_valuationVars => Inv'
    <2> SUFFICES ASSUME Inv, [ValuationNext]_valuationVars, ~overlap' PROVE ShowsScores'
        OBVIOUS
    <2>1. CASE UNCHANGED valuationVars
      <3>1. ShowsScores /\ UNCHANGED <<place, scores, row, cache, report, spoiled, overlap>>
        BY <2>1 DEF valuationVars
      <3>2. AreaScore' = AreaScore /\ (CacheIsCommitted' <=> CacheIsCommitted)
        BY <3>1 DEF AreaScore, CacheIsCommitted
      <3>3. \A w \in Workers : report[w] # Idle => OpenedFits(report[w])'
        BY <3>1, <3>2 DEF ShowsScores, OpenedFits, ReadFits, WriteFits, AfterCommit
      <3>4. QED
        BY <3>1, <3>2, <3>3 DEF ShowsScores
    <2>2. CASE ValuationNext
      <3>1. ~overlap /\ ShowsScores
        <4>1. TierChanges => UNCHANGED overlap
          BY DEF TierChanges
        <4>2. ASSUME NEW w \in Workers, EditPrice(w) \/ WriteCache(w) \/ CommitReport(w) \/ EndReport(w)
              PROVE  UNCHANGED overlap
          BY <4>2 DEF EditPrice, OpenSession, WriteCache, CommitReport, EndReport
        <4>3. QED
          BY <2>2, <4>1, <4>2 DEF ValuationNext, InspectorScores, AdminScores, ScoreArea, AwardBadge,
             ReadReport, Generate, OpenSession
      <3>2. place \in Coordinates
        BY <3>1 DEF ShowsScores
      <3>3. QED
        BY <2>2, <3>1, <3>2, TierChangesKeeps, ScoreAreaKeeps, AwardBadgeKeeps, EditPriceKeeps,
           ReadReportKeeps, WriteCacheKeeps, CommitReportKeeps, EndReportKeeps
           DEF ValuationNext, InspectorScores, AdminScores
    <2>3. QED
      BY <2>1, <2>2
  <1>3. Inv => ReportShowsScores
    BY DEF ShowsScores, ReportShowsScores, CacheIsCommitted
  <1>4. QED
    BY <1>1, <1>2, <1>3, PTL DEF ValuationSpec

-----------------------------------------------------------------------------
(* SyncQueue: the invariant *)

PhotoState == {"none", "stored", "done", "error"}

ServerReport == [status : ReportStatus, assessment : 0 .. MaxEdits, evidence : Nat,
                 pinned : BOOLEAN]

FormTypes ==
    /\ form \in 0 .. MaxEdits /\ edits \in 0 .. MaxEdits /\ draft \in 0 .. MaxEdits
    /\ timer \in BOOLEAN /\ online \in BOOLEAN
    /\ phase \in {"editing", "submitting", "sent"}

ServerTypes ==
    /\ server \in ServerReport
    /\ registered \subseteq Photo
    /\ failures \in 0 .. MaxFailures

PhotoTypes == photos \in [Photo -> PhotoState] /\ tries \in [Photo -> Nat]

\* The queue is an object store: a key is given once; a flush sends what is
\* still in it.
QueueIsKeyed ==
    /\ nextKey \in Nat
    /\ queue \subseteq Mutation
    /\ batch \subseteq queue
    /\ \A m \in queue : m.key < nextKey
    /\ \A m, n \in queue : m.key = n.key => m = n

\* The attempts a mutation shows were made.
AttemptsWereMade ==
    \A m \in queue, p \in Photo : m.request.photo = p => m.attempts <= tries[p]

QueueInv ==
    /\ FormTypes /\ ServerTypes /\ PhotoTypes
    /\ QueueIsKeyed
    /\ AttemptsWereMade
    /\ EvidenceIsKept

LEMMA InitQueueInv == SyncInit => QueueInv
  <1> SUFFICES ASSUME SyncInit PROVE QueueInv
      OBVIOUS
  <1>1. 0 \in 0 .. MaxEdits /\ 0 \in 0 .. MaxFailures
    BY DEF SyncQueueAssumption
  <1>2. NewReport \in ServerReport
    BY <1>1 DEF NewReport, ServerReport, ReportStatus, Empty
  <1>3. FormTypes /\ ServerTypes
    BY <1>1, <1>2 DEF SyncInit, FormTypes, ServerTypes, Empty
  <1>4. PhotoTypes /\ EvidenceIsKept
    BY DEF SyncInit, PhotoTypes, PhotoState, EvidenceIsKept
  <1>5. QueueIsKeyed /\ AttemptsWereMade
    BY DEF SyncInit, QueueIsKeyed, AttemptsWereMade
  <1>6. QED
    BY <1>3, <1>4, <1>5 DEF QueueInv

\* Steps that drop nothing: a photo that becomes done is on the server or in the
\* queue.
LEMMA NothingIsDropped ==
  ASSUME QueueInv, tries' = tries, queue \subseteq queue', registered \subseteq registered',
         \A m \in queue' : m \in queue \/ m.attempts = 0,
         \A p \in Photo : photos'[p] = "done" =>
            \/ photos[p] = "done"
            \/ p \in registered'
            \/ \E m \in queue' : m.request = EvidenceRequest(p)
  PROVE  AttemptsWereMade' /\ EvidenceIsKept'
  <1>1. \A p \in Photo : tries[p] \in Nat
    BY DEF QueueInv, PhotoTypes
  <1>2. AttemptsWereMade'
    BY <1>1 DEF QueueInv, AttemptsWereMade
  <1>3. EvidenceIsKept'
    BY DEF QueueInv, EvidenceIsKept
  <1>4. QED
    BY <1>2, <1>3

-----------------------------------------------------------------------------
(* SyncQueue: requests *)

LEMMA RequestTypes ==
  /\ \A edit \in 0 .. MaxEdits : DraftRequest(edit) \in SyncRequest /\ DraftRequest(edit).photo = NoPhoto
  /\ \A p \in Photo : EvidenceRequest(p) \in SyncRequest /\ EvidenceRequest(p).photo = p
  /\ AreaRequest \in SyncRequest /\ AreaRequest.photo = NoPhoto
  /\ SubmitRequest \in SyncRequest /\ SubmitRequest.photo = NoPhoto
  <1>1. Empty \in 0 .. MaxEdits
    BY DEF Empty, SyncQueueAssumption
  <1>2. QED
    BY <1>1 DEF DraftRequest, EvidenceRequest, AreaRequest, SubmitRequest, SyncRequest

\* What a request does to the report.
LEMMA AppliedReport ==
  ASSUME NEW old \in ServerReport, NEW request \in SyncRequest
  PROVE  Applied(old, request) \in ServerReport
  <1>1. /\ request.edit \in 0 .. MaxEdits
        /\ request.kind \in {"save_draft", "register_evidence", "score_area", "submit_report"}
    BY DEF SyncRequest
  <1>2. Started(old.status) \in ReportStatus
    BY DEF ServerReport, ReportStatus, Started
  <1>3. CASE request.kind = "save_draft"
    <2>1. Saved(old, request.edit, request.edit # Empty) \in ServerReport
      BY <1>1, <1>2 DEF Saved, ServerReport
    <2>2. QED
      BY <1>3, <2>1 DEF Applied
  <1>4. CASE request.kind = "register_evidence"
    <2>1. old.evidence + 1 \in Nat
      BY DEF ServerReport
    <2>2. Registered(old) \in ServerReport
      BY <1>2, <2>1 DEF Registered, ServerReport
    <2>3. QED
      BY <1>4, <2>2 DEF Applied
  <1>5. CASE request.kind = "score_area"
    BY <1>5 DEF Applied
  <1>6. CASE request.kind = "submit_report"
    <2>1. Submitted(old) \in ServerReport
      BY DEF Submitted, ServerReport, ReportStatus
    <2>2. QED
      BY <1>6, <2>1 DEF Applied
  <1>7. QED
    BY <1>1, <1>3, <1>4, <1>5, <1>6

LEMMA CarriedOutTypes ==
  ASSUME QueueInv, NEW request \in SyncRequest, CarriedOut(request)
  PROVE  /\ server' \in ServerReport
         /\ registered \subseteq registered' /\ registered' \subseteq Photo
         /\ request.photo # NoPhoto => request.photo \in registered'
  <1>1. server \in ServerReport /\ registered \subseteq Photo
    BY DEF QueueInv, ServerTypes
  <1>2. request.photo \in Photo \cup {NoPhoto}
    BY DEF SyncRequest
  <1>3. QED
    BY <1>1, <1>2, AppliedReport DEF CarriedOut

LEMMA OutcomeTypes ==
  ASSUME QueueInv, NEW request, NEW outcome \in Outcomes(request)
  PROVE  /\ outcome.ok \in BOOLEAN /\ outcome.applied \in BOOLEAN
         /\ outcome.failures \in {failures, failures + 1}
         /\ outcome.ok => outcome.applied
         /\ InFlush(outcome).applied = outcome.applied
         /\ InFlush(outcome).failures \in {failures, failures + 1}
  <1>1. CASE online /\ Accepts(server, request.kind)
    <2>1. \/ outcome = [ok |-> TRUE,  applied |-> TRUE,  failures |-> failures]
          \/ outcome = [ok |-> FALSE, applied |-> FALSE, failures |-> failures + 1]
          \/ outcome = [ok |-> FALSE, applied |-> TRUE,  failures |-> failures + 1]
      BY <1>1 DEF Outcomes
    <2>2. InFlush(outcome) = outcome
      BY <1>1 DEF InFlush
    <2>3. /\ outcome.ok \in BOOLEAN /\ outcome.applied \in BOOLEAN
          /\ outcome.failures \in {failures, failures + 1}
          /\ outcome.ok => outcome.applied
      <3>1. CASE outcome = [ok |-> TRUE, applied |-> TRUE, failures |-> failures]
        BY <3>1
      <3>2. CASE outcome = [ok |-> FALSE, applied |-> FALSE, failures |-> failures + 1]
        BY <3>2
      <3>3. CASE outcome = [ok |-> FALSE, applied |-> TRUE, failures |-> failures + 1]
        BY <3>3
      <3>4. QED
        BY <2>1, <3>1, <3>2, <3>3
    <2>4. QED
      BY <2>2, <2>3
  <1>2. CASE ~(online /\ Accepts(server, request.kind))
    <2>1. outcome = [ok |-> FALSE, applied |-> FALSE, failures |-> failures]
      BY <1>2 DEF Outcomes
    <2>2. QED
      BY <2>1 DEF InFlush
  <1>3. QED
    BY <1>1, <1>2

\* What comes of a request, in a flush or not.
LEMMA HappensTypes ==
  ASSUME QueueInv, NEW request \in SyncRequest, NEW outcome, Happens(request, outcome),
         outcome.failures \in {failures, failures + 1}
  PROVE  /\ ServerTypes'
         /\ registered \subseteq registered'
         /\ outcome.applied /\ request.photo # NoPhoto => request.photo \in registered'
  <1>1. failures' \in 0 .. MaxFailures
    BY DEF Happens, QueueInv, ServerTypes, SyncQueueAssumption
  <1>2. CASE outcome.applied
    BY <1>1, <1>2, CarriedOutTypes DEF Happens, ServerTypes
  <1>3. CASE ~outcome.applied
    BY <1>1, <1>3 DEF Happens, ServerTypes, QueueInv
  <1>4. QED
    BY <1>2, <1>3

LEMMA EnqueueKeeps ==
  ASSUME QueueInv, NEW request \in SyncRequest, Enqueue(request), batch' = batch
  PROVE  /\ QueueIsKeyed'
         /\ queue \subseteq queue' /\ \A m \in queue' : m \in queue \/ m.attempts = 0
         /\ \E m \in queue' : m.request = request
  <1>1. PICK key \in Nat : key = nextKey
    BY DEF QueueInv, QueueIsKeyed
  <1> DEFINE m == [key |-> key, request |-> request, attempts |-> 0]
  <1>2. nextKey' = key + 1 /\ queue' = queue \cup {m}
    BY <1>1 DEF Enqueue
  <1>3. m \in Mutation /\ m.key = key /\ m.request = request /\ m.attempts = 0
    BY DEF Mutation, SyncQueueAssumption
  <1>4. \A n \in queue : n.key < key /\ n.key \in Nat
    BY <1>1 DEF QueueInv, QueueIsKeyed, Mutation
  <1> HIDE DEF m
  <1>5. /\ queue \subseteq Mutation /\ batch \subseteq queue
        /\ \A n, o \in queue : n.key = o.key => n = o
    BY DEF QueueInv, QueueIsKeyed
  <1>6. queue' \subseteq Mutation /\ batch' \subseteq queue' /\ nextKey' \in Nat
    BY <1>2, <1>3, <1>5
  <1>7. /\ \A n \in queue' : n.key < nextKey'
        /\ \A n, o \in queue' : n.key = o.key => n = o
    BY <1>2, <1>3, <1>4, <1>5
  <1>8. QED
    BY <1>2, <1>3, <1>6, <1>7 DEF QueueIsKeyed

\* A request of the form: its photo is on the server, or it is in the queue.
LEMMA SendOrQueueKeeps ==
  ASSUME QueueInv, NEW request \in SyncRequest, NEW queued \in SyncRequest,
         SendOrQueue(request, queued), batch' = batch
  PROVE  /\ ServerTypes' /\ QueueIsKeyed'
         /\ registered \subseteq registered'
         /\ queue \subseteq queue' /\ \A m \in queue' : m \in queue \/ m.attempts = 0
         /\ \/ request.photo = NoPhoto \/ request.photo \in registered'
            \/ \E m \in queue' : m.request = queued
  <1>1. PICK outcome \in Outcomes(request) :
           /\ Happens(request, outcome)
           /\ IF outcome.ok THEN UNCHANGED <<queue, nextKey>> ELSE Enqueue(queued)
    BY DEF SendOrQueue
  <1>2. /\ outcome.failures \in {failures, failures + 1} /\ outcome.ok \in BOOLEAN
        /\ outcome.ok => outcome.applied
    BY OutcomeTypes
  <1>3. /\ ServerTypes' /\ registered \subseteq registered'
        /\ outcome.applied /\ request.photo # NoPhoto => request.photo \in registered'
    BY <1>1, <1>2, HappensTypes
  <1>4. CASE outcome.ok
    <2>1. QueueIsKeyed'
      BY <1>1, <1>4 DEF QueueInv, QueueIsKeyed
    <2>2. QED
      BY <1>1, <1>2, <1>3, <1>4, <2>1
  <1>5. CASE ~outcome.ok
    BY <1>1, <1>3, <1>5, EnqueueKeeps
  <1>6. QED
    BY <1>4, <1>5

-----------------------------------------------------------------------------
(* SyncQueue: the form *)

LEMMA RegisterPhotoKeeps == ASSUME QueueInv, NEW p \in Photo, RegisterPhoto(p) PROVE QueueInv'
  <1>1. /\ photos' = [photos EXCEPT ![p] = "done"]
        /\ SendOrQueue(EvidenceRequest(p), EvidenceRequest(p))
        /\ UNCHANGED <<form, edits, timer, phase, draft, batch, tries, online>>
    BY DEF RegisterPhoto, formVars
  <1>2. EvidenceRequest(p) \in SyncRequest /\ EvidenceRequest(p).photo = p /\ p # NoPhoto
    BY RequestTypes DEF Photo, NoPhoto, SyncQueueAssumption
  <1>3. /\ ServerTypes' /\ QueueIsKeyed'
        /\ registered \subseteq registered'
        /\ queue \subseteq queue' /\ \A m \in queue' : m \in queue \/ m.attempts = 0
        /\ p \in registered' \/ \E m \in queue' : m.request = EvidenceRequest(p)
    BY <1>1, <1>2, SendOrQueueKeeps
  <1>4. PhotoTypes' /\ \A q \in Photo : q # p => photos'[q] = photos[q]
    BY <1>1 DEF QueueInv, PhotoTypes, PhotoState
  <1>5. AttemptsWereMade' /\ EvidenceIsKept'
    BY <1>1, <1>3, <1>4, NothingIsDropped
  <1>6. FormTypes'
    BY <1>1 DEF QueueInv, FormTypes
  <1>7. QED
    BY <1>3, <1>4, <1>5, <1>6 DEF QueueInv

\* The other requests of the form carry no photo.
LEMMA FormRequestKeeps ==
  ASSUME QueueInv, NEW request \in SyncRequest, NEW queued \in SyncRequest,
         SendOrQueue(request, queued), FormTypes', UNCHANGED <<photos, batch, tries>>
  PROVE  QueueInv'
  <1>1. /\ ServerTypes' /\ QueueIsKeyed'
        /\ registered \subseteq registered'
        /\ queue \subseteq queue' /\ \A m \in queue' : m \in queue \/ m.attempts = 0
    BY SendOrQueueKeeps
  <1>2. AttemptsWereMade' /\ EvidenceIsKept'
    BY <1>1, NothingIsDropped
  <1>3. PhotoTypes'
    BY DEF QueueInv, PhotoTypes
  <1>4. QED
    BY <1>1, <1>2, <1>3 DEF QueueInv

LEMMA FormKeeps == ASSUME QueueInv, SendScores \/ SaveBeforeSubmit \/ Submit PROVE QueueInv'
  <1>1. Empty \in 0 .. MaxEdits /\ form \in 0 .. MaxEdits
    BY DEF Empty, SyncQueueAssumption, QueueInv, FormTypes
  <1>2. FormTypes' /\ UNCHANGED <<photos, batch, tries>>
    BY <1>1 DEF SendScores, SaveBeforeSubmit, Submit, formVars, QueueInv, FormTypes
  <1>3. CASE SendScores
    BY <1>2, <1>3, RequestTypes, FormRequestKeeps DEF SendScores
  <1>4. CASE SaveBeforeSubmit
    BY <1>1, <1>2, <1>4, RequestTypes, FormRequestKeeps DEF SaveBeforeSubmit
  <1>5. CASE Submit
    BY <1>2, <1>5, RequestTypes, FormRequestKeeps DEF Submit
  <1>6. QED
    BY <1>3, <1>4, <1>5

LEMMA AutoSaveKeeps == ASSUME QueueInv, AutoSave PROVE QueueInv'
  <1>1. /\ timer' = FALSE /\ draft' = form /\ Enqueue(DraftRequest(form))
        /\ UNCHANGED <<form, edits, phase, photos, batch, tries, online>>
        /\ UNCHANGED <<server, registered, failures>>
    BY DEF AutoSave, serverVars
  <1>2. form \in 0 .. MaxEdits /\ FormTypes' /\ ServerTypes' /\ PhotoTypes'
    BY <1>1 DEF QueueInv, FormTypes, ServerTypes, PhotoTypes
  <1>3. /\ QueueIsKeyed' /\ queue \subseteq queue'
        /\ \A m \in queue' : m \in queue \/ m.attempts = 0
    BY <1>1, <1>2, RequestTypes, EnqueueKeeps
  <1>4. AttemptsWereMade' /\ EvidenceIsKept'
    BY <1>1, <1>3, NothingIsDropped
  <1>5. QED
    BY <1>2, <1>3, <1>4 DEF QueueInv

\* Steps that leave the queue alone and finish no photo.
LEMMA QueueStays ==
  ASSUME QueueInv, UNCHANGED <<queue, nextKey, tries>>, batch' \subseteq queue,
         FormTypes', ServerTypes', photos' \in [Photo -> PhotoState],
         registered \subseteq registered',
         \A p \in Photo : photos'[p] = "done" => photos[p] = "done"
  PROVE  QueueInv'
  <1>1. QueueIsKeyed' /\ PhotoTypes'
    BY DEF QueueInv, QueueIsKeyed, PhotoTypes
  <1>2. AttemptsWereMade' /\ EvidenceIsKept'
    BY NothingIsDropped
  <1>3. QED
    BY <1>1, <1>2 DEF QueueInv

LEMMA UploadPhotoKeeps == ASSUME QueueInv, NEW p \in Photo, UploadPhoto(p) PROVE QueueInv'
  <1>1. /\ photos' = [photos EXCEPT ![p] = "stored"] \/ photos' = [photos EXCEPT ![p] = "error"]
        /\ failures' = failures \/ (failures < MaxFailures /\ failures' = failures + 1)
        /\ UNCHANGED <<form, edits, timer, phase, draft, online>>
        /\ UNCHANGED <<queue, nextKey, batch, tries, server, registered>>
    BY DEF UploadPhoto, formVars, queueVars
  <1>2. FormTypes' /\ ServerTypes' /\ batch' \subseteq queue
    BY <1>1 DEF QueueInv, FormTypes, ServerTypes, QueueIsKeyed, SyncQueueAssumption
  <1>3. /\ photos' \in [Photo -> PhotoState]
        /\ \A q \in Photo : photos'[q] = "done" => photos[q] = "done"
    BY <1>1 DEF QueueInv, PhotoTypes, PhotoState
  <1>4. QED
    BY <1>1, <1>2, <1>3, QueueStays

\* What the flush was sending when the app was closed may have arrived.
LEMMA ReopenKeeps == ASSUME QueueInv, Reopen PROVE QueueInv'
  <1>1. /\ failures < MaxFailures /\ failures' = failures + 1 /\ form' = draft /\ timer' = FALSE
        /\ phase' = "editing" /\ batch' = {}
        /\ photos' = [p \in Photo |-> IF photos[p] = "stored" THEN "error" ELSE photos[p]]
        /\ UNCHANGED <<edits, draft, queue, nextKey, tries, online>>
        /\ UNCHANGED <<server, registered>> \/ \E m \in batch : CarriedOut(m.request)
    BY DEF Reopen
  <1>2. FormTypes'
    BY <1>1 DEF QueueInv, FormTypes
  <1>3. \A m \in batch : m.request \in SyncRequest
    BY DEF QueueInv, QueueIsKeyed, Mutation
  <1>4. server' \in ServerReport /\ registered \subseteq registered' /\ registered' \subseteq Photo
    BY <1>1, <1>3, CarriedOutTypes DEF QueueInv, ServerTypes
  <1>5. ServerTypes'
    BY <1>1, <1>4 DEF QueueInv, ServerTypes, SyncQueueAssumption
  <1>6. /\ photos' \in [Photo -> PhotoState]
        /\ \A p \in Photo : photos'[p] = "done" => photos[p] = "done"
    BY <1>1 DEF QueueInv, PhotoTypes, PhotoState
  <1>7. QED
    BY <1>1, <1>2, <1>4, <1>5, <1>6, QueueStays

\* Steps of the form, of the network and of the administrator that send nothing.
LEMMA QuietStepKeeps ==
  ASSUME QueueInv, StartFlush \/ EditForm \/ Connectivity \/ Query \/ UNCHANGED syncVars
  PROVE  QueueInv'
  <1>1. UNCHANGED <<queue, nextKey, tries, photos, registered, failures>>
    BY DEF StartFlush, EditForm, Connectivity, Query, queueVars, serverVars, syncVars
  <1>2. batch' \subseteq queue
    BY DEF StartFlush, EditForm, Connectivity, Query, queueVars, syncVars, QueueInv, QueueIsKeyed
  <1>3. FormTypes'
    <2>1. form' \in 0 .. MaxEdits /\ edits' \in 0 .. MaxEdits /\ draft' \in 0 .. MaxEdits
      BY DEF StartFlush, EditForm, Connectivity, Query, formVars, syncVars, QueueInv, FormTypes,
         SyncQueueAssumption
    <2>2. /\ timer' \in BOOLEAN /\ online' \in BOOLEAN
          /\ phase' \in {"editing", "submitting", "sent"}
      BY DEF StartFlush, EditForm, Connectivity, Query, formVars, syncVars, QueueInv, FormTypes
    <2>3. QED
      BY <2>1, <2>2 DEF FormTypes
  <1>4. server' \in ServerReport
    <2>1. CASE Query
      BY <2>1 DEF Query, QueueInv, ServerTypes, ServerReport, ReportStatus
    <2>2. CASE server' = server
      BY <2>2 DEF QueueInv, ServerTypes
    <2>3. QED
      BY <2>1, <2>2 DEF StartFlush, EditForm, Connectivity, serverVars, syncVars
  <1>5. ServerTypes' /\ photos' \in [Photo -> PhotoState]
    BY <1>1, <1>4 DEF QueueInv, ServerTypes, PhotoTypes
  <1>6. QED
    BY <1>1, <1>2, <1>3, <1>5, QueueStays

-----------------------------------------------------------------------------
(* SyncQueue: the flush *)

\* The mutation that is sent is in the queue, alone under its key.
LEMMA SentIsQueued ==
  ASSUME QueueInv, NEW m \in batch
  PROVE  /\ m \in Mutation /\ m \in queue
         /\ Dequeued(m) = queue \ {m}
         /\ Failed(m) = (queue \ {m}) \cup {[m EXCEPT !.attempts = m.attempts + 1]}
  <1>1. m \in queue /\ m \in Mutation
    BY DEF QueueInv, QueueIsKeyed
  <1>2. Dequeued(m) = queue \ {m}
    BY <1>1 DEF Dequeued, QueueInv, QueueIsKeyed
  <1>3. {o \in queue : o.key = m.key} = {m}
    BY <1>1 DEF QueueInv, QueueIsKeyed
  <1>4. QED
    BY <1>1, <1>2, <1>3 DEF Failed

\* Either way the queue stays keyed.
LEMMA KeyedWithout ==
  ASSUME QueueInv, NEW m \in batch, nextKey' = nextKey,
         \/ queue' = queue \ {m} /\ batch' \subseteq batch \ {m}
         \/ /\ queue' = (queue \ {m}) \cup {[m EXCEPT !.attempts = m.attempts + 1]}
            /\ batch' = {} /\ m.attempts + 1 < MaxAttempts
  PROVE  QueueIsKeyed'
  <1> DEFINE later == [m EXCEPT !.attempts = m.attempts + 1]
  <1>1. /\ queue \subseteq Mutation /\ batch \subseteq queue /\ m \in Mutation /\ nextKey \in Nat
        /\ \A n \in queue : n.key < nextKey
        /\ \A n, o \in queue : n.key = o.key => n = o
    BY DEF QueueInv, QueueIsKeyed
  <1>2. CASE queue' = queue \ {m} /\ batch' \subseteq batch \ {m}
    BY <1>1, <1>2 DEF QueueIsKeyed
  <1>3. CASE queue' = (queue \ {m}) \cup {later} /\ batch' = {} /\ m.attempts + 1 < MaxAttempts
    <2>1. m.attempts + 1 \in 0 .. MaxAttempts - 1
      BY <1>1, <1>3 DEF Mutation, SyncQueueAssumption
    <2>2. later \in Mutation /\ later.key = m.key
      BY <1>1, <2>1 DEF Mutation
    <2> HIDE DEF later
    <2>3. queue' \subseteq Mutation
      BY <1>1, <1>3, <2>2
    <2>4. \A n \in queue' : n.key < nextKey'
      BY <1>1, <1>3, <2>2
    <2>5. \A n, o \in queue' : n.key = o.key => n = o
      BY <1>1, <1>3, <2>2
    <2>6. QED
      BY <1>1, <1>3, <2>3, <2>4, <2>5 DEF QueueIsKeyed
  <1>4. QED
    BY <1>2, <1>3

LEMMA FlushOneKeeps == ASSUME QueueInv, FlushOne PROVE QueueInv'
  <1>1. PICK m \in batch : \E outcome \in Outcomes(m.request) :
           /\ Happens(m.request, InFlush(outcome))
           /\ queue' = IF outcome.ok THEN Dequeued(m) ELSE Bumped(m)
           /\ batch' = IF outcome.ok THEN batch \ {m} ELSE {}
           /\ tries' = [p \in Photo |->
                 IF p = m.request.photo /\ ~outcome.ok THEN tries[p] + 1 ELSE tries[p]]
    BY DEF FlushOne, AfterError
  <1>2. PICK outcome \in Outcomes(m.request) :
           /\ Happens(m.request, InFlush(outcome))
           /\ queue' = IF outcome.ok THEN Dequeued(m) ELSE Bumped(m)
           /\ batch' = IF outcome.ok THEN batch \ {m} ELSE {}
           /\ tries' = [p \in Photo |->
                 IF p = m.request.photo /\ ~outcome.ok THEN tries[p] + 1 ELSE tries[p]]
    BY <1>1
  <1>3. UNCHANGED <<form, edits, timer, phase, draft, photos, nextKey, online>>
    BY DEF FlushOne, formVars
  <1>4. /\ m \in Mutation /\ m \in queue
        /\ Dequeued(m) = queue \ {m}
        /\ Failed(m) = (queue \ {m}) \cup {[m EXCEPT !.attempts = m.attempts + 1]}
    BY SentIsQueued
  <1>5. m.request \in SyncRequest /\ m.attempts \in Nat
    BY <1>4 DEF Mutation
  <1>6. /\ outcome.ok \in BOOLEAN /\ outcome.ok => InFlush(outcome).applied
        /\ InFlush(outcome).failures \in {failures, failures + 1}
    BY OutcomeTypes
  <1>7. /\ ServerTypes' /\ registered \subseteq registered'
        /\ outcome.ok /\ m.request.photo # NoPhoto => m.request.photo \in registered'
    BY <1>2, <1>5, <1>6, HappensTypes
  <1>8. Bumped(m) = IF m.attempts + 1 >= MaxAttempts THEN Dequeued(m) ELSE Failed(m)
    BY DEF Bumped
  <1>9. QueueIsKeyed'
    <2>1. CASE outcome.ok
      BY <1>2, <1>3, <1>4, <2>1, KeyedWithout
    <2>2. CASE ~outcome.ok
      BY <1>2, <1>3, <1>4, <1>5, <1>8, <2>2, KeyedWithout DEF SyncQueueAssumption
    <2>3. QED
      BY <2>1, <2>2
  <1>10. /\ \A p \in Photo : tries[p] \in Nat /\ tries'[p] \in Nat /\ tries'[p] >= tries[p]
         /\ \A p \in Photo : ~outcome.ok /\ p = m.request.photo => tries'[p] = tries[p] + 1
    BY <1>2 DEF QueueInv, PhotoTypes
  <1>11. PhotoTypes' /\ FormTypes'
    BY <1>2, <1>3, <1>10 DEF QueueInv, PhotoTypes, FormTypes
  <1> DEFINE later == [m EXCEPT !.attempts = m.attempts + 1]
  <1>12. later.attempts = m.attempts + 1 /\ later.request = m.request
    BY <1>4 DEF Mutation
  <1> HIDE DEF later
  <1>13. \/ queue' = queue \ {m} /\ (outcome.ok \/ m.attempts + 1 >= MaxAttempts)
         \/ queue' = (queue \ {m}) \cup {later} /\ ~outcome.ok
    BY <1>2, <1>4, <1>6, <1>8 DEF later
  <1>14. AttemptsWereMade'
    <2> SUFFICES ASSUME NEW n \in queue', NEW p \in Photo, n.request.photo = p
                 PROVE  n.attempts <= tries'[p]
        BY DEF AttemptsWereMade
    <2>1. CASE n \in queue
      <3>1. n.attempts <= tries[p] /\ n.attempts \in Nat
        BY <2>1 DEF QueueInv, AttemptsWereMade, QueueIsKeyed, Mutation
      <3>2. QED
        BY <1>10, <3>1
    <2>2. CASE n \notin queue
      <3>1. n = later /\ ~outcome.ok
        BY <1>13, <2>2
      <3>2. m.attempts <= tries[p]
        BY <1>4, <1>12, <3>1 DEF QueueInv, AttemptsWereMade
      <3>3. n.attempts = m.attempts + 1 /\ tries'[p] = tries[p] + 1
        BY <1>10, <1>12, <3>1
      <3>4. QED
        BY <1>5, <1>10, <3>2, <3>3
    <2>3. QED
      BY <2>1, <2>2
  <1>15. EvidenceIsKept'
    <2> SUFFICES ASSUME NEW p \in Photo, photos'[p] = "done",
                        p \notin registered',
                        ~\E n \in queue' : n.request = EvidenceRequest(p)
                 PROVE  tries'[p] >= MaxAttempts
        BY DEF EvidenceIsKept
    <2>1. tries[p] >= MaxAttempts \/ \E n \in queue : n.request = EvidenceRequest(p)
      BY <1>3, <1>7 DEF QueueInv, EvidenceIsKept
    <2>2. CASE tries[p] >= MaxAttempts
      BY <1>10, <2>2 DEF SyncQueueAssumption
    <2>3. CASE \E n \in queue : n.request = EvidenceRequest(p)
      <3>1. m.request = EvidenceRequest(p) /\ queue' = queue \ {m}
        BY <1>12, <1>13, <2>3
      <3>2. m.request.photo = p /\ p # NoPhoto
        BY <3>1, RequestTypes DEF Photo, NoPhoto, SyncQueueAssumption
      <3>3. ~outcome.ok
        BY <1>7, <3>2
      <3>4. m.attempts + 1 >= MaxAttempts
        BY <1>12, <1>13, <3>1, <3>3
      <3>5. m.attempts <= tries[p] /\ tries'[p] = tries[p] + 1
        BY <1>4, <1>10, <3>2, <3>3 DEF QueueInv, AttemptsWereMade
      <3>6. QED
        BY <1>5, <1>10, <3>4, <3>5 DEF SyncQueueAssumption
    <2>4. QED
      BY <2>1, <2>2, <2>3
  <1>16. QED
    BY <1>7, <1>9, <1>11, <1>14, <1>15 DEF QueueInv

-----------------------------------------------------------------------------
(* SyncQueue: the theorem *)

\* For any number of photos, edits, queued mutations and failures, and any
\* number of attempts: a photo the app shows as done is on the server, in the
\* queue, or was sent from there as often as flush tries (sync.ts, upload.ts).
THEOREM EvidenceSurvives == SyncSpec => []SyncInv
  <1>1. SyncInit => QueueInv
    BY InitQueueInv
  <1>2. QueueInv /\ [SyncNext]_syncVars => QueueInv'
    BY FlushOneKeeps, QuietStepKeeps, AutoSaveKeeps, UploadPhotoKeeps, RegisterPhotoKeeps,
       FormKeeps, ReopenKeeps DEF SyncNext
  <1>3. QueueInv => SyncInv
    <2> SUFFICES ASSUME QueueInv PROVE SyncInv
        OBVIOUS
    <2>1. SyncTypeOK
      BY DEF QueueInv, FormTypes, ServerTypes, PhotoTypes, PhotoState, QueueIsKeyed, SyncTypeOK,
         ServerReport
    <2>2. QED
      BY <2>1 DEF QueueInv, SyncInv
  <1>4. QED
    BY <1>1, <1>2, <1>3, PTL DEF SyncSpec

=============================================================================
