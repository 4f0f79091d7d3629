--------------------------- MODULE ListingsProofs ---------------------------
(***************************************************************************)
(* Listings: for any number of workers, documents and badges, the tier a   *)
(* listing shows is that of a badge it has, a physical badge rests on a    *)
(* document badge, and, one session at a time, badges rest on documents.   *)
(*                                                                         *)
(* Gallery: for any photos, one cover and no two photos in one place.      *)
(*                                                                         *)
(* Inventory: for any unit types, rooms and beds, occupants keep their     *)
(* room, its tag and its beds.                                             *)
(***************************************************************************)
EXTENDS Listings, Gallery, Inventory, FiniteSetTheorems, FunctionTheorems,
        WellFoundedInduction, TLAPS

USE SessionsAssumption, ListingsAssumption, GalleryAssumption, InventoryAssumption

-----------------------------------------------------------------------------
(* Listings: the invariant *)

InReview == {"DRAFT", "UNDER_DOC_REVIEW"}

Student == listing.category = "OFF_CAMPUS"

\* Facts of the rows alone, however sessions overlap.
RowsOK ==
    /\ overlap \in BOOLEAN
    /\ listing \in Listing
    /\ docs    \in SUBSET DocId
    /\ badges  \in [BadgeType -> Nat]
    /\ shown   \in BOOLEAN
    /\ Student => listing.status # "UNDER_DOC_REVIEW"
    /\ TierHasBadge
    /\ PhysicalRestsOnDocument

\* What an open session will write still fits the badges: nothing revokes one.
\* A status it leaves alone says nothing.
WritesFit(r) ==
    /\ r \in Request
    /\ r.seen.category = listing.category
    /\ r.new.category = listing.category
    /\ Student => r.new.status # "UNDER_DOC_REVIEW"
    /\ r.new.status = "DOC_VERIFIED" =>
           r.seen.status = "DOC_VERIFIED" \/ badges["DOCUMENT"] > 0 \/ "DOCUMENT" \in r.issued
    /\ r.new.status = "FULLY_VERIFIED" =>
           r.seen.status = "FULLY_VERIFIED" \/ badges["PHYSICAL"] > 0 \/ "PHYSICAL" \in r.issued
    /\ "PHYSICAL" \in r.issued => badges["DOCUMENT"] > 0 \/ Student

\* Facts of the rows when sessions do not overlap: a badge takes a listing out
\* of drafting and review for good, and a listing under review has documents.
BadgesAreFinal ==
    /\ badges["DOCUMENT"] > 0 => listing.status \notin InReview /\ (docs # {} \/ Student)
    /\ listing.status = "UNDER_DOC_REVIEW" => docs # {}
    /\ \A t \in BadgeType : badges[t] <= 1

\* Without overlap, the one open session still sees the row it read, and what
\* its guards found still holds.
GuardsHold(r) ==
    /\ r.seen = listing
    /\ r.new.status \in InReview => listing.status \in InReview
    /\ r.new.status = "UNDER_DOC_REVIEW" => docs # {}
    /\ r.dropped # {} => listing.status = "DRAFT" /\ r.new = r.seen /\ r.issued = {}
    /\ "DOCUMENT" \in r.issued => r.new.status \notin InReview /\ (docs # {} \/ Student)
    /\ \A t \in r.issued : badges[t] = 0

Alone == \A v, w \in Workers : request[v] # Idle /\ request[w] # Idle => v = w

LifeInv ==
    /\ RowsOK
    /\ request \in [Workers -> Request]
    /\ \A w \in Workers : request[w] # Idle => WritesFit(request[w])
    /\ ~overlap => BadgesAreFinal /\ Alone
    /\ ~overlap => \A w \in Workers : request[w] # Idle => GuardsHold(request[w])

-----------------------------------------------------------------------------
(* Listings: sessions *)

LEMMA InitLifeInv == LifeInit => LifeInv
  <1> SUFFICES ASSUME LifeInit PROVE LifeInv
      OBVIOUS
  <1>1. overlap \in BOOLEAN /\ docs = {} /\ shown = FALSE
    BY DEF LifeInit
  <1>2. listing \in Listing /\ listing.status = "DRAFT"
    BY DEF LifeInit, Listing, Status
  <1>3. /\ badges \in [BadgeType -> Nat] /\ badges["DOCUMENT"] = 0 /\ badges["PHYSICAL"] = 0
        /\ \A t \in BadgeType : badges[t] = 0
    BY DEF LifeInit, BadgeType
  <1>4. request \in [Workers -> Request] /\ \A w \in Workers : request[w] = Idle
    BY DEF LifeInit, Request
  <1>5. RowsOK
    BY <1>1, <1>2, <1>3 DEF RowsOK, TierHasBadge, PhysicalRestsOnDocument
  <1>6. BadgesAreFinal /\ Alone
    BY <1>2, <1>3, <1>4 DEF BadgesAreFinal, Alone
  <1>7. QED
    BY <1>4, <1>5, <1>6 DEF LifeInv

\* A session nobody touches stays fit: badges only grow.
LEMMA StillFits ==
  ASSUME NEW v \in Workers, request'[v] = request[v], WritesFit(request[v]),
         listing'.category = listing.category, badges \in [BadgeType -> Nat],
         \A t \in BadgeType : badges[t] > 0 => badges'[t] > 0
  PROVE  WritesFit(request[v])'
  BY DEF WritesFit, Student, Request, BadgeType

\* Its guards hold as long as the rows stay.
LEMMA StillHolds ==
  ASSUME NEW v \in Workers, request'[v] = request[v], GuardsHold(request[v]),
         UNCHANGED <<listing, docs, badges>>
  PROVE  GuardsHold(request[v])'
  BY DEF GuardsHold, Student

\* The session an operation opens.
Session(op, new, issued, added, dropped) ==
    [op |-> op, seen |-> listing, new |-> new, issued |-> issued, added |-> added,
     dropped |-> dropped]

\* An operation keeps the invariant if its session fits the rows it read.
LEMMA OpenKeeps ==
  ASSUME LifeInv, NEW w \in Workers, NEW op, NEW new, NEW issued, NEW added, NEW dropped,
         Open(w, op, new, issued, added, dropped),
         WritesFit(Session(op, new, issued, added, dropped)),
         ~overlap => GuardsHold(Session(op, new, issued, added, dropped))
  PROVE  LifeInv'
  <1> DEFINE r == Session(op, new, issued, added, dropped)
  <1>1. /\ request' = [request EXCEPT ![w] = r]
        /\ UNCHANGED <<listing, docs, badges, shown, overlap>>
    BY DEF Open, Session
  <1>2. request \in [Workers -> Request] /\ r \in Request
    BY DEF LifeInv, WritesFit
  <1>3. \A v \in Workers : request'[v] = IF v = w THEN r ELSE request[v]
    BY <1>1, <1>2
  <1> HIDE DEF r
  <1>4. RowsOK'
    BY <1>1 DEF LifeInv, RowsOK, TierHasBadge, PhysicalRestsOnDocument, Student
  <1>5. request' \in [Workers -> Request]
    BY <1>1, <1>2
  <1>6. \A v \in Workers : request'[v] # Idle => WritesFit(request[v])'
    <2> SUFFICES ASSUME NEW v \in Workers, request'[v] # Idle PROVE WritesFit(request[v])'
        OBVIOUS
    <2>1. CASE v = w
      <3>1. WritesFit(r) /\ request'[v] = r
        BY <1>3, <2>1 DEF r
      <3>2. QED
        BY <1>1, <3>1 DEF WritesFit, Student
    <2>2. CASE v # w
      <3>1. request'[v] = request[v] /\ WritesFit(request[v])
        BY <1>3, <2>2 DEF LifeInv
      <3>2. QED
        BY <1>1, <3>1, StillFits DEF LifeInv, RowsOK
    <2>3. QED
      BY <2>1, <2>2
  <1>7. ~overlap' => BadgesAreFinal' /\ Alone'
    <2> SUFFICES ASSUME ~overlap PROVE BadgesAreFinal' /\ Alone'
        BY <1>1
    <2>1. BadgesAreFinal'
      BY <1>1 DEF LifeInv, BadgesAreFinal, Student
    <2>2. \A v \in Workers : request[v] = Idle
      BY DEF Open, MayStart
    <2>3. QED
      BY <1>3, <2>1, <2>2 DEF Alone
  <1>8. ~overlap' => \A v \in Workers : request'[v] # Idle => GuardsHold(request[v])'
    <2> SUFFICES ASSUME ~overlap, NEW v \in Workers, request'[v] # Idle
                 PROVE  GuardsHold(request[v])'
        BY <1>1
    <2>1. \A u \in Workers : request[u] = Idle
      BY DEF Open, MayStart
    <2>2. v = w /\ request'[v] = r
      BY <1>3, <2>1
    <2>3. GuardsHold(r)
      BY DEF r
    <2>4. QED
      BY <1>1, <2>2, <2>3 DEF GuardsHold, Student
  <1>9. QED
    BY <1>4, <1>5, <1>6, <1>7, <1>8 DEF LifeInv

LEMMA AbortKeeps ==
  ASSUME LifeInv, NEW w \in Workers, Abort(w)
  PROVE  LifeInv'
  <1>1. /\ request' = [request EXCEPT ![w] = Idle]
        /\ UNCHANGED <<listing, docs, badges, shown, overlap>>
    BY DEF Abort
  <1>2. request \in [Workers -> Request] /\ Idle \in Request
    BY DEF LifeInv, Request
  <1>3. \A v \in Workers : request'[v] = IF v = w THEN Idle ELSE request[v]
    BY <1>1, <1>2
  <1>4. RowsOK' /\ request' \in [Workers -> Request]
    BY <1>1, <1>2 DEF LifeInv, RowsOK, TierHasBadge, PhysicalRestsOnDocument, Student
  <1>5. \A v \in Workers : request'[v] # Idle => WritesFit(request[v])'
    <2> SUFFICES ASSUME NEW v \in Workers, request'[v] # Idle PROVE WritesFit(request[v])'
        OBVIOUS
    <2>1. request'[v] = request[v] /\ WritesFit(request[v])
      BY <1>3 DEF LifeInv
    <2>2. QED
      BY <1>1, <2>1, StillFits DEF LifeInv, RowsOK
  <1>6. ~overlap' => BadgesAreFinal' /\ Alone'
    BY <1>1, <1>3 DEF LifeInv, BadgesAreFinal, Alone, Student
  <1>7. ~overlap' => \A v \in Workers : request'[v] # Idle => GuardsHold(request[v])'
    <2> SUFFICES ASSUME ~overlap, NEW v \in Workers, request'[v] # Idle
                 PROVE  GuardsHold(request[v])'
        BY <1>1
    <2>1. request'[v] = request[v] /\ GuardsHold(request[v])
      BY <1>3 DEF LifeInv
    <2>2. QED
      BY <1>1, <2>1, StillHolds
  <1>8. QED
    BY <1>4, <1>5, <1>6, <1>7 DEF LifeInv

\* What a commit does to the columns: it writes what differs from the row read.
LEMMA CommitWrites ==
  ASSUME LifeInv, NEW w \in Workers, Commit(w)
  PROVE  /\ WritesFit(request[w])
         /\ listing' \in Listing
         /\ listing'.category = listing.category
         /\ listing'.status = Written(request[w].seen.status, request[w].new.status, listing.status)
         /\ docs' = (docs \cup request[w].added) \ request[w].dropped
         /\ badges' \in [BadgeType -> Nat]
         /\ \A t \in BadgeType : badges'[t] = badges[t] + (IF t \in request[w].issued THEN 1 ELSE 0)
         /\ \A v \in Workers : request'[v] = IF v = w THEN Idle ELSE request[v]
         /\ overlap' = overlap
  <1> DEFINE r == request[w]
  <1>1. WritesFit(r) /\ r # Idle
    BY DEF LifeInv, Commit
  <1>2. /\ r.seen \in Listing /\ r.new \in Listing /\ r.issued \subseteq BadgeType
        /\ r.added \subseteq DocId /\ r.dropped \subseteq DocId
    BY <1>1 DEF WritesFit, Request
  <1>3. listing \in Listing /\ badges \in [BadgeType -> Nat] /\ request \in [Workers -> Request]
    BY DEF LifeInv, RowsOK
  <1>4. listing' = [column \in DOMAIN listing |->
                      Written(r.seen[column], r.new[column], listing[column])]
    BY DEF Commit, WrittenRow
  <1>5. /\ listing'.status = Written(r.seen.status, r.new.status, listing.status)
        /\ listing'.category = Written(r.seen.category, r.new.category, listing.category)
        /\ listing'.complete = Written(r.seen.complete, r.new.complete, listing.complete)
        /\ listing'.deleted = Written(r.seen.deleted, r.new.deleted, listing.deleted)
        /\ DOMAIN listing' = {"status", "category", "complete", "deleted"}
    BY <1>3, <1>4 DEF Listing
  <1>6. listing' \in Listing
    <2>1. listing' = [status   |-> Written(r.seen.status, r.new.status, listing.status),
                      category |-> Written(r.seen.category, r.new.category, listing.category),
                      complete |-> Written(r.seen.complete, r.new.complete, listing.complete),
                      deleted  |-> Written(r.seen.deleted, r.new.deleted, listing.deleted)]
      BY <1>3, <1>4 DEF Listing
    <2>2. QED
      BY <1>2, <1>3, <2>1 DEF Written, Listing
  <1>7. listing'.category = listing.category
    BY <1>1, <1>5 DEF Written, WritesFit
  <1>8. /\ badges' \in [BadgeType -> Nat]
        /\ \A t \in BadgeType : badges'[t] = badges[t] + (IF t \in r.issued THEN 1 ELSE 0)
    BY <1>3 DEF Commit, Issued
  <1>9. /\ docs' = (docs \cup r.added) \ r.dropped
        /\ request' = [request EXCEPT ![w] = Idle]
        /\ overlap' = overlap
    BY DEF Commit
  <1>10. QED
    BY <1>1, <1>3, <1>5, <1>6, <1>7, <1>8, <1>9

LEMMA CommitKeeps ==
  ASSUME LifeInv, NEW w \in Workers, Commit(w)
  PROVE  LifeInv'
  <1> DEFINE r == request[w]
  <1>1. /\ WritesFit(r)
        /\ listing' \in Listing
        /\ listing'.category = listing.category
        /\ listing'.status = Written(r.seen.status, r.new.status, listing.status)
        /\ docs' = (docs \cup r.added) \ r.dropped
        /\ badges' \in [BadgeType -> Nat]
        /\ \A t \in BadgeType : badges'[t] = badges[t] + (IF t \in r.issued THEN 1 ELSE 0)
        /\ \A v \in Workers : request'[v] = IF v = w THEN Idle ELSE request[v]
        /\ overlap' = overlap
    BY CommitWrites
  <1>2. r # Idle /\ r \in Request /\ r.issued \subseteq BadgeType /\ r.added \subseteq DocId
    BY <1>1 DEF Commit, WritesFit, Request
  <1>3. /\ badges["DOCUMENT"] \in Nat /\ badges["PHYSICAL"] \in Nat
        /\ badges'["DOCUMENT"] = badges["DOCUMENT"] + (IF "DOCUMENT" \in r.issued THEN 1 ELSE 0)
        /\ badges'["PHYSICAL"] = badges["PHYSICAL"] + (IF "PHYSICAL" \in r.issued THEN 1 ELSE 0)
    BY <1>1 DEF LifeInv, RowsOK, BadgeType
  <1>4. Student' <=> Student
    BY <1>1 DEF Student
  <1> HIDE DEF r
  <1>5. RowsOK'
    <2>1. Student' => listing'.status # "UNDER_DOC_REVIEW"
      BY <1>1, <1>4 DEF Written, WritesFit, LifeInv, RowsOK
    <2>2. TierHasBadge'
      BY <1>1, <1>3 DEF Written, WritesFit, LifeInv, RowsOK, TierHasBadge
    <2>3. PhysicalRestsOnDocument'
      BY <1>1, <1>3 DEF WritesFit, Student, LifeInv, RowsOK, PhysicalRestsOnDocument
    <2>4. shown' \in BOOLEAN
      BY DEF Commit, LifeInv, RowsOK
    <2>5. docs' \in SUBSET DocId
      BY <1>1, <1>2 DEF LifeInv, RowsOK
    <2>6. QED
      BY <1>1, <2>1, <2>2, <2>3, <2>4, <2>5 DEF LifeInv, RowsOK
  <1>6. request' \in [Workers -> Request]
    BY DEF Commit, LifeInv, Request
  <1>7. \A v \in Workers : request'[v] # Idle => WritesFit(request[v])'
    <2> SUFFICES ASSUME NEW v \in Workers, request'[v] # Idle PROVE WritesFit(request[v])'
        OBVIOUS
    <2>1. request'[v] = request[v] /\ WritesFit(request[v])
      BY <1>1 DEF LifeInv
    <2>2. \A t \in BadgeType : badges[t] > 0 => badges'[t] > 0
      BY <1>3 DEF BadgeType
    <2>3. QED
      BY <1>1, <2>1, <2>2, StillFits DEF LifeInv, RowsOK
  <1>8. ~overlap' => BadgesAreFinal' /\ Alone'
    <2> SUFFICES ASSUME ~overlap PROVE BadgesAreFinal' /\ Alone'
        BY <1>1
    <2>1. GuardsHold(r) /\ BadgesAreFinal
      BY <1>2 DEF LifeInv, r
    <2>2. listing'.status = r.new.status
      BY <1>1, <2>1 DEF Written, GuardsHold
    <2>3. (badges["DOCUMENT"] > 0)' => listing'.status \notin InReview /\ (docs' # {} \/ Student')
      BY <1>1, <1>3, <1>4, <2>1, <2>2 DEF GuardsHold, BadgesAreFinal, InReview
    <2>4. listing'.status = "UNDER_DOC_REVIEW" => docs' # {}
      BY <1>1, <2>1, <2>2 DEF GuardsHold, BadgesAreFinal
    <2>5. \A t \in BadgeType : badges'[t] <= 1
      BY <1>1, <2>1 DEF GuardsHold, BadgesAreFinal, LifeInv, RowsOK
    <2>6. Alone'
      BY <1>1 DEF LifeInv, Alone
    <2>7. QED
      BY <2>3, <2>4, <2>5, <2>6 DEF BadgesAreFinal, InReview
  <1>9. ~overlap' => \A v \in Workers : request'[v] # Idle => GuardsHold(request[v])'
    BY <1>1, <1>2 DEF LifeInv, Alone, r
  <1>10. QED
    BY <1>5, <1>6, <1>7, <1>8, <1>9 DEF LifeInv

-----------------------------------------------------------------------------
(* Listings: operations *)

\* The operations that only write columns of the listing.
LEMMA ChangeKeeps ==
  ASSUME LifeInv, NEW w \in Workers, NEW op \in Operation, NEW new \in Listing,
         Change(w, op, new),
         new.category = listing.category,
         Student => new.status # "UNDER_DOC_REVIEW",
         new.status = "DOC_VERIFIED" => listing.status = "DOC_VERIFIED" \/ badges["DOCUMENT"] > 0,
         new.status = "FULLY_VERIFIED" =>
             listing.status = "FULLY_VERIFIED" \/ badges["PHYSICAL"] > 0,
         new.status \in InReview => listing.status \in InReview,
         ~overlap /\ new.status = "UNDER_DOC_REVIEW" => docs # {}
  PROVE  LifeInv'
  <1> DEFINE r == Session(op, new, {}, {}, {})
  <1>1. listing \in Listing
    BY DEF LifeInv, RowsOK
  <1>2. r \in Request
    BY <1>1 DEF Session, Request
  <1>3. /\ r.seen = listing /\ r.new = new /\ r.issued = {} /\ r.added = {} /\ r.dropped = {}
    BY DEF Session
  <1> HIDE DEF r
  <1>4. WritesFit(r)
    BY <1>2, <1>3 DEF WritesFit
  <1>5. GuardsHold(r) \/ overlap
    BY <1>3 DEF GuardsHold
  <1>6. QED
    BY <1>4, <1>5, OpenKeeps DEF Change, r

\* The status a handler gives, and the columns it leaves alone.
LEMMA StatusOnly ==
  ASSUME LifeInv, NEW status \in Status
  PROVE  /\ [listing EXCEPT !.status = status] \in Listing
         /\ [listing EXCEPT !.status = status].status = status
         /\ [listing EXCEPT !.status = status].category = listing.category
  BY DEF LifeInv, RowsOK, Listing

\* Every operation that leaves the review alone and claims no tier.
Modest == {"DRAFT", "LIVE_UNVERIFIED", "SUSPENDED", "DELISTED", "AGREED"}

LEMMA StatusKeeps ==
  ASSUME LifeInv, NEW w \in Workers, NEW op \in Operation, NEW status \in Modest,
         Change(w, op, [listing EXCEPT !.status = status]),
         status = "DRAFT" => listing.status \in InReview
  PROVE  LifeInv'
  <1>1. status \in Status /\ status \notin {"UNDER_DOC_REVIEW", "DOC_VERIFIED", "FULLY_VERIFIED"}
    BY DEF Modest, Status, Public
  <1>2. QED
    BY <1>1, StatusOnly, ChangeKeeps DEF InReview, Modest

\* Operations on other columns.
LEMMA CompleteKeeps ==
  ASSUME LifeInv, NEW w \in Workers, NEW op \in Operation, NEW c \in BOOLEAN,
         Change(w, op, [listing EXCEPT !.complete = c])
  PROVE  LifeInv'
  <1>1. /\ [listing EXCEPT !.complete = c] \in Listing
        /\ [listing EXCEPT !.complete = c].status = listing.status
        /\ [listing EXCEPT !.complete = c].category = listing.category
    BY DEF LifeInv, RowsOK, Listing
  <1>2. ~overlap /\ listing.status = "UNDER_DOC_REVIEW" => docs # {}
    BY DEF LifeInv, BadgesAreFinal
  <1>3. Student => listing.status # "UNDER_DOC_REVIEW"
    BY DEF LifeInv, RowsOK
  <1>4. QED
    BY <1>1, <1>2, <1>3, ChangeKeeps

LEMMA UpdateDraftKeeps ==
  ASSUME LifeInv, NEW w \in Workers, UpdateDraft(w) PROVE LifeInv'
  BY CompleteKeeps DEF UpdateDraft, Operation

LEMMA EditKeeps ==
  ASSUME LifeInv, NEW w \in Workers, Edit(w) PROVE LifeInv'
  BY CompleteKeeps DEF Edit, Operation

LEMMA SetShortLetPricingKeeps ==
  ASSUME LifeInv, NEW w \in Workers, SetShortLetPricing(w) PROVE LifeInv'
  <1>1. listing.complete \in BOOLEAN
    BY DEF LifeInv, RowsOK, Listing
  <1>2. QED
    BY <1>1, CompleteKeeps DEF SetShortLetPricing, Operation

LEMMA SubmitKeeps ==
  ASSUME LifeInv, NEW w \in Workers, Submit(w) PROVE LifeInv'
  <1>1. /\ listing.status = "DRAFT" /\ IsReady
        /\ Change(w, "submit", [listing EXCEPT !.status = StatusAfterSubmission])
    BY DEF Submit
  <1>2. CASE ReviewRequired /\ ~Exempt
    <2>1. StatusAfterSubmission = "UNDER_DOC_REVIEW" /\ docs # {} /\ ~Student
      BY <1>1, <1>2 DEF StatusAfterSubmission, IsReady, Exempt, Student
    <2>2. "UNDER_DOC_REVIEW" \in Status /\ "submit" \in Operation
      BY DEF Status, Operation
    <2>3. QED
      BY <1>1, <2>1, <2>2, StatusOnly, ChangeKeeps DEF InReview
  <1>3. CASE ~(ReviewRequired /\ ~Exempt)
    <2>1. StatusAfterSubmission = "LIVE_UNVERIFIED"
      BY <1>3 DEF StatusAfterSubmission
    <2>2. QED
      BY <1>1, <2>1, StatusKeeps DEF Modest, Operation
  <1>4. QED
    BY <1>2, <1>3

LEMMA RegisterDocumentKeeps ==
  ASSUME LifeInv, NEW w \in Workers, RegisterDocument(w) PROVE LifeInv'
  <1>1. PICK d \in DocId \ docs : Open(w, "register_document", listing, {}, {d}, {})
    BY DEF RegisterDocument
  <1> DEFINE r == Session("register_document", listing, {}, {d}, {})
  <1>2. /\ r.seen = listing /\ r.new = listing /\ r.issued = {} /\ r.dropped = {}
        /\ r \in Request
    BY DEF LifeInv, RowsOK, Session, Request, Operation
  <1> HIDE DEF r
  <1>3. WritesFit(r)
    BY <1>2 DEF WritesFit, LifeInv, RowsOK
  <1>4. ~overlap => GuardsHold(r)
    BY <1>2 DEF GuardsHold, LifeInv, BadgesAreFinal
  <1>5. QED
    BY <1>1, <1>3, <1>4, OpenKeeps DEF r

\* Only a draft's documents are dropped.
LEMMA DeleteDocumentKeeps ==
  ASSUME LifeInv, NEW w \in Workers, DeleteDocument(w) PROVE LifeInv'
  <1>1. PICK d \in docs : Open(w, "delete_document", listing, {}, {}, {d})
    BY DEF DeleteDocument
  <1>2. listing.status = "DRAFT"
    BY DEF DeleteDocument, MayDropDocuments
  <1> DEFINE r == Session("delete_document", listing, {}, {}, {d})
  <1>3. /\ r.seen = listing /\ r.new = listing /\ r.issued = {}
        /\ r \in Request
    BY DEF LifeInv, RowsOK, Session, Request, Operation
  <1> HIDE DEF r
  <1>4. WritesFit(r)
    BY <1>3 DEF WritesFit, LifeInv, RowsOK
  <1>5. ~overlap => GuardsHold(r)
    BY <1>2, <1>3 DEF GuardsHold, LifeInv, BadgesAreFinal
  <1>6. QED
    BY <1>1, <1>4, <1>5, OpenKeeps DEF r

\* A review ends the only way into a document badge without an award.
LEMMA ApproveDocKeeps ==
  ASSUME LifeInv, NEW w \in Workers, ApproveDoc(w) PROVE LifeInv'
  <1> DEFINE new == [listing EXCEPT !.status = "DOC_VERIFIED"]
             r == Session("approve_doc", new, {"DOCUMENT"}, {}, {})
  <1>1. listing.status = "UNDER_DOC_REVIEW" /\ Open(w, "approve_doc", new, {"DOCUMENT"}, {}, {})
    BY DEF ApproveDoc, AwaitsDocReview
  <1>2. /\ new \in Listing /\ new.status = "DOC_VERIFIED" /\ new.category = listing.category
    BY StatusOnly DEF Status, Public
  <1> HIDE DEF new
  <1>3. /\ r.seen = listing /\ r.new = new /\ r.issued = {"DOCUMENT"} /\ r.dropped = {}
        /\ r \in Request
    BY <1>2 DEF LifeInv, RowsOK, Session, Request, Operation, BadgeType
  <1> HIDE DEF r
  <1>4. WritesFit(r)
    BY <1>2, <1>3 DEF WritesFit, LifeInv, RowsOK
  <1>5. ~overlap => GuardsHold(r)
    <2> SUFFICES ASSUME ~overlap PROVE GuardsHold(r)
        OBVIOUS
    <2>1. docs # {} /\ ~(badges["DOCUMENT"] > 0) /\ badges["DOCUMENT"] \in Nat
      BY <1>1 DEF LifeInv, BadgesAreFinal, InReview, RowsOK, BadgeType
    <2>2. QED
      BY <1>2, <1>3, <2>1 DEF GuardsHold, InReview
  <1>6. QED
    BY <1>1, <1>4, <1>5, OpenKeeps DEF r

LEMMA QueryDocKeeps ==
  ASSUME LifeInv, NEW w \in Workers, QueryDoc(w) PROVE LifeInv'
  BY StatusKeeps DEF QueryDoc, AwaitsDocReview, Modest, Operation, InReview

LEMMA RejectDocKeeps ==
  ASSUME LifeInv, NEW w \in Workers, RejectDoc(w) PROVE LifeInv'
  BY StatusKeeps DEF RejectDoc, Modest, Operation

\* The status is the tier of the badges there will be.
LEMMA AwardDocumentBadgeKeeps ==
  ASSUME LifeInv, NEW w \in Workers, AwardDocumentBadge(w) PROVE LifeInv'
  <1> DEFINE status == PublicStatusFromBadges(TRUE, Has("PHYSICAL"))
             new == [listing EXCEPT !.status = status]
             r == Session("award_document_badge", new, {"DOCUMENT"}, {}, {})
  <1>1. /\ badges["DOCUMENT"] = 0 /\ HasDocuments
        /\ Open(w, "award_document_badge", new, {"DOCUMENT"}, {}, {})
    BY DEF AwardDocumentBadge
  <1>2. /\ status \in {"DOC_VERIFIED", "FULLY_VERIFIED"}
        /\ status = "FULLY_VERIFIED" => badges["PHYSICAL"] > 0
    BY DEF PublicStatusFromBadges, Has
  <1> HIDE DEF status
  <1>3. new \in Listing /\ new.status = status /\ new.category = listing.category
    BY <1>2, StatusOnly DEF Status, Public
  <1> HIDE DEF new
  <1>4. /\ r.seen = listing /\ r.new = new /\ r.issued = {"DOCUMENT"} /\ r.dropped = {}
        /\ r \in Request
    BY <1>3 DEF LifeInv, RowsOK, Session, Request, Operation, BadgeType
  <1> HIDE DEF r
  <1>5. WritesFit(r)
    BY <1>2, <1>3, <1>4 DEF WritesFit, LifeInv, RowsOK
  <1>6. ~overlap => GuardsHold(r)
    BY <1>1, <1>2, <1>3, <1>4 DEF GuardsHold, InReview, HasDocuments, Exempt, Student
  <1>7. QED
    BY <1>1, <1>5, <1>6, OpenKeeps DEF r, new, status

LEMMA AwardPhysicalBadgeKeeps ==
  ASSUME LifeInv, NEW w \in Workers, AwardPhysicalBadge(w) PROVE LifeInv'
  <1> DEFINE new == [listing EXCEPT !.status = "FULLY_VERIFIED"]
             r == Session("award_physical_badge", new, {"PHYSICAL"}, {}, {})
  <1>1. /\ badges["PHYSICAL"] = 0
        /\ badges["DOCUMENT"] > 0 \/ Student
        /\ Open(w, "award_physical_badge", new, {"PHYSICAL"}, {}, {})
    BY DEF AwardPhysicalBadge, HasDocumentBadge, Has, Exempt, Student
  <1>2. new \in Listing /\ new.status = "FULLY_VERIFIED" /\ new.category = listing.category
    BY StatusOnly DEF Status, Public
  <1> HIDE DEF new
  <1>3. /\ r.seen = listing /\ r.new = new /\ r.issued = {"PHYSICAL"} /\ r.dropped = {}
        /\ r \in Request
    BY <1>2 DEF LifeInv, RowsOK, Session, Request, Operation, BadgeType
  <1> HIDE DEF r
  <1>4. WritesFit(r)
    BY <1>1, <1>2, <1>3 DEF WritesFit, LifeInv, RowsOK
  <1>5. ~overlap => GuardsHold(r)
    BY <1>1, <1>2, <1>3 DEF GuardsHold, InReview
  <1>6. QED
    BY <1>1, <1>4, <1>5, OpenKeeps DEF r, new

LEMMA PublishKeeps ==
  ASSUME LifeInv, NEW w \in Workers, Publish(w) PROVE LifeInv'
  <1> DEFINE status == PublicStatusFromBadges(Has("DOCUMENT"), Has("PHYSICAL"))
  <1>1. Change(w, "publish", [listing EXCEPT !.status = status])
    BY DEF Publish
  <1>2. /\ status \in {"LIVE_UNVERIFIED", "DOC_VERIFIED", "FULLY_VERIFIED"}
        /\ status = "DOC_VERIFIED" => badges["DOCUMENT"] > 0
        /\ status = "FULLY_VERIFIED" => badges["PHYSICAL"] > 0
    BY DEF PublicStatusFromBadges, Has
  <1> HIDE DEF status
  <1>3. status \in Status /\ "publish" \in Operation
    BY <1>2 DEF Status, Public, Operation
  <1>4. QED
    BY <1>1, <1>2, <1>3, StatusOnly, ChangeKeeps DEF InReview

LEMMA SuspendKeeps ==
  ASSUME LifeInv, NEW w \in Workers, Suspend(w) PROVE LifeInv'
  BY StatusKeeps DEF Suspend, Modest, Operation

LEMMA RestoreKeeps ==
  ASSUME LifeInv, NEW w \in Workers, Restore(w) PROVE LifeInv'
  BY StatusKeeps DEF Restore, RestoredStatus, Modest, Operation

LEMMA SoftDeleteKeeps ==
  ASSUME LifeInv, NEW w \in Workers, SoftDelete(w) PROVE LifeInv'
  <1> DEFINE new == [listing EXCEPT !.status = "DELISTED", !.deleted = TRUE]
  <1>1. new \in Listing /\ new.status = "DELISTED" /\ new.category = listing.category
    BY DEF LifeInv, RowsOK, Listing, Status
  <1>2. Change(w, "soft_delete", new)
    BY DEF SoftDelete
  <1> HIDE DEF new
  <1>3. QED
    BY <1>1, <1>2, ChangeKeeps DEF InReview, Operation

LEMMA ConfirmPaymentKeeps ==
  ASSUME LifeInv, NEW w \in Workers, ConfirmPayment(w) PROVE LifeInv'
  BY StatusKeeps DEF ConfirmPayment, Modest, Operation

LEMMA FlagVisitReportKeeps ==
  ASSUME LifeInv, NEW w \in Workers, FlagVisitReport(w) PROVE LifeInv'
  BY StatusKeeps DEF FlagVisitReport, Modest, Operation

-----------------------------------------------------------------------------
(* Listings: the theorems *)

\* The inductive invariant: what an open session of listings/service.py or
\* admin/service.py will write fits the badges, however sessions overlap.
THEOREM LifeInvariance == LifeSpec => []LifeInv
  <1>1. LifeInit => LifeInv
    BY InitLifeInv
  <1>2. LifeInv /\ [LifeNext]_lifeVars => LifeInv'
    <2> SUFFICES ASSUME LifeInv, [LifeNext]_lifeVars PROVE LifeInv'
        OBVIOUS
    <2>1. CASE UNCHANGED lifeVars
      BY <2>1 DEF lifeVars, LifeInv, RowsOK, WritesFit, BadgesAreFinal, GuardsHold, Alone,
         TierHasBadge, PhysicalRestsOnDocument, Student, Request
    <2>2. ASSUME NEW w \in Workers, ByOwner(w) PROVE LifeInv'
      BY <2>2, UpdateDraftKeeps, SubmitKeeps, SetShortLetPricingKeeps, RegisterDocumentKeeps,
         DeleteDocumentKeeps DEF ByOwner
    <2>3. ASSUME NEW w \in Workers, ByAdmin(w) PROVE LifeInv'
      BY <2>3, ApproveDocKeeps, QueryDocKeeps, RejectDocKeeps, AwardDocumentBadgeKeeps,
         AwardPhysicalBadgeKeeps, PublishKeeps, EditKeeps, SuspendKeeps, RestoreKeeps,
         SoftDeleteKeeps DEF ByAdmin
    <2>4. ASSUME NEW w \in Workers, ByOthers(w) PROVE LifeInv'
      BY <2>4, ConfirmPaymentKeeps, FlagVisitReportKeeps DEF ByOthers
    <2>5. QED
      BY <2>1, <2>2, <2>3, <2>4, CommitKeeps, AbortKeeps DEF LifeNext
  <1>3. QED
    BY <1>1, <1>2, PTL DEF LifeSpec

\* A listing shows a tier only with its badge, a physical badge rests on a
\* document badge, and, one session at a time, a document badge on documents
\* (admin/service.py, verification/badges.py).
THEOREM TiersRestOnBadges == LifeSpec => []ListingsInv
  <1>1. LifeInv => ListingsInv
    <2> SUFFICES ASSUME LifeInv PROVE ListingsInv
        OBVIOUS
    <2>1. LifeTypeOK /\ TierHasBadge /\ PhysicalRestsOnDocument
      BY DEF LifeInv, RowsOK, LifeTypeOK, Student
    <2>2. BadgeRestsOnDocuments /\ OneBadgePerType
      BY DEF LifeInv, BadgesAreFinal, BadgeRestsOnDocuments, OneBadgePerType, Student
    <2>3. QED
      BY <2>1, <2>2 DEF ListingsInv
  <1>2. QED
    BY <1>1, LifeInvariance, PTL

-----------------------------------------------------------------------------
(* Gallery: places *)

LaterThan(S, x) == {y \in S : y > x}

LEMMA LaterIsSmaller ==
  ASSUME NEW S, S \subseteq Int, NEW x \in S, NEW y \in S, y > x
  PROVE  /\ LaterThan(S, y) \subseteq LaterThan(S, x)
         /\ y \in LaterThan(S, x) \ LaterThan(S, y)
  <1>1. x \in Int /\ y \in Int
    OBVIOUS
  <1>2. ASSUME NEW z \in S, z > y PROVE z > x
    <2>1. z \in Int
      OBVIOUS
    <2>2. QED
      BY <1>1, <1>2, <2>1
  <1>3. LaterThan(S, y) \subseteq LaterThan(S, x)
    BY <1>2 DEF LaterThan
  <1>4. y \in LaterThan(S, x) /\ y \notin LaterThan(S, y)
    BY <1>1 DEF LaterThan
  <1>5. QED
    BY <1>3, <1>4

\* A finite set of places has a last one: of the sets of later places, one is
\* minimal, and only the empty one can be.
LEMMA LastExists ==
  ASSUME NEW S, IsFiniteSet(S), S # {}, S \subseteq Int
  PROVE  \E x \in S : \A y \in S : x >= y
  <1> DEFINE T == {LaterThan(S, x) : x \in S}
  <1>1. T \subseteq FiniteSubsetsOf(S) /\ T # {}
    <2>1. ASSUME NEW U \in SUBSET S PROVE IsFiniteSet(U)
      BY FS_Subset
    <2>2. ASSUME NEW x \in S PROVE LaterThan(S, x) \in SUBSET S
      BY DEF LaterThan
    <2>3. ASSUME NEW x \in S PROVE LaterThan(S, x) \in FiniteSubsetsOf(S)
      BY <2>1, <2>2 DEF FiniteSubsetsOf
    <2>4. QED
      BY <2>3
  <1>2. IsWellFoundedOn(StrictSubsetOrdering(S), FiniteSubsetsOf(S))
    BY FS_StrictSubsetOrderingWellFounded
  <1>3. PICK L \in T : \A K \in T : ~(<<K, L>> \in StrictSubsetOrdering(S))
    <2> HIDE DEF T
    <2> QED BY <1>1, <1>2, WFMin
  <1>4. PICK x \in S : L = LaterThan(S, x)
    OBVIOUS
  <1>5. \A y \in S : ~(y > x)
    <2> SUFFICES ASSUME NEW y \in S, y > x PROVE FALSE
        OBVIOUS
    <2>1. LaterThan(S, y) \in T
      OBVIOUS
    <2>2. LaterThan(S, y) \subseteq L /\ LaterThan(S, y) # L
      BY <1>4, LaterIsSmaller
    <2>3. L \in SUBSET S
      BY <1>4 DEF LaterThan
    <2>4. <<LaterThan(S, y), L>> \in StrictSubsetOrdering(S)
      BY <2>2, <2>3 DEF StrictSubsetOrdering
    <2>5. QED
      BY <1>3, <2>1, <2>4
  <1>6. QED
    BY <1>5

LEMMA LastOfPlaces ==
  ASSUME NEW S, IsFiniteSet(S), S # {}, S \subseteq Int
  PROVE  /\ Max(S) \in S
         /\ \A y \in S : Max(S) >= y
  BY LastExists DEF Max

\* The image of a finite set is finite.
LEMMA ImageIsFinite ==
  ASSUME NEW S, IsFiniteSet(S), NEW T, NEW f \in [S -> T],
         NEW image, \A x \in S : f[x] \in image, \A y \in image : \E x \in S : f[x] = y
  PROVE  IsFiniteSet(image)
  <1>1. f \in [S -> image]
    OBVIOUS
  <1>2. f \in Surjection(S, image)
    BY <1>1, Fun_IsSurj
  <1>3. QED
    BY <1>2, FS_Surjection

\* And a first one.
LEMMA FirstExists ==
  ASSUME NEW S, IsFiniteSet(S), S # {}, NEW f \in [S -> Int]
  PROVE  \E x \in S : \A y \in S : f[x] <= f[y]
  <1>1. PICK mirror \in [S -> Int] : \A x \in S : mirror[x] = 0 - f[x]
    <2>1. [x \in S |-> 0 - f[x]] \in [S -> Int]
      OBVIOUS
    <2>2. QED
      BY <2>1
  <1> DEFINE M == {mirror[x] : x \in S}
  <1>2. M # {} /\ M \subseteq Int
    BY <1>1
  <1>3. (\A x \in S : mirror[x] \in M) /\ (\A y \in M : \E x \in S : mirror[x] = y)
    OBVIOUS
  <1>4. PICK m \in M : \A k \in M : m >= k
    <2> HIDE DEF M
    <2>1. IsFiniteSet(M)
      BY <1>3, ImageIsFinite
    <2>2. QED
      BY <1>2, <2>1, LastExists
  <1>5. PICK x \in S : m = mirror[x]
    OBVIOUS
  <1>6. ASSUME NEW y \in S PROVE f[x] <= f[y]
    <2>1. mirror[x] >= mirror[y]
      BY <1>4, <1>5
    <2>2. f[x] \in Int /\ f[y] \in Int
      OBVIOUS
    <2>3. QED
      BY <1>1, <2>1, <2>2
  <1>7. QED
    BY <1>6

-----------------------------------------------------------------------------
(* Gallery: the invariant *)

GalleryInv ==
    /\ IsFiniteSet(photos)
    /\ order \in [photos -> Int]
    /\ \A p, q \in photos : order[p] = order[q] => p = q
    /\ photos = {} => cover = {}
    /\ photos # {} => \E p \in photos : cover = {p}

LEMMA InitGalleryInv == GalleryInit => GalleryInv
  BY FS_EmptySet DEF GalleryInit, GalleryInv

LEMMA RegisterPhotoKeeps ==
  ASSUME GalleryInv, RegisterPhoto PROVE GalleryInv'
  <1>1. PICK p \in PhotoId \ photos :
            /\ photos' = photos \cup {p}
            /\ order'  = [q \in photos' |-> IF q = p THEN NextOrder ELSE order[q]]
            /\ cover'  = IF photos = {} THEN {p} ELSE cover
    BY DEF RegisterPhoto
  <1>2. NextOrder \in Int /\ \A q \in photos : order[q] < NextOrder
    <2>1. CASE photos = {}
      BY <2>1 DEF NextOrder
    <2>2. CASE photos # {}
      <3> DEFINE places == {order[q] : q \in photos}
      <3>1. IsFiniteSet(places) /\ places # {} /\ places \subseteq Int
        <4>1. (\A q \in photos : order[q] \in places) /\ (\A y \in places : \E q \in photos : order[q] = y)
          OBVIOUS
        <4>2. places # {} /\ places \subseteq Int
          BY <2>2 DEF GalleryInv
        <4>3. IsFiniteSet(photos) /\ order \in [photos -> Int]
          BY DEF GalleryInv
        <4>4. IsFiniteSet(places)
          <5> HIDE DEF places
          <5> QED BY <4>1, <4>3, ImageIsFinite
        <4>5. QED
          BY <4>2, <4>4
      <3>2. Max(places) \in places /\ \A y \in places : Max(places) >= y
        <4> HIDE DEF places
        <4> QED BY <3>1, LastOfPlaces
      <3>3. NextOrder = Max(places) + 1
        BY <2>2 DEF NextOrder
      <3> DEFINE m == Max(places)
      <3>4. m \in Int /\ NextOrder = m + 1 /\ \A q \in photos : order[q] <= m /\ order[q] \in Int
        BY <3>1, <3>2, <3>3
      <3> HIDE DEF m
      <3>5. QED
        BY <3>4
    <2>3. QED
      BY <2>1, <2>2
  <1>3. IsFiniteSet(photos')
    BY <1>1, FS_AddElement DEF GalleryInv
  <1>4. order' \in [photos' -> Int] /\ \A q, r \in photos' : order'[q] = order'[r] => q = r
    BY <1>1, <1>2 DEF GalleryInv
  <1>5. QED
    BY <1>1, <1>3, <1>4 DEF GalleryInv

LEMMA MakeCoverKeeps ==
  ASSUME GalleryInv, MakeCover PROVE GalleryInv'
  BY DEF GalleryInv, MakeCover

\* The photo that is promoted is the only first one.
LEMMA DeletePhotoKeeps ==
  ASSUME GalleryInv, DeletePhoto PROVE GalleryInv'
  <1>1. PICK p \in photos :
            /\ photos' = photos \ {p}
            /\ order'  = [q \in photos' |-> order[q]]
            /\ cover'  = PromotedCover(p)
    BY DEF DeletePhoto
  <1>2. IsFiniteSet(photos')
    BY <1>1, FS_RemoveElement DEF GalleryInv
  <1>3. order' \in [photos' -> Int] /\ \A q, r \in photos' : order'[q] = order'[r] => q = r
    BY <1>1 DEF GalleryInv
  <1> DEFINE first == {q \in photos' : \A r \in photos' : order[q] <= order[r]}
  <1>4. cover' = IF p \in cover THEN first ELSE cover
    BY <1>1 DEF PromotedCover
  <1>5. photos' = {} => cover' = {}
    BY <1>1, <1>4 DEF GalleryInv
  <1>6. photos' # {} => \E q \in photos' : cover' = {q}
    <2> SUFFICES ASSUME photos' # {} PROVE \E q \in photos' : cover' = {q}
        OBVIOUS
    <2>1. PICK q \in photos' : \A r \in photos' : order'[q] <= order'[r]
      BY <1>2, <1>3, FirstExists
    <2>2. \A r \in photos' : order'[r] = order[r] /\ order[r] \in Int
      BY <1>1, <1>3
    <2>3. first = {q}
      BY <2>1, <2>2, <1>3
    <2>4. CASE p \in cover
      BY <2>3, <2>4, <1>4
    <2>5. CASE p \notin cover
      BY <2>5, <1>1, <1>4 DEF GalleryInv
    <2>6. QED
      BY <2>4, <2>5
  <1>7. QED
    BY <1>2, <1>3, <1>5, <1>6 DEF GalleryInv

\* The last place a photo is named at is nobody else's.
LEMMA ReorderPhotosKeeps ==
  ASSUME GalleryInv, ReorderPhotos PROVE GalleryInv'
  <1>0. PICK n \in Cardinality(photos) .. Cardinality(photos) + 1 :
            \E ordered \in [1 .. n -> photos] :
                /\ {ordered[i] : i \in 1 .. n} = photos
                /\ order' = [p \in photos |-> Max({i \in 1 .. n : ordered[i] = p}) - 1]
                /\ UNCHANGED <<photos, cover>>
    BY DEF ReorderPhotos
  <1>1. PICK ordered \in [1 .. n -> photos] :
            /\ {ordered[i] : i \in 1 .. n} = photos
            /\ order' = [p \in photos |-> Max({i \in 1 .. n : ordered[i] = p}) - 1]
            /\ UNCHANGED <<photos, cover>>
    BY <1>0
  <1> DEFINE Places(p) == {i \in 1 .. n : ordered[i] = p}
             Last(p) == Max(Places(p))
  <1>2. n \in Int
    BY <1>0, FS_CardinalityType DEF GalleryInv
  <1>3. ASSUME NEW p \in photos PROVE Last(p) \in 1 .. n /\ ordered[Last(p)] = p
    <2>1. Places(p) \subseteq 1 .. n /\ IsFiniteSet(1 .. n)
      BY <1>2, FS_Interval
    <2>2. IsFiniteSet(Places(p)) /\ Places(p) \subseteq Int
      BY <2>1, <1>2, FS_Subset
    <2>3. Places(p) # {}
      BY <1>1
    <2>4. Last(p) \in Places(p)
      <3> HIDE DEF Places
      <3> QED BY <2>2, <2>3, LastOfPlaces
    <2>5. QED
      BY <2>4
  <1>4. \A p \in photos : order'[p] = Last(p) - 1
    BY <1>1
  <1>5. \A p \in photos : Last(p) \in Int /\ ordered[Last(p)] = p
    BY <1>2, <1>3
  <1>6. order' \in [photos -> Int]
    <2>1. order' = [p \in photos |-> Last(p) - 1]
      BY <1>1
    <2> HIDE DEF Last
    <2>2. QED
      BY <2>1, <1>5
  <1>7. \A p, q \in photos : order'[p] = order'[q] => p = q
    <2> HIDE DEF Last
    <2> SUFFICES ASSUME NEW p \in photos, NEW q \in photos, order'[p] = order'[q] PROVE p = q
        OBVIOUS
    <2>1. Last(p) = Last(q)
      BY <1>4, <1>5
    <2>2. QED
      BY <2>1, <1>5
  <1>8. QED
    BY <1>1, <1>6, <1>7 DEF GalleryInv

-----------------------------------------------------------------------------
(* Gallery: the theorem *)

\* One cover, and no two photos in one place, for any photos, through
\* registrations, deletions and reorderings (listings/service.py).
THEOREM CoverAndOrder == GallerySpec => []OneCoverDistinctOrder
  <1>1. GalleryInit => GalleryInv
    BY InitGalleryInv
  <1>2. GalleryInv /\ [GalleryNext]_galleryVars => GalleryInv'
    <2>1. GalleryInv /\ UNCHANGED galleryVars => GalleryInv'
      BY DEF galleryVars, GalleryInv
    <2>2. QED
      BY <2>1, RegisterPhotoKeeps, MakeCoverKeeps, DeletePhotoKeeps, ReorderPhotosKeeps
         DEF GalleryNext
  <1>3. GalleryInv => OneCoverDistinctOrder
    BY FS_Singleton DEF GalleryInv, OneCoverDistinctOrder
  <1>4. QED
    BY <1>1, <1>2, <1>3, PTL DEF GallerySpec

-----------------------------------------------------------------------------
(* Inventory: the invariant *)

Updates(w) == booking[w].op = "update_room"
Deletes(w) == booking[w].op = "delete_unit_type"

KeepsOccupants(old, new) ==
    Occupied(old) => new.tag = old.tag /\ new.total >= old.total - old.available

\* However sessions overlap, what one computed for a room is in range and in
\* the same unit.  Without overlap, the row is still the one it read, and
\* nobody has moved into the unit type that is being deleted.
RoomsInv ==
    /\ overlap \in BOOLEAN
    /\ InventoryTypeOK
    /\ \A w \in Workers : Updates(w) => booking[w].new.unit = booking[w].seen.unit
    /\ ~overlap =>
         /\ \A v, w \in Workers : booking[v] # Idle /\ booking[w] # Idle => v = w
         /\ \A w \in Workers : Updates(w) => /\ rooms[booking[w].room] = booking[w].seen
                                             /\ KeepsOccupants(booking[w].seen, booking[w].new)
         /\ \A w \in Workers : Deletes(w) => IsEmptyUnit(booking[w].unit)

\* What OccupantsAreSafe says of one step.
OccupantsStay ==
    ~overlap => \A r \in RoomId :
        rooms[r] # Absent /\ Occupied(rooms[r]) =>
            /\ rooms'[r] # Absent
            /\ rooms'[r].tag = rooms[r].tag
            /\ rooms'[r].total >= rooms[r].total - rooms[r].available

LEMMA InitRoomsInv == InventoryInit => RoomsInv
  <1> SUFFICES ASSUME InventoryInit PROVE RoomsInv
      OBVIOUS
  <1>1. /\ overlap \in BOOLEAN
        /\ \A u \in UnitTypes : units[u] = Absent
        /\ \A r \in RoomId : rooms[r] = Absent
        /\ \A w \in Workers : booking[w] = Idle /\ booking[w].op = "idle"
    BY DEF InventoryInit, Idle
  <1>2. InventoryTypeOK
    BY <1>1 DEF InventoryInit, InventoryTypeOK, RoomRequest
  <1>3. QED
    BY <1>1, <1>2 DEF RoomsInv, Updates, Deletes

\* A row or a request has the columns of its kind.
LEMMA RoomTypes ==
  ASSUME RoomsInv
  PROVE  /\ \A r \in RoomId : rooms[r] # Absent => rooms[r] \in Room
         /\ \A u \in UnitTypes : units[u] # Absent => units[u] \in Unit
         /\ \A w \in Workers : Updates(w) =>
               booking[w] \in [op : {"update_room"}, room : RoomId, seen : Room, new : Room]
         /\ \A w \in Workers : Deletes(w) =>
               booking[w] \in [op : {"delete_unit_type"}, unit : UnitTypes]
  BY DEF RoomsInv, InventoryTypeOK, RoomRequest, Updates, Deletes, Idle

\* Rows that stay, and a request that closes or opens.
LEMMA RowsStay ==
  ASSUME RoomsInv, UNCHANGED <<units, rooms, overlap>>, NEW w \in Workers, NEW q \in RoomRequest,
         booking' = [booking EXCEPT ![w] = q],
         q.op = "update_room" => InRange(q.new) /\ q.new.unit = q.seen.unit,
         ~overlap /\ q # Idle => \A v \in Workers : booking[v] = Idle,
         ~overlap /\ q.op = "update_room" => rooms[q.room] = q.seen /\ KeepsOccupants(q.seen, q.new),
         ~overlap /\ q.op = "delete_unit_type" => IsEmptyUnit(q.unit)
  PROVE  RoomsInv' /\ OccupantsStay
  <1>1. \A v \in Workers : booking'[v] = IF v = w THEN q ELSE booking[v]
    BY DEF RoomsInv, InventoryTypeOK
  <1>2. InventoryTypeOK'
    <2>1. booking' \in [Workers -> RoomRequest]
      BY DEF RoomsInv, InventoryTypeOK
    <2>2. \A v \in Workers : booking'[v].op = "update_room" => InRange(booking'[v].new)
      BY <1>1 DEF RoomsInv, InventoryTypeOK, InRange
    <2>3. QED
      BY <2>1, <2>2 DEF RoomsInv, InventoryTypeOK, InRange
  <1>3. \A v \in Workers : Updates(v)' => booking'[v].new.unit = booking'[v].seen.unit
    BY <1>1 DEF RoomsInv, Updates
  <1>4. ~overlap =>
         /\ \A u, v \in Workers : booking'[u] # Idle /\ booking'[v] # Idle => u = v
         /\ \A v \in Workers : Updates(v)' =>
                /\ rooms'[booking'[v].room] = booking'[v].seen
                /\ KeepsOccupants(booking'[v].seen, booking'[v].new)
    BY <1>1 DEF RoomsInv, Updates, Idle
  <1>5. ~overlap => \A v \in Workers : Deletes(v)' => IsEmptyUnit(booking[v].unit)'
    <2> SUFFICES ASSUME ~overlap, NEW v \in Workers, Deletes(v)' PROVE IsEmptyUnit(booking[v].unit)'
        OBVIOUS
    <2>1. CASE v = w
      <3>1. booking'[v] = q /\ IsEmptyUnit(q.unit)
        BY <1>1, <2>1 DEF Deletes
      <3>2. QED
        BY <3>1 DEF IsEmptyUnit
    <2>2. CASE v # w
      <3>1. booking'[v] = booking[v] /\ IsEmptyUnit(booking[v].unit)
        BY <1>1, <2>2 DEF Deletes, RoomsInv
      <3>2. QED
        BY <3>1 DEF IsEmptyUnit
    <2>3. QED
      BY <2>1, <2>2
  <1>6. OccupantsStay
    <2> SUFFICES ASSUME NEW r \in RoomId, rooms[r] # Absent, Occupied(rooms[r])
                 PROVE  rooms[r].total >= rooms[r].total - rooms[r].available
        BY DEF OccupantsStay
    <2>1. rooms[r] \in Room /\ InRange(rooms[r])
      BY RoomTypes DEF RoomsInv, InventoryTypeOK
    <2>2. QED
      BY <2>1 DEF Room, InRange
  <1>7. QED
    BY <1>2, <1>3, <1>4, <1>5, <1>6 DEF RoomsInv

-----------------------------------------------------------------------------
(* Inventory: operations *)

LEMMA AddUnitTypeKeeps ==
  ASSUME RoomsInv, AddUnitType PROVE RoomsInv' /\ OccupantsStay
  <1>1. PICK u \in UnitTypes, unit \in Unit :
            /\ units[u] = Absent
            /\ units' = [units EXCEPT ![u] = unit]
            /\ UNCHANGED <<rooms, booking, overlap>>
    BY DEF AddUnitType
  <1>2. unit # Absent
    BY DEF Unit, Absent
  <1>3. InventoryTypeOK'
    <2>1. units' \in [UnitTypes -> Unit \cup {Absent}]
      BY <1>1 DEF RoomsInv, InventoryTypeOK
    <2>2. \A r \in RoomId : rooms[r] # Absent => rooms[r].unit \in UnitTypes
      BY RoomTypes DEF Room
    <2>3. \A r \in RoomId : rooms[r] # Absent => units'[rooms[r].unit] # Absent /\ InRange(rooms[r])
      BY <1>1, <1>2, <2>2 DEF RoomsInv, InventoryTypeOK
    <2>4. QED
      BY <1>1, <2>1, <2>3 DEF RoomsInv, InventoryTypeOK, InRange
  <1>4. OccupantsStay
    <2> SUFFICES ASSUME NEW r \in RoomId, rooms[r] # Absent, Occupied(rooms[r])
                 PROVE  rooms[r].total >= rooms[r].total - rooms[r].available
        BY <1>1 DEF OccupantsStay
    <2>1. rooms[r] \in Room /\ InRange(rooms[r])
      BY RoomTypes DEF RoomsInv, InventoryTypeOK
    <2>2. QED
      BY <2>1 DEF Room, InRange
  <1>5. QED
    BY <1>1, <1>3, <1>4 DEF RoomsInv, Updates, Deletes, IsEmptyUnit

\* A new room is empty, so it may join a unit type that is being deleted.
LEMMA AddRoomKeeps ==
  ASSUME RoomsInv, AddRoom PROVE RoomsInv' /\ OccupantsStay
  <1>1. PICK u \in UnitTypes, r \in RoomId, tag \in Gender :
            /\ units[u] # Absent
            /\ rooms[r] = Absent
            /\ rooms' = [rooms EXCEPT ![r] =
                   [unit |-> u, tag |-> IF units[u].kind = "SELF_CONTAIN" THEN "ANY" ELSE tag,
                    total |-> units[u].beds, available |-> units[u].beds]]
            /\ UNCHANGED <<units, booking, overlap>>
    BY DEF AddRoom
  <1> DEFINE room == rooms'[r]
  <1>2. units[u].beds \in Nat
    BY <1>1, RoomTypes DEF Unit, Beds
  <1>3. /\ room \in Room /\ room.unit = u /\ InRange(room) /\ ~Occupied(room) /\ room # Absent
        /\ rooms' \in [RoomId -> Room \cup {Absent}]
        /\ \A p \in RoomId \ {r} : rooms'[p] = rooms[p]
    <2>1. rooms \in [RoomId -> Room \cup {Absent}]
      BY DEF RoomsInv, InventoryTypeOK
    <2>2. room = [unit |-> u, tag |-> IF units[u].kind = "SELF_CONTAIN" THEN "ANY" ELSE tag,
                  total |-> units[u].beds, available |-> units[u].beds]
      BY <1>1, <2>1
    <2>3. room \in Room /\ room.unit = u /\ room.total = units[u].beds /\ room.available = units[u].beds
      BY <1>2, <2>2 DEF Room, Gender
    <2>4. InRange(room) /\ ~Occupied(room)
      BY <1>2, <2>3 DEF InRange, Occupied
    <2>5. room # Absent
      BY <2>2 DEF Absent
    <2>6. QED
      BY <1>1, <2>1, <2>3, <2>4, <2>5
  <1> HIDE DEF room
  <1>4. InventoryTypeOK'
    <2>1. \A p \in RoomId : rooms'[p] # Absent => units'[rooms'[p].unit] # Absent /\ InRange(rooms'[p])
      BY <1>1, <1>3 DEF RoomsInv, InventoryTypeOK, room
    <2>2. QED
      BY <1>1, <1>3, <2>1 DEF RoomsInv, InventoryTypeOK, InRange
  <1>5. ~overlap => \A w \in Workers : Updates(w) => rooms'[booking[w].room] = booking[w].seen
    <2> SUFFICES ASSUME ~overlap, NEW w \in Workers, Updates(w)
                 PROVE  rooms'[booking[w].room] = booking[w].seen
        OBVIOUS
    <2>1. booking[w].room \in RoomId /\ booking[w].seen \in Room
      BY RoomTypes
    <2>2. rooms[booking[w].room] = booking[w].seen /\ booking[w].seen # Absent
      BY <2>1 DEF RoomsInv, Room, Absent
    <2>3. QED
      BY <1>1, <1>3, <2>1, <2>2
  <1>6. ~overlap => \A w \in Workers : Deletes(w) => IsEmptyUnit(booking[w].unit)'
    <2> SUFFICES ASSUME ~overlap, NEW w \in Workers, Deletes(w) PROVE IsEmptyUnit(booking[w].unit)'
        OBVIOUS
    <2>1. IsEmptyUnit(booking[w].unit)
      BY DEF RoomsInv
    <2>2. QED
      BY <1>1, <1>3, <2>1 DEF IsEmptyUnit, room
  <1>7. OccupantsStay
    <2> SUFFICES ASSUME NEW p \in RoomId, rooms[p] # Absent, Occupied(rooms[p])
                 PROVE  /\ rooms'[p] = rooms[p]
                        /\ rooms[p].total >= rooms[p].total - rooms[p].available
        BY DEF OccupantsStay
    <2>1. rooms[p] \in Room /\ InRange(rooms[p]) /\ p # r
      BY <1>1, RoomTypes DEF RoomsInv, InventoryTypeOK
    <2>2. QED
      BY <1>3, <2>1 DEF Room, InRange
  <1>8. QED
    BY <1>1, <1>4, <1>5, <1>6, <1>7 DEF RoomsInv, Updates, Deletes

\* The new number of free beds, clamped, is in range.
LEMMA SizedIsInRange ==
  ASSUME NEW room \in Room, NEW tag \in Gender, NEW beds \in Beds
  PROVE  LET sized == WithTotal([room EXCEPT !.tag = tag], beds)
         IN  /\ sized \in Room /\ InRange(sized)
             /\ sized.unit = room.unit /\ sized.tag = tag /\ sized.total = beds
  <1> DEFINE tagged == [room EXCEPT !.tag = tag]
             moved == tagged.available + beds - tagged.total
             free == IF moved < 0 THEN 0 ELSE IF moved > beds THEN beds ELSE moved
             sized == WithTotal(tagged, beds)
  <1>1. beds \in Int /\ beds >= 1
    BY DEF Beds
  <1>2. tagged \in Room /\ tagged.unit = room.unit /\ tagged.tag = tag
    BY DEF Room
  <1>3. free \in Int /\ 0 <= free /\ free <= beds
    BY <1>1, <1>2 DEF Room
  <1>4. sized = [tagged EXCEPT !.total = beds, !.available = free]
    BY DEF WithTotal
  <1> HIDE DEF tagged, free, sized
  <1>5. sized \in Room /\ sized.unit = room.unit /\ sized.tag = tag /\ sized.total = beds
        /\ sized.available = free
    BY <1>1, <1>2, <1>3, <1>4 DEF Room
  <1>6. QED
    BY <1>3, <1>5 DEF InRange, sized, tagged

LEMMA BeginUpdateRoomKeeps ==
  ASSUME RoomsInv, NEW w \in Workers, BeginUpdateRoom(w) PROVE RoomsInv' /\ OccupantsStay
  <1>1. PICK r \in RoomId :
          /\ rooms[r] # Absent /\ booking[w] = Idle /\ MayStart(booking)
          /\ UNCHANGED <<units, rooms, overlap>>
          /\ \E tag \in Gender, beds \in Beds, free \in 0 .. MaxBeds, give \in BOOLEAN :
              LET room  == rooms[r]
                  sized == WithTotal([room EXCEPT !.tag = tag], beds)
              IN  /\ MayTag(room, tag)
                  /\ MayResize(room, beds)
                  /\ give => free <= sized.total
                  /\ booking' = [booking EXCEPT ![w] =
                        [op |-> "update_room", room |-> r, seen |-> room,
                         new |-> IF give THEN [sized EXCEPT !.available = free] ELSE sized]]
    BY DEF BeginUpdateRoom
  <1> DEFINE room == rooms[r]
             sized(tag, beds) == WithTotal([room EXCEPT !.tag = tag], beds)
             new(tag, beds, free, give) ==
                 IF give THEN [sized(tag, beds) EXCEPT !.available = free] ELSE sized(tag, beds)
             q(n) == [op |-> "update_room", room |-> r, seen |-> room, new |-> n]
  <1>2. PICK tag \in Gender, beds \in Beds, free \in 0 .. MaxBeds, give \in BOOLEAN :
            /\ MayTag(room, tag)
            /\ MayResize(room, beds)
            /\ give => free <= sized(tag, beds).total
            /\ booking' = [booking EXCEPT ![w] = q(new(tag, beds, free, give))]
    BY <1>1
  <1>3. room \in Room
    BY <1>1, RoomTypes
  <1> HIDE DEF room
  <1> DEFINE s == sized(tag, beds)
             n == new(tag, beds, free, give)
  <1>4. s \in Room /\ InRange(s) /\ s.unit = room.unit /\ s.tag = tag /\ s.total = beds
    BY <1>3, SizedIsInRange
  <1>5. /\ give => n = [s EXCEPT !.available = free] /\ free <= s.total
        /\ ~give => n = s
    BY <1>2
  <1> HIDE DEF s, n
  <1>6. n \in Room /\ InRange(n) /\ n.unit = room.unit /\ n.tag = tag /\ n.total = beds
    <2>1. CASE give
      BY <1>4, <1>5, <2>1 DEF Room, InRange
    <2>2. CASE ~give
      BY <1>4, <1>5, <2>2
    <2>3. QED
      BY <2>1, <2>2
  <1>7. KeepsOccupants(room, n)
    BY <1>2, <1>6 DEF KeepsOccupants, MayTag, MayResize
  <1>8. q(n) \in RoomRequest
    BY <1>3, <1>6 DEF RoomRequest
  <1>9. booking' = [booking EXCEPT ![w] = q(n)]
    BY <1>2 DEF n
  <1>10. ~overlap => \A v \in Workers : booking[v] = Idle
    BY <1>1 DEF MayStart
  <1>11. /\ q(n).op = "update_room" /\ q(n).new = n /\ q(n).seen = room /\ q(n).room = r
    OBVIOUS
  <1>12. PICK p \in RoomRequest : /\ booking' = [booking EXCEPT ![w] = p]
                                 /\ p.op = "update_room" /\ p.new = n /\ p.seen = room /\ p.room = r
    BY <1>8, <1>9, <1>11
  <1> HIDE DEF q
  <1>13. InRange(p.new) /\ p.new.unit = p.seen.unit
    BY <1>6, <1>12
  <1>14. rooms[p.room] = p.seen /\ KeepsOccupants(p.seen, p.new)
    BY <1>7, <1>12 DEF room
  <1>15. QED
    BY <1>1, <1>10, <1>12, <1>13, <1>14, RowsStay

LEMMA AbortInventoryKeeps ==
  ASSUME RoomsInv, NEW w \in Workers, AbortInventory(w) PROVE RoomsInv' /\ OccupantsStay
  <1>1. Idle \in RoomRequest /\ Idle.op = "idle"
    BY DEF RoomRequest, Idle
  <1>2. booking' = [booking EXCEPT ![w] = Idle] /\ UNCHANGED <<units, rooms, overlap>>
    BY DEF AbortInventory
  <1>3. QED
    BY <1>1, <1>2, RowsStay

LEMMA BeginDeleteUnitTypeKeeps ==
  ASSUME RoomsInv, NEW w \in Workers, BeginDeleteUnitType(w) PROVE RoomsInv' /\ OccupantsStay
  <1>1. PICK u \in UnitTypes :
            /\ IsEmptyUnit(u) /\ MayStart(booking)
            /\ booking' = [booking EXCEPT ![w] = [op |-> "delete_unit_type", unit |-> u]]
            /\ UNCHANGED <<units, rooms, overlap>>
    BY DEF BeginDeleteUnitType
  <1> DEFINE q == [op |-> "delete_unit_type", unit |-> u]
  <1>2. q \in RoomRequest /\ q.op = "delete_unit_type" /\ q.unit = u
    BY DEF RoomRequest
  <1>3. ~overlap => \A v \in Workers : booking[v] = Idle
    BY <1>1 DEF MayStart
  <1> HIDE DEF q
  <1>4. booking' = [booking EXCEPT ![w] = q]
    BY <1>1 DEF q
  <1>5. QED
    BY <1>1, <1>2, <1>3, <1>4, RowsStay

\* The columns written are those of the row read or of the row stored, and the
\* check constraint keeps them in range.
LEMMA CommitUpdateRoomKeeps ==
  ASSUME RoomsInv, NEW w \in Workers, CommitUpdateRoom(w) PROVE RoomsInv' /\ OccupantsStay
  <1> DEFINE b == booking[w]
             r == b.room
             stored == rooms[r]
             row == WrittenRow(b.seen, b.new, stored)
  <1>1. /\ Updates(w) /\ stored # Absent /\ InRange(row)
        /\ rooms' = [rooms EXCEPT ![r] = row]
        /\ booking' = [booking EXCEPT ![w] = Idle]
        /\ UNCHANGED <<units, overlap>>
    BY DEF CommitUpdateRoom, Updates
  <1>2. /\ r \in RoomId /\ b.seen \in Room /\ b.new \in Room /\ stored \in Room
        /\ b.new.unit = b.seen.unit
    BY <1>1, RoomTypes DEF RoomsInv
  <1>3. /\ row = [unit      |-> Written(b.seen.unit, b.new.unit, stored.unit),
                  tag       |-> Written(b.seen.tag, b.new.tag, stored.tag),
                  total     |-> Written(b.seen.total, b.new.total, stored.total),
                  available |-> Written(b.seen.available, b.new.available, stored.available)]
    BY <1>2 DEF WrittenRow, Room
  <1>4. row \in Room /\ row.unit = stored.unit /\ row # Absent
    BY <1>2, <1>3 DEF Written, Room, Absent
  <1>5. b.seen = stored => row.tag = b.new.tag /\ row.total = b.new.total
    BY <1>3 DEF Written
  <1>6. ~overlap => b.seen = stored /\ KeepsOccupants(stored, b.new)
    BY <1>1 DEF RoomsInv
  <1> HIDE DEF b, r, stored, row
  <1>7. /\ rooms' \in [RoomId -> Room \cup {Absent}]
        /\ \A p \in RoomId : rooms'[p] = IF p = r THEN row ELSE rooms[p]
        /\ rooms[r] = stored
    BY <1>1, <1>2, <1>4 DEF RoomsInv, InventoryTypeOK, stored
  <1>8. \A v \in Workers : booking'[v] = IF v = w THEN Idle ELSE booking[v]
    BY <1>1 DEF RoomsInv, InventoryTypeOK
  <1>9. InventoryTypeOK'
    <2>1. booking' \in [Workers -> RoomRequest]
      BY <1>1 DEF RoomsInv, InventoryTypeOK, RoomRequest
    <2>2. \A v \in Workers : booking'[v].op = "update_room" => InRange(booking'[v].new)
      BY <1>8 DEF RoomsInv, InventoryTypeOK, Idle
    <2>3. \A p \in RoomId : rooms'[p] # Absent => units'[rooms'[p].unit] # Absent /\ InRange(rooms'[p])
      <3>1. units[stored.unit] # Absent
        BY <1>1, <1>2, <1>7 DEF RoomsInv, InventoryTypeOK
      <3>2. QED
        BY <1>1, <1>4, <1>7, <3>1 DEF RoomsInv, InventoryTypeOK
    <2>4. QED
      BY <1>1, <1>7, <2>1, <2>2, <2>3 DEF RoomsInv, InventoryTypeOK, InRange
  <1>10. \A v \in Workers : Updates(v)' => booking'[v].new.unit = booking'[v].seen.unit
    BY <1>8 DEF RoomsInv, Updates, Idle
  <1>11. ~overlap => \A v \in Workers : booking'[v] = Idle
    <2>1. booking[w] # Idle
      BY <1>1 DEF Updates, Idle
    <2>2. QED
      BY <1>8, <2>1 DEF RoomsInv
  <1>12. OccupantsStay
    <2> SUFFICES ASSUME ~overlap, NEW p \in RoomId, rooms[p] # Absent, Occupied(rooms[p])
                 PROVE  /\ rooms'[p] # Absent
                        /\ rooms'[p].tag = rooms[p].tag
                        /\ rooms'[p].total >= rooms[p].total - rooms[p].available
        BY DEF OccupantsStay
    <2>1. CASE p = r
      <3>1. rooms[p] = stored /\ rooms'[p] = row
        BY <1>7, <2>1
      <3>2. QED
        BY <1>4, <1>5, <1>6, <3>1 DEF KeepsOccupants
    <2>2. CASE p # r
      <3>1. rooms[p] \in Room /\ InRange(rooms[p]) /\ rooms'[p] = rooms[p]
        BY <1>7, <2>2, RoomTypes DEF RoomsInv, InventoryTypeOK
      <3>2. QED
        BY <3>1 DEF Room, InRange
    <2>3. QED
      BY <2>1, <2>2
  <1>13. overlap' = overlap /\ \A v \in Workers : booking'[v] = Idle => ~Updates(v)' /\ ~Deletes(v)'
    BY <1>1 DEF Updates, Deletes, Idle
  <1>14. QED
    BY <1>9, <1>10, <1>11, <1>12, <1>13 DEF RoomsInv

LEMMA CommitDeleteUnitTypeKeeps ==
  ASSUME RoomsInv, NEW w \in Workers, CommitDeleteUnitType(w) PROVE RoomsInv' /\ OccupantsStay
  <1> DEFINE u == booking[w].unit
  <1>1. /\ Deletes(w)
        /\ units' = [units EXCEPT ![u] = Absent]
        /\ rooms' = [r \in RoomId |-> IF rooms[r] # Absent /\ rooms[r].unit = u THEN Absent ELSE rooms[r]]
        /\ booking' = [booking EXCEPT ![w] = Idle]
        /\ overlap' = overlap
    BY DEF CommitDeleteUnitType, Deletes
  <1>2. u \in UnitTypes
    BY <1>1, RoomTypes
  <1>3. ~overlap => IsEmptyUnit(u)
    BY <1>1 DEF RoomsInv
  <1> HIDE DEF u
  <1>4. \A v \in Workers : booking'[v] = IF v = w THEN Idle ELSE booking[v]
    BY <1>1 DEF RoomsInv, InventoryTypeOK
  <1>5. InventoryTypeOK'
    <2>1. booking' \in [Workers -> RoomRequest]
      BY <1>1 DEF RoomsInv, InventoryTypeOK, RoomRequest
    <2>2. \A v \in Workers : booking'[v].op = "update_room" => InRange(booking'[v].new)
      BY <1>4 DEF RoomsInv, InventoryTypeOK, Idle
    <2>3. rooms' \in [RoomId -> Room \cup {Absent}] /\ units' \in [UnitTypes -> Unit \cup {Absent}]
      BY <1>1 DEF RoomsInv, InventoryTypeOK
    <2>4. \A p \in RoomId : rooms'[p] # Absent =>
              rooms'[p] = rooms[p] /\ rooms[p] # Absent /\ rooms[p].unit # u
      BY <1>1
    <2>5. \A p \in RoomId : rooms'[p] # Absent => units'[rooms'[p].unit] # Absent /\ InRange(rooms'[p])
      BY <1>1, <2>4, RoomTypes DEF RoomsInv, InventoryTypeOK, Room
    <2>6. QED
      BY <2>1, <2>2, <2>3, <2>5 DEF InventoryTypeOK, InRange
  <1>6. \A v \in Workers : Updates(v)' => booking'[v].new.unit = booking'[v].seen.unit
    BY <1>4 DEF RoomsInv, Updates, Idle
  <1>7. ~overlap => \A v \in Workers : booking'[v] = Idle
    <2>1. booking[w] # Idle
      BY <1>1 DEF Deletes, Idle
    <2>2. QED
      BY <1>4, <2>1 DEF RoomsInv
  <1>8. OccupantsStay
    <2> SUFFICES ASSUME ~overlap, NEW p \in RoomId, rooms[p] # Absent, Occupied(rooms[p])
                 PROVE  /\ rooms'[p] = rooms[p]
                        /\ rooms[p].total >= rooms[p].total - rooms[p].available
        BY DEF OccupantsStay
    <2>1. rooms[p] \in Room /\ InRange(rooms[p])
      BY RoomTypes DEF RoomsInv, InventoryTypeOK
    <2>2. rooms[p].unit # u
      BY <1>3 DEF IsEmptyUnit
    <2>3. QED
      BY <1>1, <2>1, <2>2 DEF Room, InRange
  <1>9. \A v \in Workers : booking'[v] = Idle => ~Updates(v)' /\ ~Deletes(v)'
    BY DEF Updates, Deletes, Idle
  <1>10. QED
    BY <1>1, <1>5, <1>6, <1>7, <1>8, <1>9 DEF RoomsInv

-----------------------------------------------------------------------------
(* Inventory: the theorem *)

LEMMA RoomsStep ==
  ASSUME RoomsInv, InventoryNext PROVE RoomsInv' /\ OccupantsStay
  BY AddUnitTypeKeeps, AddRoomKeeps, BeginUpdateRoomKeeps, CommitUpdateRoomKeeps,
     BeginDeleteUnitTypeKeeps, CommitDeleteUnitTypeKeeps, AbortInventoryKeeps DEF InventoryNext

\* Rooms stay in range however requests overlap, and, one session at a time,
\* occupants keep their room, its tag and its beds
\* (listings/student_inventory.py).
THEOREM OccupantsKeepTheirBeds == InventorySpec => OccupantsAreSafe
  <1>1. InventoryInit => RoomsInv
    BY InitRoomsInv
  <1>2. RoomsInv /\ [InventoryNext]_inventoryVars => RoomsInv'
    <2>1. RoomsInv /\ UNCHANGED inventoryVars => RoomsInv'
      BY DEF inventoryVars, RoomsInv, InventoryTypeOK, Updates, Deletes, IsEmptyUnit
    <2>2. QED
      BY <2>1, RoomsStep
  <1>3. RoomsInv /\ RoomsInv' /\ [InventoryNext]_inventoryVars =>
          [/\ InventoryTypeOK'
           /\ ~overlap => \A r \in RoomId :
                 rooms[r] # Absent /\ Occupied(rooms[r]) =>
                     /\ rooms'[r] # Absent
                     /\ rooms'[r].tag = rooms[r].tag
                     /\ rooms'[r].total >= rooms[r].total - rooms[r].available]_inventoryVars
    BY RoomsStep DEF RoomsInv, OccupantsStay
  <1>4. QED
    BY <1>1, <1>2, <1>3, PTL DEF InventorySpec, OccupantsAreSafe

=============================================================================
