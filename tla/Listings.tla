------------------------------ MODULE Listings ------------------------------
(***************************************************************************)
(* The life of one listing and its badges: the owner drafts and submits it *)
(* (backend/app/listings/service.py), administrators review its documents, *)
(* award badges, publish, suspend, restore and delete it                   *)
(* (backend/app/admin/service.py, admin/review_service.py), payments and   *)
(* flagged visits change its status.                                       *)
(*                                                                         *)
(* An operation opens a session (module Sessions); Commit is the           *)
(* `await db.commit()` of its route.                                       *)
(***************************************************************************)
EXTENDS Naturals, Sessions

CONSTANTS
    DocId,            \* title documents the owner may upload
    ReviewRequired,   \* settings.listing_document_review_required
    MaxBadges         \* bound: badges of one type on the listing

ASSUME ListingsAssumption == ReviewRequired \in BOOLEAN /\ MaxBadges \in Nat

VARIABLES
    listing,      \* the row of table listings
    docs,         \* table listing_documents
    badges,       \* how many active rows of table badges, per type
    shown,        \* ghost: has the listing been public?
    request       \* the request each worker has open

lifeVars == <<listing, docs, badges, shown, request, overlap>>

-----------------------------------------------------------------------------
(* Data *)

BadgeType == {"DOCUMENT", "PHYSICAL"}

\* AGREED is LET_AGREED or SALE_AGREED; the categories other than OFF_CAMPUS
\* differ only in which fields make them complete.
Public   == {"LIVE_UNVERIFIED", "DOC_VERIFIED", "FULLY_VERIFIED", "AGREED"}
Status   == Public \cup {"DRAFT", "UNDER_DOC_REVIEW", "SUSPENDED", "DELISTED"}
Category == {"RENT", "OFF_CAMPUS"}

\* complete: fields, category details and photos are those a submission needs.
Listing == [status : Status, category : Category, complete : BOOLEAN, deleted : BOOLEAN]

Operation == {"update_draft", "submit", "register_document", "delete_document", "edit",
              "set_short_let_pricing",
              "approve_doc", "query_doc", "reject_doc", "award_document_badge",
              "award_physical_badge", "publish", "suspend", "restore", "soft_delete",
              "confirm_payment", "flag_visit_report"}

Request == {Idle} \cup
    [op : Operation, seen : Listing, new : Listing,
     issued : SUBSET BadgeType, added : SUBSET DocId, dropped : SUBSET DocId]

LifeInit ==
    /\ overlap  \in Modes
    /\ listing  \in [status : {"DRAFT"}, category : Category,      \* create_listing
                     complete : {FALSE}, deleted : {FALSE}]
    /\ docs     = {}
    /\ badges   = [t \in BadgeType |-> 0]
    /\ shown    = FALSE
    /\ request  = [w \in Workers |-> Idle]

-----------------------------------------------------------------------------
(* Sessions *)

Open(w, op, new, issued, added, dropped) ==
    /\ request[w] = Idle
    /\ MayStart(request)
    /\ request' = [request EXCEPT ![w] =
           [op |-> op, seen |-> listing, new |-> new,
            issued |-> issued, added |-> added, dropped |-> dropped]]
    /\ UNCHANGED <<listing, docs, badges, shown, overlap>>

Change(w, op, new) == Open(w, op, new, {}, {}, {})

\* issue_doc_badge, issue_physical_badge; nothing revokes a badge.
Issued(types) == [t \in BadgeType |-> badges[t] + (IF t \in types THEN 1 ELSE 0)]

Commit(w) ==
    /\ request[w] # Idle
    /\ LET r == request[w]
       IN  /\ listing' = WrittenRow(r.seen, r.new, listing)
           /\ docs'    = (docs \cup r.added) \ r.dropped
           /\ badges'  = Issued(r.issued)
    /\ shown'   = (shown \/ listing'.status \in Public)
    /\ request' = [request EXCEPT ![w] = Idle]
    /\ UNCHANGED overlap

Abort(w) ==
    /\ request[w] # Idle
    /\ request' = [request EXCEPT ![w] = Idle]
    /\ UNCHANGED <<listing, docs, badges, shown, overlap>>

-----------------------------------------------------------------------------
(* The owner *)

Exempt == listing.category = "OFF_CAMPUS"

\* _validate_ready_for_submission and _validate_type_data
IsReady == listing.complete /\ (ReviewRequired /\ ~Exempt => docs # {})

UpdateDraft(w) ==
    /\ listing.status = "DRAFT"
    /\ \E c \in BOOLEAN : Change(w, "update_draft", [listing EXCEPT !.complete = c])

StatusAfterSubmission ==
    IF ReviewRequired /\ ~Exempt THEN "UNDER_DOC_REVIEW" ELSE "LIVE_UNVERIFIED"

Submit(w) ==
    /\ listing.status = "DRAFT"
    /\ IsReady
    /\ Change(w, "submit", [listing EXCEPT !.status = StatusAfterSubmission])

RegisterDocument(w) ==
    \E d \in DocId \ docs : Open(w, "register_document", listing, {}, {d}, {})

MayDropDocuments == listing.status = "DRAFT"

DeleteDocument(w) ==
    /\ MayDropDocuments
    /\ \E d \in docs : Open(w, "delete_document", listing, {}, {}, {d})

\* In any status; prices fill fields, and so do photos (module Gallery).
SetShortLetPricing(w) ==
    /\ ~Exempt
    /\ \E c \in {TRUE, listing.complete} :
          Change(w, "set_short_let_pricing", [listing EXCEPT !.complete = c])

-----------------------------------------------------------------------------
(* Review of the documents *)

AwaitsDocReview == listing.status = "UNDER_DOC_REVIEW"

ApproveDoc(w) ==
    /\ AwaitsDocReview
    /\ badges["DOCUMENT"] < MaxBadges
    /\ Open(w, "approve_doc", [listing EXCEPT !.status = "DOC_VERIFIED"], {"DOCUMENT"}, {}, {})

QueryDoc(w) ==
    /\ AwaitsDocReview
    /\ Change(w, "query_doc", [listing EXCEPT !.status = "DRAFT"])

RejectDoc(w) ==
    /\ AwaitsDocReview
    /\ Change(w, "reject_doc", [listing EXCEPT !.status = "SUSPENDED"])

-----------------------------------------------------------------------------
(* Badges and publication *)

NotDelisted == ~listing.deleted /\ listing.status # "DELISTED"

\* listing_has_active_badge: two rows make scalar_one_or_none raise.
LooksUp(type) == badges[type] <= 1
Has(type) == badges[type] = 1

PublicStatusFromBadges(document, physical) ==
    IF physical THEN "FULLY_VERIFIED" ELSE IF document THEN "DOC_VERIFIED" ELSE "LIVE_UNVERIFIED"

HasDocuments == Exempt \/ docs # {}

AwardDocumentBadge(w) ==
    /\ NotDelisted
    /\ badges["DOCUMENT"] = 0
    /\ HasDocuments
    /\ LooksUp("PHYSICAL")
    /\ Open(w, "award_document_badge",
            [listing EXCEPT !.status = PublicStatusFromBadges(TRUE, Has("PHYSICAL"))],
            {"DOCUMENT"}, {}, {})

HasDocumentBadge == Exempt \/ Has("DOCUMENT")

\* _complete_physical_badge_award, on the report of an inspection (module
\* Inspections) assigned while the listing was public.
AwardPhysicalBadge(w) ==
    /\ shown
    /\ badges["PHYSICAL"] = 0
    /\ LooksUp("DOCUMENT")
    /\ HasDocumentBadge
    /\ Open(w, "award_physical_badge", [listing EXCEPT !.status = "FULLY_VERIFIED"],
            {"PHYSICAL"}, {}, {})

Publish(w) ==
    /\ NotDelisted
    /\ IsReady
    /\ \A t \in BadgeType : LooksUp(t)
    /\ Change(w, "publish",
              [listing EXCEPT !.status =
                  PublicStatusFromBadges(Has("DOCUMENT"), Has("PHYSICAL"))])

\* edit_listing, in any status.
Edit(w) == \E c \in BOOLEAN : Change(w, "edit", [listing EXCEPT !.complete = c])

-----------------------------------------------------------------------------
(* Suspension and deletion *)

Suspend(w) == Change(w, "suspend", [listing EXCEPT !.status = "SUSPENDED"])

\* Fault: a restored listing gets the tier it may once have had.
FormerTier == "DOC_VERIFIED"

RestoredStatus == "LIVE_UNVERIFIED"

Restore(w) ==
    /\ ~listing.deleted
    /\ listing.status = "SUSPENDED"
    /\ Change(w, "restore", [listing EXCEPT !.status = RestoredStatus])

SoftDelete(w) ==
    Change(w, "soft_delete", [listing EXCEPT !.status = "DELISTED", !.deleted = TRUE])

-----------------------------------------------------------------------------
(* Other services write the status too *)

\* confirm_payment: the agreement of an offer made while the listing was public.
ConfirmPayment(w) ==
    /\ shown
    /\ Change(w, "confirm_payment", [listing EXCEPT !.status = "AGREED"])

\* admin_flag_visit_report: of a visit asked for while the listing was public.
FlagVisitReport(w) ==
    /\ shown
    /\ listing.status \notin {"SUSPENDED", "DELISTED"}
    /\ Change(w, "flag_visit_report", [listing EXCEPT !.status = "LIVE_UNVERIFIED"])

-----------------------------------------------------------------------------

ByOwner(w) ==
    \/ UpdateDraft(w)
    \/ Submit(w)
    \/ SetShortLetPricing(w)
    \/ RegisterDocument(w)
    \/ DeleteDocument(w)

ByAdmin(w) ==
    \/ ApproveDoc(w)
    \/ QueryDoc(w)
    \/ RejectDoc(w)
    \/ AwardDocumentBadge(w)
    \/ AwardPhysicalBadge(w)
    \/ Publish(w)
    \/ Edit(w)
    \/ Suspend(w)
    \/ Restore(w)
    \/ SoftDelete(w)

ByOthers(w) == ConfirmPayment(w) \/ FlagVisitReport(w)

LifeNext ==
    \E w \in Workers : ByOwner(w) \/ ByAdmin(w) \/ ByOthers(w) \/ Commit(w) \/ Abort(w)

LifeSpec == LifeInit /\ [][LifeNext]_lifeVars

-----------------------------------------------------------------------------
(* Properties *)

\* Types of the tables and of the open sessions; a student listing is never
\* sent to the document review (docs/sprint-4-status.md:49).
LifeTypeOK ==
    /\ overlap \in BOOLEAN
    /\ listing \in Listing
    /\ docs    \in SUBSET DocId
    /\ badges  \in [BadgeType -> Nat]
    /\ shown   \in BOOLEAN
    /\ request \in [Workers -> Request]
    /\ listing.category = "OFF_CAMPUS" => listing.status # "UNDER_DOC_REVIEW"

\* However sessions overlap, a listing shown with a verification tier holds the
\* badge of that tier: stale status writes (restore, flag, publish) may lower
\* the tier, never invent one.
TierHasBadge ==
    /\ listing.status = "DOC_VERIFIED"   => badges["DOCUMENT"] > 0
    /\ listing.status = "FULLY_VERIFIED" => badges["PHYSICAL"] > 0

\* However sessions overlap, a physical badge is only on top of a document
\* badge, except for student listings.
PhysicalRestsOnDocument ==
    badges["PHYSICAL"] > 0 => badges["DOCUMENT"] > 0 \/ listing.category = "OFF_CAMPUS"

\* When sessions do not overlap, the documents a badge was awarded on are still
\* there: they can only be removed in a draft, and no sequence of reviews,
\* suspensions and restorations takes a listing with the badge back to one.
BadgeRestsOnDocuments ==
    ~overlap /\ badges["DOCUMENT"] > 0 => docs # {} \/ listing.category = "OFF_CAMPUS"

\* When sessions do not overlap, there is one active badge per type, which
\* listing_has_active_badge relies on: with two, every later award, publication
\* and approval raises.
OneBadgePerType == ~overlap => \A t \in BadgeType : badges[t] <= 1

\* The tier a listing shows rests on badges, and badges on documents: reviews,
\* awards, publishing, suspensions and restorations, in any order
\* (admin/service.py).
ListingsInv ==
    /\ LifeTypeOK
    /\ TierHasBadge
    /\ PhysicalRestsOnDocument
    /\ BadgeRestsOnDocuments
    /\ OneBadgePerType
=============================================================================
