------------------------------ MODULE Gallery -------------------------------
(***************************************************************************)
(* The photos of one listing (backend/app/listings/service.py).  They are  *)
(* the owner's alone; a request is one step here.                          *)
(***************************************************************************)
EXTENDS Integers, FiniteSets, FiniteSetsExt, Sequences

CONSTANTS
    PhotoId,      \* identities of the rows of table listing_photos
    MaxOrder      \* bound: the display_order a photo is registered with

ASSUME GalleryAssumption == MaxOrder \in Nat

VARIABLES
    photos,       \* the rows that exist
    order,        \* display_order
    cover         \* the photos with is_cover

galleryVars == <<photos, order, cover>>

GalleryInit == photos = {} /\ order = [p \in {} |-> 0] /\ cover = {}

\* Fault: a photo goes where the number of photos says.
NumberOfPhotos == Cardinality(photos)

NextOrder == IF photos = {} THEN 0 ELSE Max({order[p] : p \in photos}) + 1

RegisterPhoto ==
    \E p \in PhotoId \ photos :
        /\ NextOrder <= MaxOrder
        /\ photos' = photos \cup {p}
        /\ order'  = [q \in photos' |-> IF q = p THEN NextOrder ELSE order[q]]
        /\ cover'  = IF photos = {} THEN {p} ELSE cover

MakeCover ==
    \E p \in photos : cover' = {p} /\ UNCHANGED <<photos, order>>

\* The cover after p is gone: the first of the others, if p was the cover.
PromotedCover(p) ==
    LET remaining == photos \ {p}
        first == {q \in remaining : \A r \in remaining : order[q] <= order[r]}
    IN  IF p \in cover THEN first ELSE cover

DeletePhoto ==
    \E p \in photos :
        /\ photos' = photos \ {p}
        /\ order'  = [q \in photos' |-> order[q]]
        /\ cover'  = PromotedCover(p)

\* The request may name a photo twice: only the sets are compared, and the last
\* place wins.
ReorderPhotos ==
    \E n \in Cardinality(photos) .. Cardinality(photos) + 1 :
        \E ordered \in [1 .. n -> photos] :
            /\ {ordered[i] : i \in 1 .. n} = photos
            /\ order' = [p \in photos |-> Max({i \in 1 .. n : ordered[i] = p}) - 1]
            /\ UNCHANGED <<photos, cover>>

GalleryNext == RegisterPhoto \/ MakeCover \/ DeletePhoto \/ ReorderPhotos

GallerySpec == GalleryInit /\ [][GalleryNext]_galleryVars

-----------------------------------------------------------------------------

\* A gallery with photos has exactly one cover and no two photos in one place,
\* through registrations, deletions (which leave gaps) and reorderings (which
\* may name a photo twice).
OneCoverDistinctOrder ==
    /\ photos # {} => Cardinality(cover) = 1
    /\ cover \subseteq photos
    /\ \A p, q \in photos : order[p] = order[q] => p = q
=============================================================================
