----------------------------- MODULE Onboarding -----------------------------
(***************************************************************************)
(* The onboarding of one user (backend/app/users/service.py) and the       *)
(* review of the identity document by an administrator                     *)
(* (backend/app/admin/service.py).                                         *)
(*                                                                         *)
(* A request reads the row when it authenticates; the calls to NIMC and    *)
(* CAC, which take up to half a minute, lie between that and the commit.   *)
(***************************************************************************)
EXTENDS Naturals, Sequences, Sessions

CONSTANTS
    NimcAttempts,   \* max_attempts of verify_nin_with_retry
    MaxDocuments    \* bound: documents uploaded

ASSUME OnboardingAssumption ==
    /\ NimcAttempts \in Nat \ {0}
    /\ MaxDocuments \in Nat

VARIABLES
    user,       \* the row of table users
    uploads,    \* the last document uploaded
    confirmed,  \* ghost: the number CAC confirmed, 0 before
    told,       \* ghost: the last notice on the review, as committed
    visit       \* the request each worker has open

onboardingVars == <<user, uploads, confirmed, told, visit, overlap>>

-----------------------------------------------------------------------------
(* Data *)

Roles      == {"SEEKER", "LANDLORD", "TRUSTED_AGENT"}     \* INSPECTOR as TRUSTED_AGENT
AccountType == {"INDIVIDUAL", "AGENCY"}
CacNumber  == 1..2

\* A document is its number, a note the number of the document it rejects.
User == [ role       : Roles,
          type       : AccountType \cup {"none"},      \* account_type
          categories : SUBSET {"OFF_CAMPUS", "OTHER"},
          student    : BOOLEAN,                      \* institution, level, gender
          nin        : BOOLEAN,                      \* nin_verified
          document   : 0..MaxDocuments,              \* nin_document_url
          note       : 0..MaxDocuments,              \* nin_review_note
          cac        : BOOLEAN,                      \* cac_verified
          number     : CacNumber \cup {0},           \* cac_number, business_name
          logo       : BOOLEAN ]                     \* agency_logo_url

NewUser(role) ==
    [role |-> role, type |-> "none", categories |-> {}, student |-> FALSE,
     nin |-> FALSE, document |-> 0, note |-> 0, cac |-> FALSE, number |-> 0, logo |-> FALSE]

OnboardingInit ==
    /\ user \in {NewUser(r) : r \in Roles}
    /\ uploads   = 0
    /\ confirmed = 0
    /\ told      = "none"
    /\ visit     = [w \in Workers |-> Idle]
    /\ overlap \in Modes

-----------------------------------------------------------------------------
(* Sessions *)

OpenWith(w, new, notice) ==
    /\ visit[w] = Idle
    /\ MayStart(visit)
    /\ visit' = [visit EXCEPT ![w] = [op |-> "open", seen |-> user, new |-> new, notice |-> notice]]
    /\ UNCHANGED <<user, confirmed, told, overlap>>

Set(w, new) == OpenWith(w, new, "none") /\ UNCHANGED uploads

CommitVisit(w) ==
    LET r == visit[w] IN
    /\ r # Idle
    /\ user'  = WrittenRow(r.seen, r.new, user)
    /\ told'  = IF r.notice = "none" THEN told ELSE r.notice
    /\ confirmed' = IF r.new.cac /\ ~r.seen.cac THEN r.new.number ELSE confirmed
    /\ visit' = [visit EXCEPT ![w] = Idle]
    /\ UNCHANGED <<uploads, overlap>>

AbortVisit(w) ==
    /\ visit[w] # Idle
    /\ visit' = [visit EXCEPT ![w] = Idle]
    /\ UNCHANGED <<user, uploads, confirmed, told, overlap>>

-----------------------------------------------------------------------------
(* Preferences and role; set_identity is in module Accounts *)

SetSeekerCategories(w) ==
    /\ user.role = "SEEKER"
    /\ \E c \in SUBSET {"OFF_CAMPUS", "OTHER"} \ {{}} : Set(w, [user EXCEPT !.categories = c])

SetStudentExtras(w) ==
    /\ user.role = "SEEKER"
    /\ "OFF_CAMPUS" \in user.categories              \* student_details_not_applicable
    /\ Set(w, [user EXCEPT !.student = TRUE])

BecomeLandlord(w) ==
    /\ user.role = "SEEKER"                          \* cannot_become_landlord
    /\ Set(w, [user EXCEPT !.role = "LANDLORD"])

TypeIsOpen(type) == user.type \in {"none", type}       \* account_type_locked

SetAccountType(w, type) ==
    /\ user.role = "LANDLORD"
    /\ TypeIsOpen(type)
    /\ Set(w, [user EXCEPT !.type = type])

SetProfile(w) ==
    /\ user.role = "LANDLORD" /\ user.type = "AGENCY"
    /\ Set(w, [user EXCEPT !.logo = TRUE])

-----------------------------------------------------------------------------
(* NIN and CAC *)

\* verify_nin_with_retry: the answer after the calls to NIMC; only a timeout
\* is tried again.
Answers == {"verified", "not_found", "timeout", "error"}

WithRetry(answers) ==
    LET last == CHOOSE n \in 1..NimcAttempts :
                    /\ n = NimcAttempts \/ answers[n] # "timeout"
                    /\ \A m \in 1..(n - 1) : answers[m] = "timeout"
    IN  answers[last]

NinApplies ==
    \/ user.role = "LANDLORD" /\ user.type = "INDIVIDUAL"
    \/ user.role = "TRUSTED_AGENT"

\* "error" raises, the others commit.
VerifyNin(w) ==
    /\ NinApplies /\ ~user.nin
    /\ \E answers \in [1..NimcAttempts -> Answers] :
          /\ WithRetry(answers) # "error"
          /\ Set(w, [user EXCEPT !.nin = WithRetry(answers) = "verified"])

\* Fault: the note of the last rejection stays.
NoteStays(note) == note

NoteOnUpload(note) == 0

RegisterNinDocument(w) ==
    /\ NinApplies /\ ~user.nin                       \* nin_already_verified
    /\ uploads < MaxDocuments
    /\ uploads' = uploads + 1
    /\ OpenWith(w, [user EXCEPT !.document = uploads', !.note = NoteOnUpload(user.note)], "none")

CacIsOpen == ~user.cac

\* A number that is not confirmed is stored all the same.
VerifyCac(w, number) ==
    /\ user.role = "LANDLORD" /\ user.type = "AGENCY"
    /\ CacIsOpen
    /\ \E verified \in BOOLEAN : Set(w, [user EXCEPT !.cac = @ \/ verified, !.number = number])

-----------------------------------------------------------------------------
(* approve_nin and reject_nin *)

AwaitsReview == user.document # 0 /\ ~user.nin       \* _load_nin_subject

Approved(row) == [row EXCEPT !.nin = TRUE, !.note = 0]

ApproveNin(w) ==
    /\ AwaitsReview
    /\ OpenWith(w, Approved(user), "verified")
    /\ UNCHANGED uploads

RejectNin(w) ==
    /\ AwaitsReview
    /\ OpenWith(w, [user EXCEPT !.document = 0, !.note = user.document], "rejected")
    /\ UNCHANGED uploads

-----------------------------------------------------------------------------
OnboardingNext ==
    \E w \in Workers :
        \/ SetSeekerCategories(w) \/ SetStudentExtras(w)
        \/ BecomeLandlord(w) \/ \E type \in AccountType : SetAccountType(w, type)
        \/ SetProfile(w)
        \/ VerifyNin(w) \/ RegisterNinDocument(w)
        \/ \E number \in CacNumber : VerifyCac(w, number)
        \/ ApproveNin(w) \/ RejectNin(w)
        \/ CommitVisit(w) \/ AbortVisit(w)

OnboardingSpec == OnboardingInit /\ [][OnboardingNext]_onboardingVars

-----------------------------------------------------------------------------
(* Properties *)

\* Types; a verdict has an upload before it.
OnboardingTypeOK ==
    /\ user \in User
    /\ uploads \in 0..MaxDocuments /\ confirmed \in CacNumber \cup {0}
    /\ told \in {"none", "verified", "rejected"} /\ (told # "none" => uploads > 0)

\* When requests do not overlap, a user holds only the verification that the
\* role and the account type ask for, and it stays that of the account.
VerificationFits ==
    ~overlap =>
        /\ user.nin => user.role = "TRUSTED_AGENT" \/ user.type = "INDIVIDUAL"
        /\ user.cac \/ user.logo => user.type = "AGENCY"

\* ... the number on a verified agency is the one CAC confirmed,
NumberIsConfirmed ==
    ~overlap /\ user.cac => user.number = confirmed

\* ... and a user waits for a review or has the reason of the last rejection
\* before them, never both.
NoteOrDocument ==
    ~overlap => user.document = 0 \/ user.note = 0

\* A user who was told of the approval is verified, also when the review
\* overlapped another one, a new document or a check by NIMC.
ApprovalStands ==
    told = "verified" => user.nin

\* Role, account type, checks at NIMC and CAC, uploads and reviews, in any order
\* and with slow answers in between (users/service.py, admin/service.py).
OnboardingInv ==
    /\ OnboardingTypeOK
    /\ VerificationFits
    /\ NumberIsConfirmed
    /\ NoteOrDocument
    /\ ApprovalStands
=============================================================================
