--------------------------- MODULE AccountsProofs ---------------------------
(***************************************************************************)
(* Onboarding: for any number of workers and documents, a user who was     *)
(* told of the approval is verified, and, one session at a time, holds     *)
(* only the verification that role and account type ask for.               *)
(*                                                                         *)
(* Otp: for any limits, codes per window stay under theirs whatever fails  *)
(* between two commands; one request at a time, so do the guesses at a     *)
(* code, and it works once.                                                *)
(*                                                                         *)
(* Accounts: for any users, addresses, tokens and workers, an email finds  *)
(* one account; one request at a time, a token is exchanged once, and      *)
(* after a replay or a logout nothing of that login is current: the code   *)
(* implements the abstract Logins.                                         *)
(***************************************************************************)
EXTENDS Onboarding, Otp, Accounts, FiniteSetTheorems, TLAPS

USE SessionsAssumption, OnboardingAssumption, OtpAssumption, AccountsAssumption, NullAssumption

-----------------------------------------------------------------------------
(* Onboarding: the invariant *)

Notices == {"none", "verified", "rejected"}

Visits == {Idle} \cup [op : {"open"}, seen : User, new : User, notice : Notices]

\* What an open session will write, however sessions overlap: nothing takes a
\* verification back, and a notice follows an upload.
VisitFits(r) ==
    /\ r \in Visits
    /\ r.seen.nin => r.new.nin
    /\ r.notice = "verified" => r.new.nin /\ ~r.seen.nin
    /\ r.notice # "none" \/ r.new.document # 0 => uploads > 0

\* A row of one session at a time: a document, like a verification, is there
\* only where role and account type ask for it.
RowFits(row) ==
    /\ row.nin \/ row.document # 0 => row.role = "TRUSTED_AGENT" \/ row.type = "INDIVIDUAL"
    /\ row.cac \/ row.logo => row.type = "AGENCY"
    /\ row.document = 0 \/ row.note = 0

VisitIsFresh(r) ==
    /\ r.seen = user
    /\ RowFits(r.new)
    /\ r.seen.cac => r.new.cac /\ r.new.number = r.seen.number

VisitsAlone == \A v, w \in Workers : visit[v] # Idle /\ visit[w] # Idle => v = w

UserInv ==
    /\ overlap \in BOOLEAN
    /\ OnboardingTypeOK
    /\ user.document # 0 => uploads > 0
    /\ ApprovalStands
    /\ visit \in [Workers -> Visits]
    /\ \A w \in Workers : visit[w] # Idle => VisitFits(visit[w])
    /\ ~overlap => RowFits(user) /\ NumberIsConfirmed /\ VisitsAlone
    /\ ~overlap => \A w \in Workers : visit[w] # Idle => VisitIsFresh(visit[w])

LEMMA InitUserInv == OnboardingInit => UserInv
  <1> SUFFICES ASSUME OnboardingInit PROVE UserInv
      OBVIOUS
  <1>1. PICK r \in Roles : user = NewUser(r)
    BY DEF OnboardingInit
  <1>2. user \in User /\ user.document = 0 /\ user.note = 0 /\ ~user.nin /\ ~user.cac /\ ~user.logo
    BY <1>1 DEF NewUser, User
  <1>3. overlap \in BOOLEAN /\ uploads = 0 /\ confirmed = 0 /\ told = "none"
    BY DEF OnboardingInit
  <1>4. visit \in [Workers -> Visits] /\ \A w \in Workers : visit[w] = Idle
    BY DEF OnboardingInit, Visits
  <1>5. QED
    BY <1>2, <1>3, <1>4 DEF UserInv, OnboardingTypeOK, ApprovalStands, RowFits, NumberIsConfirmed,
       VisitsAlone

-----------------------------------------------------------------------------
(* Onboarding: sessions *)

\* What OpenWith does, for a row that fits; uploads may grow.
LEMMA OpenWithKeeps ==
  ASSUME UserInv, NEW w \in Workers, NEW new \in User, NEW notice \in Notices,
         OpenWith(w, new, notice), uploads' \in Nat, uploads' >= uploads, uploads' <= MaxDocuments,
         user.nin => new.nin,
         notice = "verified" => new.nin /\ ~user.nin,
         notice # "none" \/ new.document # 0 => uploads' > 0,
         ~overlap => RowFits(new),
         user.cac => new.cac /\ new.number = user.number
  PROVE  UserInv'
  <1> DEFINE r == [op |-> "open", seen |-> user, new |-> new, notice |-> notice]
  <1>1. /\ visit' = [visit EXCEPT ![w] = r]
        /\ UNCHANGED <<user, confirmed, told, overlap>>
        /\ uploads \in Nat /\ user \in User
    BY DEF OpenWith, UserInv, OnboardingTypeOK
  <1>2. r \in Visits /\ r.seen = user /\ r.new = new /\ r.notice = notice
    BY <1>1 DEF Visits
  <1> HIDE DEF r
  <1>3. \A v \in Workers : visit'[v] = IF v = w THEN r ELSE visit[v]
    BY <1>1 DEF UserInv
  <1>4. OnboardingTypeOK' /\ (user.document # 0 => uploads > 0)' /\ ApprovalStands'
    BY <1>1 DEF UserInv, OnboardingTypeOK, ApprovalStands
  <1>5. visit' \in [Workers -> Visits]
    BY <1>1, <1>2 DEF UserInv
  <1>6. \A v \in Workers : visit'[v] # Idle => VisitFits(visit[v])'
    <2> SUFFICES ASSUME NEW v \in Workers, visit'[v] # Idle PROVE VisitFits(visit[v])'
        OBVIOUS
    <2>1. CASE v = w
      BY <1>1, <1>2, <1>3, <2>1 DEF VisitFits
    <2>2. CASE v # w
      <3>1. visit'[v] = visit[v] /\ VisitFits(visit[v])
        BY <1>3, <2>2 DEF UserInv
      <3>2. QED
        BY <1>1, <3>1 DEF VisitFits
    <2>3. QED
      BY <2>1, <2>2
  <1>7. ~overlap' => RowFits(user)' /\ NumberIsConfirmed' /\ VisitsAlone'
    <2>1. ~overlap => \A v \in Workers : visit[v] = Idle
      BY DEF OpenWith, MayStart
    <2>2. QED
      BY <1>1, <1>3, <2>1 DEF UserInv, RowFits, NumberIsConfirmed, VisitsAlone
  <1>8. ~overlap' => \A v \in Workers : visit'[v] # Idle => VisitIsFresh(visit[v])'
    <2> SUFFICES ASSUME ~overlap, NEW v \in Workers, visit'[v] # Idle PROVE VisitIsFresh(visit[v])'
        BY <1>1
    <2>1. v = w /\ visit'[v] = r
      BY <1>3 DEF OpenWith, MayStart
    <2>2. RowFits(r.new)
      BY <1>2
    <2>3. QED
      BY <1>1, <1>2, <2>1, <2>2 DEF VisitIsFresh, RowFits
  <1>9. QED
    BY <1>1, <1>4, <1>5, <1>6, <1>7, <1>8 DEF UserInv

LEMMA AbortVisitKeeps ==
  ASSUME UserInv, NEW w \in Workers, AbortVisit(w) PROVE UserInv'
  <1>1. /\ visit' = [visit EXCEPT ![w] = Idle]
        /\ UNCHANGED <<user, uploads, confirmed, told, overlap>>
    BY DEF AbortVisit
  <1>2. \A v \in Workers : visit'[v] = IF v = w THEN Idle ELSE visit[v]
    BY <1>1 DEF UserInv
  <1>3. visit' \in [Workers -> Visits]
    BY <1>1 DEF UserInv, Visits
  <1>4. \A v \in Workers : visit'[v] # Idle =>
            VisitFits(visit[v])' /\ (~overlap => VisitIsFresh(visit[v])')
    <2> SUFFICES ASSUME NEW v \in Workers, visit'[v] # Idle
                 PROVE  VisitFits(visit[v])' /\ (~overlap => VisitIsFresh(visit[v])')
        OBVIOUS
    <2>1. visit'[v] = visit[v] /\ VisitFits(visit[v]) /\ (~overlap => VisitIsFresh(visit[v]))
      BY <1>2 DEF UserInv
    <2>2. QED
      BY <1>1, <2>1 DEF VisitFits, VisitIsFresh, RowFits
  <1>5. ~overlap => RowFits(user)' /\ NumberIsConfirmed' /\ VisitsAlone'
    BY <1>1, <1>2 DEF UserInv, RowFits, NumberIsConfirmed, VisitsAlone
  <1>6. QED
    BY <1>1, <1>3, <1>4, <1>5 DEF UserInv, OnboardingTypeOK, ApprovalStands

\* What a commit does to the columns the invariant is about.
LEMMA CommitVisitWrites ==
  ASSUME UserInv, NEW w \in Workers, CommitVisit(w)
  PROVE  LET r == visit[w]
         IN  /\ VisitFits(r) /\ r # Idle /\ r.seen \in User /\ r.new \in User
             /\ user' \in User
             /\ user'.nin = Written(r.seen.nin, r.new.nin, user.nin)
             /\ user'.document = Written(r.seen.document, r.new.document, user.document)
             /\ r.seen = user => user' = r.new
  <1> DEFINE r == visit[w]
  <1>1. VisitFits(r) /\ r # Idle
    BY DEF CommitVisit, UserInv
  <1>2. r.seen \in User /\ r.new \in User /\ user \in User
    BY <1>1 DEF VisitFits, Visits, UserInv, OnboardingTypeOK
  <1>3. user' = WrittenRow(r.seen, r.new, user)
    BY DEF CommitVisit
  <1> HIDE DEF r
  <1>4. DOMAIN user = {"role", "type", "categories", "student", "nin", "document", "note", "cac",
                       "number", "logo"}
    BY <1>2 DEF User
  <1>5. user' = [role       |-> Written(r.seen.role, r.new.role, user.role),
                 type       |-> Written(r.seen.type, r.new.type, user.type),
                 categories |-> Written(r.seen.categories, r.new.categories, user.categories),
                 student    |-> Written(r.seen.student, r.new.student, user.student),
                 nin        |-> Written(r.seen.nin, r.new.nin, user.nin),
                 document   |-> Written(r.seen.document, r.new.document, user.document),
                 note       |-> Written(r.seen.note, r.new.note, user.note),
                 cac        |-> Written(r.seen.cac, r.new.cac, user.cac),
                 number     |-> Written(r.seen.number, r.new.number, user.number),
                 logo       |-> Written(r.seen.logo, r.new.logo, user.logo)]
    BY <1>3, <1>4 DEF WrittenRow
  <1>6. user' \in User
    BY <1>2, <1>5 DEF Written, User
  <1>7. r.seen = user => user' = r.new
    BY <1>2, <1>5 DEF Written, User
  <1>8. /\ user'.nin = Written(r.seen.nin, r.new.nin, user.nin)
        /\ user'.document = Written(r.seen.document, r.new.document, user.document)
    BY <1>5
  <1>9. QED
    BY <1>1, <1>2, <1>6, <1>7, <1>8 DEF r

LEMMA CommitVisitKeeps ==
  ASSUME UserInv, NEW w \in Workers, CommitVisit(w) PROVE UserInv'
  <1> DEFINE r == visit[w]
  <1>1. /\ VisitFits(r) /\ r # Idle /\ r.seen \in User /\ r.new \in User
        /\ user' \in User
        /\ user'.nin = Written(r.seen.nin, r.new.nin, user.nin)
        /\ user'.document = Written(r.seen.document, r.new.document, user.document)
        /\ r.seen = user => user' = r.new
    BY CommitVisitWrites
  <1>2. /\ told'  = IF r.notice = "none" THEN told ELSE r.notice
        /\ confirmed' = IF r.new.cac /\ ~r.seen.cac THEN r.new.number ELSE confirmed
        /\ visit' = [visit EXCEPT ![w] = Idle]
        /\ UNCHANGED <<uploads, overlap>>
    BY DEF CommitVisit
  <1>3. r.notice \in Notices /\ r.new.number \in CacNumber \cup {0}
    BY <1>1 DEF VisitFits, Visits, User
  <1>4. ~overlap => VisitIsFresh(r)
    BY <1>1 DEF UserInv
  <1> HIDE DEF r
  <1>5. \A v \in Workers : visit'[v] = IF v = w THEN Idle ELSE visit[v]
    BY <1>2 DEF UserInv
  <1>6. OnboardingTypeOK'
    BY <1>1, <1>2, <1>3 DEF UserInv, OnboardingTypeOK, VisitFits, Notices
  <1>7. (user.document # 0 => uploads > 0)' /\ ApprovalStands'
    <2>1. (user.document # 0 => uploads > 0)'
      BY <1>1, <1>2 DEF UserInv, VisitFits, Written
    <2>2. r.seen.nin \in BOOLEAN /\ r.new.nin \in BOOLEAN /\ user.nin \in BOOLEAN
      BY <1>1 DEF User, UserInv, OnboardingTypeOK
    <2>3. (user.nin => user'.nin) /\ (r.notice = "verified" => user'.nin)
      BY <1>1, <2>2 DEF VisitFits, Written
    <2>4. QED
      BY <1>2, <2>1, <2>3 DEF UserInv, ApprovalStands
  <1>8. visit' \in [Workers -> Visits]
    BY <1>2 DEF UserInv, Visits
  <1>9. \A v \in Workers : visit'[v] # Idle => VisitFits(visit[v])'
    <2> SUFFICES ASSUME NEW v \in Workers, visit'[v] # Idle PROVE VisitFits(visit[v])'
        OBVIOUS
    <2>1. visit'[v] = visit[v] /\ VisitFits(visit[v])
      BY <1>5 DEF UserInv
    <2>2. QED
      BY <1>2, <2>1 DEF VisitFits
  <1>10. ~overlap => RowFits(user)' /\ NumberIsConfirmed' /\ VisitsAlone'
    <2> SUFFICES ASSUME ~overlap PROVE RowFits(user)' /\ NumberIsConfirmed' /\ VisitsAlone'
        OBVIOUS
    <2>1. user' = r.new /\ r.seen = user /\ RowFits(r.new)
      BY <1>1, <1>4 DEF VisitIsFresh
    <2>2. RowFits(user)'
      BY <2>1 DEF RowFits
    <2>3. NumberIsConfirmed'
      BY <1>2, <1>4, <2>1 DEF UserInv, NumberIsConfirmed, VisitIsFresh
    <2>4. VisitsAlone'
      BY <1>5 DEF UserInv, VisitsAlone
    <2>5. QED
      BY <2>2, <2>3, <2>4
  <1>11. ~overlap => \A v \in Workers : visit'[v] = Idle
    BY <1>1, <1>5 DEF UserInv, VisitsAlone, r
  <1>12. QED
    BY <1>2, <1>6, <1>7, <1>8, <1>9, <1>10, <1>11 DEF UserInv

-----------------------------------------------------------------------------
(* Onboarding: operations *)

\* The operations that write neither verification nor document.
LEMMA SetKeeps ==
  ASSUME UserInv, NEW w \in Workers, NEW new \in User, Set(w, new),
         new.nin = user.nin, new.document = user.document,
         new.cac = user.cac, new.number = user.number,
         ~overlap => RowFits(new)
  PROVE  UserInv'
  <1>1. OpenWith(w, new, "none") /\ uploads' = uploads
    BY DEF Set
  <1>2. uploads \in Nat /\ uploads <= MaxDocuments /\ "none" \in Notices
    BY DEF UserInv, OnboardingTypeOK, Notices
  <1>3. user.document # 0 => uploads > 0
    BY DEF UserInv
  <1>4. QED
    BY <1>1, <1>2, <1>3, OpenWithKeeps

LEMMA SetSeekerCategoriesKeeps ==
  ASSUME UserInv, NEW w \in Workers, SetSeekerCategories(w) PROVE UserInv'
  <1>1. PICK c \in SUBSET {"OFF_CAMPUS", "OTHER"} : Set(w, [user EXCEPT !.categories = c])
    BY DEF SetSeekerCategories
  <1> DEFINE new == [user EXCEPT !.categories = c]
  <1>2. /\ new \in User /\ new.nin = user.nin /\ new.document = user.document
        /\ new.cac = user.cac /\ new.number = user.number /\ new.note = user.note
        /\ new.role = user.role /\ new.type = user.type /\ new.logo = user.logo
    BY DEF UserInv, OnboardingTypeOK, User
  <1> HIDE DEF new
  <1>3. ~overlap => RowFits(new)
    BY <1>2 DEF RowFits, UserInv
  <1>4. QED
    BY <1>1, <1>2, <1>3, SetKeeps DEF new

LEMMA SetStudentExtrasKeeps ==
  ASSUME UserInv, NEW w \in Workers, SetStudentExtras(w) PROVE UserInv'
  <1> DEFINE new == [user EXCEPT !.student = TRUE]
  <1>1. Set(w, new)
    BY DEF SetStudentExtras
  <1>2. /\ new \in User /\ new.nin = user.nin /\ new.document = user.document
        /\ new.cac = user.cac /\ new.number = user.number /\ new.note = user.note
        /\ new.role = user.role /\ new.type = user.type /\ new.logo = user.logo
    BY DEF UserInv, OnboardingTypeOK, User
  <1> HIDE DEF new
  <1>3. ~overlap => RowFits(new)
    BY <1>2 DEF RowFits, UserInv
  <1>4. QED
    BY <1>1, <1>2, <1>3, SetKeeps

\* A seeker has no document and no verification unless an individual's.
LEMMA BecomeLandlordKeeps ==
  ASSUME UserInv, NEW w \in Workers, BecomeLandlord(w) PROVE UserInv'
  <1> DEFINE new == [user EXCEPT !.role = "LANDLORD"]
  <1>1. Set(w, new) /\ user.role = "SEEKER"
    BY DEF BecomeLandlord
  <1>2. /\ new \in User /\ new.nin = user.nin /\ new.document = user.document
        /\ new.cac = user.cac /\ new.number = user.number /\ new.note = user.note
        /\ new.type = user.type /\ new.logo = user.logo
    BY DEF UserInv, OnboardingTypeOK, User, Roles
  <1> HIDE DEF new
  <1>3. ~overlap => RowFits(new)
    BY <1>1, <1>2 DEF RowFits, UserInv
  <1>4. QED
    BY <1>1, <1>2, <1>3, SetKeeps

LEMMA SetAccountTypeKeeps ==
  ASSUME UserInv, NEW w \in Workers, NEW type \in AccountType, SetAccountType(w, type)
  PROVE  UserInv'
  <1> DEFINE new == [user EXCEPT !.type = type]
  <1>1. Set(w, new) /\ user.role = "LANDLORD" /\ user.type \in {"none", type}
    BY DEF SetAccountType, TypeIsOpen
  <1>2. /\ new \in User /\ new.nin = user.nin /\ new.document = user.document
        /\ new.cac = user.cac /\ new.number = user.number /\ new.note = user.note
        /\ new.role = user.role /\ new.type = type /\ new.logo = user.logo
    BY DEF UserInv, OnboardingTypeOK, User
  <1> HIDE DEF new
  <1>3. ~overlap => RowFits(new)
    BY <1>1, <1>2 DEF RowFits, UserInv
  <1>4. QED
    BY <1>1, <1>2, <1>3, SetKeeps

LEMMA SetProfileKeeps ==
  ASSUME UserInv, NEW w \in Workers, SetProfile(w) PROVE UserInv'
  <1> DEFINE new == [user EXCEPT !.logo = TRUE]
  <1>1. Set(w, new) /\ user.type = "AGENCY"
    BY DEF SetProfile
  <1>2. /\ new \in User /\ new.nin = user.nin /\ new.document = user.document
        /\ new.cac = user.cac /\ new.number = user.number /\ new.note = user.note
        /\ new.role = user.role /\ new.type = user.type
    BY DEF UserInv, OnboardingTypeOK, User
  <1> HIDE DEF new
  <1>3. ~overlap => RowFits(new)
    BY <1>1, <1>2 DEF RowFits, UserInv
  <1>4. QED
    BY <1>1, <1>2, <1>3, SetKeeps

LEMMA VerifyNinKeeps ==
  ASSUME UserInv, NEW w \in Workers, VerifyNin(w) PROVE UserInv'
  <1>1. PICK verified \in BOOLEAN : Set(w, [user EXCEPT !.nin = verified])
    BY DEF VerifyNin
  <1>2. NinApplies /\ ~user.nin
    BY DEF VerifyNin
  <1> DEFINE new == [user EXCEPT !.nin = verified]
  <1>3. /\ new \in User /\ new.document = user.document
        /\ new.cac = user.cac /\ new.number = user.number /\ new.note = user.note
        /\ new.role = user.role /\ new.type = user.type /\ new.logo = user.logo
    BY DEF UserInv, OnboardingTypeOK, User
  <1> HIDE DEF new
  <1>4. ~overlap => RowFits(new)
    BY <1>2, <1>3 DEF RowFits, UserInv, NinApplies
  <1>5. OpenWith(w, new, "none") /\ uploads' = uploads
    BY <1>1 DEF Set, new
  <1>6. /\ uploads \in Nat /\ uploads <= MaxDocuments /\ "none" \in Notices
        /\ user.document # 0 => uploads > 0
    BY DEF UserInv, OnboardingTypeOK, Notices
  <1>7. QED
    BY <1>2, <1>3, <1>4, <1>5, <1>6, OpenWithKeeps

\* The new document takes the place of the note.
LEMMA RegisterNinDocumentKeeps ==
  ASSUME UserInv, NEW w \in Workers, RegisterNinDocument(w) PROVE UserInv'
  <1> DEFINE new == [user EXCEPT !.document = uploads', !.note = NoteOnUpload(user.note)]
  <1>1. /\ NinApplies /\ ~user.nin /\ uploads < MaxDocuments /\ uploads' = uploads + 1
        /\ OpenWith(w, new, "none")
    BY DEF RegisterNinDocument
  <1>2. uploads \in Nat /\ "none" \in Notices
    BY DEF UserInv, OnboardingTypeOK, Notices
  <1>3. uploads' \in 0 .. MaxDocuments
    BY <1>1, <1>2
  <1>4. /\ new \in User /\ new.nin = user.nin /\ new.note = 0
        /\ new.cac = user.cac /\ new.number = user.number
        /\ new.role = user.role /\ new.type = user.type /\ new.logo = user.logo
    <2>1. user \in User /\ 0 \in 0 .. MaxDocuments
      BY DEF UserInv, OnboardingTypeOK
    <2>2. new = [user EXCEPT !.document = uploads', !.note = 0]
      BY DEF NoteOnUpload
    <2> HIDE DEF new
    <2>3. QED
      BY <1>3, <2>1, <2>2 DEF User
  <1> HIDE DEF new
  <1>5. ~overlap => RowFits(new)
    BY <1>1, <1>4 DEF RowFits, UserInv, NinApplies
  <1>6. QED
    BY <1>1, <1>2, <1>4, <1>5, OpenWithKeeps

LEMMA VerifyCacKeeps ==
  ASSUME UserInv, NEW w \in Workers, NEW number \in CacNumber, VerifyCac(w, number)
  PROVE  UserInv'
  <1>1. PICK verified \in BOOLEAN :
            Set(w, [user EXCEPT !.cac = @ \/ verified, !.number = number])
    BY DEF VerifyCac
  <1>2. user.type = "AGENCY" /\ ~user.cac
    BY DEF VerifyCac, CacIsOpen
  <1> DEFINE new == [user EXCEPT !.cac = @ \/ verified, !.number = number]
  <1>3. /\ new \in User /\ new.nin = user.nin /\ new.document = user.document
        /\ new.note = user.note /\ new.role = user.role /\ new.type = user.type
    BY DEF UserInv, OnboardingTypeOK, User
  <1> HIDE DEF new
  <1>4. ~overlap => RowFits(new)
    BY <1>2, <1>3 DEF RowFits, UserInv
  <1>5. OpenWith(w, new, "none") /\ uploads' = uploads
    BY <1>1 DEF Set, new
  <1>6. /\ uploads \in Nat /\ uploads <= MaxDocuments /\ "none" \in Notices
        /\ user.document # 0 => uploads > 0
    BY DEF UserInv, OnboardingTypeOK, Notices
  <1>7. QED
    BY <1>2, <1>3, <1>4, <1>5, <1>6, OpenWithKeeps

LEMMA ApproveNinKeeps ==
  ASSUME UserInv, NEW w \in Workers, ApproveNin(w) PROVE UserInv'
  <1> DEFINE new == Approved(user)
  <1>1. /\ user.document # 0 /\ ~user.nin /\ uploads' = uploads /\ OpenWith(w, new, "verified")
    BY DEF ApproveNin, AwaitsReview
  <1>2. /\ new \in User /\ new.nin /\ new.document = user.document
        /\ new.cac = user.cac /\ new.number = user.number /\ new.note = 0
        /\ new.role = user.role /\ new.type = user.type /\ new.logo = user.logo
    <2>1. user \in User /\ 0 \in 0 .. MaxDocuments
      BY DEF UserInv, OnboardingTypeOK
    <2>2. new = [user EXCEPT !.nin = TRUE, !.note = 0]
      BY DEF Approved
    <2> HIDE DEF new
    <2>3. QED
      BY <2>1, <2>2 DEF User
  <1> HIDE DEF new
  <1>3. ~overlap => RowFits(new)
    BY <1>1, <1>2 DEF RowFits, UserInv
  <1>4. /\ uploads \in Nat /\ uploads <= MaxDocuments /\ "verified" \in Notices
        /\ user.document # 0 => uploads > 0
    BY DEF UserInv, OnboardingTypeOK, Notices
  <1>5. QED
    BY <1>1, <1>2, <1>3, <1>4, OpenWithKeeps

LEMMA RejectNinKeeps ==
  ASSUME UserInv, NEW w \in Workers, RejectNin(w) PROVE UserInv'
  <1> DEFINE new == [user EXCEPT !.document = 0, !.note = user.document]
  <1>1. /\ user.document # 0 /\ ~user.nin /\ uploads' = uploads /\ OpenWith(w, new, "rejected")
    BY DEF RejectNin, AwaitsReview
  <1>2. /\ new \in User /\ new.nin = user.nin /\ new.document = 0
        /\ new.cac = user.cac /\ new.number = user.number
        /\ new.role = user.role /\ new.type = user.type /\ new.logo = user.logo
    <2>1. user \in User /\ 0 \in 0 .. MaxDocuments /\ user.document \in 0 .. MaxDocuments
      BY DEF UserInv, OnboardingTypeOK, User
    <2>2. new = [user EXCEPT !.document = 0, !.note = user.document]
      OBVIOUS
    <2> HIDE DEF new
    <2>3. QED
      BY <2>1, <2>2 DEF User
  <1> HIDE DEF new
  <1>3. ~overlap => RowFits(new)
    BY <1>1, <1>2 DEF RowFits, UserInv
  <1>4. /\ uploads \in Nat /\ uploads <= MaxDocuments /\ "rejected" \in Notices
        /\ user.document # 0 => uploads > 0
    BY DEF UserInv, OnboardingTypeOK, Notices
  <1>5. QED
    BY <1>1, <1>2, <1>3, <1>4, OpenWithKeeps

-----------------------------------------------------------------------------
(* Onboarding: the theorem *)

\* For any number of workers, documents and attempts: who was told of the
\* approval is verified, and, one session at a time, the verification, the CAC
\* number and the note of a user fit (users/service.py, admin/service.py).
THEOREM VerificationIsSound == OnboardingSpec => []OnboardingInv
  <1>1. OnboardingInit => UserInv
    BY InitUserInv
  <1>2. UserInv /\ [OnboardingNext]_onboardingVars => UserInv'
    <2>1. UserInv /\ UNCHANGED onboardingVars => UserInv'
      BY DEF onboardingVars, UserInv, OnboardingTypeOK, ApprovalStands, RowFits, NumberIsConfirmed,
         VisitsAlone, VisitFits, VisitIsFresh
    <2>2. QED
      BY <2>1, SetSeekerCategoriesKeeps, SetStudentExtrasKeeps, BecomeLandlordKeeps,
         SetAccountTypeKeeps, SetProfileKeeps, VerifyNinKeeps, RegisterNinDocumentKeeps,
         VerifyCacKeeps, ApproveNinKeeps, RejectNinKeeps, CommitVisitKeeps, AbortVisitKeeps
         DEF OnboardingNext
  <1>3. UserInv => OnboardingInv
    BY DEF UserInv, OnboardingInv, RowFits, VerificationFits, NoteOrDocument, NumberIsConfirmed
  <1>4. QED
    BY <1>1, <1>2, <1>3, PTL DEF OnboardingSpec

-----------------------------------------------------------------------------
(* Otp: the invariant *)

OtpRecord == [number : Nat, attempts : 0 .. MaxVerifyAttempts]

OtpCalls == {Idle} \cup [op : {"send"}, address : Address, first : BOOLEAN]
                   \cup [op : {"judge"}, address : Address, guess : Nat, seen : OtpRecord]

Judges(w) == otpCall[w].op = "judge"

\* Codes that were never stored have no guesses, and a record is NoCode or a
\* stored code.
OtpRows ==
    /\ overlap \in BOOLEAN
    /\ sent \in 0 .. MaxCodes
    /\ code \in [Address -> OtpRecord]
    /\ \A a \in Address : /\ code[a].number <= sent
                          /\ code[a].number = 0 => code[a] = NoCode
    /\ rate \in [Address -> [count : 0 .. RateLimit + 1, ends : BOOLEAN]]
    /\ otpCall \in [Workers -> OtpCalls]
    /\ \A w \in Workers : Judges(w) => otpCall[w].seen.number \in 1 .. sent
    /\ windows \in [Address -> Nat]
    /\ codesFor \in [Address -> Nat]
    /\ guesses \in [1 .. MaxCodes -> Nat]
    /\ uses \in [1 .. MaxCodes -> Nat]
    /\ \A c \in 1 .. MaxCodes : c > sent => guesses[c] = 0 /\ uses[c] = 0

Sending(a) == {w \in Workers : otpCall[w].op = "send" /\ otpCall[w].address = a}

Capped(count) == IF count > RateLimit THEN RateLimit ELSE count

\* However requests overlap, the codes stored and about to be stored were
\* counted, in this window or in an earlier one.
SendsCounted ==
    \A a \in Address :
        /\ IsFiniteSet(Sending(a))
        /\ codesFor[a] + Cardinality(Sending(a)) <= RateLimit * windows[a] + Capped(rate[a].count)

\* One request at a time: a record counts the guesses at its code, which was
\* not used; an open guess has read the record of its address, which may have
\* expired since.
Faithful(record) == guesses[record.number] = record.attempts /\ uses[record.number] = 0

GuessesCounted ==
    /\ \A v, w \in Workers : otpCall[v] # Idle /\ otpCall[w] # Idle => v = w
    /\ \A a \in Address : code[a] # NoCode => Faithful(code[a])
    /\ \A a, b \in Address : code[a].number = code[b].number => a = b \/ code[a] = NoCode
    /\ \A w \in Workers : Judges(w) =>
         /\ Faithful(otpCall[w].seen)
         /\ \A a \in Address : code[a].number = otpCall[w].seen.number => a = otpCall[w].address
    /\ \A c \in 1 .. sent : guesses[c] <= MaxVerifyAttempts /\ uses[c] <= 1

CodesInv == OtpRows /\ SendsCounted /\ (~overlap => GuessesCounted)

\* The fields of an open request.
LEMMA OtpCallTypes ==
  ASSUME OtpRows, NEW w \in Workers
  PROVE  /\ otpCall[w].op = "send" =>
               otpCall[w] \in [op : {"send"}, address : Address, first : BOOLEAN]
         /\ Judges(w) =>
               otpCall[w] \in [op : {"judge"}, address : Address, guess : Nat, seen : OtpRecord]
  BY DEF OtpRows, OtpCalls, Judges, Idle

LEMMA InitCodesInv == OtpInit => CodesInv
  <1> SUFFICES ASSUME OtpInit PROVE CodesInv
      OBVIOUS
  <1>1. /\ overlap \in BOOLEAN /\ sent = 0 /\ sent \in 0 .. MaxCodes
        /\ \A a \in Address : code[a] = NoCode /\ rate[a].count = 0
        /\ \A w \in Workers : otpCall[w] = Idle /\ otpCall[w].op = "idle"
    BY DEF OtpInit, Idle
  <1>2. NoCode \in OtpRecord /\ NoCode.number = 0
    BY DEF NoCode, OtpRecord
  <1>3. OtpRows
    <2>1. code \in [Address -> OtpRecord]
      BY <1>2 DEF OtpInit
    <2>2. rate \in [Address -> [count : 0 .. RateLimit + 1, ends : BOOLEAN]]
      BY DEF OtpInit
    <2>3. otpCall \in [Workers -> OtpCalls]
      BY DEF OtpInit, OtpCalls
    <2>4. /\ windows \in [Address -> Nat] /\ codesFor \in [Address -> Nat]
          /\ guesses \in [1 .. MaxCodes -> Nat] /\ uses \in [1 .. MaxCodes -> Nat]
          /\ \A c \in 1 .. MaxCodes : guesses[c] = 0 /\ uses[c] = 0
      BY DEF OtpInit
    <2>5. QED
      BY <1>1, <1>2, <2>1, <2>2, <2>3, <2>4 DEF OtpRows, Judges
  <1>4. SendsCounted
    <2> SUFFICES ASSUME NEW a \in Address
                 PROVE  /\ IsFiniteSet(Sending(a))
                        /\ codesFor[a] + Cardinality(Sending(a))
                              <= RateLimit * windows[a] + Capped(rate[a].count)
        BY DEF SendsCounted
    <2>1. Sending(a) = {}
      BY <1>1 DEF Sending
    <2>2. codesFor[a] = 0 /\ windows[a] = 0 /\ Capped(rate[a].count) = 0
      BY <1>1 DEF OtpInit, Capped
    <2>3. RateLimit * 0 = 0
      OBVIOUS
    <2>4. QED
      BY <2>1, <2>2, <2>3, FS_EmptySet
  <1>5. GuessesCounted
    <2>1. \A c \in 1 .. sent : FALSE
      BY <1>1
    <2>2. QED
      BY <1>1, <2>1 DEF GuessesCounted, Judges
  <1>6. QED
    BY <1>3, <1>4, <1>5 DEF CodesInv

-----------------------------------------------------------------------------
(* Otp: the requests in flight *)

\* A step that sends nothing new, and leaves the counters.
LEMMA SendsStay ==
  ASSUME SendsCounted, UNCHANGED <<codesFor, windows>>,
         \A w \in Workers, a \in Address : w \in Sending(a)' => w \in Sending(a),
         \A a \in Address : rate'[a].count = rate[a].count,
         OtpRows
  PROVE  SendsCounted'
  <1> SUFFICES ASSUME NEW a \in Address
               PROVE  /\ IsFiniteSet(Sending(a)')
                      /\ codesFor[a] + Cardinality(Sending(a)')
                            <= RateLimit * windows[a] + Capped(rate[a].count)
      BY DEF SendsCounted, Capped
  <1>1. Sending(a)' \in SUBSET Sending(a)
    BY DEF Sending
  <1>2. IsFiniteSet(Sending(a)) /\ IsFiniteSet(Sending(a)')
    BY <1>1, FS_Subset DEF SendsCounted
  <1>3. Cardinality(Sending(a)') <= Cardinality(Sending(a))
    BY <1>1, <1>2, FS_Subset
  <1> DEFINE x == RateLimit * windows[a] + Capped(rate[a].count)
             n == Cardinality(Sending(a))
             m == Cardinality(Sending(a)')
  <1>4. n \in Nat /\ m \in Nat /\ codesFor[a] \in Nat
    BY <1>2, FS_CardinalityType DEF OtpRows
  <1>5. x \in Int
    BY DEF OtpRows, Capped
  <1>6. codesFor[a] + n <= x
    BY DEF SendsCounted
  <1> HIDE DEF x, n, m
  <1>7. codesFor[a] + m <= x
    BY <1>3, <1>4, <1>5, <1>6 DEF n, m
  <1>8. QED
    BY <1>2, <1>7 DEF x, m

\* Who leaves sends nothing.
LEMMA LeaveSends ==
  ASSUME OtpRows, NEW w \in Workers, otpCall' = [otpCall EXCEPT ![w] = Idle]
  PROVE  \A v \in Workers, a \in Address : v \in Sending(a)' => v \in Sending(a)
  BY DEF Sending, OtpRows, Idle

-----------------------------------------------------------------------------
(* Otp: steps *)

LEMMA OtpLeaves ==
  ASSUME OtpRows, NEW w \in Workers, OtpLeave(w)
  PROVE  /\ otpCall' = [otpCall EXCEPT ![w] = Idle]
         /\ otpCall' \in [Workers -> OtpCalls]
         /\ \A v \in Workers : otpCall'[v] = IF v = w THEN Idle ELSE otpCall[v]
         /\ \A v \in Workers : Judges(v)' => otpCall'[v] = otpCall[v] /\ Judges(v)
  BY DEF OtpRows, OtpLeave, OtpCalls, Judges, Idle

LEMMA OtpFailsKeeps ==
  ASSUME CodesInv, NEW w \in Workers, OtpFails(w) PROVE CodesInv'
  <1>1. UNCHANGED <<code, rate, sent, windows, codesFor, guesses, uses, overlap>> /\ OtpLeave(w)
    BY DEF OtpFails
  <1>2. /\ otpCall' = [otpCall EXCEPT ![w] = Idle]
        /\ otpCall' \in [Workers -> OtpCalls]
        /\ \A v \in Workers : otpCall'[v] = IF v = w THEN Idle ELSE otpCall[v]
        /\ \A v \in Workers : Judges(v)' => otpCall'[v] = otpCall[v] /\ Judges(v)
    BY <1>1, OtpLeaves DEF CodesInv
  <1>3. OtpRows'
    BY <1>1, <1>2 DEF CodesInv, OtpRows, OtpRecord
  <1>4. SendsCounted'
    BY <1>1, <1>2, SendsStay, LeaveSends DEF CodesInv
  <1>5. ~overlap' => GuessesCounted'
    BY <1>1, <1>2 DEF CodesInv, GuessesCounted, Faithful
  <1>6. QED
    BY <1>3, <1>4, <1>5 DEF CodesInv

LEMMA RequestOtpKeeps ==
  ASSUME CodesInv, NEW w \in Workers, NEW a \in Address, RequestOtp(w, a) PROVE CodesInv'
  <1> DEFINE count == rate[a].count + 1
             request == IF count <= RateLimit
                        THEN [op |-> "send", address |-> a, first |-> count = 1]
                        ELSE Idle
  <1>1. /\ count <= RateLimit + 1
        /\ rate' = [rate EXCEPT ![a].count = count]
        /\ otpCall[w] = Idle /\ MayStart(otpCall)
        /\ otpCall' = [otpCall EXCEPT ![w] = request]
        /\ UNCHANGED <<code, sent, windows, codesFor, guesses, uses, overlap>>
    BY DEF RequestOtp, OtpEnter, WithinLimit
  <1>2. /\ rate[a] \in [count : 0 .. RateLimit + 1, ends : BOOLEAN]
        /\ rate[a].count \in Nat /\ count \in 1 .. RateLimit + 1
    <2>1. rate[a] \in [count : 0 .. RateLimit + 1, ends : BOOLEAN]
      BY DEF CodesInv, OtpRows
    <2>2. rate[a].count \in 0 .. RateLimit + 1
      BY <2>1
    <2>3. rate[a].count \in Nat
      BY <2>2
    <2>4. QED
      BY <1>1, <2>1, <2>3
  <1>3. request \in OtpCalls /\ request.op # "judge"
    BY DEF OtpCalls, Idle
  <1>4. \A v \in Workers : otpCall'[v] = IF v = w THEN request ELSE otpCall[v]
    BY <1>1 DEF CodesInv, OtpRows
  <1>5. \A v \in Workers : Judges(v)' => otpCall'[v] = otpCall[v] /\ Judges(v)
    BY <1>3, <1>4 DEF Judges
  <1>6. /\ rate' \in [Address -> [count : 0 .. RateLimit + 1, ends : BOOLEAN]]
        /\ \A b \in Address : rate'[b].count = IF b = a THEN count ELSE rate[b].count
    <2>1. rate \in [Address -> [count : 0 .. RateLimit + 1, ends : BOOLEAN]]
      BY DEF CodesInv, OtpRows
    <2> HIDE DEF count
    <2>2. \A b \in Address : rate'[b] = IF b = a THEN [rate[a] EXCEPT !.count = count] ELSE rate[b]
      BY <1>1, <2>1
    <2>3. /\ [rate[a] EXCEPT !.count = count] \in [count : 0 .. RateLimit + 1, ends : BOOLEAN]
          /\ [rate[a] EXCEPT !.count = count].count = count
      BY <1>2
    <2>4. QED
      BY <1>1, <2>1, <2>2, <2>3
  <1>7. OtpRows'
    BY <1>1, <1>3, <1>5, <1>6 DEF CodesInv, OtpRows, OtpRecord
  <1>8. SendsCounted'
    <2>1. CASE count <= RateLimit
      <3>1. request = [op |-> "send", address |-> a, first |-> count = 1]
        BY <2>1
      <3>2. w \notin Sending(a) /\ Sending(a)' = Sending(a) \cup {w}
        BY <1>1, <1>4, <3>1 DEF Sending, Idle
      <3>3. \A b \in Address \ {a} : Sending(b)' = Sending(b)
        BY <1>1, <1>4, <3>1 DEF Sending, Idle
      <3>4. /\ IsFiniteSet(Sending(a)) /\ IsFiniteSet(Sending(a)')
            /\ Cardinality(Sending(a)') = Cardinality(Sending(a)) + 1
            /\ Cardinality(Sending(a)) \in Nat
        BY <3>2, FS_AddElement, FS_CardinalityType DEF CodesInv, SendsCounted
      <3>5. codesFor[a] + Cardinality(Sending(a)) <= RateLimit * windows[a] + Capped(rate[a].count)
        BY DEF CodesInv, SendsCounted
      <3>6. Capped(count) = count /\ Capped(rate[a].count) = rate[a].count
        BY <1>2, <2>1 DEF Capped
      <3> DEFINE x == RateLimit * windows[a]
      <3>7. x \in Int /\ codesFor[a] \in Nat
        BY DEF CodesInv, OtpRows
      <3>8. codesFor[a] + Cardinality(Sending(a)') <= x + Capped(count)
        <4> HIDE DEF x
        <4>1. codesFor[a] + Cardinality(Sending(a)) <= x + rate[a].count
          BY <3>5, <3>6 DEF x
        <4>2. QED
          BY <1>2, <3>4, <3>6, <3>7, <4>1
      <3>9. QED
        BY <1>1, <1>6, <3>3, <3>4, <3>8 DEF CodesInv, SendsCounted, Capped
    <2>2. CASE count > RateLimit
      <3>1. request = Idle
        BY <1>2, <2>2
      <3>2. \A b \in Address : Sending(b)' = Sending(b)
        BY <1>1, <1>4, <3>1 DEF Sending
      <3>3. Capped(count) = RateLimit /\ Capped(rate[a].count) = RateLimit
        BY <1>1, <1>2, <2>2 DEF Capped
      <3>4. \A b \in Address : Capped(rate'[b].count) = Capped(rate[b].count)
        BY <1>6, <3>3
      <3>5. QED
        BY <1>1, <3>2, <3>4 DEF CodesInv, SendsCounted, Capped
    <2>3. QED
      BY <1>2, <2>1, <2>2
  <1>9. ~overlap' => GuessesCounted'
    <2> SUFFICES ASSUME ~overlap PROVE GuessesCounted'
        BY <1>1
    <2>1. \A u, v \in Workers : otpCall'[u] # Idle /\ otpCall'[v] # Idle => u = v
      BY <1>1, <1>4 DEF MayStart
    <2>2. QED
      BY <1>1, <1>5, <2>1 DEF CodesInv, GuessesCounted, Faithful
  <1>10. QED
    BY <1>7, <1>8, <1>9 DEF CodesInv

LEMMA SetWindowKeeps ==
  ASSUME CodesInv, NEW w \in Workers, SetWindow(w) PROVE CodesInv'
  <1>0. PICK a \in Address : otpCall[w].address = a
    BY OtpCallTypes DEF CodesInv, SetWindow, OtpAt
  <1>1. /\ otpCall[w].op = "send"
        /\ rate' = [rate EXCEPT ![a].ends = TRUE]
        /\ otpCall' = [otpCall EXCEPT ![w].first = FALSE]
        /\ UNCHANGED <<code, sent, windows, codesFor, guesses, uses, overlap>>
    BY <1>0 DEF SetWindow, OtpAt
  <1>2. otpCall[w] \in [op : {"send"}, address : Address, first : BOOLEAN]
    BY <1>1, OtpCallTypes DEF CodesInv
  <1>3. /\ otpCall'[w] \in [op : {"send"}, address : Address, first : BOOLEAN]
        /\ otpCall'[w].address = a
        /\ \A v \in Workers \ {w} : otpCall'[v] = otpCall[v]
        /\ otpCall' \in [Workers -> OtpCalls]
    BY <1>0, <1>1, <1>2 DEF CodesInv, OtpRows, OtpCalls
  <1>4. /\ rate' \in [Address -> [count : 0 .. RateLimit + 1, ends : BOOLEAN]]
        /\ \A b \in Address : rate'[b].count = rate[b].count
    <2>1. rate \in [Address -> [count : 0 .. RateLimit + 1, ends : BOOLEAN]]
      BY DEF CodesInv, OtpRows
    <2>2. \A b \in Address : rate'[b] = IF b = a THEN [rate[a] EXCEPT !.ends = TRUE] ELSE rate[b]
      BY <1>1, <1>2, <2>1
    <2>3. rate[a] \in [count : 0 .. RateLimit + 1, ends : BOOLEAN]
      BY <2>1
    <2>4. [rate[a] EXCEPT !.ends = TRUE] \in [count : 0 .. RateLimit + 1, ends : BOOLEAN]
      BY <2>3
    <2>5. [rate[a] EXCEPT !.ends = TRUE].count = rate[a].count
      BY <2>3
    <2>6. QED
      BY <1>1, <2>1, <2>2, <2>4, <2>5
  <1>5. \A v \in Workers : Judges(v)' => otpCall'[v] = otpCall[v] /\ Judges(v)
    BY <1>3 DEF Judges
  <1>6. OtpRows'
    BY <1>1, <1>3, <1>4, <1>5 DEF CodesInv, OtpRows, OtpRecord
  <1>7. SendsCounted'
    <2>1. \A v \in Workers, b \in Address : v \in Sending(b)' => v \in Sending(b)
      BY <1>0, <1>1, <1>3 DEF Sending
    <2>2. QED
      BY <1>1, <1>4, <2>1, SendsStay DEF CodesInv
  <1>8. ~overlap' => GuessesCounted'
    <2>1. \A v \in Workers : otpCall'[v] # Idle => otpCall[v] # Idle
      BY <1>1, <1>3 DEF Idle
    <2>2. QED
      BY <1>1, <1>5, <2>1 DEF CodesInv, GuessesCounted, Faithful
  <1>9. QED
    BY <1>6, <1>7, <1>8 DEF CodesInv

\* The code stored is new: nobody has guessed it or used it.
LEMMA StoreCodeKeeps ==
  ASSUME CodesInv, NEW w \in Workers, StoreCode(w) PROVE CodesInv'
  <1>0. PICK a \in Address : otpCall[w].address = a
    BY OtpCallTypes DEF CodesInv, StoreCode, OtpAt
  <1> DEFINE new == [number |-> sent + 1, attempts |-> 0]
  <1>1. /\ otpCall[w].op = "send" /\ sent < MaxCodes /\ sent' = sent + 1
        /\ code' = [code EXCEPT ![a] = new]
        /\ codesFor' = [codesFor EXCEPT ![a] = @ + 1]
        /\ OtpLeave(w)
        /\ UNCHANGED <<rate, windows, guesses, uses, overlap>>
    BY <1>0 DEF StoreCode, OtpAt
  <1>2. sent \in Nat
    BY DEF CodesInv, OtpRows
  <1>3. /\ otpCall' = [otpCall EXCEPT ![w] = Idle]
        /\ otpCall' \in [Workers -> OtpCalls]
        /\ \A v \in Workers : otpCall'[v] = IF v = w THEN Idle ELSE otpCall[v]
        /\ \A v \in Workers : Judges(v)' => otpCall'[v] = otpCall[v] /\ Judges(v)
    BY <1>1, OtpLeaves DEF CodesInv
  <1>4. new \in OtpRecord /\ new.number = sent + 1 /\ new.attempts = 0 /\ new # NoCode
    BY <1>2 DEF OtpRecord, NoCode
  <1>5. /\ code' \in [Address -> OtpRecord]
        /\ \A b \in Address : code'[b] = IF b = a THEN new ELSE code[b]
        /\ codesFor' \in [Address -> Nat]
        /\ \A b \in Address : codesFor'[b] = IF b = a THEN codesFor[b] + 1 ELSE codesFor[b]
    BY <1>1, <1>2, <1>4 DEF CodesInv, OtpRows
  <1> HIDE DEF new
  <1>7. OtpRows'
    <2>1. sent' \in 0 .. MaxCodes
      BY <1>1, <1>2
    <2>2. \A b \in Address : code'[b].number <= sent' /\ (code'[b].number = 0 => code'[b] = NoCode)
      <3> SUFFICES ASSUME NEW b \in Address
                   PROVE  code'[b].number <= sent' /\ (code'[b].number = 0 => code'[b] = NoCode)
          OBVIOUS
      <3>1. code[b].number \in Nat /\ code[b].number <= sent /\ (code[b].number = 0 => code[b] = NoCode)
        BY DEF CodesInv, OtpRows, OtpRecord
      <3>2. QED
        BY <1>1, <1>2, <1>4, <1>5, <3>1
    <2>3. \A v \in Workers : Judges(v)' => otpCall'[v].seen.number \in 1 .. sent'
      <3> SUFFICES ASSUME NEW v \in Workers, Judges(v)' PROVE otpCall'[v].seen.number \in 1 .. sent'
          OBVIOUS
      <3>1. otpCall'[v] = otpCall[v] /\ otpCall[v].seen.number \in 1 .. sent
        BY <1>3 DEF CodesInv, OtpRows
      <3>2. QED
        BY <1>1, <1>2, <3>1
    <2>4. \A c \in 1 .. MaxCodes : c > sent' => guesses'[c] = 0 /\ uses'[c] = 0
      BY <1>1, <1>2 DEF CodesInv, OtpRows
    <2>5. QED
      BY <1>1, <1>3, <1>5, <2>1, <2>2, <2>3, <2>4 DEF CodesInv, OtpRows, OtpRecord
  <1>8. SendsCounted'
    <2>0. \A b \in Address, v \in Workers : v \in Sending(b)' <=> v \in Sending(b) /\ v # w
      BY <1>3 DEF Sending, Idle
    <2>1. w \in Sending(a) /\ Sending(a)' = Sending(a) \ {w}
      <3>1. w \in Sending(a)
        BY <1>1, <1>0 DEF Sending
      <3>2. Sending(a) \subseteq Workers /\ Sending(a)' \subseteq Workers
        BY DEF Sending
      <3>3. QED
        BY <1>2, <2>0, <3>1, <3>2
    <2>2. \A b \in Address \ {a} : Sending(b)' = Sending(b)
      BY <1>1, <1>3, <1>0 DEF Sending, Idle
    <2>3. /\ IsFiniteSet(Sending(a)')
          /\ Cardinality(Sending(a)') = Cardinality(Sending(a)) - 1
          /\ Cardinality(Sending(a)) \in Nat
      BY <1>2, <2>1, FS_RemoveElement, FS_CardinalityType DEF CodesInv, SendsCounted
    <2>4. codesFor[a] + Cardinality(Sending(a)) <= RateLimit * windows[a] + Capped(rate[a].count)
      BY <1>2 DEF CodesInv, SendsCounted
    <2>5. codesFor[a] \in Nat /\ codesFor'[a] = codesFor[a] + 1
      BY <1>2, <1>5 DEF CodesInv, OtpRows
    <2>6. codesFor'[a] + Cardinality(Sending(a)') = codesFor[a] + Cardinality(Sending(a))
      BY <2>3, <2>5
    <2>7. codesFor'[a] + Cardinality(Sending(a)') <= RateLimit * windows[a] + Capped(rate[a].count)
      BY <2>4, <2>6
    <2>8. ASSUME NEW b \in Address
          PROVE  /\ IsFiniteSet(Sending(b)')
                 /\ codesFor'[b] + Cardinality(Sending(b)') <= RateLimit * windows[b] + Capped(rate[b].count)
      <3>1. CASE b = a
        BY <2>3, <2>7, <3>1
      <3>2. CASE b # a
        BY <1>5, <2>2, <3>2 DEF CodesInv, SendsCounted
      <3>3. QED
        BY <3>1, <3>2
    <2>9. QED
      BY <1>1, <2>8 DEF SendsCounted, Capped
  <1>9. ~overlap' => GuessesCounted'
    <2> SUFFICES ASSUME ~overlap PROVE GuessesCounted'
        BY <1>1
    <2>0. GuessesCounted
      BY DEF CodesInv
    <2>1. \A u, v \in Workers : otpCall'[u] # Idle /\ otpCall'[v] # Idle => u = v
      BY <1>3, <2>0 DEF GuessesCounted
    <2>2. \A v \in Workers : ~Judges(v)'
      BY <1>1, <1>3, <2>0 DEF GuessesCounted, Judges, Idle
    <2>3. \A b \in Address : code'[b] # NoCode => Faithful(code[b])'
      <3> SUFFICES ASSUME NEW b \in Address, code'[b] # NoCode PROVE Faithful(code[b])'
          OBVIOUS
      <3>1. CASE b = a
        <4>1. sent + 1 \in 1 .. MaxCodes /\ guesses[sent + 1] = 0 /\ uses[sent + 1] = 0
          BY <1>1, <1>2 DEF CodesInv, OtpRows
        <4>2. QED
          BY <1>1, <1>4, <1>5, <3>1, <4>1 DEF Faithful
      <3>2. CASE b # a
        BY <1>1, <1>5, <2>0, <3>2 DEF GuessesCounted, Faithful
      <3>3. QED
        BY <3>1, <3>2
    <2>4. \A b, c \in Address : code'[b].number = code'[c].number => b = c \/ code'[b] = NoCode
      <3>1. \A b \in Address : code[b].number \in Nat /\ code[b].number # sent + 1
        <4>1. \A b \in Address : code[b] \in OtpRecord /\ code[b].number <= sent
          BY DEF CodesInv, OtpRows
        <4>2. sent \in Nat /\ \A record \in OtpRecord : record.number \in Nat
          BY DEF CodesInv, OtpRows, OtpRecord
        <4>3. QED
          BY <4>1, <4>2
      <3>2. QED
        BY <1>4, <1>5, <2>0, <3>1 DEF GuessesCounted
    <2>5. \A c \in 1 .. sent' : guesses'[c] <= MaxVerifyAttempts /\ uses'[c] <= 1
      <3> SUFFICES ASSUME NEW c \in 1 .. sent' PROVE guesses[c] <= MaxVerifyAttempts /\ uses[c] <= 1
          BY <1>1
      <3>1. CASE c \in 1 .. sent
        BY <2>0, <3>1 DEF GuessesCounted
      <3>2. CASE c \notin 1 .. sent
        <4>1. c \in 1 .. MaxCodes /\ c > sent
          BY <1>1, <1>2, <3>2
        <4>2. guesses[c] = 0 /\ uses[c] = 0
          BY <4>1 DEF CodesInv, OtpRows
        <4>3. QED
          BY <4>2
      <3>3. QED
        BY <3>1, <3>2
    <2>6. QED
      BY <2>1, <2>2, <2>3, <2>4, <2>5 DEF GuessesCounted
  <1>10. QED
    BY <1>7, <1>8, <1>9 DEF CodesInv

LEMMA EndWindowKeeps ==
  ASSUME CodesInv, NEW a \in Address, EndWindow(a) PROVE CodesInv'
  <1>1. /\ rate' = [rate EXCEPT ![a] = [count |-> 0, ends |-> FALSE]]
        /\ windows' = [windows EXCEPT ![a] = @ + 1]
        /\ UNCHANGED <<code, otpCall, sent, codesFor, guesses, uses, overlap>>
    BY DEF EndWindow
  <1>2. /\ rate' \in [Address -> [count : 0 .. RateLimit + 1, ends : BOOLEAN]]
        /\ \A b \in Address : rate'[b].count = IF b = a THEN 0 ELSE rate[b].count
    BY <1>1 DEF CodesInv, OtpRows
  <1>3. /\ windows' \in [Address -> Nat]
        /\ \A b \in Address : windows'[b] = IF b = a THEN windows[b] + 1 ELSE windows[b]
    BY <1>1 DEF CodesInv, OtpRows
  <1>4. OtpRows'
    BY <1>1, <1>2, <1>3 DEF CodesInv, OtpRows, OtpRecord, Judges
  <1>5. SendsCounted'
    <2>1. \A b \in Address : Sending(b)' = Sending(b)
      BY <1>1 DEF Sending
    <2>2. Capped(0) = 0 /\ Capped(rate[a].count) <= RateLimit /\ Capped(rate[a].count) \in Int
      BY DEF Capped, CodesInv, OtpRows
    <2>3. windows[a] \in Nat /\ codesFor[a] \in Nat /\ Cardinality(Sending(a)) \in Nat
      BY FS_CardinalityType DEF CodesInv, OtpRows, SendsCounted
    <2>4. RateLimit * (windows[a] + 1) = RateLimit * windows[a] + RateLimit
      BY <2>3
    <2>5. codesFor[a] + Cardinality(Sending(a)) <= RateLimit * windows[a] + Capped(rate[a].count)
      BY DEF CodesInv, SendsCounted
    <2> DEFINE x == RateLimit * windows[a]
               y == Capped(rate[a].count)
               n == Cardinality(Sending(a))
    <2>6. x \in Int
      BY <2>3
    <2>7. codesFor[a] + n <= x + RateLimit
      <3> HIDE DEF x, y, n
      <3>1. codesFor[a] + n <= x + y /\ y <= RateLimit /\ y \in Int /\ n \in Nat /\ codesFor[a] \in Nat
        BY <2>2, <2>3, <2>5 DEF x, y, n
      <3>2. QED
        BY <2>6, <3>1
    <2>8. codesFor[a] + n <= RateLimit * windows'[a] + Capped(rate'[a].count)
      <3>1. RateLimit * windows'[a] = x + RateLimit /\ Capped(rate'[a].count) = 0
        BY <1>2, <1>3, <2>2, <2>4
      <3> HIDE DEF x, n
      <3>2. QED
        BY <2>6, <2>7, <3>1
    <2>9. ASSUME NEW b \in Address
          PROVE  /\ IsFiniteSet(Sending(b)')
                 /\ codesFor[b] + Cardinality(Sending(b)') <= RateLimit * windows'[b] + Capped(rate'[b].count)
      <3>1. CASE b = a
        BY <2>1, <2>8, <3>1 DEF CodesInv, SendsCounted
      <3>2. CASE b # a
        BY <1>2, <1>3, <2>1, <3>2 DEF CodesInv, SendsCounted
      <3>3. QED
        BY <3>1, <3>2
    <2>10. QED
      BY <1>1, <2>9 DEF SendsCounted, Capped
  <1>6. ~overlap' => GuessesCounted'
    BY <1>1 DEF CodesInv, GuessesCounted, Faithful, Judges
  <1>7. QED
    BY <1>4, <1>5, <1>6 DEF CodesInv

\* A code that goes: by its TTL, by its use, or after too many guesses.
LEMMA CodeGoes ==
  ASSUME CodesInv, NEW a \in Address, code' = [code EXCEPT ![a] = NoCode],
         UNCHANGED <<rate, sent, windows, codesFor, guesses, overlap>>,
         otpCall' \in [Workers -> OtpCalls],
         \A v \in Workers : otpCall'[v] # Idle => otpCall'[v] = otpCall[v]
  PROVE  /\ code' \in [Address -> OtpRecord]
         /\ \A b \in Address : code'[b] = IF b = a THEN NoCode ELSE code[b]
         /\ \A b \in Address : code'[b].number <= sent /\ (code'[b].number = 0 => code'[b] = NoCode)
         /\ \A v \in Workers : Judges(v)' => otpCall'[v] = otpCall[v] /\ Judges(v)
         /\ UNCHANGED uses => CodesInv'
  <1>1. NoCode \in OtpRecord /\ NoCode.number = 0 /\ sent \in Nat
    BY DEF NoCode, OtpRecord, CodesInv, OtpRows
  <1>2. code' \in [Address -> OtpRecord] /\ \A b \in Address : code'[b] = IF b = a THEN NoCode ELSE code[b]
    BY <1>1 DEF CodesInv, OtpRows
  <1>3. \A b \in Address : code'[b].number <= sent /\ (code'[b].number = 0 => code'[b] = NoCode)
    BY <1>1, <1>2 DEF CodesInv, OtpRows
  <1>4. \A v \in Workers : Judges(v)' => otpCall'[v] = otpCall[v] /\ Judges(v)
    BY DEF Judges, Idle
  <1>5. ASSUME UNCHANGED uses PROVE CodesInv'
    <2>1. OtpRows'
      BY <1>2, <1>3, <1>4, <1>5 DEF CodesInv, OtpRows, OtpRecord
    <2>2. SendsCounted'
      <3>1. \A v \in Workers, b \in Address : v \in Sending(b)' => v \in Sending(b)
        BY DEF Sending, Idle
      <3>2. QED
        BY <3>1, SendsStay DEF CodesInv
    <2>3. ~overlap' => GuessesCounted'
      <3> SUFFICES ASSUME ~overlap PROVE GuessesCounted'
          OBVIOUS
      <3>0. GuessesCounted
        BY DEF CodesInv
      <3>1. \A b \in Address : code'[b] # NoCode => Faithful(code[b])'
        BY <1>2, <1>5, <3>0 DEF GuessesCounted, Faithful
      <3>2. \A b, c \in Address : code'[b].number = code'[c].number => b = c \/ code'[b] = NoCode
        BY <1>1, <1>2, <1>3, <3>0 DEF GuessesCounted
      <3>3. \A v \in Workers : Judges(v)' =>
               /\ Faithful(otpCall[v].seen)'
               /\ \A b \in Address : code'[b].number = otpCall'[v].seen.number => b = otpCall'[v].address
        <4> SUFFICES ASSUME NEW v \in Workers, Judges(v)'
                     PROVE  /\ Faithful(otpCall[v].seen)'
                            /\ \A b \in Address : code'[b].number = otpCall'[v].seen.number
                                                     => b = otpCall'[v].address
            OBVIOUS
        <4>1. otpCall'[v] = otpCall[v] /\ Judges(v) /\ otpCall[v].seen.number \in 1 .. sent
          BY <1>4 DEF CodesInv, OtpRows
        <4>2. Faithful(otpCall[v].seen)'
          BY <1>5, <3>0, <4>1 DEF GuessesCounted, Faithful
        <4>3. ASSUME NEW b \in Address, code'[b].number = otpCall[v].seen.number
              PROVE  b = otpCall[v].address
          <5>1. code'[b] = code[b]
            BY <1>1, <1>2, <4>1, <4>3
          <5>2. QED
            BY <3>0, <4>1, <4>3, <5>1 DEF GuessesCounted
        <4>4. QED
          BY <4>1, <4>2, <4>3
      <3>4. QED
        BY <1>5, <3>0, <3>1, <3>2, <3>3 DEF GuessesCounted
    <2>4. QED
      BY <2>1, <2>2, <2>3 DEF CodesInv
  <1>6. QED
    BY <1>2, <1>3, <1>4, <1>5

LEMMA ExpireCodeKeeps ==
  ASSUME CodesInv, NEW a \in Address, ExpireCode(a) PROVE CodesInv'
  <1>1. otpCall \in [Workers -> OtpCalls]
    BY DEF CodesInv, OtpRows
  <1>2. QED
    BY <1>1, CodeGoes DEF ExpireCode

LEMMA DropCodeKeeps ==
  ASSUME CodesInv, NEW w \in Workers, DropCode(w) PROVE CodesInv'
  <1>1. Judges(w) /\ OtpLeave(w) /\ UNCHANGED <<rate, sent, windows, codesFor, guesses, uses, overlap>>
    BY DEF DropCode, OtpAt, Judges
  <1>2. PICK a \in Address : otpCall[w].address = a
    BY <1>1, OtpCallTypes DEF CodesInv
  <1>3. code' = [code EXCEPT ![a] = NoCode]
    BY <1>2 DEF DropCode
  <1>4. /\ otpCall' \in [Workers -> OtpCalls]
        /\ \A v \in Workers : otpCall'[v] # Idle => otpCall'[v] = otpCall[v]
    BY <1>1, OtpLeaves DEF CodesInv
  <1>5. QED
    BY <1>1, <1>3, <1>4, CodeGoes

LEMMA VerifyOtpKeeps ==
  ASSUME CodesInv, NEW w \in Workers, NEW a \in Address, NEW guess \in 0 .. sent,
         VerifyOtp(w, a, guess)
  PROVE  CodesInv'
  <1> DEFINE request == [op |-> "judge", address |-> a, guess |-> guess, seen |-> code[a]]
  <1>1. /\ code[a] # NoCode /\ otpCall[w] = Idle /\ MayStart(otpCall)
        /\ otpCall' = [otpCall EXCEPT ![w] = request]
        /\ UNCHANGED <<code, rate, sent, windows, codesFor, guesses, uses, overlap>>
    BY DEF VerifyOtp, OtpEnter
  <1>2. sent \in Nat /\ guess \in Nat /\ code[a] \in OtpRecord
    BY DEF CodesInv, OtpRows
  <1>3. code[a].number \in 1 .. sent
    BY <1>1, <1>2 DEF CodesInv, OtpRows, OtpRecord
  <1>4. /\ request \in OtpCalls /\ request.op = "judge" /\ request # Idle
        /\ request.address = a /\ request.seen = code[a]
    BY <1>2 DEF OtpCalls, Idle
  <1> HIDE DEF request
  <1>5. \A v \in Workers : otpCall'[v] = IF v = w THEN request ELSE otpCall[v]
    BY <1>1 DEF CodesInv, OtpRows
  <1>6. OtpRows'
    <2>1. otpCall' \in [Workers -> OtpCalls]
      BY <1>1, <1>4 DEF CodesInv, OtpRows
    <2>2. \A v \in Workers : Judges(v)' => otpCall'[v].seen.number \in 1 .. sent
      BY <1>3, <1>4, <1>5 DEF CodesInv, OtpRows, Judges
    <2>3. QED
      BY <1>1, <2>1, <2>2 DEF CodesInv, OtpRows, OtpRecord
  <1>7. SendsCounted'
    <2>1. \A v \in Workers, b \in Address : v \in Sending(b)' => v \in Sending(b)
      BY <1>4, <1>5 DEF Sending
    <2>2. QED
      BY <1>1, <2>1, SendsStay DEF CodesInv
  <1>8. ~overlap' => GuessesCounted'
    <2> SUFFICES ASSUME ~overlap PROVE GuessesCounted'
        BY <1>1
    <2>0. GuessesCounted
      BY DEF CodesInv
    <2>1. \A u, v \in Workers : otpCall'[u] # Idle /\ otpCall'[v] # Idle => u = v
      BY <1>1, <1>5 DEF MayStart
    <2>2. \A v \in Workers : Judges(v)' => v = w /\ otpCall'[v] = request
      BY <1>1, <1>5 DEF MayStart, Judges, Idle
    <2>3. /\ Faithful(code[a])
          /\ \A b \in Address : code[b].number = code[a].number => b = a
      BY <1>1, <2>0 DEF GuessesCounted
    <2>4. \A v \in Workers : Judges(v)' =>
               /\ Faithful(otpCall[v].seen)'
               /\ \A b \in Address : code'[b].number = otpCall'[v].seen.number => b = otpCall'[v].address
      BY <1>1, <1>4, <2>2, <2>3 DEF Faithful
    <2>5. QED
      BY <1>1, <2>0, <2>1, <2>4 DEF GuessesCounted, Faithful
  <1>9. QED
    BY <1>6, <1>7, <1>8 DEF CodesInv

\* What is known of a guess that is judged.
LEMMA JudgedRecord ==
  ASSUME CodesInv, NEW w \in Workers, NEW right \in BOOLEAN, Judge(w, right)
  PROVE  \E a \in Address, seen \in OtpRecord :
           /\ otpCall[w].address = a /\ otpCall[w].seen = seen
           /\ seen.number \in 1 .. sent /\ seen.number \in 1 .. MaxCodes
           /\ seen.attempts < MaxVerifyAttempts
           /\ ~overlap =>
                /\ Faithful(seen)
                /\ \A b \in Address : code[b].number = seen.number => b = a
                /\ \A v \in Workers : v # w => otpCall[v] = Idle
  <1>1. Judges(w) /\ MayGuess(otpCall[w].seen)
    BY DEF Judge, OtpAt, Judges
  <1>2. PICK a \in Address, seen \in OtpRecord : otpCall[w].address = a /\ otpCall[w].seen = seen
    BY <1>1, OtpCallTypes DEF CodesInv
  <1>3. seen.number \in 1 .. sent /\ sent \in 0 .. MaxCodes
    BY <1>1, <1>2 DEF CodesInv, OtpRows
  <1>4. seen.number \in 1 .. MaxCodes
    BY <1>3
  <1>5. seen.attempts < MaxVerifyAttempts
    BY <1>1, <1>2 DEF MayGuess
  <1>6. otpCall[w] # Idle
    BY <1>1 DEF Judges, Idle
  <1>7. QED
    BY <1>1, <1>2, <1>3, <1>4, <1>5, <1>6 DEF CodesInv, GuessesCounted

\* The record written back is the one read, with one guess more: the codes of
\* other addresses are other codes.
LEMMA CountGuessKeeps ==
  ASSUME CodesInv, NEW w \in Workers, CountGuess(w) PROVE CodesInv'
  <1>1. Judge(w, FALSE) /\ OtpLeave(w) /\ UNCHANGED <<rate, sent, windows, codesFor, uses, overlap>>
    BY DEF CountGuess, Judge
  <1>2. PICK a \in Address, seen \in OtpRecord :
           /\ otpCall[w].address = a /\ otpCall[w].seen = seen
           /\ seen.number \in 1 .. sent /\ seen.number \in 1 .. MaxCodes
           /\ seen.attempts < MaxVerifyAttempts
           /\ ~overlap =>
                /\ Faithful(seen)
                /\ \A b \in Address : code[b].number = seen.number => b = a
                /\ \A v \in Workers : v # w => otpCall[v] = Idle
    BY <1>1, JudgedRecord
  <1> DEFINE new == [seen EXCEPT !.attempts = @ + 1]
             c == seen.number
  <1>3. code' = [code EXCEPT ![a] = new] /\ guesses' = [guesses EXCEPT ![c] = @ + 1]
    BY <1>2 DEF CountGuess, Counted
  <1>4. new \in OtpRecord /\ new.number = c /\ new.attempts = seen.attempts + 1 /\ new # NoCode
    BY <1>2 DEF OtpRecord, NoCode
  <1>5. c \in 1 .. MaxCodes /\ c \in 1 .. sent
    BY <1>2
  <1> HIDE DEF new
  <1>6. /\ code' \in [Address -> OtpRecord]
        /\ \A b \in Address : code'[b] = IF b = a THEN new ELSE code[b]
        /\ guesses' \in [1 .. MaxCodes -> Nat]
        /\ \A d \in 1 .. MaxCodes : guesses'[d] = IF d = c THEN guesses[d] + 1 ELSE guesses[d]
    <2>1. code \in [Address -> OtpRecord] /\ guesses \in [1 .. MaxCodes -> Nat]
      BY DEF CodesInv, OtpRows
    <2>2. QED
      BY <1>3, <1>4, <1>5, <2>1
  <1>7. /\ otpCall' = [otpCall EXCEPT ![w] = Idle]
        /\ otpCall' \in [Workers -> OtpCalls]
        /\ \A v \in Workers : otpCall'[v] = IF v = w THEN Idle ELSE otpCall[v]
        /\ \A v \in Workers : Judges(v)' => otpCall'[v] = otpCall[v] /\ Judges(v)
    BY <1>1, OtpLeaves DEF CodesInv
  <1> HIDE DEF c
  <1>8. OtpRows'
    <2>1. \A b \in Address : code'[b].number <= sent /\ (code'[b].number = 0 => code'[b] = NoCode)
      <3> SUFFICES ASSUME NEW b \in Address
                   PROVE  code'[b].number <= sent /\ (code'[b].number = 0 => code'[b] = NoCode)
          OBVIOUS
      <3>1. CASE b = a
        <4>1. code'[b].number = c
          BY <1>4, <1>6, <3>1
        <4>2. c <= sent /\ c # 0
          BY <1>5 DEF CodesInv, OtpRows
        <4>3. QED
          BY <4>1, <4>2
      <3>2. CASE b # a
        BY <1>6, <3>2 DEF CodesInv, OtpRows
      <3>3. QED
        BY <3>1, <3>2
    <2>2. \A d \in 1 .. MaxCodes : d > sent => guesses'[d] = 0 /\ uses[d] = 0
      BY <1>5, <1>6 DEF CodesInv, OtpRows
    <2>3. QED
      BY <1>1, <1>6, <1>7, <2>1, <2>2 DEF CodesInv, OtpRows, OtpRecord
  <1>9. SendsCounted'
    BY <1>1, <1>7, SendsStay, LeaveSends DEF CodesInv
  <1>10. ~overlap' => GuessesCounted'
    <2> SUFFICES ASSUME ~overlap PROVE GuessesCounted'
        BY <1>1
    <2>0. GuessesCounted /\ Faithful(seen) /\ \A b \in Address : code[b].number = c => b = a
      BY <1>2 DEF CodesInv, c
    <2>1. \A v \in Workers : otpCall'[v] = Idle /\ ~Judges(v)'
      BY <1>2, <1>7 DEF Judges, Idle
    <2>2. \A b \in Address : code'[b] # NoCode => Faithful(code[b])'
      <3> SUFFICES ASSUME NEW b \in Address, code'[b] # NoCode PROVE Faithful(code[b])'
          OBVIOUS
      <3>1. CASE b = a
        <4>1. guesses[c] = seen.attempts /\ uses[c] = 0
          BY <2>0 DEF Faithful, c
        <4>2. QED
          BY <1>1, <1>4, <1>5, <1>6, <3>1, <4>1 DEF Faithful
      <3>2. CASE b # a
        <4>1. code[b].number # c /\ code[b].number \in Nat /\ code'[b] = code[b] /\ Faithful(code[b])
          BY <1>6, <2>0, <3>2 DEF GuessesCounted, CodesInv, OtpRows, OtpRecord
        <4>2. code[b].number \in 1 .. MaxCodes
          BY <4>1 DEF CodesInv, OtpRows
        <4>3. QED
          BY <1>1, <1>6, <4>1, <4>2 DEF Faithful
      <3>3. QED
        BY <3>1, <3>2
    <2>3. \A b, d \in Address : code'[b].number = code'[d].number => b = d \/ code'[b] = NoCode
      BY <1>4, <1>6, <2>0 DEF GuessesCounted
    <2>4. \A d \in 1 .. sent : guesses'[d] <= MaxVerifyAttempts /\ uses[d] <= 1
      <3> SUFFICES ASSUME NEW d \in 1 .. sent PROVE guesses'[d] <= MaxVerifyAttempts /\ uses[d] <= 1
          OBVIOUS
      <3>1. d \in 1 .. MaxCodes /\ guesses[d] <= MaxVerifyAttempts /\ uses[d] <= 1
        BY <2>0 DEF GuessesCounted, CodesInv, OtpRows
      <3>2. guesses[c] = seen.attempts /\ seen.attempts + 1 <= MaxVerifyAttempts
        BY <1>2, <2>0 DEF Faithful, c, OtpRecord
      <3>3. QED
        BY <1>6, <3>1, <3>2
    <2>5. QED
      BY <1>1, <2>1, <2>2, <2>3, <2>4 DEF GuessesCounted
  <1>11. QED
    BY <1>8, <1>9, <1>10 DEF CodesInv

LEMMA AcceptCodeKeeps ==
  ASSUME CodesInv, NEW w \in Workers, AcceptCode(w) PROVE CodesInv'
  <1>1. Judge(w, TRUE) /\ OtpLeave(w) /\ UNCHANGED <<rate, sent, windows, codesFor, guesses, overlap>>
    BY DEF AcceptCode, Judge
  <1>2. PICK a \in Address, seen \in OtpRecord :
           /\ otpCall[w].address = a /\ otpCall[w].seen = seen
           /\ seen.number \in 1 .. sent /\ seen.number \in 1 .. MaxCodes
           /\ seen.attempts < MaxVerifyAttempts
           /\ ~overlap =>
                /\ Faithful(seen)
                /\ \A b \in Address : code[b].number = seen.number => b = a
                /\ \A v \in Workers : v # w => otpCall[v] = Idle
    BY <1>1, JudgedRecord
  <1> DEFINE c == seen.number
  <1>3. code' = [code EXCEPT ![a] = NoCode] /\ uses' = [uses EXCEPT ![c] = @ + 1]
    BY <1>2 DEF AcceptCode, Used
  <1>4. c \in 1 .. MaxCodes /\ c \in 1 .. sent
    BY <1>2
  <1> HIDE DEF c
  <1>5. /\ uses' \in [1 .. MaxCodes -> Nat]
        /\ \A d \in 1 .. MaxCodes : uses'[d] = IF d = c THEN uses[d] + 1 ELSE uses[d]
    BY <1>3, <1>4 DEF CodesInv, OtpRows
  <1>6. /\ otpCall' = [otpCall EXCEPT ![w] = Idle]
        /\ otpCall' \in [Workers -> OtpCalls]
        /\ \A v \in Workers : otpCall'[v] = IF v = w THEN Idle ELSE otpCall[v]
        /\ \A v \in Workers : Judges(v)' => otpCall'[v] = otpCall[v] /\ Judges(v)
    BY <1>1, OtpLeaves DEF CodesInv
  <1>7. /\ code' \in [Address -> OtpRecord]
        /\ \A b \in Address : code'[b] = IF b = a THEN NoCode ELSE code[b]
        /\ \A b \in Address : code'[b].number <= sent /\ (code'[b].number = 0 => code'[b] = NoCode)
    <2>1. \A v \in Workers : otpCall'[v] # Idle => otpCall'[v] = otpCall[v]
      BY <1>6
    <2>2. QED
      BY <1>1, <1>3, <1>6, <2>1, CodeGoes
  <1>8. OtpRows'
    <2>1. \A d \in 1 .. MaxCodes : d > sent => guesses[d] = 0 /\ uses'[d] = 0
      BY <1>4, <1>5 DEF CodesInv, OtpRows
    <2>2. QED
      BY <1>1, <1>5, <1>6, <1>7, <2>1 DEF CodesInv, OtpRows, OtpRecord
  <1>9. SendsCounted'
    BY <1>1, <1>6, SendsStay, LeaveSends DEF CodesInv
  <1>10. ~overlap' => GuessesCounted'
    <2> SUFFICES ASSUME ~overlap PROVE GuessesCounted'
        BY <1>1
    <2>0. GuessesCounted /\ Faithful(seen) /\ \A b \in Address : code[b].number = c => b = a
      BY <1>2 DEF CodesInv, c
    <2>1. \A v \in Workers : otpCall'[v] = Idle /\ ~Judges(v)'
      BY <1>2, <1>6 DEF Judges, Idle
    <2>2. \A b \in Address : code'[b] # NoCode => Faithful(code[b])'
      <3> SUFFICES ASSUME NEW b \in Address, code'[b] # NoCode PROVE Faithful(code[b])'
          OBVIOUS
      <3>1. b # a /\ code'[b] = code[b] /\ Faithful(code[b]) /\ code[b].number # c
        BY <1>7, <2>0 DEF GuessesCounted
      <3>2. code[b].number \in 1 .. MaxCodes
        <4>1. code[b] \in OtpRecord /\ code[b].number <= sent /\ sent \in 0 .. MaxCodes
          BY DEF CodesInv, OtpRows
        <4>2. code[b].number # 0
          BY <3>1 DEF CodesInv, OtpRows
        <4>3. QED
          BY <4>1, <4>2 DEF OtpRecord
      <3>3. QED
        BY <1>1, <1>5, <3>1, <3>2 DEF Faithful
    <2>3. \A b, d \in Address : code'[b].number = code'[d].number => b = d \/ code'[b] = NoCode
      <3>1. NoCode.number = 0
        BY DEF NoCode
      <3>2. QED
        BY <1>7, <2>0, <3>1 DEF GuessesCounted
    <2>4. \A d \in 1 .. sent : guesses[d] <= MaxVerifyAttempts /\ uses'[d] <= 1
      <3> SUFFICES ASSUME NEW d \in 1 .. sent PROVE guesses[d] <= MaxVerifyAttempts /\ uses'[d] <= 1
          OBVIOUS
      <3>1. d \in 1 .. MaxCodes /\ guesses[d] <= MaxVerifyAttempts /\ uses[d] <= 1
        BY <2>0 DEF GuessesCounted, CodesInv, OtpRows
      <3>2. uses[c] = 0
        BY <2>0 DEF Faithful, c
      <3>3. QED
        BY <1>5, <3>1, <3>2
    <2>5. QED
      BY <1>1, <2>1, <2>2, <2>3, <2>4 DEF GuessesCounted
  <1>11. QED
    BY <1>8, <1>9, <1>10 DEF CodesInv

-----------------------------------------------------------------------------
(* Otp: the theorem *)

\* For any addresses, limits and workers: codes per window are limited however
\* requests overlap and fail, and, one request at a time, a code bears
\* MAX_VERIFY_ATTEMPTS wrong guesses and is accepted once (auth/otp_service.py).
THEOREM CodesAreLimited == OtpSpec => []OtpInv
  <1>1. OtpInit => CodesInv
    BY InitCodesInv
  <1>2. CodesInv /\ [OtpNext]_otpVars => CodesInv'
    <2>1. CodesInv /\ UNCHANGED otpVars => CodesInv'
      <3> SUFFICES ASSUME CodesInv, UNCHANGED otpVars PROVE CodesInv'
          OBVIOUS
      <3>1. OtpRows'
        BY DEF otpVars, CodesInv, OtpRows, Judges
      <3>2. \A a \in Address : Sending(a)' = Sending(a)
        BY DEF otpVars, Sending
      <3>3. SendsCounted'
        BY <3>2 DEF otpVars, CodesInv, SendsCounted
      <3>4. (~overlap => GuessesCounted)'
        BY DEF otpVars, CodesInv, GuessesCounted, Judges, Faithful
      <3>5. QED
        BY <3>1, <3>3, <3>4 DEF CodesInv
    <2>2. QED
      BY <2>1, RequestOtpKeeps, VerifyOtpKeeps, SetWindowKeeps, StoreCodeKeeps, DropCodeKeeps,
         CountGuessKeeps, AcceptCodeKeeps, OtpFailsKeeps, EndWindowKeeps, ExpireCodeKeeps DEF OtpNext
  <1>3. CodesInv => OtpInv
    <2> SUFFICES ASSUME CodesInv PROVE OtpInv
        OBVIOUS
    <2>1. OtpTypeOK
      BY DEF CodesInv, OtpRows, OtpRecord, OtpTypeOK
    <2>2. CodesPerWindow
      <3> SUFFICES ASSUME NEW a \in Address PROVE codesFor[a] <= RateLimit * (1 + windows[a])
          BY DEF CodesPerWindow
      <3>1. windows[a] \in Nat /\ codesFor[a] \in Nat /\ Cardinality(Sending(a)) \in Nat
        BY FS_CardinalityType DEF CodesInv, OtpRows, SendsCounted
      <3>2. RateLimit * (1 + windows[a]) = RateLimit * windows[a] + RateLimit
        BY <3>1
      <3> DEFINE x == RateLimit * windows[a]
                 y == Capped(rate[a].count)
                 n == Cardinality(Sending(a))
      <3>3. x \in Int /\ y \in Int /\ y <= RateLimit
        BY <3>1 DEF Capped, CodesInv, OtpRows
      <3>4. codesFor[a] + n <= x + y
        BY DEF CodesInv, SendsCounted
      <3> HIDE DEF x, y, n
      <3>5. codesFor[a] <= x + RateLimit
        BY <3>1, <3>3, <3>4 DEF n
      <3>6. QED
        BY <3>2, <3>5 DEF x
    <2>3. GuessesAreLimited /\ CodeWorksOnce
      BY DEF CodesInv, GuessesCounted, GuessesAreLimited, CodeWorksOnce
    <2>4. QED
      BY <2>1, <2>2, <2>3 DEF OtpInv
  <1>4. QED
    BY <1>1, <1>2, <1>3, PTL DEF OtpSpec

-----------------------------------------------------------------------------
(* Accounts: the invariant *)

AuthCalls ==
    {Idle} \cup [op : {"look_up", "insert"}, id : Spelling]
           \cup [op : {"issue"}, user : Users, new : Account \cup {None}]
           \cup [op : {"commit"}, user : Users, new : Account \cup {None}, token : 1 .. issued]
           \cup [op : {"rotate", "revoke"}, token : 1 .. issued]
           \cup [op : {"identity"}, user : Users, email : Spelling]

Inserts(r) == r.op \in {"issue", "commit"} /\ r.new # None

HasAddress(row) == row.email # None \/ row.phone # None

\* A row waits for its commit as if it were there: for its identity and its
\* email no other row stands or waits.
RowsAreFound ==
    /\ account \in [Users -> Account \cup {None}]
    /\ \A u \in Users : Exists(u) => HasAddress(account[u])
    /\ \A u, v \in Users :
          Exists(u) /\ Exists(v) /\ account[u].email = account[v].email => u = v \/ account[u].email = None
    /\ \A w \in Workers : Inserts(authCall[w]) =>
          /\ ~Exists(authCall[w].user)
          /\ HasAddress(authCall[w].new)
          /\ ~EmailTaken(authCall[w].new.email)
    /\ \A v, w \in Workers : Inserts(authCall[v]) /\ Inserts(authCall[w]) =>
          \/ v = w
          \/ /\ authCall[v].user # authCall[w].user
             /\ authCall[v].new.email = authCall[w].new.email => authCall[v].new.email = None
    /\ \A w \in Workers : authCall[w].op = "identity" => Exists(authCall[w].user)

\* Tokens that go back to one login have one owner.
TokensHaveOwners ==
    /\ issued \in 0 .. MaxTokens
    /\ current \in [Users -> 0 .. issued]
    /\ owner \in [1 .. MaxTokens -> Users \cup {None}]
    /\ family \in [1 .. MaxTokens -> Nat]
    /\ exchanges \in [1 .. MaxTokens -> Nat]
    /\ handed \subseteq 1 .. issued
    /\ burnt \subseteq 1 .. issued
    /\ \A t \in 1 .. issued : owner[t] \in Users /\ family[t] \in 1 .. t
    /\ \A s, t \in 1 .. issued : family[s] = family[t] => owner[s] = owner[t]
    /\ \A u \in Users : current[u] # 0 => owner[current[u]] = u
    /\ \A t \in 1 .. MaxTokens : t > issued => exchanges[t] = 0

OneByOne ==
    /\ \A v, w \in Workers : authCall[v] # Idle /\ authCall[w] # Idle => v = w
    /\ \A w \in Workers :
          authCall[w].op = "rotate" => current[owner[authCall[w].token]] = authCall[w].token

ExchangedIsOld ==
    \A t \in 1 .. issued : exchanges[t] <= 1 /\ (exchanges[t] = 1 => current[owner[t]] # t)

LoginInv ==
    /\ overlap \in BOOLEAN
    /\ authCall \in [Workers -> AuthCalls]
    /\ RowsAreFound
    /\ TokensHaveOwners
    /\ ~overlap => OneByOne /\ ExchangedIsOld /\ BurntIsDead

LEMMA InitLoginInv == AccountsInit => LoginInv
  <1> SUFFICES ASSUME AccountsInit PROVE LoginInv
      OBVIOUS
  <1>1. overlap \in BOOLEAN
    BY DEF AccountsInit
  <1>2. authCall \in [Workers -> AuthCalls] /\ \A w \in Workers : authCall[w] = Idle /\ Idle.op = "idle"
    BY DEF AccountsInit, AuthCalls, Idle
  <1>3. RowsAreFound
    <2>1. \A w \in Workers : ~Inserts(authCall[w]) /\ authCall[w].op # "identity"
      BY <1>2 DEF Inserts
    <2>2. account \in [Users -> Account \cup {None}] /\ \A u \in Users : ~Exists(u)
      BY DEF AccountsInit, Exists
    <2>3. QED
      BY <2>1, <2>2 DEF RowsAreFound
  <1>4. TokensHaveOwners
    BY DEF AccountsInit, TokensHaveOwners
  <1>5. OneByOne /\ ExchangedIsOld /\ BurntIsDead
    BY <1>2 DEF AccountsInit, OneByOne, ExchangedIsOld, BurntIsDead
  <1>6. QED
    BY <1>1, <1>2, <1>3, <1>4, <1>5 DEF LoginInv

-----------------------------------------------------------------------------
(* Accounts: what the parts of the invariant need of a step *)

\* A row is not written, and no request starts to insert one.
LEMMA RowsStay ==
  ASSUME RowsAreFound, account' = account,
         \A w \in Workers : Inserts(authCall'[w]) =>
            /\ Inserts(authCall[w])
            /\ authCall'[w].user = authCall[w].user /\ authCall'[w].new = authCall[w].new,
         \A w \in Workers : authCall'[w].op = "identity" => Exists(authCall'[w].user)
  PROVE  RowsAreFound'
  BY DEF RowsAreFound, Exists, EmailTaken, HasAddress

\* A row is written whose email no other row has and no other waits to have.
LEMMA RowIsWritten ==
  ASSUME RowsAreFound, NEW u \in Users, NEW row \in Account,
         account' = [account EXCEPT ![u] = row],
         HasAddress(row),
         \A v \in Users : v # u /\ Exists(v) /\ account[v].email = row.email => row.email = None,
         \A w \in Workers : Inserts(authCall'[w]) =>
            /\ authCall'[w] = authCall[w]
            /\ authCall[w].user # u
            /\ authCall[w].new.email = row.email => row.email = None,
         \A w \in Workers : authCall'[w].op = "identity" => authCall'[w] = authCall[w]
  PROVE  RowsAreFound'
  <1>1. /\ account' \in [Users -> Account \cup {None}]
        /\ \A v \in Users : account'[v] = IF v = u THEN row ELSE account[v]
    BY DEF RowsAreFound
  <1>2. row # None
    OBVIOUS
  <1>3. \A v \in Users : Exists(v)' <=> v = u \/ Exists(v)
    BY <1>1, <1>2 DEF Exists
  <1>4. \A v \in Users : Exists(v)' => HasAddress(account[v])'
    BY <1>1, <1>3 DEF RowsAreFound, HasAddress
  <1>5. \A v, x \in Users : Exists(v)' /\ Exists(x)' /\ account'[v].email = account'[x].email
            => v = x \/ account'[v].email = None
    BY <1>1, <1>3 DEF RowsAreFound
  <1>6. \A w \in Workers : Inserts(authCall'[w]) =>
            /\ ~Exists(authCall[w].user)'
            /\ HasAddress(authCall'[w].new)
            /\ ~EmailTaken(authCall[w].new.email)'
    <2> SUFFICES ASSUME NEW w \in Workers, Inserts(authCall'[w])
                 PROVE  /\ ~Exists(authCall[w].user)'
                        /\ HasAddress(authCall'[w].new)
                        /\ ~EmailTaken(authCall[w].new.email)'
        OBVIOUS
    <2> DEFINE r == authCall[w]
    <2>1. authCall'[w] = r /\ Inserts(r) /\ r.user # u /\ (r.new.email = row.email => row.email = None)
      OBVIOUS
    <2>2. ~Exists(r.user) /\ HasAddress(r.new) /\ ~EmailTaken(r.new.email)
      BY <2>1 DEF RowsAreFound
    <2>3. ~Exists(authCall[w].user)'
      <3>1. CASE r.user \in Users
        BY <1>3, <2>1, <2>2, <3>1
      <3>2. CASE r.user \notin Users
        BY <1>1, <2>1, <2>2, <3>2 DEF Exists
      <3>3. QED
        BY <3>1, <3>2
    <2>4. ~EmailTaken(authCall[w].new.email)'
      BY <1>1, <1>3, <2>1, <2>2 DEF EmailTaken
    <2>5. QED
      BY <2>1, <2>2, <2>3, <2>4
  <1>7. \A v, w \in Workers : Inserts(authCall'[v]) /\ Inserts(authCall'[w]) =>
          \/ v = w
          \/ /\ authCall'[v].user # authCall'[w].user
             /\ authCall'[v].new.email = authCall'[w].new.email => authCall'[v].new.email = None
    BY DEF RowsAreFound
  <1>8. \A w \in Workers : authCall'[w].op = "identity" => Exists(authCall[w].user)'
    BY <1>1, <1>2 DEF RowsAreFound, Exists
  <1>9. QED
    BY <1>1, <1>4, <1>5, <1>6, <1>7, <1>8 DEF RowsAreFound

-----------------------------------------------------------------------------
(* Accounts: requests *)

\* The requests there are, with the tokens there are now or at the next state.
LEMMA CallsGrow ==
  ASSUME issued \in Nat, issued' \in Nat, issued' >= issued PROVE AuthCalls \subseteq AuthCalls'
  <1>1. 1 .. issued \subseteq 1 .. issued'
    OBVIOUS
  <1>2. QED
    BY <1>1 DEF AuthCalls

\* The fields a request has.
LEMMA CallTypes ==
  ASSUME NEW r \in AuthCalls
  PROVE  /\ r.op \in {"look_up", "insert"} => r.id \in Spelling
         /\ r.op \in {"issue", "commit"} => r.user \in Users /\ r.new \in Account \cup {None}
         /\ r.op \in {"commit", "rotate", "revoke"} => r.token \in 1 .. issued
         /\ r.op = "identity" => r.user \in Users /\ r.email \in Spelling
         /\ r = Idle <=> r.op = "idle"
  BY DEF AuthCalls, Idle

LEMMA Continues ==
  ASSUME LoginInv, NEW w \in Workers, NEW r \in AuthCalls', Continue(w, r),
         issued' \in Nat, issued' >= issued
  PROVE  /\ authCall' \in [Workers -> AuthCalls']
         /\ \A v \in Workers : authCall'[v] = IF v = w THEN r ELSE authCall[v]
  <1>1. AuthCalls \subseteq AuthCalls' /\ authCall \in [Workers -> AuthCalls]
    BY CallsGrow DEF LoginInv, TokensHaveOwners
  <1>2. authCall \in [Workers -> AuthCalls']
    BY <1>1
  <1>3. authCall' = [authCall EXCEPT ![w] = r]
    BY DEF Continue
  <1>4. QED
    BY <1>2, <1>3

\* A request that enters or goes on and inserts nothing, the tokens untouched.
LEMMA CallMoves ==
  ASSUME LoginInv, NEW w \in Workers, NEW r \in AuthCalls, Continue(w, r),
         account' = account, current' = current, exchanges' = exchanges, burnt' = burnt,
         handed' = handed, UNCHANGED tokens, overlap' = overlap,
         Inserts(r) => Inserts(authCall[w]) /\ r.user = authCall[w].user /\ r.new = authCall[w].new,
         r.op = "identity" => Exists(r.user),
         authCall[w] # Idle \/ MayStart(authCall),
         r.op = "rotate" /\ ~overlap => current[owner[r.token]] = r.token
  PROVE  LoginInv'
  <1>1. /\ issued' = issued /\ issued \in Nat /\ AuthCalls' = AuthCalls
        /\ owner' = owner /\ family' = family
    BY DEF tokens, AuthCalls, LoginInv, TokensHaveOwners
  <1>2. /\ authCall' \in [Workers -> AuthCalls']
        /\ \A v \in Workers : authCall'[v] = IF v = w THEN r ELSE authCall[v]
    BY <1>1, Continues
  <1>3. RowsAreFound'
    <2>1. \A v \in Workers : Inserts(authCall'[v]) =>
            /\ Inserts(authCall[v])
            /\ authCall'[v].user = authCall[v].user /\ authCall'[v].new = authCall[v].new
      BY <1>2
    <2>2. \A v \in Workers : authCall'[v].op = "identity" => Exists(authCall'[v].user)
      BY <1>2 DEF LoginInv, RowsAreFound
    <2>3. QED
      BY <2>1, <2>2, RowsStay DEF LoginInv
  <1>4. TokensHaveOwners'
    BY <1>1 DEF LoginInv, TokensHaveOwners
  <1>5. ~overlap => OneByOne'
    <2>1. ~overlap => \A v \in Workers : v # w => authCall[v] = Idle
      BY DEF LoginInv, OneByOne, MayStart
    <2>2. Idle.op # "rotate"
      BY DEF Idle
    <2>3. QED
      BY <1>1, <1>2, <2>1, <2>2 DEF OneByOne
  <1>6. ~overlap => ExchangedIsOld' /\ BurntIsDead'
    BY <1>1 DEF LoginInv, ExchangedIsOld, BurntIsDead
  <1>7. QED
    BY <1>1, <1>2, <1>3, <1>4, <1>5, <1>6 DEF LoginInv

LEMMA AccountsFailKeeps ==
  ASSUME LoginInv, NEW w \in Workers, AccountsFail(w) PROVE LoginInv'
  <1>1. Idle \in AuthCalls /\ Idle.op = "idle"
    BY DEF AuthCalls, Idle
  <1>2. QED
    BY <1>1, CallMoves DEF AccountsFail, Leave, Inserts

LEMMA LogInKeeps ==
  ASSUME LoginInv, NEW w \in Workers, NEW id \in Spelling, LogIn(w, id) PROVE LoginInv'
  <1> DEFINE r == [op |-> "look_up", id |-> id]
  <1>1. r \in AuthCalls /\ r.op = "look_up"
    BY DEF AuthCalls
  <1>2. Continue(w, r) /\ MayStart(authCall)
    BY DEF LogIn, Enter, Continue
  <1> HIDE DEF r
  <1>3. QED
    BY <1>1, <1>2, CallMoves DEF LogIn, Inserts

LEMMA LookUpKeeps ==
  ASSUME LoginInv, NEW w \in Workers, LookUp(w) PROVE LoginInv'
  <1>1. authCall[w] \in AuthCalls /\ authCall[w].op = "look_up" /\ authCall[w] # Idle
    BY DEF LookUp, At, LoginInv, Idle
  <1>2. PICK id \in Spelling : authCall[w].id = id
    BY <1>1, CallTypes
  <1>3. UNCHANGED <<current, account, tokens, handed, exchanges, burnt, overlap>>
    BY DEF LookUp
  <1>4. CASE Leave(w)
    <2>1. Idle \in AuthCalls /\ Idle.op = "idle"
      BY DEF AuthCalls, Idle
    <2>2. QED
      BY <1>1, <1>3, <1>4, <2>1, CallMoves DEF Leave, Inserts
  <1>5. ASSUME NEW u \in Users, Continue(w, [op |-> "issue", user |-> u, new |-> None])
        PROVE  LoginInv'
    <2> DEFINE r == [op |-> "issue", user |-> u, new |-> None]
    <2>1. r \in AuthCalls /\ r.op = "issue" /\ r.new = None
      BY DEF AuthCalls
    <2> HIDE DEF r
    <2>2. QED
      BY <1>1, <1>3, <1>5, <2>1, CallMoves DEF Inserts, r
  <1>6. CASE Continue(w, [op |-> "insert", id |-> id])
    <2> DEFINE r == [op |-> "insert", id |-> id]
    <2>1. r \in AuthCalls /\ r.op = "insert"
      BY DEF AuthCalls
    <2> HIDE DEF r
    <2>2. QED
      BY <1>1, <1>3, <1>6, <2>1, CallMoves DEF Inserts, r
  <1>7. QED
    BY <1>2, <1>4, <1>5, <1>6 DEF LookUp, Matches

LEMMA OpenIdentityKeeps ==
  ASSUME LoginInv, NEW w \in Workers, NEW u \in Users, NEW id \in Typed(Emails), OpenIdentity(w, u, id)
  PROVE  LoginInv'
  <1>1. Lower(id) \in Spelling
    BY DEF Typed, Lower, Spelling
  <1> DEFINE r == [op |-> "identity", user |-> u, email |-> Lower(id)]
  <1>2. r \in AuthCalls /\ r.op = "identity" /\ r.user = u
    BY <1>1 DEF AuthCalls
  <1>3. Continue(w, r) /\ MayStart(authCall) /\ Exists(u)
    BY DEF OpenIdentity, Enter, Continue
  <1> HIDE DEF r
  <1>4. QED
    BY <1>2, <1>3, CallMoves DEF OpenIdentity, Inserts

LEMMA RefreshKeeps ==
  ASSUME LoginInv, NEW w \in Workers, NEW t \in 1 .. issued, Refresh(w, t) PROVE LoginInv'
  <1>1. PICK r : /\ r = [op |-> IF current[owner[t]] = t THEN "rotate" ELSE "revoke", token |-> t]
                 /\ Continue(w, r) /\ MayStart(authCall)
    BY DEF Refresh, IsCurrent, Enter, Continue
  <1>2. /\ r \in AuthCalls /\ r.token = t /\ r.op \in {"rotate", "revoke"}
        /\ r.op = "rotate" => current[owner[t]] = t
    BY <1>1 DEF AuthCalls
  <1>3. QED
    BY <1>1, <1>2, CallMoves DEF Refresh, Inserts

\* A login that finds nobody and the email free: its row waits.
LEMMA InsertKeeps ==
  ASSUME LoginInv, NEW w \in Workers, Insert(w) PROVE LoginInv'
  <1>1. authCall[w] \in AuthCalls /\ authCall[w].op = "insert" /\ authCall[w] # Idle
    BY DEF Insert, At, LoginInv, Idle
  <1>2. PICK id \in Spelling : authCall[w].id = id
    BY <1>1, CallTypes
  <1> DEFINE new == NewAccount(id)
  <1>3. new \in Account /\ new # None /\ HasAddress(new)
    BY DEF NewAccount, Account, HasAddress
  <1>4. UNCHANGED <<current, account, tokens, handed, exchanges, burnt, overlap>>
    BY DEF Insert
  <1>5. /\ ~EmailWaits(new.email)
        /\ IF EmailTaken(new.email)
           THEN Leave(w)
           ELSE \E u \in Free : Continue(w, [op |-> "issue", user |-> u, new |-> new])
    BY <1>2 DEF Insert
  <1> HIDE DEF new
  <1>6. CASE Leave(w)
    <2>1. Idle \in AuthCalls /\ Idle.op = "idle"
      BY DEF AuthCalls, Idle
    <2>2. QED
      BY <1>1, <1>4, <1>6, <2>1, CallMoves DEF Leave, Inserts
  <1>7. CASE ~EmailTaken(new.email)
    <2>1. PICK u \in Free : Continue(w, [op |-> "issue", user |-> u, new |-> new])
      BY <1>5, <1>7
    <2> DEFINE r == [op |-> "issue", user |-> u, new |-> new]
    <2>2. u \in Users /\ ~Exists(u) /\ \A v \in Workers : Inserts(authCall[v]) => authCall[v].user # u
      BY DEF Free, Adding, Inserts, Idle
    <2>3. r \in AuthCalls /\ r.op = "issue" /\ r.user = u /\ r.new = new
      BY <1>3, <2>2 DEF AuthCalls
    <2>4. Continue(w, r)
      BY <2>1
    <2> HIDE DEF r
    <2>5. /\ issued' = issued /\ issued \in Nat /\ AuthCalls' = AuthCalls
          /\ owner' = owner /\ family' = family
      BY <1>4 DEF tokens, AuthCalls, LoginInv, TokensHaveOwners
    <2>6. /\ authCall' \in [Workers -> AuthCalls']
          /\ \A v \in Workers : authCall'[v] = IF v = w THEN r ELSE authCall[v]
      BY <2>3, <2>4, <2>5, Continues
    <2>7. \A v \in Workers : Inserts(authCall[v]) /\ authCall[v].new.email = new.email =>
              new.email = None
      BY <1>5 DEF EmailWaits, Adding, Inserts, Idle
    <2>8. RowsAreFound'
      <3>1. RowsAreFound /\ account' = account
        BY <1>4 DEF LoginInv
      <3>2. \A v \in Workers : Inserts(authCall'[v]) =>
                /\ ~Exists(authCall'[v].user)
                /\ HasAddress(authCall'[v].new)
                /\ ~EmailTaken(authCall'[v].new.email)
        BY <1>3, <1>7, <2>2, <2>3, <2>6, <3>1 DEF RowsAreFound
      <3>3. \A v, x \in Workers : Inserts(authCall'[v]) /\ Inserts(authCall'[x]) =>
                \/ v = x
                \/ /\ authCall'[v].user # authCall'[x].user
                   /\ authCall'[v].new.email = authCall'[x].new.email => authCall'[v].new.email = None
        BY <2>2, <2>3, <2>6, <2>7, <3>1 DEF RowsAreFound
      <3>4. \A v \in Workers : authCall'[v].op = "identity" => Exists(authCall'[v].user)
        BY <2>3, <2>6, <3>1 DEF RowsAreFound
      <3>5. QED
        BY <3>1, <3>2, <3>3, <3>4 DEF RowsAreFound, Exists, EmailTaken
    <2>9. TokensHaveOwners'
      BY <1>4, <2>5 DEF LoginInv, TokensHaveOwners
    <2>10. ~overlap => OneByOne'
      BY <1>1, <1>4, <2>3, <2>5, <2>6 DEF LoginInv, OneByOne
    <2>11. ~overlap => ExchangedIsOld' /\ BurntIsDead'
      BY <1>4, <2>5 DEF LoginInv, ExchangedIsOld, BurntIsDead
    <2>12. QED
      BY <1>4, <2>6, <2>8, <2>9, <2>10, <2>11 DEF LoginInv
  <1>8. QED
    BY <1>5, <1>6, <1>7

-----------------------------------------------------------------------------
(* Accounts: rows *)

\* A row is written when its request ends.
LEMMA RowIsCommitted ==
  ASSUME LoginInv, NEW w \in Workers, Leave(w), NEW u \in Users, NEW row \in Account,
         account' = account \/ account' = [account EXCEPT ![u] = row],
         HasAddress(row),
         \A v \in Users : v # u /\ Exists(v) /\ account[v].email = row.email => row.email = None,
         \A v \in Workers : v # w /\ Inserts(authCall[v]) =>
            /\ authCall[v].user # u
            /\ authCall[v].new.email = row.email => row.email = None
  PROVE  RowsAreFound'
  <1>1. \A v \in Workers : v # w => authCall'[v] = authCall[v]
    BY DEF Leave, Continue, LoginInv
  <1>2. authCall'[w].op = "idle"
    BY DEF Leave, Continue, LoginInv, Idle
  <1>3. RowsAreFound
    BY DEF LoginInv
  <1>4. CASE account' = account
    <2>1. \A v \in Workers : Inserts(authCall'[v]) =>
            /\ Inserts(authCall[v])
            /\ authCall'[v].user = authCall[v].user /\ authCall'[v].new = authCall[v].new
      BY <1>1, <1>2 DEF Inserts
    <2>2. \A v \in Workers : authCall'[v].op = "identity" => Exists(authCall'[v].user)
      BY <1>1, <1>2, <1>3 DEF RowsAreFound
    <2>3. QED
      BY <1>3, <1>4, <2>1, <2>2, RowsStay
  <1>5. CASE account' = [account EXCEPT ![u] = row]
    <2>1. \A v \in Workers : Inserts(authCall'[v]) =>
            /\ authCall'[v] = authCall[v]
            /\ authCall[v].user # u
            /\ authCall[v].new.email = row.email => row.email = None
      BY <1>1, <1>2 DEF Inserts
    <2>2. \A v \in Workers : authCall'[v].op = "identity" => authCall'[v] = authCall[v]
      BY <1>1, <1>2
    <2>3. QED
      BY <1>3, <1>5, <2>1, <2>2, RowIsWritten
  <1>6. QED
    BY <1>4, <1>5

LEMMA LeaveFacts ==
  ASSUME LoginInv, NEW w \in Workers, Leave(w), issued' \in Nat, issued' >= issued
  PROVE  /\ authCall' \in [Workers -> AuthCalls']
         /\ authCall'[w] = Idle /\ Idle.op = "idle"
         /\ \A v \in Workers : v # w => authCall'[v] = authCall[v]
         /\ ~overlap /\ authCall[w] # Idle => \A v \in Workers : authCall'[v] = Idle
  <1>1. Idle \in AuthCalls' /\ Idle.op = "idle"
    BY DEF AuthCalls, Idle
  <1>2. QED
    BY <1>1, Continues DEF Leave, LoginInv, OneByOne

LEMMA CommitLoginKeeps ==
  ASSUME LoginInv, NEW w \in Workers, CommitLogin(w) PROVE LoginInv'
  <1> DEFINE r == authCall[w]
  <1>1. r \in AuthCalls /\ r.op = "commit" /\ r # Idle /\ Leave(w)
    BY DEF CommitLogin, At, LoginInv, Idle
  <1>2. r.user \in Users /\ r.new \in Account \cup {None} /\ r.token \in 1 .. issued
    BY <1>1, CallTypes
  <1>3. /\ account' = IF r.new = None THEN account ELSE [account EXCEPT ![r.user] = r.new]
        /\ handed' = handed \cup {r.token}
        /\ UNCHANGED <<current, tokens, exchanges, burnt, overlap>>
    BY DEF CommitLogin
  <1>4. issued' = issued /\ issued \in Nat /\ owner' = owner /\ family' = family
    BY <1>3 DEF tokens, LoginInv, TokensHaveOwners
  <1>5. RowsAreFound'
    <2>1. CASE r.new = None
      <3>1. /\ \A v \in Workers : v # w => authCall'[v] = authCall[v]
            /\ authCall'[w].op = "idle"
        BY <1>1, <1>4, LeaveFacts
      <3>2. RowsAreFound /\ account' = account
        BY <1>3, <2>1 DEF LoginInv
      <3>3. \A v \in Workers : Inserts(authCall'[v]) =>
              /\ Inserts(authCall[v])
              /\ authCall'[v].user = authCall[v].user /\ authCall'[v].new = authCall[v].new
        BY <3>1 DEF Inserts
      <3>4. \A v \in Workers : authCall'[v].op = "identity" => Exists(authCall'[v].user)
        BY <3>1, <3>2 DEF RowsAreFound
      <3>5. QED
        BY <3>2, <3>3, <3>4, RowsStay
    <2>2. CASE r.new # None
      <3>1. Inserts(r) /\ r.new \in Account
        BY <1>1, <1>2, <2>2 DEF Inserts
      <3>2. HasAddress(r.new) /\ ~EmailTaken(r.new.email)
        BY <3>1 DEF LoginInv, RowsAreFound
      <3>3. \A v \in Workers : v # w /\ Inserts(authCall[v]) =>
              /\ authCall[v].user # r.user
              /\ authCall[v].new.email = r.new.email => r.new.email = None
        BY <3>1 DEF LoginInv, RowsAreFound
      <3>4. \A v \in Users : v # r.user /\ Exists(v) /\ account[v].email = r.new.email => r.new.email = None
        BY <3>2 DEF EmailTaken
      <3> HIDE DEF r
      <3>5. QED
        BY <1>1, <1>2, <1>3, <2>2, <3>1, <3>2, <3>3, <3>4, RowIsCommitted
    <2>3. QED
      BY <2>1, <2>2
  <1>6. TokensHaveOwners'
    BY <1>2, <1>3, <1>4 DEF LoginInv, TokensHaveOwners
  <1>7. ~overlap => OneByOne'
    BY <1>1, <1>4, LeaveFacts DEF OneByOne
  <1>8. ~overlap => ExchangedIsOld' /\ BurntIsDead'
    BY <1>3, <1>4 DEF LoginInv, ExchangedIsOld, BurntIsDead
  <1>9. QED
    BY <1>1, <1>3, <1>4, <1>5, <1>6, <1>7, <1>8, LeaveFacts DEF LoginInv

LEMMA CommitIdentityKeeps ==
  ASSUME LoginInv, NEW w \in Workers, CommitIdentity(w) PROVE LoginInv'
  <1>1. authCall[w] \in AuthCalls /\ authCall[w].op = "identity" /\ authCall[w] # Idle /\ Leave(w)
    BY DEF CommitIdentity, At, LoginInv, Idle
  <1>2. PICK u \in Users, e \in Spelling : authCall[w].user = u /\ authCall[w].email = e
    BY <1>1, CallTypes
  <1>3. /\ ~EmailWaits(e)
        /\ account' = IF EmailTaken(e) THEN account ELSE [account EXCEPT ![u].email = e]
        /\ UNCHANGED <<current, tokens, handed, exchanges, burnt, overlap>>
    BY <1>2 DEF CommitIdentity
  <1>4. issued' = issued /\ issued \in Nat /\ owner' = owner /\ family' = family
    BY <1>3 DEF tokens, LoginInv, TokensHaveOwners
  <1>5. Exists(u) /\ account[u] \in Account /\ e # None
    BY <1>1, <1>2 DEF LoginInv, RowsAreFound, Exists
  <1> DEFINE row == [account[u] EXCEPT !.email = e]
  <1>6. row \in Account /\ row.email = e /\ HasAddress(row)
    BY <1>5 DEF Account, HasAddress
  <1>7. account' = account \/ (~EmailTaken(e) /\ account' = [account EXCEPT ![u] = row])
    BY <1>3
  <1> HIDE DEF row
  <1>8. \A v \in Workers : Inserts(authCall[v]) =>
            authCall[v].user # u /\ authCall[v].new.email # e
    BY <1>3, <1>5 DEF LoginInv, RowsAreFound, EmailWaits, Adding, Inserts, Idle
  <1>9. RowsAreFound'
    <2>1. CASE account' = account
      <3>1. \A v \in Workers : v # w => authCall'[v] = authCall[v]
        BY <1>1, <1>4, LeaveFacts
      <3>2. authCall'[w].op = "idle"
        BY <1>1, <1>4, LeaveFacts
      <3>3. \A v \in Workers : Inserts(authCall'[v]) =>
              /\ Inserts(authCall[v])
              /\ authCall'[v].user = authCall[v].user /\ authCall'[v].new = authCall[v].new
        BY <3>1, <3>2 DEF Inserts
      <3>4. \A v \in Workers : authCall'[v].op = "identity" => Exists(authCall'[v].user)
        BY <3>1, <3>2 DEF LoginInv, RowsAreFound
      <3>5. QED
        BY <2>1, <3>3, <3>4, RowsStay DEF LoginInv
    <2>2. CASE ~EmailTaken(e) /\ account' = [account EXCEPT ![u] = row]
      <3>1. \A v \in Users : Exists(v) => account[v].email # e
        BY <1>5, <2>2 DEF EmailTaken
      <3>2. /\ \A v \in Users : v # u /\ Exists(v) /\ account[v].email = row.email => row.email = None
            /\ \A v \in Workers : v # w /\ Inserts(authCall[v]) =>
                  /\ authCall[v].user # u
                  /\ authCall[v].new.email = row.email => row.email = None
        BY <1>6, <1>8, <3>1
      <3>3. QED
        BY <1>1, <1>6, <2>2, <3>2, RowIsCommitted
    <2>3. QED
      BY <1>7, <2>1, <2>2
  <1>10. TokensHaveOwners'
    BY <1>3, <1>4 DEF LoginInv, TokensHaveOwners
  <1>11. ~overlap => OneByOne'
    BY <1>1, <1>4, LeaveFacts DEF OneByOne
  <1>12. ~overlap => ExchangedIsOld' /\ BurntIsDead'
    BY <1>3, <1>4 DEF LoginInv, ExchangedIsOld, BurntIsDead
  <1>13. QED
    BY <1>1, <1>3, <1>4, <1>9, <1>10, <1>11, <1>12, LeaveFacts DEF LoginInv

LEMMA InviteStaffKeeps ==
  ASSUME LoginInv, NEW id \in Typed(Emails), NEW phone \in Typed(Phones) \cup {None},
         InviteStaff(id, phone)
  PROVE  LoginInv'
  <1>1. PICK e \in Spelling : e = Lower(id)
    BY DEF Typed, Lower, Spelling
  <1>2. PICK u \in Free : account' = [account EXCEPT ![u] = [email |-> e, phone |-> phone]]
    BY <1>1 DEF InviteStaff
  <1> DEFINE row == [email |-> e, phone |-> phone]
  <1>3. row \in Account /\ row.email = e /\ HasAddress(row) /\ e # None
    BY DEF Account, HasAddress, Typed
  <1>4. account' = [account EXCEPT ![u] = row]
    BY <1>2
  <1> HIDE DEF row
  <1>5. /\ ~EmailTaken(e) /\ ~EmailWaits(e)
        /\ UNCHANGED <<current, authCall, tokens, handed, exchanges, burnt, overlap>>
    BY <1>1 DEF InviteStaff
  <1>6. u \in Users /\ \A v \in Workers : Inserts(authCall[v]) => authCall[v].user # u
    BY DEF Free, Adding, Inserts, Idle
  <1>7. issued' = issued /\ issued \in Nat /\ owner' = owner /\ family' = family
    BY <1>5 DEF tokens, LoginInv, TokensHaveOwners
  <1>8. RowsAreFound'
    <2>1. \A v \in Workers : Inserts(authCall'[v]) =>
            /\ authCall'[v] = authCall[v]
            /\ authCall[v].user # u
            /\ authCall[v].new.email = row.email => row.email = None
      BY <1>3, <1>5, <1>6 DEF EmailWaits, Adding, Inserts, Idle
    <2>2. \A v \in Users : v # u /\ Exists(v) /\ account[v].email = row.email => row.email = None
      BY <1>3, <1>5 DEF EmailTaken
    <2>3. RowsAreFound
      BY DEF LoginInv
    <2>4. QED
      BY <1>3, <1>4, <1>5, <1>6, <2>1, <2>2, <2>3, RowIsWritten
  <1>9. authCall' \in [Workers -> AuthCalls']
    BY <1>5, <1>7 DEF LoginInv, AuthCalls
  <1>10. TokensHaveOwners'
    BY <1>5, <1>7 DEF LoginInv, TokensHaveOwners
  <1>11. ~overlap => OneByOne' /\ ExchangedIsOld' /\ BurntIsDead'
    BY <1>5, <1>7 DEF LoginInv, OneByOne, ExchangedIsOld, BurntIsDead
  <1>12. QED
    BY <1>5, <1>8, <1>9, <1>10, <1>11 DEF LoginInv

-----------------------------------------------------------------------------
(* Accounts: tokens *)

\* A new token, the next one, of the login it goes back to.
LEMMA NewTokenFacts ==
  ASSUME LoginInv, NEW u \in Users, NEW root \in 0 .. issued, NewToken(u, root)
  PROVE  LET n == issued' IN
         /\ n = issued + 1 /\ n \in 1 .. MaxTokens /\ issued' \in Nat
         /\ owner' \in [1 .. MaxTokens -> Users \cup {None}]
         /\ family' \in [1 .. MaxTokens -> Nat]
         /\ owner'[n] = u
         /\ family'[n] = IF root = 0 THEN n ELSE root
         /\ \A t \in 1 .. issued : owner'[t] = owner[t] /\ family'[t] = family[t]
  <1>1. /\ issued < MaxTokens /\ issued' = issued + 1 /\ issued \in 0 .. MaxTokens
        /\ owner'  = [owner EXCEPT ![issued'] = u]
        /\ family' = [family EXCEPT ![issued'] = IF root = 0 THEN issued' ELSE root]
        /\ owner \in [1 .. MaxTokens -> Users \cup {None}]
        /\ family \in [1 .. MaxTokens -> Nat]
    BY DEF NewToken, LoginInv, TokensHaveOwners
  <1>2. PICK n \in 1 .. MaxTokens : n = issued' /\ n = issued + 1
    BY <1>1
  <1>3. (IF root = 0 THEN n ELSE root) \in Nat
    BY <1>1
  <1>4. \A t \in 1 .. issued : t # n /\ t \in 1 .. MaxTokens
    BY <1>1, <1>2
  <1>5. /\ owner'  = [owner EXCEPT ![n] = u]
        /\ family' = [family EXCEPT ![n] = IF root = 0 THEN n ELSE root]
    BY <1>1, <1>2
  <1>6. /\ owner' \in [1 .. MaxTokens -> Users \cup {None}]
        /\ owner'[n] = u
        /\ \A t \in 1 .. issued : owner'[t] = owner[t]
    BY <1>1, <1>4, <1>5
  <1>7. /\ family' \in [1 .. MaxTokens -> Nat]
        /\ family'[n] = IF root = 0 THEN n ELSE root
        /\ \A t \in 1 .. issued : family'[t] = family[t]
    BY <1>1, <1>3, <1>4, <1>5
  <1>8. QED
    BY <1>1, <1>2, <1>6, <1>7

\* What is current is a token that was issued, and is its owner's.
LEMMA CurrentIsIssued ==
  ASSUME LoginInv
  PROVE  /\ current \in [Users -> 0 .. issued] /\ issued \in Nat
         /\ \A v \in Users : current[v] # 0 => current[v] \in 1 .. issued /\ owner[current[v]] = v
  <1>1. TokensHaveOwners
    BY DEF LoginInv
  <1>2. issued \in Nat /\ current \in [Users -> 0 .. issued]
    BY <1>1 DEF TokensHaveOwners
  <1>3. \A v \in Users : current[v] # 0 => owner[current[v]] = v
    BY <1>1 DEF TokensHaveOwners
  <1>4. \A v \in Users : current[v] # 0 => current[v] \in 1 .. issued
    BY <1>2
  <1>5. QED
    BY <1>2, <1>3, <1>4

\* A new token is current in place of any other of its owner's.
LEMMA TokensGrow ==
  ASSUME LoginInv, NEW u \in Users, NEW root \in 0 .. issued, NewToken(u, root),
         root # 0 => \E t \in 1 .. issued : owner[t] = u /\ family[t] = root,
         current' = [current EXCEPT ![u] = issued'],
         exchanges' \in [1 .. MaxTokens -> Nat],
         \A t \in 1 .. MaxTokens : t > issued => exchanges'[t] = exchanges[t],
         handed' = handed \/ handed' = handed \cup {issued'}, burnt' = burnt
  PROVE  TokensHaveOwners'
  <1>1. PICK n \in 1 .. MaxTokens : n = issued' /\ n = issued + 1
    BY NewTokenFacts
  <1>2. /\ owner' \in [1 .. MaxTokens -> Users \cup {None}]
        /\ family' \in [1 .. MaxTokens -> Nat]
        /\ owner'[n] = u
        /\ family'[n] = IF root = 0 THEN n ELSE root
        /\ \A t \in 1 .. issued : owner'[t] = owner[t] /\ family'[t] = family[t]
    BY <1>1, NewTokenFacts
  <1>3. /\ issued \in Nat /\ 1 .. n = (1 .. issued) \cup {n} /\ n \notin 1 .. issued
        /\ 1 .. issued' = 1 .. n /\ 0 .. issued \subseteq 0 .. n
    <2>1. issued \in Nat
      BY CurrentIsIssued
    <2>2. QED
      BY <1>1, <2>1
  <1>4. /\ current' \in [Users -> 0 .. n]
        /\ \A v \in Users : current'[v] = IF v = u THEN n ELSE current[v]
    BY <1>1, <1>3 DEF LoginInv, TokensHaveOwners
  <1>0. /\ \A t \in 1 .. issued : owner[t] \in Users /\ family[t] \in 1 .. t
        /\ \A s, t \in 1 .. issued : family[s] = family[t] => owner[s] = owner[t]
        /\ handed \subseteq 1 .. issued /\ burnt \subseteq 1 .. issued
    BY DEF LoginInv, TokensHaveOwners
  <1>5. \A t \in 1 .. n : owner'[t] \in Users /\ family'[t] \in 1 .. t
    <2>1. \A t \in 1 .. issued : owner'[t] \in Users /\ family'[t] \in 1 .. t
      BY <1>0, <1>2
    <2>2. family'[n] \in 1 .. n
      BY <1>1, <1>2, <1>3
    <2>3. QED
      BY <1>2, <1>3, <2>1, <2>2
  <1>6. \A s, t \in 1 .. n : family'[s] = family'[t] => owner'[s] = owner'[t]
    <2>1. \A t \in 1 .. issued : family[t] = family'[n] => owner[t] = u
      <3> SUFFICES ASSUME NEW t \in 1 .. issued, family[t] = family'[n] PROVE owner[t] = u
          OBVIOUS
      <3>1. root # 0
        <4>1. family[t] \in 1 .. t /\ t < n /\ family[t] # n
          <5>1. family[t] \in 1 .. t /\ t \in 1 .. issued
            BY <1>0
          <5>2. QED
            BY <1>1, <1>3, <5>1
        <4>2. QED
          BY <1>2, <4>1
      <3>2. PICK s \in 1 .. issued : owner[s] = u /\ family[s] = root
        BY <3>1
      <3>3. QED
        BY <1>0, <1>2, <3>1, <3>2
    <2> SUFFICES ASSUME NEW s \in 1 .. n, NEW t \in 1 .. n, family'[s] = family'[t]
                 PROVE  owner'[s] = owner'[t]
        OBVIOUS
    <2>2. CASE s \in 1 .. issued /\ t \in 1 .. issued
      BY <1>0, <1>2, <2>2
    <2>3. CASE s = n /\ t \in 1 .. issued
      BY <1>2, <2>1, <2>3
    <2>4. CASE s \in 1 .. issued /\ t = n
      BY <1>2, <2>1, <2>4
    <2>5. QED
      BY <1>3, <2>2, <2>3, <2>4
  <1>7. \A v \in Users : current'[v] # 0 => owner'[current'[v]] = v
    <2> SUFFICES ASSUME NEW v \in Users, v # u, current[v] # 0 PROVE owner'[current[v]] = v
        BY <1>2, <1>4
    <2>1. current[v] \in 1 .. issued /\ owner[current[v]] = v
      BY CurrentIsIssued
    <2>2. QED
      BY <1>2, <2>1
  <1>8. \A t \in 1 .. MaxTokens : t > n => exchanges'[t] = 0
    BY <1>1 DEF LoginInv, TokensHaveOwners
  <1>9. handed' \subseteq 1 .. n /\ burnt' \subseteq 1 .. n /\ n \in 0 .. MaxTokens
    <2>1. n \in 0 .. MaxTokens /\ 1 .. issued \subseteq 1 .. n
      BY <1>1, <1>3
    <2>2. QED
      BY <1>0, <1>1, <1>3, <2>1
  <1>10. /\ current' \in [Users -> 0 .. issued'] /\ issued' \in 0 .. MaxTokens
         /\ \A t \in 1 .. MaxTokens : t > issued' => exchanges'[t] = 0
    BY <1>1, <1>4, <1>8, <1>9
  <1>11. /\ handed' \subseteq 1 .. issued' /\ burnt' \subseteq 1 .. issued'
         /\ \A t \in 1 .. issued' : owner'[t] \in Users /\ family'[t] \in 1 .. t
         /\ \A s, t \in 1 .. issued' : family'[s] = family'[t] => owner'[s] = owner'[t]
    BY <1>1, <1>5, <1>6, <1>9
  <1>12. QED
    BY <1>2, <1>7, <1>10, <1>11 DEF TokensHaveOwners

LEMMA IssueTokensKeeps ==
  ASSUME LoginInv, NEW w \in Workers, IssueTokens(w) PROVE LoginInv'
  <1>1. authCall[w] \in AuthCalls /\ authCall[w].op = "issue" /\ authCall[w] # Idle
    BY DEF IssueTokens, At, LoginInv, Idle
  <1>2. PICK u \in Users, new \in Account \cup {None} : authCall[w].user = u /\ authCall[w].new = new
    BY <1>1, CallTypes
  <1>3. 0 \in 0 .. issued
    BY DEF LoginInv, TokensHaveOwners
  <1>4. /\ NewToken(u, 0)
        /\ current' = [current EXCEPT ![u] = issued']
        /\ Continue(w, [op |-> "commit", user |-> u, new |-> new, token |-> issued'])
        /\ UNCHANGED <<account, handed, exchanges, burnt, overlap>>
    BY <1>2 DEF IssueTokens
  <1>5. PICK n \in 1 .. MaxTokens : n = issued' /\ n = issued + 1 /\ issued \in Nat
    <2>1. \E n \in 1 .. MaxTokens : n = issued' /\ n = issued + 1
      BY <1>3, <1>4, NewTokenFacts
    <2>2. issued \in Nat
      BY DEF LoginInv, TokensHaveOwners
    <2>3. QED
      BY <2>1, <2>2
  <1>6. /\ owner'[n] = u /\ family'[n] = n
        /\ \A t \in 1 .. issued : owner'[t] = owner[t] /\ family'[t] = family[t]
    BY <1>3, <1>4, <1>5, NewTokenFacts
  <1>7. TokensHaveOwners'
    <2>1. exchanges' \in [1 .. MaxTokens -> Nat]
      BY <1>4 DEF LoginInv, TokensHaveOwners
    <2>2. QED
      BY <1>3, <1>4, <2>1, TokensGrow
  <1> DEFINE r == [op |-> "commit", user |-> u, new |-> new, token |-> n]
  <1>8. r \in AuthCalls' /\ r.op = "commit" /\ r.user = u /\ r.new = new /\ Continue(w, r)
    <2>1. n \in 1 .. issued'
      BY <1>5
    <2>2. QED
      BY <1>4, <1>5, <2>1 DEF AuthCalls
  <1> HIDE DEF r
  <1>9. /\ authCall' \in [Workers -> AuthCalls']
        /\ \A v \in Workers : authCall'[v] = IF v = w THEN r ELSE authCall[v]
    <2>1. issued' \in Nat /\ issued' >= issued
      BY <1>5
    <2>2. QED
      BY <1>8, <2>1, Continues
  <1>10. RowsAreFound'
    <2>1. \A v \in Workers : Inserts(authCall'[v]) =>
            /\ Inserts(authCall[v])
            /\ authCall'[v].user = authCall[v].user /\ authCall'[v].new = authCall[v].new
      BY <1>1, <1>2, <1>8, <1>9 DEF Inserts
    <2>2. \A v \in Workers : authCall'[v].op = "identity" => Exists(authCall'[v].user)
      BY <1>8, <1>9 DEF LoginInv, RowsAreFound
    <2>3. QED
      BY <1>4, <2>1, <2>2, RowsStay DEF LoginInv
  <1>11. \A v \in Users : current'[v] = IF v = u THEN n ELSE current[v]
    BY <1>4, <1>5 DEF LoginInv, TokensHaveOwners
  <1>12. ~overlap => OneByOne' /\ ExchangedIsOld' /\ BurntIsDead'
    <2> SUFFICES ASSUME ~overlap PROVE OneByOne' /\ ExchangedIsOld' /\ BurntIsDead'
        OBVIOUS
    <2>0. OneByOne /\ ExchangedIsOld /\ BurntIsDead
      BY DEF LoginInv
    <2>1. \A v \in Workers : v # w => authCall'[v] = Idle
      BY <1>1, <1>9, <2>0 DEF OneByOne
    <2>2. OneByOne'
      <3>1. Idle.op # "rotate"
        BY DEF Idle
      <3>2. QED
        BY <1>8, <1>9, <2>1, <3>1 DEF OneByOne
    <2>3. ExchangedIsOld'
      <3> SUFFICES ASSUME NEW t \in 1 .. n
                   PROVE  exchanges[t] <= 1 /\ (exchanges[t] = 1 => current'[owner'[t]] # t)
          BY <1>4, <1>5 DEF ExchangedIsOld
      <3>1. CASE t = n
        BY <1>5, <3>1 DEF LoginInv, TokensHaveOwners
      <3>2. CASE t # n
        <4>1. t \in 1 .. issued
          BY <1>5, <3>2
        <4>2. owner'[t] = owner[t] /\ owner[t] \in Users
          BY <1>6, <4>1 DEF LoginInv, TokensHaveOwners
        <4>3. QED
          BY <1>11, <2>0, <3>2, <4>1, <4>2 DEF ExchangedIsOld
      <3>3. QED
        BY <3>1, <3>2
    <2>4. BurntIsDead'
      <3> SUFFICES ASSUME NEW v \in Users, current'[v] # 0 PROVE family'[current'[v]] \notin burnt
          BY <1>4 DEF BurntIsDead
      <3>1. CASE v = u
        <4>1. n \notin burnt
          BY <1>5 DEF LoginInv, TokensHaveOwners
        <4>2. QED
          BY <1>6, <1>11, <3>1, <4>1
      <3>2. CASE v # u
        <4>1. current'[v] = current[v] /\ current[v] \in 1 .. issued
          BY <1>11, <3>2, CurrentIsIssued
        <4>2. QED
          BY <1>6, <2>0, <4>1 DEF BurntIsDead
      <3>3. QED
        BY <3>1, <3>2
    <2>5. QED
      BY <2>2, <2>3, <2>4
  <1>13. QED
    BY <1>4, <1>7, <1>9, <1>10, <1>12 DEF LoginInv

LEMMA RotateKeeps ==
  ASSUME LoginInv, NEW w \in Workers, Rotate(w) PROVE LoginInv'
  <1>1. authCall[w] \in AuthCalls /\ authCall[w].op = "rotate" /\ authCall[w] # Idle /\ Leave(w)
    BY DEF Rotate, At, LoginInv, Idle
  <1>2. PICK t \in 1 .. issued : authCall[w].token = t
    BY <1>1, CallTypes
  <1>3. PICK u \in Users, root \in 1 .. t : owner[t] = u /\ family[t] = root
    BY DEF LoginInv, TokensHaveOwners
  <1>4. /\ NewToken(u, root)
        /\ current' = [current EXCEPT ![u] = issued']
        /\ handed' = handed \cup {issued'}
        /\ exchanges' = [exchanges EXCEPT ![t] = @ + 1]
        /\ UNCHANGED <<account, burnt, overlap>>
    BY <1>2, <1>3 DEF Rotate, NowCurrent
  <1>5. root \in 0 .. issued /\ root # 0 /\ issued \in 0 .. MaxTokens
    BY <1>3 DEF LoginInv, TokensHaveOwners
  <1>6. PICK n \in 1 .. MaxTokens : n = issued' /\ n = issued + 1
    BY <1>4, <1>5, NewTokenFacts
  <1>7. /\ owner'[n] = u /\ family'[n] = root
        /\ \A s \in 1 .. issued : owner'[s] = owner[s] /\ family'[s] = family[s]
    BY <1>4, <1>5, <1>6, NewTokenFacts
  <1>8. t \in 1 .. MaxTokens /\ issued \in Nat /\ t # n
    BY <1>5, <1>6
  <1>9. /\ exchanges' \in [1 .. MaxTokens -> Nat]
        /\ \A s \in 1 .. MaxTokens : exchanges'[s] = IF s = t THEN exchanges[s] + 1 ELSE exchanges[s]
    <2>0. exchanges \in [1 .. MaxTokens -> Nat]
      BY DEF LoginInv, TokensHaveOwners
    <2>1. exchanges \in [1 .. MaxTokens -> Nat] /\ exchanges[t] + 1 \in Nat
      BY <1>8, <2>0
    <2>2. exchanges' = [exchanges EXCEPT ![t] = exchanges[t] + 1]
      BY <1>4
    <2>3. QED
      BY <1>8, <2>1, <2>2
  <1>10. TokensHaveOwners'
    <2>1. \A s \in 1 .. MaxTokens : s > issued => exchanges'[s] = exchanges[s]
      <3>1. \A s \in 1 .. MaxTokens : s > issued => s # t
        BY <1>8
      <3>2. QED
        BY <1>9, <3>1
    <2>2. QED
      BY <1>3, <1>4, <1>5, <1>9, <2>1, TokensGrow
  <1>11. /\ authCall' \in [Workers -> AuthCalls']
         /\ authCall'[w] = Idle /\ Idle.op = "idle"
         /\ \A v \in Workers : v # w => authCall'[v] = authCall[v]
         /\ ~overlap => \A v \in Workers : authCall'[v] = Idle
    <2>1. issued' \in Nat /\ issued' >= issued
      BY <1>6, <1>8
    <2>2. QED
      BY <1>1, <2>1, LeaveFacts
  <1>12. RowsAreFound'
    <2>1. \A v \in Workers : Inserts(authCall'[v]) =>
            /\ Inserts(authCall[v])
            /\ authCall'[v].user = authCall[v].user /\ authCall'[v].new = authCall[v].new
      BY <1>11 DEF Inserts
    <2>2. \A v \in Workers : authCall'[v].op = "identity" => Exists(authCall'[v].user)
      BY <1>11 DEF LoginInv, RowsAreFound
    <2>3. QED
      BY <1>4, <2>1, <2>2, RowsStay DEF LoginInv
  <1>13. \A v \in Users : current'[v] = IF v = u THEN n ELSE current[v]
    BY <1>4, <1>6 DEF LoginInv, TokensHaveOwners
  <1>14. ~overlap => OneByOne' /\ ExchangedIsOld' /\ BurntIsDead'
    <2> SUFFICES ASSUME ~overlap PROVE OneByOne' /\ ExchangedIsOld' /\ BurntIsDead'
        OBVIOUS
    <2>0. /\ OneByOne /\ ExchangedIsOld /\ BurntIsDead
          /\ current[u] = t /\ exchanges[t] = 0
      <3>1. OneByOne /\ ExchangedIsOld /\ BurntIsDead
        BY DEF LoginInv
      <3>2. current[u] = t
        BY <1>1, <1>2, <1>3, <3>1 DEF OneByOne
      <3>3. exchanges[t] \in Nat /\ exchanges[t] <= 1 /\ exchanges[t] # 1
        BY <1>3, <1>8, <3>1, <3>2 DEF ExchangedIsOld, LoginInv, TokensHaveOwners
      <3>4. QED
        BY <3>1, <3>2, <3>3
    <2>1. OneByOne'
      BY <1>11 DEF OneByOne
    <2>2. ExchangedIsOld'
      <3> SUFFICES ASSUME NEW s \in 1 .. n
                   PROVE  exchanges'[s] <= 1 /\ (exchanges'[s] = 1 => current'[owner'[s]] # s)
          BY <1>6 DEF ExchangedIsOld
      <3>1. CASE s = n
        <4>1. n > issued
          BY <1>6, <1>8
        <4>2. exchanges[n] = 0
          BY <4>1 DEF LoginInv, TokensHaveOwners
        <4>3. QED
          BY <1>8, <1>9, <3>1, <4>2
      <3>2. CASE s = t
        BY <1>3, <1>7, <1>8, <1>9, <1>13, <2>0, <3>2
      <3>3. CASE s # n /\ s # t
        <4>1. s \in 1 .. issued /\ s \in 1 .. MaxTokens
          BY <1>6, <1>8, <3>3
        <4>2. owner'[s] = owner[s] /\ owner[s] \in Users /\ exchanges'[s] = exchanges[s]
          BY <1>7, <1>9, <3>3, <4>1 DEF LoginInv, TokensHaveOwners
        <4>3. QED
          BY <1>13, <2>0, <3>3, <4>1, <4>2 DEF ExchangedIsOld
      <3>4. QED
        BY <3>1, <3>2, <3>3
    <2>3. BurntIsDead'
      <3> SUFFICES ASSUME NEW v \in Users, current'[v] # 0 PROVE family'[current'[v]] \notin burnt
          BY <1>4 DEF BurntIsDead
      <3>1. CASE v = u
        <4>1. root \notin burnt
          BY <1>3, <1>8, <2>0 DEF BurntIsDead
        <4>2. QED
          BY <1>7, <1>13, <3>1, <4>1
      <3>2. CASE v # u
        <4>1. current'[v] = current[v] /\ current[v] \in 1 .. issued
          BY <1>13, <3>2, CurrentIsIssued
        <4>2. QED
          BY <1>7, <2>0, <4>1 DEF BurntIsDead
      <3>3. QED
        BY <3>1, <3>2
    <2>4. QED
      BY <2>1, <2>2, <2>3
  <1>15. QED
    BY <1>4, <1>10, <1>11, <1>12, <1>14 DEF LoginInv

\* A replay or a logout ends the login that a token t goes back to: what other
\* users hold goes back to other logins.
LEMMA LoginEnds ==
  ASSUME LoginInv, NEW t \in 1 .. issued,
         current' = [current EXCEPT ![owner[t]] = 0],
         burnt' = burnt \cup {family[t]},
         UNCHANGED <<tokens, handed, exchanges, overlap>>
  PROVE  TokensHaveOwners' /\ (~overlap => ExchangedIsOld' /\ BurntIsDead')
  <1>1. PICK u \in Users, root \in 1 .. t : owner[t] = u /\ family[t] = root
    BY DEF LoginInv, TokensHaveOwners
  <1>2. issued' = issued /\ owner' = owner /\ family' = family /\ issued \in Nat
    BY DEF tokens, LoginInv, TokensHaveOwners
  <1>3. /\ current' \in [Users -> 0 .. issued]
        /\ \A v \in Users : current'[v] = IF v = u THEN 0 ELSE current[v]
    BY <1>1, <1>2 DEF LoginInv, TokensHaveOwners
  <1>4. root \in 1 .. issued
    BY <1>1, <1>2
  <1>5. TokensHaveOwners'
    <2>1. burnt' \subseteq 1 .. issued
      BY <1>1, <1>4 DEF LoginInv, TokensHaveOwners
    <2>2. \A v \in Users : current'[v] # 0 => owner[current'[v]] = v
      BY <1>3 DEF LoginInv, TokensHaveOwners
    <2>3. handed' = handed /\ exchanges' = exchanges
      OBVIOUS
    <2>4. TokensHaveOwners
      BY DEF LoginInv
    <2>5. current' \in [Users -> 0 .. issued'] /\ burnt' \subseteq 1 .. issued'
      BY <1>2, <1>3, <2>1
    <2>6. \A v \in Users : current'[v] # 0 => owner'[current'[v]] = v
      BY <1>2, <2>2
    <2>7. /\ (issued \in 0 .. MaxTokens)'
          /\ (owner \in [1 .. MaxTokens -> Users \cup {None}])'
          /\ (family \in [1 .. MaxTokens -> Nat])'
          /\ (exchanges \in [1 .. MaxTokens -> Nat])'
          /\ (handed \subseteq 1 .. issued)'
      BY <1>2, <2>3, <2>4 DEF TokensHaveOwners
    <2>8. /\ \A s \in 1 .. issued' : owner'[s] \in Users /\ family'[s] \in 1 .. s
          /\ \A s, r \in 1 .. issued' : family'[s] = family'[r] => owner'[s] = owner'[r]
          /\ \A s \in 1 .. MaxTokens : s > issued' => exchanges'[s] = 0
      BY <1>2, <2>3, <2>4 DEF TokensHaveOwners
    <2>9. QED
      BY <2>5, <2>6, <2>7, <2>8 DEF TokensHaveOwners
  <1>6. ASSUME ~overlap PROVE ExchangedIsOld'
    <2> SUFFICES ASSUME NEW s \in 1 .. issued
                 PROVE  exchanges[s] <= 1 /\ (exchanges[s] = 1 => current'[owner[s]] # s)
        BY <1>2 DEF ExchangedIsOld
    <2>1. owner[s] \in Users /\ exchanges[s] <= 1 /\ (exchanges[s] = 1 => current[owner[s]] # s)
      BY <1>6 DEF ExchangedIsOld, LoginInv, TokensHaveOwners
    <2>2. s # 0
      OBVIOUS
    <2>3. QED
      BY <1>3, <2>1, <2>2
  <1>7. ASSUME ~overlap PROVE BurntIsDead'
    <2> SUFFICES ASSUME NEW v \in Users, current'[v] # 0 PROVE family[current'[v]] \notin burnt'
        BY <1>2 DEF BurntIsDead
    <2>1. v # u /\ current'[v] = current[v] /\ current[v] # 0
      BY <1>3
    <2>2. current[v] \in 0 .. issued /\ owner[current[v]] = v
      BY <2>1 DEF LoginInv, TokensHaveOwners
    <2>3. current[v] \in 1 .. issued
      BY <1>2, <2>1, <2>2
    <2>4. family[current[v]] \notin burnt
      BY <1>7, <2>1 DEF LoginInv, BurntIsDead
    <2>5. \A s \in 1 .. issued : family[s] = family[t] => owner[s] = owner[t]
      BY DEF LoginInv, TokensHaveOwners
    <2>6. family[current[v]] # root
      BY <1>1, <2>1, <2>2, <2>3, <2>5
    <2>7. QED
      BY <1>1, <2>1, <2>4, <2>6
  <1>8. QED
    BY <1>5, <1>6, <1>7

LEMMA RevokeKeeps ==
  ASSUME LoginInv, NEW w \in Workers, Revoke(w) PROVE LoginInv'
  <1>1. authCall[w] \in AuthCalls /\ authCall[w].op = "revoke" /\ authCall[w] # Idle /\ Leave(w)
    BY DEF Revoke, At, LoginInv, Idle
  <1>2. PICK t \in 1 .. issued : authCall[w].token = t
    BY <1>1, CallTypes
  <1>3. /\ current' = [current EXCEPT ![owner[t]] = 0]
        /\ burnt' = burnt \cup {family[t]}
        /\ UNCHANGED <<account, tokens, handed, exchanges, overlap>>
    BY <1>2 DEF Revoke, Revoked
  <1>4. TokensHaveOwners' /\ (~overlap => ExchangedIsOld' /\ BurntIsDead')
    BY <1>3, LoginEnds
  <1>5. issued' = issued /\ issued \in Nat
    BY <1>3 DEF tokens, LoginInv, TokensHaveOwners
  <1>6. /\ authCall' \in [Workers -> AuthCalls']
        /\ authCall'[w] = Idle /\ Idle.op = "idle"
        /\ \A v \in Workers : v # w => authCall'[v] = authCall[v]
        /\ ~overlap => \A v \in Workers : authCall'[v] = Idle
    BY <1>1, <1>5, LeaveFacts
  <1>7. RowsAreFound'
    <2>1. \A v \in Workers : Inserts(authCall'[v]) =>
            /\ Inserts(authCall[v])
            /\ authCall'[v].user = authCall[v].user /\ authCall'[v].new = authCall[v].new
      BY <1>6 DEF Inserts
    <2>2. \A v \in Workers : authCall'[v].op = "identity" => Exists(authCall'[v].user)
      BY <1>6 DEF LoginInv, RowsAreFound
    <2>3. QED
      BY <1>3, <2>1, <2>2, RowsStay DEF LoginInv
  <1>8. ~overlap => OneByOne'
    BY <1>6 DEF OneByOne
  <1>9. QED
    BY <1>3, <1>4, <1>6, <1>7, <1>8 DEF LoginInv

LEMMA LogoutKeeps ==
  ASSUME LoginInv, NEW u \in Users, Logout(u) PROVE LoginInv'
  <1>1. /\ current[u] # 0 /\ MayStart(authCall)
        /\ burnt' = burnt \cup {family[current[u]]}
        /\ current' = [current EXCEPT ![u] = 0]
        /\ UNCHANGED <<account, authCall, tokens, handed, exchanges, overlap>>
    BY DEF Logout
  <1>2. PICK t \in 1 .. issued : t = current[u] /\ owner[t] = u
    BY <1>1, CurrentIsIssued
  <1>3. TokensHaveOwners' /\ (~overlap => ExchangedIsOld' /\ BurntIsDead')
    BY <1>1, <1>2, LoginEnds
  <1>4. authCall' \in [Workers -> AuthCalls']
    BY <1>1 DEF tokens, LoginInv, AuthCalls
  <1>5. RowsAreFound'
    BY <1>1 DEF LoginInv, RowsAreFound, Exists, EmailTaken
  <1>6. ~overlap => OneByOne'
    BY <1>1 DEF MayStart, OneByOne, Idle
  <1>7. QED
    BY <1>1, <1>3, <1>4, <1>5, <1>6 DEF LoginInv

-----------------------------------------------------------------------------
(* Accounts: the theorem *)

LEMMA OneRowAtMost ==
  ASSUME NEW S, \A a, b \in S : a = b PROVE Cardinality(S) <= 1
  <1>1. CASE S = {}
    BY <1>1, FS_EmptySet
  <1>2. CASE S # {}
    <2>1. PICK a \in S : S = {a}
      BY <1>2
    <2>2. Cardinality({a}) = 1
      BY FS_Singleton
    <2>3. QED
      BY <2>1, <2>2
  <1>3. QED
    BY <1>1, <1>2

\* However requests overlap and wherever they stop, rows keep the address they
\* are found by and tokens their owner; one request at a time, a request acts on
\* the token that is current (auth/service.py, refresh_store.py).
THEOREM LoginInvariance == AccountsSpec => []LoginInv
  <1>1. AccountsInit => LoginInv
    BY InitLoginInv
  <1>2. LoginInv /\ [AccountsNext]_accountVars => LoginInv'
    <2>1. LoginInv /\ UNCHANGED accountVars => LoginInv'
      <3> SUFFICES ASSUME LoginInv, UNCHANGED accountVars PROVE LoginInv'
          OBVIOUS
      <3>1. /\ UNCHANGED <<account, current, authCall, handed, exchanges, burnt, overlap>>
            /\ UNCHANGED <<issued, owner, family>>
        BY DEF accountVars, tokens
      <3>2. (authCall \in [Workers -> AuthCalls])'
        BY <3>1 DEF LoginInv, AuthCalls
      <3>3. RowsAreFound'
        BY <3>1 DEF LoginInv, RowsAreFound, Exists, EmailTaken
      <3>6. TokensHaveOwners'
        BY <3>1 DEF LoginInv, TokensHaveOwners
      <3>4. ~overlap => OneByOne' /\ ExchangedIsOld' /\ BurntIsDead'
        BY <3>1 DEF LoginInv, OneByOne, ExchangedIsOld, BurntIsDead
      <3>5. QED
        BY <3>1, <3>2, <3>3, <3>4, <3>6 DEF LoginInv
    <2>2. QED
      BY <2>1, LogInKeeps, LookUpKeeps, InsertKeeps, IssueTokensKeeps, CommitLoginKeeps, RefreshKeeps,
         RevokeKeeps, RotateKeeps, OpenIdentityKeeps, CommitIdentityKeeps, AccountsFailKeeps,
         LogoutKeeps, InviteStaffKeeps DEF AccountsNext
  <1>3. QED
    BY <1>1, <1>2, PTL DEF AccountsSpec

\* For any workers, addresses and number of tokens: an email finds one account
\* at most, however logins, identities and invitations overlap; one request at a
\* time, a refresh token is exchanged once and no token of a login that a replay
\* or a logout ended is current again (auth/service.py, refresh_store.py).
THEOREM LoginsAreSound == AccountsSpec => []AccountsInv
  <1>1. LoginInv => AccountsInv
    <2> SUFFICES ASSUME LoginInv PROVE AccountsInv
        OBVIOUS
    <2>1. AccountsTypeOK
      BY DEF LoginInv, RowsAreFound, HasAddress, TokensHaveOwners, AccountsTypeOK
    <2>2. TokenExchangedOnce /\ BurntIsDead
      BY DEF LoginInv, ExchangedIsOld, TokenExchangedOnce, BurntIsDead
    <2>3. EmailFindsOne
      <3> SUFFICES ASSUME NEW id \in Spelling, IsEmail(id) PROVE Cardinality(Matches(id)) <= 1
          BY DEF EmailFindsOne
      <3>1. \A u, v \in Matches(id) : u = v
        BY DEF Matches, LoginInv, RowsAreFound
      <3>2. QED
        BY <3>1, OneRowAtMost
    <2>4. QED
      BY <2>1, <2>2, <2>3 DEF AccountsInv
  <1>2. QED
    BY <1>1, LoginInvariance, PTL

-----------------------------------------------------------------------------
(* Accounts implement the abstract logins *)

Lasts == Lasting!Next \/ UNCHANGED Lasting!vars

LEMMA LoginFunctions ==
  /\ LoginOf = [u \in Users |-> LoginOf[u]] /\ LoginOf' = [u \in Users |-> LoginOf'[u]]
  /\ BegunBy = [u \in Users |-> BegunBy[u]] /\ BegunBy' = [u \in Users |-> BegunBy'[u]]
  /\ \A u \in Users :
       /\ LoginOf[u] = IF current[u] = 0 THEN 0 ELSE family[current[u]]
       /\ LoginOf'[u] = IF current'[u] = 0 THEN 0 ELSE family'[current'[u]]
  BY DEF LoginOf, BegunBy

\* Steps that leave the tokens alone.
LEMMA LoginsStay ==
  ASSUME UNCHANGED <<current, issued, owner, family>> PROVE Lasts
  BY DEF Lasts, Lasting!vars, LoginOf, BegunBy

\* A token that was issued keeps its login and its owner.
LEMMA TokenStays ==
  ASSUME LoginInv, NEW u \in Users, NEW root \in 0 .. issued, NewToken(u, root),
         current' = [current EXCEPT ![u] = issued']
  PROVE  LET l == IF root = 0 THEN issued' ELSE root
         IN  /\ LoginOf' = [LoginOf EXCEPT ![u] = l]
             /\ \A v \in Users : BegunBy'[v] =
                   IF v = u /\ root = 0 THEN BegunBy[v] \cup {issued'} ELSE BegunBy[v]
             /\ \A v \in Users : issued' \notin BegunBy[v]
  <1>1. PICK n \in 1 .. MaxTokens : n = issued' /\ n = issued + 1
    BY NewTokenFacts
  <1>2. /\ owner'[n] = u
        /\ family'[n] = IF root = 0 THEN n ELSE root
        /\ \A t \in 1 .. issued : owner'[t] = owner[t] /\ family'[t] = family[t]
    BY <1>1, NewTokenFacts
  <1>3. /\ issued \in Nat /\ n # 0 /\ n \notin 1 .. issued
        /\ 1 .. issued' = (1 .. issued) \cup {n} /\ root # n
    BY <1>1, CurrentIsIssued
  <1>4. \A v \in Users : current'[v] = IF v = u THEN n ELSE current[v]
    BY <1>1, CurrentIsIssued
  <1>5. \A v \in Users : current[v] # 0 => family'[current[v]] = family[current[v]]
    BY <1>2, CurrentIsIssued
  <1>6. \A v \in Users :
           LoginOf'[v] = IF v = u THEN IF root = 0 THEN n ELSE root ELSE LoginOf[v]
    <2> SUFFICES ASSUME NEW v \in Users
                 PROVE  LoginOf'[v] = IF v = u THEN IF root = 0 THEN n ELSE root ELSE LoginOf[v]
        OBVIOUS
    <2>1. CASE v = u
      BY <1>2, <1>3, <1>4, <2>1, LoginFunctions
    <2>2. CASE v # u
      BY <1>4, <1>5, <2>2, LoginFunctions
    <2>3. QED
      BY <2>1, <2>2
  <1>7. LoginOf' = [LoginOf EXCEPT ![u] = IF root = 0 THEN n ELSE root]
    BY <1>6, LoginFunctions
  <1>8. \A v \in Users : BegunBy'[v] = {t \in 1 .. issued' : family'[t] = t /\ owner'[t] = v}
    BY DEF BegunBy
  <1>9. ASSUME NEW v \in Users
        PROVE  BegunBy'[v] = IF v = u /\ root = 0 THEN BegunBy[v] \cup {n} ELSE BegunBy[v]
    <2>1. BegunBy[v] = {t \in 1 .. issued : family'[t] = t /\ owner'[t] = v}
      BY <1>2 DEF BegunBy
    <2>2. family'[n] = n /\ owner'[n] = v <=> v = u /\ root = 0
      BY <1>2, <1>3
    <2>3. BegunBy'[v] = {t \in (1 .. issued) \cup {n} : family'[t] = t /\ owner'[t] = v}
      BY <1>3, <1>8
    <2> HIDE <1>8
    <2>4. CASE v = u /\ root = 0
      <3>1. BegunBy'[v] = BegunBy[v] \cup {n}
        BY <2>1, <2>2, <2>3, <2>4
      <3>2. QED
        BY <2>4, <3>1
    <2>5. CASE ~(v = u /\ root = 0)
      <3>1. BegunBy'[v] = BegunBy[v]
        BY <2>1, <2>2, <2>3, <2>5
      <3>2. QED
        BY <2>5, <3>1
    <2>6. QED
      BY <2>4, <2>5
  <1>10. \A v \in Users : n \notin BegunBy[v]
    BY <1>3 DEF BegunBy
  <1>11. QED
    BY <1>1, <1>7, <1>9, <1>10

\* The first token of a login begins it, in place of the one there was.
LEMMA IssueTokensLasts ==
  ASSUME LoginInv, NEW w \in Workers, IssueTokens(w) PROVE Lasts
  <1>1. PICK u \in Users : NewToken(u, 0) /\ current' = [current EXCEPT ![u] = issued']
    <2>1. authCall[w] \in AuthCalls /\ authCall[w].op = "issue"
      BY DEF IssueTokens, At, LoginInv
    <2>2. authCall[w].user \in Users
      BY <2>1, CallTypes
    <2>3. QED
      BY <2>2 DEF IssueTokens
  <1>2. 0 \in 0 .. issued /\ issued' \in 1 .. MaxTokens
    BY <1>1, CurrentIsIssued, NewTokenFacts
  <1>3. /\ LoginOf' = [LoginOf EXCEPT ![u] = issued']
        /\ \A v \in Users : BegunBy'[v] = IF v = u THEN BegunBy[v] \cup {issued'} ELSE BegunBy[v]
        /\ \A v \in Users : issued' \notin BegunBy[v]
    BY <1>1, <1>2, TokenStays
  <1>4. BegunBy' = [BegunBy EXCEPT ![u] = @ \cup {issued'}]
    <2>1. BegunBy' = [v \in Users |-> BegunBy'[v]]
      BY DEF BegunBy
    <2>2. BegunBy = [v \in Users |-> BegunBy[v]]
      BY DEF BegunBy
    <2>3. QED
      BY <1>3, <2>1, <2>2
  <1>5. Lasting!Begin(u)
    BY <1>2, <1>3, <1>4 DEF Lasting!Begin
  <1>6. QED
    BY <1>5 DEF Lasts, Lasting!Next

\* One request at a time, the token that is exchanged is the current one, and
\* the new one carries its login on.
LEMMA RotateLasts ==
  ASSUME LoginInv, ~overlap, NEW w \in Workers, Rotate(w) PROVE Lasts
  <1>1. authCall[w] \in AuthCalls /\ authCall[w].op = "rotate"
    BY DEF Rotate, At, LoginInv
  <1>2. PICK t \in 1 .. issued : authCall[w].token = t
    BY <1>1, CallTypes
  <1>3. PICK u \in Users, root \in 1 .. t : owner[t] = u /\ family[t] = root
    BY DEF LoginInv, TokensHaveOwners
  <1>4. NewToken(u, root) /\ current' = [current EXCEPT ![u] = issued'] /\ current[u] = t
    BY <1>1, <1>2, <1>3 DEF Rotate, NowCurrent, LoginInv, OneByOne
  <1>5. root \in 0 .. issued /\ root # 0 /\ t # 0
    BY <1>2, <1>3, CurrentIsIssued
  <1>6. /\ LoginOf' = [LoginOf EXCEPT ![u] = root]
        /\ \A v \in Users : BegunBy'[v] = BegunBy[v]
    BY <1>4, <1>5, TokenStays
  <1>7. LoginOf[u] = root
    BY <1>3, <1>4, <1>5 DEF LoginOf
  <1>8. LoginOf' = LoginOf
    BY <1>6, <1>7 DEF LoginOf
  <1>9. BegunBy' = BegunBy
    <2>1. BegunBy' = [v \in Users |-> BegunBy'[v]]
      BY DEF BegunBy
    <2>2. BegunBy = [v \in Users |-> BegunBy[v]]
      BY DEF BegunBy
    <2>3. QED
      BY <1>6, <2>1, <2>2
  <1>10. QED
    BY <1>8, <1>9 DEF Lasts, Lasting!vars

\* A replay and a logout end the login of a user, if there still is one.
LEMMA EndingLasts ==
  ASSUME LoginInv, NEW u \in Users, current' = [current EXCEPT ![u] = 0],
         UNCHANGED <<issued, owner, family>>
  PROVE  Lasts
  <1>1. \A v \in Users : current'[v] = IF v = u THEN 0 ELSE current[v]
    BY CurrentIsIssued
  <1>2. LoginOf' = [LoginOf EXCEPT ![u] = 0] /\ BegunBy' = BegunBy
    <2>1. \A v \in Users : LoginOf'[v] = IF v = u THEN 0 ELSE LoginOf[v]
      BY <1>1, LoginFunctions
    <2>2. LoginOf' = [LoginOf EXCEPT ![u] = 0]
      BY <2>1, LoginFunctions
    <2>3. BegunBy' = BegunBy
      BY DEF BegunBy
    <2>4. QED
      BY <2>2, <2>3
  <1>3. CASE LoginOf[u] = 0
    <2>1. LoginOf' = LoginOf
      BY <1>2, <1>3 DEF LoginOf
    <2>2. QED
      BY <1>2, <2>1 DEF Lasts, Lasting!vars
  <1>4. CASE LoginOf[u] # 0
    BY <1>2, <1>4 DEF Lasts, Lasting!Next, Lasting!End
  <1>5. QED
    BY <1>3, <1>4

\* When requests do not overlap, a user has one login at a time, rotations carry
\* it on, and once another took its place or a logout or a replay ended it,
\* nothing brings it back (auth/refresh_store.py).
THEOREM LoginsEndForGood == AccountsSpec => ImplementsLogins
  <1>1. AccountsInit => Lasting!Init
    BY DEF AccountsInit, Lasting!Init, LoginOf, BegunBy
  <1>2. ASSUME LoginInv, ~overlap, [AccountsNext]_accountVars PROVE Lasts
    <2>1. CASE UNCHANGED <<current, tokens>>
      BY <2>1, LoginsStay DEF tokens
    <2>2. ASSUME NEW w \in Workers, IssueTokens(w) \/ Rotate(w) PROVE Lasts
      BY <1>2, <2>2, IssueTokensLasts, RotateLasts
    <2>3. ASSUME NEW w \in Workers, Revoke(w) PROVE Lasts
      <3>1. authCall[w] \in AuthCalls /\ authCall[w].op = "revoke"
        BY <1>2, <2>3 DEF Revoke, At, LoginInv
      <3>2. authCall[w].token \in 1 .. issued
        BY <3>1, CallTypes, <1>2
      <3>3. owner[authCall[w].token] \in Users
        BY <1>2, <3>2 DEF LoginInv, TokensHaveOwners
      <3>4. QED
        BY <1>2, <2>3, <3>3, EndingLasts DEF Revoke, Revoked, tokens
    <2>4. ASSUME NEW u \in Users, Logout(u) PROVE Lasts
      BY <1>2, <2>4, EndingLasts DEF Logout, tokens
    <2>5. QED
      BY <1>2, <2>1, <2>2, <2>3, <2>4 DEF AccountsNext, accountVars, LogIn, LookUp, Insert,
         CommitLogin, Refresh, OpenIdentity, CommitIdentity, AccountsFail, InviteStaff
  <1>3. LoginInv /\ [AccountsNext]_accountVars =>
          (~overlap => [Lasting!Next]_(Lasting!vars))
    BY <1>2 DEF Lasts
  <1>4. QED
    BY <1>1, <1>3, LoginInvariance, PTL DEF AccountsSpec, ImplementsLogins
=============================================================================
