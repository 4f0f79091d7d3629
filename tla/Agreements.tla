----------------------------- MODULE Agreements -----------------------------
(***************************************************************************)
(* Agreements on one listing (backend/app/agreements/service.py): drawn up *)
(* for an offer, signed by both parties, charged at Paystack, completed by *)
(* Paystack's webhook (backend/app/payments/routes.py); and the daily      *)
(* renewal sweeper (backend/app/agreements/renewal.py).                    *)
(*                                                                         *)
(* Sessions are those of module Offers: Begin reads the rows and runs the  *)
(* guards, Commit writes the changed columns, Abort rolls the rows back,   *)
(* and Overlap says whether sessions may be open at the same time.  What a *)
(* session does outside the database, the PDF it puts in S3 and the        *)
(* charges it initialises at Paystack, are steps of their own that no      *)
(* rollback undoes.                                                        *)
(***************************************************************************)
EXTENDS Naturals, Sequences, SequencesExt

CONSTANTS
    OfferId,       \* the offers agreements are drawn up for
    AgreementId,   \* identities of the rows of table agreements
    Workers,       \* slots for requests that are open at the same time
    None,          \* NULL in a column, or no row
    Category,      \* listing.category: who pays which fee
    MaxCharges,    \* bound: times the fees of one agreement are charged
    Overlap        \* may sessions overlap in time?

ASSUME AgreementsAssumption ==
    /\ None \notin OfferId \cup AgreementId
    /\ Category \in {"RENT", "OFF_CAMPUS", "SALES"}
    /\ MaxCharges \in Nat \ {0}
    /\ Overlap \in BOOLEAN

VARIABLES
    agreements,    \* table agreements, "absent" is not inserted yet
    listing,       \* listing.status; LIVE is any of the three public tiers
    pdf,           \* the signatures shown by agreements/{id}/agreement.pdf
    issued,        \* how often the fees were charged at Paystack
    paid,          \* the charges their payers have paid
    hooks,         \* webhooks Paystack has not seen answered with 200 yet
    prompted,      \* agreements the landlord was asked to renew
    req            \* the request each worker has open

vars == <<agreements, listing, pdf, issued, paid, hooks, prompted, req>>

-----------------------------------------------------------------------------
(* Data *)

Party == {"landlord", "seeker"}

\* The fees of _initiate_payments: an invoice to the seller, or one charge each.
Leg == IF Category = "SALES" THEN {"seller"} ELSE Party

\* A charge is known by its round: 0 is NULL in the reference columns.
ChargeNo == 0..MaxCharges

Agreement == [ status     : {"absent", "DRAFT", "PARTIAL_SIGNED", "PENDING_PAYMENT", "SIGNED"},
               offer      : OfferId \cup {None},
               signatures : Seq(Party),
               charge     : ChargeNo ]          \* the *_reference columns

Request == [ op        : {"idle", "generate", "sign", "confirm"},
             phase     : {"read", "stored", "charged"},
             offer     : OfferId \cup {None},
             agreement : AgreementId \cup {None},
             party     : Party,
             read      : Seq(Party),            \* signatures as they were read
             hook      : Leg \X ChargeNo,
             flips     : BOOLEAN,               \* writes listing.status?
             signs     : BOOLEAN ]              \* writes agreement.status?

AnyHook == <<CHOOSE leg \in Leg : TRUE, 0>>

Idle == [ op |-> "idle", phase |-> "read", offer |-> None, agreement |-> None,
          party |-> "landlord", read |-> <<>>, hook |-> AnyHook,
          flips |-> FALSE, signs |-> FALSE ]

NoRow == [status |-> "absent", offer |-> None, signatures |-> <<>>, charge |-> 0]

Init ==
    /\ agreements = [a \in AgreementId |-> NoRow]
    /\ listing    = "LIVE"
    /\ pdf        = [a \in AgreementId |-> <<>>]
    /\ issued     = [a \in AgreementId |-> 0]
    /\ paid       = [a \in AgreementId |-> {}]
    /\ hooks      = [a \in AgreementId |-> {}]
    /\ prompted   = {}
    /\ req        = [w \in Workers |-> Idle]

-----------------------------------------------------------------------------
(* Sessions *)

MayStart == Overlap \/ \A w \in Workers : req[w].op = "idle"

Start(w, r) == req[w].op = "idle" /\ MayStart /\ req' = [req EXCEPT ![w] = r]

Finish(w) == req' = [req EXCEPT ![w] = Idle]

\* The rows go back, the PDF and the charges stay.
Abort(w) ==
    /\ req[w].op # "idle"
    /\ Finish(w)
    /\ UNCHANGED <<agreements, listing, pdf, issued, paid, hooks, prompted>>

\* Between the flush of its UPDATE and its commit a session holds the row.
Locked(a) == \E w \in Workers : req[w].phase = "charged" /\ req[w].agreement = a

-----------------------------------------------------------------------------
(* generate_agreement_for_offer *)

Exists(a) == agreements[a].status # "absent"

AgreementsOf(o) == {a \in AgreementId : Exists(a) /\ agreements[a].offer = o}

\* The select by offer_id; with a row there is nothing to do, with two rows
\* scalar_one_or_none raises.
NoAgreementYet(o) == AgreementsOf(o) = {}

\* Called at the acceptance of the offer, or when the report on one of the
\* visits requested for it is approved: the offer's row is not held, so two
\* approvals of different visits may overlap.
BeginGenerate(w, o) ==
    /\ NoAgreementYet(o)
    /\ Start(w, [Idle EXCEPT !.op = "generate", !.offer = o])
    /\ UNCHANGED <<agreements, listing, pdf, issued, paid, hooks, prompted>>

CommitGenerate(w, a) ==
    /\ req[w].op = "generate"
    /\ ~Exists(a)
    /\ agreements' = [agreements EXCEPT ![a].status = "DRAFT", ![a].offer = req[w].offer]
    /\ Finish(w)
    /\ UNCHANGED <<listing, pdf, issued, paid, hooks, prompted>>

-----------------------------------------------------------------------------
(* submit_signature *)

AcceptsSignatures(a) == agreements[a].status \in {"DRAFT", "PARTIAL_SIGNED"}

\* Fault: no duplicate_signature check.
MayAlwaysSign(a, p) == TRUE

HasNotSigned(a, p) == ~Contains(agreements[a].signatures, p)

\* Signing needs a code sent to the party by e-mail or by WhatsApp; with one
\* of each a party can have two requests open.
BeginSign(w, a, p) ==
    /\ AcceptsSignatures(a)
    /\ HasNotSigned(a, p)
    /\ Start(w, [Idle EXCEPT !.op = "sign", !.agreement = a, !.party = p,
                             !.read = agreements[a].signatures])
    /\ UNCHANGED <<agreements, listing, pdf, issued, paid, hooks, prompted>>

\* Fault: the list is not extended but replaced.
SignedAlone(w) == <<req[w].party>>

\* agreement.signatures of the session.
Signed(w) == Append(req[w].read, req[w].party)

\* Fault: the PDF is rendered from the signatures as they were read.
StoreStalePdf(w) ==
    /\ req[w].op = "sign" /\ req[w].phase = "read"
    /\ pdf' = [pdf EXCEPT ![req[w].agreement] = req[w].read]
    /\ req' = [req EXCEPT ![w].phase = "stored"]
    /\ UNCHANGED <<agreements, listing, issued, paid, hooks, prompted>>

\* _re_render_pdf
StorePdf(w) ==
    /\ req[w].op = "sign" /\ req[w].phase = "read"
    /\ pdf' = [pdf EXCEPT ![req[w].agreement] = Signed(w)]
    /\ req' = [req EXCEPT ![w].phase = "stored"]
    /\ UNCHANGED <<agreements, listing, issued, paid, hooks, prompted>>

\* _initiate_payments, for the session that records the second signature.
Charge(w) ==
    LET a == req[w].agreement IN
    /\ req[w].op = "sign" /\ req[w].phase = "stored"
    /\ Len(Signed(w)) >= 2
    /\ ~Locked(a)
    /\ issued[a] < MaxCharges
    /\ issued' = [issued EXCEPT ![a] = @ + 1]
    /\ req' = [req EXCEPT ![w].phase = "charged"]
    /\ UNCHANGED <<agreements, listing, pdf, paid, hooks, prompted>>

CommitFirstSignature(w) ==
    LET a == req[w].agreement IN
    /\ req[w].op = "sign" /\ req[w].phase = "stored"
    /\ Len(Signed(w)) < 2
    /\ ~Locked(a)
    /\ agreements' = [agreements EXCEPT ![a].signatures = Signed(w),
                                        ![a].status = "PARTIAL_SIGNED"]
    /\ Finish(w)
    /\ UNCHANGED <<listing, pdf, issued, paid, hooks, prompted>>

RowFullySigned(w, a) ==
    [agreements[a] EXCEPT !.signatures = Signed(w), !.status = "PENDING_PAYMENT",
                          !.charge = issued[a]]

CommitSecondSignature(w) ==
    LET a == req[w].agreement IN
    /\ req[w].op = "sign" /\ req[w].phase = "charged"
    /\ agreements' = [agreements EXCEPT ![a] = RowFullySigned(w, a)]
    /\ Finish(w)
    /\ UNCHANGED <<listing, pdf, issued, paid, hooks, prompted>>

-----------------------------------------------------------------------------
(* Paystack *)

\* A payer pays a charge after the session that initialised it has ended, be
\* it by a rollback; Paystack then owes the webhook.
Pay(a, leg, n) ==
    /\ n \in 1..issued[a]
    /\ ~Locked(a)
    /\ <<leg, n>> \notin paid[a]
    /\ paid'  = [paid  EXCEPT ![a] = @ \cup {<<leg, n>>}]
    /\ hooks' = [hooks EXCEPT ![a] = @ \cup {<<leg, n>>}]
    /\ UNCHANGED <<agreements, listing, pdf, issued, prompted, req>>

-----------------------------------------------------------------------------
(* paystack_webhook and confirm_payment *)

\* Fault: the leg the webhook is about is enough.
OneLegPaid(a, leg, n) == <<leg, n>> \in paid[a]

\* Fault: the landlord's payment is taken to be the last one.
LandlordPaidLast(a, leg, n) ==
    leg # "seeker" /\ \A l \in Leg : <<l, n>> \in paid[a]

\* _verify_all_legs asks Paystack for every leg on the row.
FullyPaid(a, leg, n) == \A l \in Leg : <<l, n>> \in paid[a]

\* Fault: any charge of the agreement is taken for the one on the row.
AnyReference(a, n) == n \in 1..issued[a]

MatchesReference(a, n) == n = agreements[a].charge

Completes(a, leg, n) ==
    /\ agreements[a].status \in {"PENDING_PAYMENT", "SIGNED"}
    /\ MatchesReference(a, n)
    /\ FullyPaid(a, leg, n)

\* A webhook of a paid charge, first delivery or repetition, that completes
\* the agreement.  SQLAlchemy writes only attributes whose value changes.
BeginConfirm(w, a, leg, n) ==
    /\ <<leg, n>> \in paid[a]
    /\ Completes(a, leg, n)
    /\ Start(w, [Idle EXCEPT !.op = "confirm", !.agreement = a, !.hook = <<leg, n>>,
                             !.signs = agreements[a].status # "SIGNED",
                             !.flips = listing # "AGREED"])
    /\ UNCHANGED <<agreements, listing, pdf, issued, paid, hooks, prompted>>

CommitConfirm(w) ==
    LET a == req[w].agreement IN
    /\ req[w].op = "confirm"
    /\ ~Locked(a)
    /\ agreements' = [agreements EXCEPT ![a].status = IF req[w].signs THEN "SIGNED" ELSE @]
    /\ listing' = IF req[w].flips THEN "AGREED" ELSE listing
    /\ hooks' = [hooks EXCEPT ![a] = @ \ {req[w].hook}]
    /\ Finish(w)
    /\ UNCHANGED <<pdf, issued, paid, prompted>>

\* One that completes nothing is answered with 200 all the same.
IgnoreWebhook(a, leg, n) ==
    /\ MayStart
    /\ <<leg, n>> \in hooks[a]
    /\ ~Completes(a, leg, n)
    /\ hooks' = [hooks EXCEPT ![a] = @ \ {<<leg, n>>}]
    /\ UNCHANGED <<agreements, listing, pdf, issued, paid, prompted, req>>

-----------------------------------------------------------------------------
(* The renewal sweeper, on a day within 30 days of every end date *)

DueForRenewal ==
    {a \in AgreementId : /\ agreements[a].status = "ACTIVE"
                         /\ Category # "SALES"
                         /\ a \notin prompted}

RenewalSweep ==
    /\ MayStart
    /\ prompted' = prompted \cup DueForRenewal
    /\ UNCHANGED <<agreements, listing, pdf, issued, paid, hooks, req>>

-----------------------------------------------------------------------------
(* Administration of the listing, see admin/service.py *)

\* publish_listing, award_document_badge, restore_listing; a flagged visit.
Publish ==
    /\ listing # "DELISTED"
    /\ listing' = "LIVE"
    /\ UNCHANGED <<agreements, pdf, issued, paid, hooks, prompted, req>>

\* suspend_listing and soft_delete_listing
TakeDown(s) ==
    /\ listing' = s
    /\ UNCHANGED <<agreements, pdf, issued, paid, hooks, prompted, req>>

-----------------------------------------------------------------------------

Sessions ==
    \E w \in Workers :
        \/ Abort(w)
        \/ \E o \in OfferId : BeginGenerate(w, o)
        \/ \E a \in AgreementId : CommitGenerate(w, a)
        \/ \E a \in AgreementId, p \in Party : BeginSign(w, a, p)
        \/ StorePdf(w)
        \/ Charge(w)
        \/ CommitFirstSignature(w)
        \/ CommitSecondSignature(w)
        \/ \E a \in AgreementId, leg \in Leg, n \in ChargeNo : BeginConfirm(w, a, leg, n)
        \/ CommitConfirm(w)

Payments ==
    \E a \in AgreementId, leg \in Leg, n \in ChargeNo :
        Pay(a, leg, n) \/ IgnoreWebhook(a, leg, n)

Administration == Publish \/ \E s \in {"SUSPENDED", "DELISTED"} : TakeDown(s)

Next == Sessions \/ Payments \/ RenewalSweep \/ Administration

Spec == Init /\ [][Next]_vars

\* The session that answers the webhook of charge n commits.
Confirmed(a, leg, n) ==
    \E w \in Workers : /\ req[w].agreement = a /\ req[w].hook = <<leg, n>>
                       /\ CommitConfirm(w)

\* Delivery of a webhook Paystack has not seen answered yet.
Deliver(a, leg, n) ==
    /\ <<leg, n>> \in hooks[a]
    /\ \/ IgnoreWebhook(a, leg, n)
       \/ \E w \in Workers : BeginConfirm(w, a, leg, n)

\* Paystack repeats a webhook until it is answered, and not every answer fails;
\* a session ends one way or the other.  Nobody has to sign or to pay.
Fairness ==
    /\ \A a \in AgreementId, leg \in Leg, n \in ChargeNo :
          SF_vars(Deliver(a, leg, n)) /\ SF_vars(Confirmed(a, leg, n))
    /\ \A w \in Workers : WF_vars(Abort(w))
    /\ WF_vars(RenewalSweep)

FairSpec == Spec /\ Fairness

-----------------------------------------------------------------------------
(* Properties *)

\* Types of the tables, of the state outside the database and of the sessions;
\* offer_id is NOT NULL.
TypeOK ==
    /\ agreements \in [AgreementId -> Agreement]
    /\ \A a \in AgreementId : Exists(a) <=> agreements[a].offer # None
    /\ listing    \in {"LIVE", "AGREED", "SUSPENDED", "DELISTED"}
    /\ pdf        \in [AgreementId -> Seq(Party)]
    /\ issued     \in [AgreementId -> ChargeNo]
    /\ paid       \in [AgreementId -> SUBSET (Leg \X ChargeNo)]
    /\ hooks      \in [AgreementId -> SUBSET (Leg \X ChargeNo)]
    /\ prompted   \in SUBSET AgreementId
    /\ req        \in [Workers -> Request]

\* Nobody's signature stands twice on an agreement, so two signatures are
\* those of both parties, whatever the requests overlap with.
NobodySignsTwice ==
    \A a \in AgreementId : \A i, j \in DOMAIN agreements[a].signatures :
        agreements[a].signatures[i] = agreements[a].signatures[j] => i = j

\* Until it is signed, the status of an agreement says how many signatures it
\* has; in PENDING_PAYMENT it also has the charge its payers are to pay.
StatusMatchesSignatures ==
    \A a \in AgreementId :
        LET n == Len(agreements[a].signatures) IN
        /\ agreements[a].status = "DRAFT"           => n = 0
        /\ agreements[a].status = "PARTIAL_SIGNED"  => n = 1
        /\ agreements[a].status = "PENDING_PAYMENT" => n = 2 /\ agreements[a].charge # 0

\* Whatever requests and webhooks overlap, rows and sessions are in their
\* types, and signatures fit the status.
AgreementsInv == TypeOK /\ NobodySignsTwice /\ StatusMatchesSignatures

\* An agreement is never SIGNED before Paystack holds every fee of one and the
\* same charge, however the legs' webhooks are ordered, repeated or delayed.
SignedIsPaid ==
    \A a \in AgreementId : agreements[a].status = "SIGNED" =>
        \E n \in 1..issued[a] : \A leg \in Leg : <<leg, n>> \in paid[a]

\* A charge that is paid in full does not leave its agreement waiting for
\* payment: the webhook of the last leg to be paid sees the other one paid.
MoneyIsNotStuck ==
    \A a \in AgreementId, n \in 1..MaxCharges :
        LET waiting == agreements[a].status = "PENDING_PAYMENT" /\ agreements[a].charge = n
        IN  (waiting /\ \A leg \in Leg : <<leg, n>> \in paid[a]) ~> ~waiting

\* Signatures are appended: no recorded signature is lost.
SignaturesAccumulate ==
    [][\A a \in AgreementId :
          IsPrefix(agreements[a].signatures, agreements'[a].signatures)]_vars

\* Once an agreement has both signatures, the stored PDF shows them both,
\* whichever uploads preceded a rollback: what the parties download is what
\* they signed.
PdfShowsSignatures ==
    \A a \in AgreementId : agreements[a].status \in {"PENDING_PAYMENT", "SIGNED"} =>
        pdf[a] = agreements[a].signatures

\* The listing is off the market only for an agreement that is signed, although
\* webhooks of an old charge arrive after administrators changed the listing.
AgreedIsSigned ==
    listing = "AGREED" => \E a \in AgreementId : agreements[a].status = "SIGNED"

\* What the world outside table agreements sees of an agreement is what was
\* signed.
SignedIsShown == PdfShowsSignatures /\ AgreedIsSigned

(* Refinement *)

TheAgreement(o) == CHOOSE a \in AgreementsOf(o) : TRUE

\* With two agreements, which generate_agreement_for_offer ("Idempotent.",
\* service.py:78) is to prevent, an offer is in no state of Deal.
Stage == [o \in OfferId |-> IF AgreementsOf(o) = {} THEN "none"
                            ELSE IF Cardinality(AgreementsOf(o)) > 1 THEN "two agreements"
                            ELSE agreements[TheAgreement(o)].status]

Settled == [o \in OfferId |->
               LET a == TheAgreement(o) IN
               /\ AgreementsOf(o) # {}
               /\ agreements[a].charge # 0
               /\ \A leg \in Leg : <<leg, agreements[a].charge>> \in paid[a]]

Promise == INSTANCE Deal WITH stage <- Stage, settled <- Settled

\* Executed one session at a time, an offer has one agreement, which goes
\* through the state machine of service.py's docstring, and only the fees it
\* asks for complete it.
ImplementsDeal == Promise!Spec
=============================================================================
