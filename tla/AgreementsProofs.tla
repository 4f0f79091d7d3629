-------------------------- MODULE AgreementsProofs --------------------------
(***************************************************************************)
(* For every set of offers and agreements, every number of overlapping     *)
(* requests and of charges, and every category: nobody signs twice, the    *)
(* status fits the signatures, and nothing is SIGNED before it is paid.    *)
(*                                                                         *)
(* Executed one session at a time, agreements/service.py implements the    *)
(* abstract Deal, loses no signature, and shows the world what was signed. *)
(***************************************************************************)
EXTENDS Agreements, SequenceTheorems, FiniteSetTheorems, TLAPS

-----------------------------------------------------------------------------
(* The invariant *)

\* Both parties can sign, each once, in either order.
One(s) == \E p \in Party : s = <<p>>
Two(s) == \E p, q \in Party : p # q /\ s = <<p, q>>

RowsAgree ==
    \A a \in AgreementId :
        LET row == agreements[a] IN
        /\ row.signatures = <<>> \/ One(row.signatures) \/ Two(row.signatures)
        /\ row.status \in {"absent", "DRAFT"} => row.signatures = <<>>
        /\ row.status = "PARTIAL_SIGNED"      => One(row.signatures)
        /\ row.status = "PENDING_PAYMENT"     => Two(row.signatures) /\ row.charge # 0

\* Only what was charged is paid.
PaidIsIssued ==
    \A a \in AgreementId : \A leg \in Leg, n \in ChargeNo :
        <<leg, n>> \in paid[a] => n # 0 /\ n <= issued[a]

\* An open session signs for a party that is not in the list it read, or
\* confirms a charge that is paid in full, whatever happened since.
SessionAgrees(r) ==
    /\ r.op = "generate" => r.offer \in OfferId
    /\ r.op \in {"sign", "confirm"} => r.agreement \in AgreementId /\ Exists(r.agreement)
    /\ r.op = "sign" => r.read = <<>> \/ \E q \in Party : q # r.party /\ r.read = <<q>>
    /\ r.phase = "charged" => r.op = "sign" /\ r.read # <<>> /\ issued[r.agreement] # 0
    /\ r.op = "confirm" => \A leg \in Leg : <<leg, r.hook[2]>> \in paid[r.agreement]

SessionsAgree == \A w \in Workers : SessionAgrees(req[w])

IInv == TypeOK /\ RowsAgree /\ PaidIsIssued /\ SessionsAgree /\ SignedIsPaid

-----------------------------------------------------------------------------
(* Facts about the data *)

LEMMA LegIsNotEmpty == \E leg \in Leg : TRUE
  BY DEF Leg, Party

LEMMA ChargesAreNat == 0 \in ChargeNo /\ \A n \in ChargeNo : n \in Nat
  BY AgreementsAssumption DEF ChargeNo

LEMMA IdleIsRequest == Idle \in Request
  <1>1. AnyHook \in Leg \X ChargeNo
    BY LegIsNotEmpty, ChargesAreNat DEF AnyHook
  <1>2. <<>> \in Seq(Party)
    OBVIOUS
  <1>3. QED
    BY <1>1, <1>2 DEF Idle, Request, Party

LEMMA IdleAgrees == SessionAgrees(Idle)
  BY DEF SessionAgrees, Idle

LEMMA SignatureLists ==
    ASSUME NEW p \in Party, NEW q \in Party
    PROVE  /\ <<p>> \in Seq(Party) /\ <<p, q>> \in Seq(Party)
           /\ Append(<<>>, p) = <<p>> /\ Append(<<q>>, p) = <<q, p>>
           /\ Len(<<p>>) = 1 /\ Len(<<q, p>>) = 2 /\ <<p>> # <<>> /\ <<q, p>> # <<>>
  <1>1. <<p>> \in Seq(Party) /\ <<p, q>> \in Seq(Party)
    OBVIOUS
  <1>2. Append(<<>>, p) = <<p>>
    OBVIOUS
  <1>3. Append(<<q>>, p) = <<q, p>>
    <2>1. <<q>> \in Seq(Party) /\ Len(<<q>>) = 1 /\ <<q>>[1] = q /\ 1 \in 1 .. Len(<<q>>)
      OBVIOUS
    <2>2. /\ Append(<<q>>, p) \in Seq(Party) /\ Len(Append(<<q>>, p)) = 2
          /\ Append(<<q>>, p)[1] = q /\ Append(<<q>>, p)[2] = p
      BY <2>1, AppendProperties
    <2>3. <<q, p>> \in Seq(Party) /\ Len(<<q, p>>) = 2 /\ <<q, p>>[1] = q /\ <<q, p>>[2] = p
      OBVIOUS
    <2>4. \A i \in 1 .. 2 : Append(<<q>>, p)[i] = <<q, p>>[i]
      BY <2>2, <2>3
    <2>5. QED
      BY <2>2, <2>3, <2>4, SeqEqual
  <1>4. Len(<<p>>) = 1 /\ Len(<<q, p>>) = 2
    OBVIOUS
  <1>5. <<p>> # <<>> /\ <<q, p>> # <<>>
    OBVIOUS
  <1>6. QED
    BY <1>1, <1>2, <1>3, <1>4, <1>5

\* A list of signatures has no signature twice, and its length says which it is.
SignedOnce(s) ==
    /\ \A i, j \in DOMAIN s : s[i] = s[j] => i = j
    /\ s = <<>> => Len(s) = 0
    /\ One(s)   => Len(s) = 1
    /\ Two(s)   => Len(s) = 2

LEMMA SignatureCounts ==
    ASSUME NEW s, s = <<>> \/ One(s) \/ Two(s)
    PROVE  SignedOnce(s)
  <1>1. CASE s = <<>>
    <2>1. DOMAIN s = {} /\ Len(s) = 0
      BY <1>1
    <2>2. ~One(s) /\ ~Two(s)
      BY <1>1, SignatureLists DEF One, Two
    <2>3. QED
      BY <2>1, <2>2 DEF SignedOnce
  <1>2. ASSUME NEW p \in Party, s = <<p>> PROVE SignedOnce(s)
    <2>1. DOMAIN s = {1} /\ Len(s) = 1
      BY <1>2
    <2>2. s # <<>> /\ ~Two(s)
      BY <1>2, <2>1, SignatureLists DEF Two
    <2>3. QED
      BY <2>1, <2>2 DEF SignedOnce
  <1>3. ASSUME NEW p \in Party, NEW q \in Party, p # q, s = <<p, q>> PROVE SignedOnce(s)
    <2>1. DOMAIN s = {1, 2} /\ Len(s) = 2 /\ s[1] # s[2]
      BY <1>3
    <2>2. s # <<>> /\ ~One(s)
      BY <1>3, <2>1, SignatureLists DEF One
    <2>3. QED
      BY <2>1, <2>2 DEF SignedOnce
  <1>4. QED
    BY <1>1, <1>2, <1>3 DEF One, Two

\* The list a session commits has one party, or both.
LEMMA SignedList ==
    ASSUME TypeOK, NEW w \in Workers, SessionAgrees(req[w]), req[w].op = "sign"
    PROVE  /\ Signed(w) \in Seq(Party)
           /\ Len(Signed(w)) < 2 => One(Signed(w))
           /\ req[w].read # <<>> => Two(Signed(w))
           /\ Len(Signed(w)) >= 2 => req[w].read # <<>>
  <1>1. req[w].party \in Party
    BY DEF TypeOK, Request
  <1>2. CASE req[w].read = <<>>
    BY <1>1, <1>2, SignatureLists DEF Signed, One
  <1>3. ASSUME NEW q \in Party, q # req[w].party, req[w].read = <<q>>
        PROVE  /\ Signed(w) = <<q, req[w].party>>
               /\ Len(Signed(w)) = 2
    BY <1>1, <1>3, SignatureLists DEF Signed
  <1>4. CASE \E q \in Party : q # req[w].party /\ req[w].read = <<q>>
    <2>1. PICK q \in Party : q # req[w].party /\ req[w].read = <<q>>
      BY <1>4
    <2>2. Signed(w) = <<q, req[w].party>> /\ Len(Signed(w)) = 2 /\ req[w].read # <<>>
      BY <1>3, <2>1, SignatureLists
    <2>3. Two(Signed(w)) /\ Signed(w) \in Seq(Party)
      BY <1>1, <2>1, <2>2, SignatureLists DEF Two
    <2>4. QED
      BY <2>2, <2>3
  <1>5. QED
    BY <1>2, <1>4 DEF SessionAgrees

-----------------------------------------------------------------------------
(* What a step does *)

Quiet == UNCHANGED <<agreements, issued, paid>>

\* The steps that change a row, or the charges of one.
LEMMA RowSteps ==
    ASSUME [Next]_vars
    PROVE  \/ Quiet
           \/ \E w \in Workers, a \in AgreementId : CommitGenerate(w, a)
           \/ \E w \in Workers : CommitFirstSignature(w)
           \/ \E w \in Workers : CommitSecondSignature(w)
           \/ \E w \in Workers : CommitConfirm(w)
           \/ \E w \in Workers : Charge(w)
           \/ \E a \in AgreementId, leg \in Leg, n \in ChargeNo : Pay(a, leg, n)
  <1>1. CASE UNCHANGED vars
    BY <1>1 DEF vars, Quiet
  <1>2. CASE Sessions
    BY <1>2 DEF Sessions, Abort, BeginGenerate, BeginSign, StorePdf, BeginConfirm, Quiet
  <1>3. CASE Payments
    BY <1>3 DEF Payments, IgnoreWebhook, Quiet
  <1>4. CASE RenewalSweep \/ Administration
    BY <1>4 DEF RenewalSweep, Administration, Publish, TakeDown, Quiet
  <1>5. QED
    BY <1>1, <1>2, <1>3, <1>4 DEF Next

\* The requests that start a session.
GenerateRequest(o) == [Idle EXCEPT !.op = "generate", !.offer = o]

SignRequest(a, p) ==
    [Idle EXCEPT !.op = "sign", !.agreement = a, !.party = p, !.read = agreements[a].signatures]

ConfirmRequest(a, leg, n) ==
    [Idle EXCEPT !.op = "confirm", !.agreement = a, !.hook = <<leg, n>>,
                 !.signs = agreements[a].status # "SIGNED", !.flips = listing # "AGREED"]

\* The request of a session whose effects outside the database go this far.
Got(w, phase) == [req[w] EXCEPT !.phase = phase]

\* What a step makes of a session: it stays, ends, starts from its guards, or
\* gets past an effect outside the database.
SessionStep(w) ==
    \/ req'[w] = req[w]
    \/ req'[w] = Idle
    \/ \E o \in OfferId : req'[w] = GenerateRequest(o)
    \/ \E a \in AgreementId, p \in Party :
          /\ AcceptsSignatures(a) /\ HasNotSigned(a, p)
          /\ req'[w] = SignRequest(a, p)
    \/ \E a \in AgreementId, leg \in Leg, n \in ChargeNo :
          /\ <<leg, n>> \in paid[a] /\ Completes(a, leg, n)
          /\ req'[w] = ConfirmRequest(a, leg, n)
    \/ req[w].op = "sign" /\ req'[w] = Got(w, "stored")
    \/ /\ req[w].op = "sign" /\ Len(Signed(w)) >= 2 /\ Charge(w)
       /\ req'[w] = Got(w, "charged")

LEMMA SessionSteps ==
    ASSUME TypeOK, [Next]_vars
    PROVE  \A w \in Workers : SessionStep(w)
  <1> SUFFICES ASSUME NEW u \in Workers PROVE SessionStep(u)
      OBVIOUS
  <1>0. req \in [Workers -> Request]
    BY DEF TypeOK
  <1>1. CASE req' = req
    BY <1>1 DEF SessionStep
  <1>2. ASSUME NEW w \in Workers, Finish(w) PROVE SessionStep(u)
    BY <1>0, <1>2 DEF SessionStep, Finish
  <1>3. ASSUME NEW w \in Workers, NEW r, Start(w, r), u # w PROVE SessionStep(u)
    BY <1>0, <1>3 DEF SessionStep, Start
  <1>4. ASSUME NEW o \in OfferId, BeginGenerate(u, o) PROVE SessionStep(u)
    BY <1>0, <1>4 DEF SessionStep, BeginGenerate, Start, GenerateRequest
  <1>5. ASSUME NEW a \in AgreementId, NEW p \in Party, BeginSign(u, a, p) PROVE SessionStep(u)
    BY <1>0, <1>5 DEF SessionStep, BeginSign, Start, SignRequest
  <1>6. ASSUME NEW a \in AgreementId, NEW leg \in Leg, NEW n \in ChargeNo, BeginConfirm(u, a, leg, n)
        PROVE  SessionStep(u)
    BY <1>0, <1>6 DEF SessionStep, BeginConfirm, Start, ConfirmRequest
  <1>7. ASSUME NEW w \in Workers, StorePdf(w) \/ Charge(w) PROVE SessionStep(u)
    <2>1. CASE u # w
      BY <1>0, <1>7, <2>1 DEF SessionStep, StorePdf, Charge
    <2>2. CASE u = w /\ StorePdf(w)
      BY <1>0, <2>2 DEF SessionStep, StorePdf, Got
    <2>3. CASE u = w /\ Charge(w)
      <3>1. /\ req[u].op = "sign" /\ Len(Signed(u)) >= 2
            /\ req'[u] = Got(u, "charged")
        BY <1>0, <2>3 DEF Charge, Got
      <3>2. QED
        BY <2>3, <3>1 DEF SessionStep
    <2>4. QED
      BY <1>7, <2>1, <2>2, <2>3
  <1>8. CASE Sessions
    <2> USE <1>2, <1>3, <1>4, <1>5, <1>6, <1>7
    <2>1. PICK w \in Workers :
            \/ Abort(w)
            \/ \E o \in OfferId : BeginGenerate(w, o)
            \/ \E a \in AgreementId : CommitGenerate(w, a)
            \/ \E a \in AgreementId, p \in Party : BeginSign(w, a, p)
            \/ StorePdf(w) \/ Charge(w)
            \/ CommitFirstSignature(w) \/ CommitSecondSignature(w)
            \/ \E a \in AgreementId, leg \in Leg, n \in ChargeNo : BeginConfirm(w, a, leg, n)
            \/ CommitConfirm(w)
      BY <1>8 DEF Sessions
    <2>2. CASE Finish(w)
      BY <2>2
    <2>3. CASE \E r : Start(w, r) /\ u # w
      BY <2>3
    <2>4. CASE u = w /\ \E o \in OfferId : BeginGenerate(w, o)
      BY <2>4
    <2>5. CASE u = w /\ \E a \in AgreementId, p \in Party : BeginSign(w, a, p)
      BY <2>5
    <2>6. CASE u = w /\ \E a \in AgreementId, leg \in Leg, n \in ChargeNo : BeginConfirm(w, a, leg, n)
      BY <2>6
    <2>7. CASE StorePdf(w) \/ Charge(w)
      BY <2>7
    <2>8. QED
      BY <2>1, <2>2, <2>3, <2>4, <2>5, <2>6, <2>7
         DEF Abort, CommitGenerate, CommitFirstSignature, CommitSecondSignature, CommitConfirm,
             BeginGenerate, BeginSign, BeginConfirm
  <1>9. CASE Payments \/ RenewalSweep \/ Administration \/ UNCHANGED vars
    BY <1>1, <1>9 DEF Payments, Pay, IgnoreWebhook, RenewalSweep, Administration, Publish, TakeDown, vars
  <1>10. QED
    BY <1>8, <1>9 DEF Next

-----------------------------------------------------------------------------
(* Charges, payments and rows do not go away *)

Grows(a) ==
    /\ Exists(a) => agreements'[a].status # "absent"
    /\ issued'[a] \in ChargeNo
    /\ \A n \in Nat : n <= issued[a] => n <= issued'[a]
    /\ paid[a] \subseteq paid'[a]

LEMMA RowsGrow ==
    ASSUME TypeOK, SessionsAgree, [Next]_vars, NEW a \in AgreementId
    PROVE  Grows(a)
  <1>0. /\ agreements \in [AgreementId -> Agreement] /\ issued[a] \in ChargeNo
        /\ issued \in [AgreementId -> ChargeNo] /\ paid \in [AgreementId -> SUBSET (Leg \X ChargeNo)]
    BY DEF TypeOK
  <1>1. CASE Quiet
    BY <1>0, <1>1 DEF Quiet, Grows, Exists
  <1>2. ASSUME UNCHANGED <<issued, paid>>,
               agreements'[a] = agreements[a] \/ agreements'[a].status # "absent"
        PROVE  Grows(a)
    BY <1>0, <1>2 DEF Grows, Exists
  <1>3. ASSUME NEW w \in Workers, NEW b \in AgreementId, CommitGenerate(w, b) PROVE Grows(a)
    BY <1>0, <1>2, <1>3 DEF CommitGenerate
  <1>4. ASSUME NEW w \in Workers, CommitFirstSignature(w) PROVE Grows(a)
    BY <1>0, <1>2, <1>4 DEF CommitFirstSignature
  <1>5. ASSUME NEW w \in Workers, CommitSecondSignature(w) PROVE Grows(a)
    BY <1>0, <1>2, <1>5 DEF CommitSecondSignature, RowFullySigned
  <1>6. ASSUME NEW w \in Workers, CommitConfirm(w) PROVE Grows(a)
    <2>1. UNCHANGED <<issued, paid>>
      BY <1>6 DEF CommitConfirm
    <2>2. agreements'[a].status = agreements[a].status \/ agreements'[a].status = "SIGNED"
      BY <1>0, <1>6 DEF CommitConfirm
    <2>3. QED
      BY <1>0, <2>1, <2>2 DEF Grows, Exists
  <1>7. ASSUME NEW w \in Workers, Charge(w) PROVE Grows(a)
    <2>1. UNCHANGED <<agreements, paid>>
      BY <1>7 DEF Charge
    <2>2. /\ issued[a] \in Nat /\ MaxCharges \in Nat
          /\ issued'[a] = issued[a] \/ (issued[a] < MaxCharges /\ issued'[a] = issued[a] + 1)
      BY <1>0, <1>7, ChargesAreNat, AgreementsAssumption DEF Charge
    <2>3. issued'[a] \in ChargeNo
      BY <1>0, <2>2 DEF ChargeNo
    <2>4. \A n \in Nat : n <= issued[a] => n <= issued'[a]
      BY <2>2
    <2>5. QED
      BY <2>1, <2>3, <2>4 DEF Grows, Exists
  <1>8. ASSUME NEW b \in AgreementId, NEW leg \in Leg, NEW n \in ChargeNo, Pay(b, leg, n)
        PROVE  Grows(a)
    BY <1>0, <1>8 DEF Pay, Grows, Exists
  <1>9. QED
    BY <1>1, <1>3, <1>4, <1>5, <1>6, <1>7, <1>8, RowSteps

-----------------------------------------------------------------------------
(* Sessions *)

LEMMA NextRequests ==
    ASSUME TypeOK, SessionsAgree, [Next]_vars, NEW w \in Workers
    PROVE  req'[w] \in Request
  <1>0. req[w] \in Request /\ Idle \in Request /\ agreements \in [AgreementId -> Agreement]
    BY IdleIsRequest DEF TypeOK
  <1>1. SessionStep(w)
    BY SessionSteps
  <1>2. ASSUME NEW o \in OfferId, req'[w] = GenerateRequest(o)
        PROVE  req'[w] \in Request
    BY <1>0, <1>2 DEF Request, GenerateRequest
  <1>3. ASSUME NEW a \in AgreementId, NEW p \in Party,
               req'[w] = SignRequest(a, p)
        PROVE  req'[w] \in Request
    <2>1. agreements[a].signatures \in Seq(Party)
      BY <1>0 DEF Agreement
    <2>2. QED
      BY <1>0, <1>3, <2>1 DEF Request, SignRequest
  <1>4. ASSUME NEW a \in AgreementId, NEW leg \in Leg, NEW n \in ChargeNo,
               req'[w] = ConfirmRequest(a, leg, n)
        PROVE  req'[w] \in Request
    <2>1. /\ (agreements[a].status # "SIGNED") \in BOOLEAN /\ (listing # "AGREED") \in BOOLEAN
          /\ <<leg, n>> \in Leg \X ChargeNo
      OBVIOUS
    <2>2. QED
      BY <1>0, <1>4, <2>1 DEF Request, ConfirmRequest
  <1>5. ASSUME NEW ph \in {"stored", "charged"}, req'[w] = Got(w, ph)
        PROVE  req'[w] \in Request
    BY <1>0, <1>5 DEF Request, Got
  <1>6. CASE \E o \in OfferId : req'[w] = GenerateRequest(o)
    BY <1>2, <1>6
  <1>7. CASE \E a \in AgreementId, p \in Party :
               req'[w] = SignRequest(a, p)
    BY <1>3, <1>7
  <1>8. CASE \E a \in AgreementId, leg \in Leg, n \in ChargeNo :
               req'[w] = ConfirmRequest(a, leg, n)
    BY <1>4, <1>8
  <1>9. CASE \E ph \in {"stored", "charged"} : req'[w] = Got(w, ph)
    BY <1>5, <1>9
  <1>10. QED
    BY <1>0, <1>1, <1>6, <1>7, <1>8, <1>9 DEF SessionStep

\* Agreeing with the tables is not lost as the tables grow.
LEMMA AgreeingStays ==
    ASSUME NEW r \in Request, SessionAgrees(r), \A a \in AgreementId : Grows(a), TypeOK
    PROVE  SessionAgrees(r)'
  <1>1. /\ r.op = "generate" => r.offer \in OfferId
        /\ r.op = "sign" => r.read = <<>> \/ \E q \in Party : q # r.party /\ r.read = <<q>>
    BY DEF SessionAgrees
  <1>2. r.op \in {"sign", "confirm"} =>
            r.agreement \in AgreementId /\ agreements'[r.agreement].status # "absent"
    BY DEF SessionAgrees, Grows
  <1>3. r.phase = "charged" => r.op = "sign" /\ r.read # <<>> /\ issued'[r.agreement] # 0
    <2> SUFFICES ASSUME r.phase = "charged" PROVE issued'[r.agreement] # 0
        BY DEF SessionAgrees
    <2>1. r.agreement \in AgreementId /\ issued[r.agreement] # 0
      BY DEF SessionAgrees
    <2>2. issued[r.agreement] \in Nat /\ issued'[r.agreement] \in Nat
      BY <2>1, ChargesAreNat DEF TypeOK, Grows
    <2>3. 1 <= issued[r.agreement]
      BY <2>1, <2>2
    <2>4. 1 <= issued'[r.agreement]
      BY <2>1, <2>3 DEF Grows
    <2>5. QED
      BY <2>2, <2>4
  <1>4. r.op = "confirm" => \A leg \in Leg : <<leg, r.hook[2]>> \in paid'[r.agreement]
    BY DEF SessionAgrees, Grows
  <1>5. QED
    BY <1>1, <1>2, <1>3, <1>4 DEF SessionAgrees, Exists

\* A session that starts agrees with what its guards have read.
LEMMA StartingAgrees ==
    ASSUME TypeOK, RowsAgree
    PROVE  /\ \A o \in OfferId : SessionAgrees(GenerateRequest(o))
           /\ \A a \in AgreementId, p \in Party :
                 AcceptsSignatures(a) /\ HasNotSigned(a, p) => SessionAgrees(SignRequest(a, p))
           /\ \A a \in AgreementId, leg \in Leg, n \in ChargeNo :
                 Completes(a, leg, n) => SessionAgrees(ConfirmRequest(a, leg, n))
  <1>0. Idle \in Request /\ agreements \in [AgreementId -> Agreement]
    BY IdleIsRequest DEF TypeOK
  <1>1. ASSUME NEW o \in OfferId PROVE SessionAgrees(GenerateRequest(o))
    BY <1>1 DEF SessionAgrees, GenerateRequest, Idle
  <1>2. ASSUME NEW a \in AgreementId, NEW p \in Party, AcceptsSignatures(a), HasNotSigned(a, p)
        PROVE  SessionAgrees(SignRequest(a, p))
    <2> DEFINE s == agreements[a].signatures
    <2>1. s = <<>> \/ \E q \in Party : s = <<q>>
      BY <1>2 DEF AcceptsSignatures, RowsAgree, One
    <2>2. ASSUME NEW q \in Party, s = <<q>> PROVE q # p
      <3>1. Len(s) = 1 /\ s[1] = q
        BY <2>2, SignatureLists
      <3>2. ~ \E i \in 1 .. Len(s) : s[i] = p
        BY <1>2 DEF HasNotSigned, Contains
      <3>3. 1 \in 1 .. Len(s)
        BY <3>1
      <3>4. QED
        BY <3>1, <3>2, <3>3
    <2>3. Exists(a)
      BY <1>2 DEF AcceptsSignatures, Exists
    <2>4. /\ SignRequest(a, p).op = "sign" /\ SignRequest(a, p).phase = "read"
          /\ SignRequest(a, p).agreement = a /\ SignRequest(a, p).party = p
          /\ SignRequest(a, p).read = s
      BY DEF SignRequest, Idle
    <2> HIDE DEF s
    <2>5. QED
      BY <2>1, <2>2, <2>3, <2>4 DEF SessionAgrees
  <1>3. ASSUME NEW a \in AgreementId, NEW leg \in Leg, NEW n \in ChargeNo, Completes(a, leg, n)
        PROVE  SessionAgrees(ConfirmRequest(a, leg, n))
    <2>1. Exists(a) /\ \A l \in Leg : <<l, n>> \in paid[a]
      BY <1>3 DEF Completes, FullyPaid, Exists
    <2>2. /\ ConfirmRequest(a, leg, n).op = "confirm" /\ ConfirmRequest(a, leg, n).phase = "read"
          /\ ConfirmRequest(a, leg, n).agreement = a /\ ConfirmRequest(a, leg, n).hook[2] = n
      BY DEF ConfirmRequest, Idle
    <2>3. QED
      BY <2>1, <2>2 DEF SessionAgrees
  <1>4. QED
    BY <1>1, <1>2, <1>3

LEMMA NextSessionsAgree ==
    ASSUME TypeOK, RowsAgree, SessionsAgree, [Next]_vars
    PROVE  SessionsAgree'
  <1> SUFFICES ASSUME NEW w \in Workers PROVE SessionAgrees(req[w])'
      BY DEF SessionsAgree
  <1>0. /\ \A a \in AgreementId : Grows(a)
        /\ req[w] \in Request /\ SessionAgrees(req[w])
    BY RowsGrow DEF TypeOK, SessionsAgree
  <1>1. PICK r \in Request : r = req'[w]
    BY NextRequests
  <1>2. ASSUME SessionAgrees(r) PROVE SessionAgrees(req[w])'
    <2>1. SessionAgrees(r)'
      BY <1>0, <1>2, AgreeingStays
    <2>2. QED
      BY <1>1, <2>1 DEF SessionAgrees
  <1>3. CASE r = req[w] \/ r = Idle
    BY <1>0, <1>2, <1>3, IdleAgrees
  <1>4. CASE \E o \in OfferId : r = GenerateRequest(o)
    BY <1>2, <1>4, StartingAgrees
  <1>5. CASE \E a \in AgreementId, p \in Party :
                AcceptsSignatures(a) /\ HasNotSigned(a, p) /\ r = SignRequest(a, p)
    BY <1>2, <1>5, StartingAgrees
  <1>6. CASE \E a \in AgreementId, leg \in Leg, n \in ChargeNo :
                Completes(a, leg, n) /\ r = ConfirmRequest(a, leg, n)
    BY <1>2, <1>6, StartingAgrees
  <1>7. CASE req[w].op = "sign" /\ r = Got(w, "stored")
    <2>1. /\ r.op = "sign" /\ r.phase = "stored" /\ r.agreement = req[w].agreement
          /\ r.party = req[w].party /\ r.read = req[w].read
      BY <1>0, <1>7 DEF Request, Got
    <2>2. SessionAgrees(r)
      BY <1>0, <1>7, <2>1 DEF SessionAgrees
    <2>3. QED
      BY <1>2, <2>2
  <1>8. CASE /\ req[w].op = "sign" /\ Len(Signed(w)) >= 2 /\ Charge(w)
             /\ r = Got(w, "charged")
    <2>1. /\ r.op = "sign" /\ r.phase = "charged" /\ r.agreement = req[w].agreement
          /\ r.party = req[w].party /\ r.read = req[w].read
      BY <1>0, <1>8 DEF Request, Got
    <2>2. /\ r.agreement \in AgreementId /\ Exists(r.agreement) /\ r.read # <<>>
          /\ r.read = <<>> \/ \E q \in Party : q # r.party /\ r.read = <<q>>
      BY <1>0, <1>8, <2>1, SignedList DEF SessionAgrees
    <2>3. issued'[r.agreement] # 0
      <3>1. issued[r.agreement] \in Nat
        BY <2>2, ChargesAreNat DEF TypeOK
      <3>2. issued'[r.agreement] = issued[r.agreement] + 1
        BY <1>8, <2>1, <2>2 DEF Charge, TypeOK
      <3>3. QED
        BY <3>1, <3>2
    <2>4. agreements'[r.agreement].status # "absent"
      BY <1>0, <2>2 DEF Grows
    <2>5. QED
      BY <1>1, <2>1, <2>2, <2>3, <2>4 DEF SessionAgrees, Exists
  <1>9. QED
    BY <1>1, <1>3, <1>4, <1>5, <1>6, <1>7, <1>8, SessionSteps DEF SessionStep

-----------------------------------------------------------------------------
(* Rows *)

\* What is said of a row: its type, and that its signatures fit its status.
RowIsSound(row) ==
    /\ row \in Agreement
    /\ row.status # "absent" <=> row.offer # None
    /\ row.signatures = <<>> \/ One(row.signatures) \/ Two(row.signatures)
    /\ row.status \in {"absent", "DRAFT"} => row.signatures = <<>>
    /\ row.status = "PARTIAL_SIGNED"      => One(row.signatures)
    /\ row.status = "PENDING_PAYMENT"     => Two(row.signatures) /\ row.charge # 0

LEMMA NextRowIsSound ==
    ASSUME TypeOK, RowsAgree, SessionsAgree, [Next]_vars, NEW a \in AgreementId
    PROVE  agreements' \in [AgreementId -> Agreement] /\ RowIsSound(agreements'[a])
  <1>0. /\ agreements \in [AgreementId -> Agreement] /\ issued \in [AgreementId -> ChargeNo]
        /\ \A w \in Workers : req[w] \in Request /\ SessionAgrees(req[w])
    BY DEF TypeOK, SessionsAgree
  <1>1. RowIsSound(agreements[a])
    BY <1>0 DEF TypeOK, RowsAgree, RowIsSound, Exists
  <1>2. CASE agreements' = agreements
    BY <1>0, <1>1, <1>2
  \* One row is replaced by a sound one.
  <1>3. ASSUME NEW b \in AgreementId, NEW row, RowIsSound(row),
               agreements' = [agreements EXCEPT ![b] = row]
        PROVE  agreements' \in [AgreementId -> Agreement] /\ RowIsSound(agreements'[a])
    <2>1. row \in Agreement
      BY <1>3 DEF RowIsSound
    <2>2. agreements'[a] = IF a = b THEN row ELSE agreements[a]
      BY <1>0, <1>3
    <2>3. QED
      BY <1>0, <1>1, <1>3, <2>1, <2>2
  <1>4. ASSUME NEW w \in Workers, NEW b \in AgreementId, CommitGenerate(w, b)
        PROVE  agreements' \in [AgreementId -> Agreement] /\ RowIsSound(agreements'[a])
    <2> DEFINE row == [agreements[b] EXCEPT !.status = "DRAFT", !.offer = req[w].offer]
    <2>1. agreements' = [agreements EXCEPT ![b] = row]
      BY <1>0, <1>4 DEF CommitGenerate
    <2>2. agreements[b] \in Agreement /\ agreements[b].signatures = <<>>
      BY <1>0, <1>4 DEF CommitGenerate, RowsAgree, Exists
    <2>3. req[w].offer \in OfferId /\ req[w].offer # None
      BY <1>0, <1>4, AgreementsAssumption DEF CommitGenerate, SessionAgrees
    <2>4. RowIsSound(row)
      BY <2>2, <2>3 DEF RowIsSound, Agreement
    <2> HIDE DEF row
    <2>5. QED
      BY <1>3, <2>1, <2>4
  <1>5. ASSUME NEW w \in Workers, req[w].op = "sign"
        PROVE  /\ req[w].agreement \in AgreementId /\ Signed(w) \in Seq(Party)
               /\ agreements[req[w].agreement] \in Agreement
               /\ agreements[req[w].agreement].offer # None
               /\ Len(Signed(w)) < 2 => One(Signed(w))
               /\ req[w].read # <<>> => Two(Signed(w))
    <2>1. req[w].agreement \in AgreementId /\ Exists(req[w].agreement)
      BY <1>0, <1>5 DEF SessionAgrees
    <2>2. agreements[req[w].agreement].offer # None
      BY <2>1 DEF TypeOK
    <2>3. QED
      BY <1>0, <1>5, <2>1, <2>2, SignedList
  <1>6. ASSUME NEW w \in Workers, CommitFirstSignature(w)
        PROVE  agreements' \in [AgreementId -> Agreement] /\ RowIsSound(agreements'[a])
    <2> DEFINE b == req[w].agreement
               row == [agreements[b] EXCEPT !.signatures = Signed(w), !.status = "PARTIAL_SIGNED"]
    <2>0. req[w].op = "sign" /\ Len(Signed(w)) < 2
      BY <1>6 DEF CommitFirstSignature
    <2>1. b \in AgreementId /\ agreements' = [agreements EXCEPT ![b] = row]
      BY <1>0, <1>5, <1>6, <2>0 DEF CommitFirstSignature
    <2>2. RowIsSound(row)
      BY <1>5, <2>0 DEF RowIsSound, Agreement
    <2> HIDE DEF row, b
    <2>3. QED
      BY <1>3, <2>1, <2>2
  <1>7. ASSUME NEW w \in Workers, CommitSecondSignature(w)
        PROVE  agreements' \in [AgreementId -> Agreement] /\ RowIsSound(agreements'[a])
    <2> DEFINE b == req[w].agreement
               row == RowFullySigned(w, b)
    <2>0. req[w].op = "sign" /\ req[w].phase = "charged"
      BY <1>7 DEF CommitSecondSignature
    <2>1. b \in AgreementId /\ agreements' = [agreements EXCEPT ![b] = row]
      BY <1>5, <1>7, <2>0 DEF CommitSecondSignature
    <2>2. req[w].read # <<>> /\ issued[b] # 0 /\ issued[b] \in ChargeNo
      BY <1>0, <2>0, <2>1 DEF SessionAgrees
    <2>3. RowIsSound(row)
      BY <1>5, <2>0, <2>2 DEF RowIsSound, Agreement, RowFullySigned
    <2> HIDE DEF row, b
    <2>4. QED
      BY <1>3, <2>1, <2>3
  <1>8. ASSUME NEW w \in Workers, CommitConfirm(w)
        PROVE  agreements' \in [AgreementId -> Agreement] /\ RowIsSound(agreements'[a])
    <2> DEFINE b == req[w].agreement
    <2>1. b \in AgreementId /\ Exists(b)
      BY <1>0, <1>8 DEF CommitConfirm, SessionAgrees
    <2>2. RowIsSound(agreements[b])
      BY <1>0, <2>1 DEF TypeOK, RowsAgree, RowIsSound, Exists
    <2>3. PICK st \in {agreements[b].status, "SIGNED"} :
             agreements' = [agreements EXCEPT ![b].status = st]
      BY <1>0, <1>8, <2>1 DEF CommitConfirm
    <2> DEFINE row == [agreements[b] EXCEPT !.status = st]
    <2>4. agreements' = [agreements EXCEPT ![b] = row]
      BY <1>0, <2>1, <2>3
    <2>5. RowIsSound(row)
      BY <2>1, <2>2, <2>3 DEF RowIsSound, Agreement, Exists
    <2> HIDE DEF row, b
    <2>6. QED
      BY <1>3, <2>1, <2>4, <2>5
  <1>9. ASSUME NEW w \in Workers, Charge(w) PROVE agreements' = agreements
    BY <1>9 DEF Charge
  <1>10. ASSUME NEW b \in AgreementId, NEW leg \in Leg, NEW n \in ChargeNo, Pay(b, leg, n)
         PROVE  agreements' = agreements
    BY <1>10 DEF Pay
  <1>11. CASE Quiet
    BY <1>2, <1>11 DEF Quiet
  <1>12. QED
    BY <1>2, <1>4, <1>6, <1>7, <1>8, <1>9, <1>10, <1>11, RowSteps

LEMMA NextRowsAgree ==
    ASSUME TypeOK, RowsAgree, SessionsAgree, [Next]_vars
    PROVE  RowsAgree'
  BY NextRowIsSound DEF RowsAgree, RowIsSound

-----------------------------------------------------------------------------
(* Charges *)

LEMMA NextPaidIsIssued ==
    ASSUME TypeOK, SessionsAgree, PaidIsIssued, [Next]_vars
    PROVE  PaidIsIssued'
  <1> SUFFICES ASSUME NEW a \in AgreementId, NEW leg \in Leg, NEW n \in ChargeNo,
                      <<leg, n>> \in paid'[a]
               PROVE  n # 0 /\ n <= issued'[a]
      BY DEF PaidIsIssued
  <1>1. CASE <<leg, n>> \in paid[a]
    <2>1. n \in Nat /\ n # 0 /\ n <= issued[a]
      BY <1>1, ChargesAreNat DEF PaidIsIssued
    <2>2. QED
      BY <2>1, RowsGrow DEF Grows
  <1>2. CASE <<leg, n>> \notin paid[a]
    <2>1. paid' # paid
      BY <1>2
    <2>2. PICK b \in AgreementId, l \in Leg, m \in ChargeNo : Pay(b, l, m)
      BY <2>1, RowSteps DEF Quiet, CommitGenerate, CommitFirstSignature, CommitSecondSignature,
                            CommitConfirm, Charge
    <2>3. a = b /\ <<leg, n>> = <<l, m>>
      BY <1>2, <2>2 DEF Pay, TypeOK
    <2>4. m \in 1 .. issued[b] /\ issued' = issued /\ issued[b] \in Nat
      BY <2>2, ChargesAreNat DEF Pay, TypeOK
    <2>5. QED
      BY <2>3, <2>4
  <1>3. QED
    BY <1>1, <1>2

LEMMA NextSignedIsPaid ==
    ASSUME TypeOK, SessionsAgree, PaidIsIssued, SignedIsPaid, [Next]_vars
    PROVE  SignedIsPaid'
  <1> SUFFICES ASSUME NEW a \in AgreementId, agreements'[a].status = "SIGNED"
               PROVE  \E n \in 1 .. issued'[a] : \A leg \in Leg : <<leg, n>> \in paid'[a]
      BY DEF SignedIsPaid
  <1>0. Grows(a) /\ issued[a] \in Nat /\ issued'[a] \in Nat
    BY RowsGrow, ChargesAreNat DEF Grows, TypeOK
  \* A charge paid in full stays so.
  <1>1. ASSUME NEW n \in Nat, n # 0, n <= issued[a], \A leg \in Leg : <<leg, n>> \in paid[a]
        PROVE  \E m \in 1 .. issued'[a] : \A leg \in Leg : <<leg, m>> \in paid'[a]
    <2>1. n <= issued'[a] /\ \A leg \in Leg : <<leg, n>> \in paid'[a]
      BY <1>0, <1>1 DEF Grows
    <2>2. n \in 1 .. issued'[a]
      BY <1>0, <1>1, <2>1
    <2>3. QED
      BY <2>1, <2>2
  <1>2. CASE agreements[a].status = "SIGNED"
    <2>1. PICK n \in 1 .. issued[a] : \A leg \in Leg : <<leg, n>> \in paid[a]
      BY <1>2 DEF SignedIsPaid
    <2>2. n \in Nat /\ n # 0 /\ n <= issued[a]
      BY <1>0
    <2>3. QED
      BY <1>1, <2>1, <2>2
  <1>3. CASE agreements[a].status # "SIGNED"
    <2>0. agreements \in [AgreementId -> Agreement]
      BY DEF TypeOK
    <2>1. PICK w \in Workers : CommitConfirm(w)
      <3>1. agreements'[a].status # agreements[a].status
        BY <1>3
      <3>2. ASSUME NEW w \in Workers, NEW b \in AgreementId, CommitGenerate(w, b) PROVE FALSE
        BY <2>0, <3>1, <3>2 DEF CommitGenerate
      <3>3. ASSUME NEW w \in Workers, CommitFirstSignature(w) PROVE FALSE
        BY <2>0, <3>1, <3>3 DEF CommitFirstSignature
      <3>4. ASSUME NEW w \in Workers, CommitSecondSignature(w) PROVE FALSE
        BY <2>0, <3>1, <3>4 DEF CommitSecondSignature, RowFullySigned, Agreement
      <3>5. QED
        BY <3>1, <3>2, <3>3, <3>4, RowSteps DEF Quiet, Charge, Pay
    <2>2. a = req[w].agreement /\ req[w].op = "confirm"
      BY <1>3, <2>0, <2>1 DEF CommitConfirm
    <2>3. \A leg \in Leg : <<leg, req[w].hook[2]>> \in paid[a]
      BY <2>2 DEF SessionsAgree, SessionAgrees
    <2>4. req[w].hook[2] \in ChargeNo
      BY DEF TypeOK, Request
    <2>5. req[w].hook[2] \in Nat /\ req[w].hook[2] # 0 /\ req[w].hook[2] <= issued[a]
      BY <2>3, <2>4, LegIsNotEmpty, ChargesAreNat DEF PaidIsIssued
    <2>6. QED
      BY <1>1, <2>3, <2>5
  <1>4. QED
    BY <1>2, <1>3

-----------------------------------------------------------------------------
(* Types *)

LEMMA NextTypeOK ==
    ASSUME TypeOK, RowsAgree, SessionsAgree, [Next]_vars
    PROVE  TypeOK'
  <1>0. /\ pdf \in [AgreementId -> Seq(Party)] /\ prompted \in SUBSET AgreementId
        /\ paid \in [AgreementId -> SUBSET (Leg \X ChargeNo)]
        /\ hooks \in [AgreementId -> SUBSET (Leg \X ChargeNo)]
        /\ issued \in [AgreementId -> ChargeNo]
        /\ listing \in {"LIVE", "AGREED", "SUSPENDED", "DELISTED"}
        /\ req \in [Workers -> Request]
    BY DEF TypeOK
  <1>1. /\ agreements' \in [AgreementId -> Agreement]
        /\ \A a \in AgreementId : Exists(a)' <=> agreements'[a].offer # None
    <2>1. ASSUME NEW a \in AgreementId
          PROVE  /\ agreements' \in [AgreementId -> Agreement]
                 /\ agreements'[a].status # "absent" <=> agreements'[a].offer # None
      BY <2>1, NextRowIsSound DEF RowIsSound
    <2>2. CASE AgreementId = {}
      <3>1. agreements' = agreements
        BY <2>2, RowSteps DEF Quiet, CommitGenerate, CommitFirstSignature, CommitSecondSignature,
           CommitConfirm, Charge, Pay, SessionsAgree, SessionAgrees
      <3>2. QED
        BY <2>2, <3>1 DEF TypeOK
    <2>3. QED
      BY <2>1, <2>2 DEF Exists
  <1>2. req' \in [Workers -> Request]
    <2>1. \A w \in Workers : req'[w] \in Request
      BY NextRequests
    <2>2. req' = [w \in Workers |-> req'[w]]
      BY ZenonT(30), <1>0 DEF Next, Sessions, Payments, Administration, Abort, BeginGenerate, CommitGenerate,
         BeginSign, StorePdf, Charge, CommitFirstSignature, CommitSecondSignature, BeginConfirm,
         CommitConfirm, Pay, IgnoreWebhook, RenewalSweep, Publish, TakeDown, Start, Finish, vars
    <2>3. QED
      BY <2>1, <2>2
  <1>3. issued' \in [AgreementId -> ChargeNo]
    <2>1. \A a \in AgreementId : issued'[a] \in ChargeNo
      BY RowsGrow DEF Grows
    <2>2. issued' = [a \in AgreementId |-> issued'[a]]
      BY <1>0, RowSteps DEF Quiet, CommitGenerate, CommitFirstSignature, CommitSecondSignature,
         CommitConfirm, Charge, Pay
    <2>3. QED
      BY <2>1, <2>2
  <1>4. /\ paid' \in [AgreementId -> SUBSET (Leg \X ChargeNo)]
        /\ hooks' \in [AgreementId -> SUBSET (Leg \X ChargeNo)]
    <2>1. ASSUME NEW a \in AgreementId, NEW leg \in Leg, NEW n \in ChargeNo, Pay(a, leg, n)
          PROVE  /\ paid' \in [AgreementId -> SUBSET (Leg \X ChargeNo)]
                 /\ hooks' \in [AgreementId -> SUBSET (Leg \X ChargeNo)]
      BY <1>0, <2>1 DEF Pay
    <2>2. ASSUME NEW a \in AgreementId, NEW leg \in Leg, NEW n \in ChargeNo, IgnoreWebhook(a, leg, n)
          PROVE  /\ paid' \in [AgreementId -> SUBSET (Leg \X ChargeNo)]
                 /\ hooks' \in [AgreementId -> SUBSET (Leg \X ChargeNo)]
      BY <1>0, <2>2 DEF IgnoreWebhook
    <2>3. ASSUME NEW w \in Workers, CommitConfirm(w)
          PROVE  /\ paid' \in [AgreementId -> SUBSET (Leg \X ChargeNo)]
                 /\ hooks' \in [AgreementId -> SUBSET (Leg \X ChargeNo)]
      BY <1>0, <2>3 DEF CommitConfirm
    <2>4. CASE UNCHANGED <<paid, hooks>>
      BY <1>0, <2>4
    <2>5. QED
      BY <2>1, <2>2, <2>3, <2>4 DEF Next, Sessions, Payments, Administration, Abort, BeginGenerate,
         CommitGenerate, BeginSign, StorePdf, Charge, CommitFirstSignature, CommitSecondSignature,
         BeginConfirm, RenewalSweep, Publish, TakeDown, vars
  <1>5. pdf' \in [AgreementId -> Seq(Party)]
    <2>1. ASSUME NEW w \in Workers, StorePdf(w) PROVE pdf' \in [AgreementId -> Seq(Party)]
      <3>1. Signed(w) \in Seq(Party)
        BY <2>1, SignedList DEF StorePdf, SessionsAgree
      <3>2. QED
        BY <1>0, <2>1, <3>1 DEF StorePdf
    <2>2. CASE pdf' = pdf
      BY <1>0, <2>2
    <2>3. QED
      BY <2>1, <2>2 DEF Next, Sessions, Payments, Administration, Abort, BeginGenerate, CommitGenerate,
         BeginSign, Charge, CommitFirstSignature, CommitSecondSignature, BeginConfirm,
         CommitConfirm, Pay, IgnoreWebhook, RenewalSweep, Publish, TakeDown, vars
  <1>6. listing' \in {"LIVE", "AGREED", "SUSPENDED", "DELISTED"} /\ prompted' \in SUBSET AgreementId
    BY ZenonT(30), <1>0 DEF Next, Sessions, Payments, Administration, Abort, BeginGenerate, CommitGenerate,
       BeginSign, StorePdf, Charge, CommitFirstSignature, CommitSecondSignature, BeginConfirm,
       CommitConfirm, Pay, IgnoreWebhook, RenewalSweep, DueForRenewal, Publish, TakeDown, vars
  <1>7. QED
    BY <1>1, <1>2, <1>3, <1>4, <1>5, <1>6 DEF TypeOK, Exists

LEMMA InitIInv == Init => IInv
  <1> SUFFICES ASSUME Init PROVE IInv
      OBVIOUS
  <1>1. NoRow \in Agreement
    BY ChargesAreNat DEF NoRow, Agreement
  <1>2. TypeOK
    BY <1>1, IdleIsRequest, ChargesAreNat DEF Init, TypeOK, Exists, NoRow
  <1>3. RowsAgree
    BY DEF Init, RowsAgree, NoRow
  <1>4. PaidIsIssued /\ SignedIsPaid
    BY DEF Init, PaidIsIssued, SignedIsPaid, NoRow
  <1>5. SessionsAgree
    BY IdleAgrees DEF Init, SessionsAgree
  <1>6. QED
    BY <1>2, <1>3, <1>4, <1>5 DEF IInv

-----------------------------------------------------------------------------
(* The theorems *)

\* The inductive invariant.
THEOREM Invariance == Spec => []IInv
  <1>1. IInv /\ [Next]_vars => IInv'
    BY NextTypeOK, NextRowsAgree, NextPaidIsIssued, NextSessionsAgree, NextSignedIsPaid DEF IInv
  <1>2. QED
    BY InitIInv, <1>1, PTL DEF Spec

\* However many requests and webhooks overlap: rows and sessions keep their
\* types, nobody's signature stands twice on an agreement, and the status says
\* how many signatures there are and that they are to be paid for
\* (agreements/service.py).
THEOREM SignaturesFitStatus == Spec => []AgreementsInv
  <1>1. IInv => AgreementsInv
    <2> SUFFICES ASSUME IInv PROVE AgreementsInv
        OBVIOUS
    <2>1. \A a \in AgreementId : SignedOnce(agreements[a].signatures)
      BY SignatureCounts DEF IInv, RowsAgree
    <2>2. NobodySignsTwice
      BY <2>1 DEF NobodySignsTwice, SignedOnce
    <2>3. StatusMatchesSignatures
      BY <2>1 DEF IInv, RowsAgree, StatusMatchesSignatures, SignedOnce
    <2>4. QED
      BY <2>2, <2>3 DEF IInv, AgreementsInv
  <1>2. QED
    BY <1>1, Invariance, PTL

\* No agreement is SIGNED before Paystack holds every fee of one and the same
\* charge, in whatever order, how often and how late its webhooks arrive
\* (confirm_payment, _verify_all_legs).
THEOREM SignedAgreementsArePaid == Spec => []SignedIsPaid
  <1>1. IInv => SignedIsPaid
    BY DEF IInv
  <1>2. QED
    BY <1>1, Invariance, PTL

-----------------------------------------------------------------------------
(* The invariant of sessions that do not overlap *)

Alone == \A w, v \in Workers : req[w].op # "idle" /\ req[v].op # "idle" => w = v

OnePerOffer ==
    \A o \in OfferId : \A a, b \in AgreementsOf(o) : a = b

\* What an open session has read is still so, and what it has charged is not
\* paid yet.
Fresh(r) ==
    /\ r.op = "generate" => AgreementsOf(r.offer) = {}
    /\ r.op = "sign" =>
          /\ AcceptsSignatures(r.agreement)
          /\ r.read = agreements[r.agreement].signatures
          /\ r.phase # "read" => pdf[r.agreement] = Append(r.read, r.party)
    /\ r.phase = "charged" =>
          \A leg \in Leg : <<leg, issued[r.agreement]>> \notin paid[r.agreement]
    /\ r.op = "confirm" =>
          /\ agreements[r.agreement].status \in {"PENDING_PAYMENT", "SIGNED"}
          /\ agreements[r.agreement].charge = r.hook[2]
          /\ r.signs <=> agreements[r.agreement].status # "SIGNED"

\* Only an agreement with both signatures has a charge, and one that is SIGNED
\* was paid through the charge it has.
Fits(a) ==
    LET row == agreements[a] IN
    /\ row.status \in {"absent", "DRAFT", "PARTIAL_SIGNED"} => row.charge = 0
    /\ row.status \in {"PENDING_PAYMENT", "SIGNED"} => row.charge # 0 /\ pdf[a] = row.signatures
    /\ row.status = "SIGNED" => \A leg \in Leg : <<leg, row.charge>> \in paid[a]

SerialInv ==
    /\ Alone
    /\ OnePerOffer
    /\ \A w \in Workers : Fresh(req[w])
    /\ \A a \in AgreementId : Fits(a)
    /\ AgreedIsSigned

-----------------------------------------------------------------------------
(* Sessions *)

LEMMA IdleIsFresh ==
    ASSUME NEW r, r.op = "idle", r.phase # "charged"
    PROVE  Fresh(r) /\ Fresh(r)'
  BY DEF Fresh

LEMMA ReqSteps ==
    ASSUME [Next]_vars
    PROVE  \/ req' = req
           \/ \E w \in Workers : \/ Finish(w)
                                 \/ \E r : Start(w, r)
                                 \/ StorePdf(w)
                                 \/ Charge(w)
  <1>1. CASE Sessions
    BY <1>1 DEF Sessions, Abort, BeginGenerate, CommitGenerate, BeginSign, CommitFirstSignature,
       CommitSecondSignature, BeginConfirm, CommitConfirm
  <1>2. CASE ~Sessions
    BY <1>2 DEF Next, Payments, Pay, IgnoreWebhook, RenewalSweep, Administration, Publish, TakeDown, vars
  <1>3. QED
    BY <1>1, <1>2

LEMMA NextAlone ==
    ASSUME ~Overlap, TypeOK, Alone, [Next]_vars
    PROVE  Alone'
  <1>0. req \in [Workers -> Request]
    BY DEF TypeOK
  <1>1. CASE req' = req
    BY <1>1 DEF Alone
  <1>2. ASSUME NEW w \in Workers, Finish(w) PROVE Alone'
    BY <1>0, <1>2 DEF Alone, Finish, Idle
  <1>3. ASSUME NEW w \in Workers, NEW r, Start(w, r) PROVE Alone'
    <2>1. \A v \in Workers : req[v].op = "idle"
      BY <1>3 DEF Start, MayStart
    <2>2. QED
      BY <1>0, <1>3, <2>1 DEF Alone, Start
  <1>4. ASSUME NEW w \in Workers, StorePdf(w) \/ Charge(w) PROVE Alone'
    <2>1. \A v \in Workers : req'[v].op = req[v].op
      BY ZenonT(30), <1>0, <1>4 DEF StorePdf, Charge, Request
    <2>2. QED
      BY <2>1 DEF Alone
  <1>5. QED
    BY <1>1, <1>2, <1>3, <1>4, ReqSteps

\* A session that is open is the only one.
LEMMA OthersIdle ==
    ASSUME TypeOK, SessionsAgree, Alone, NEW w \in Workers, req[w].op # "idle",
           NEW v \in Workers, v # w
    PROVE  req[v].op = "idle" /\ req[v].phase # "charged"
  BY DEF Alone, SessionsAgree, SessionAgrees

\* The end of a session leaves none.
LEMMA FreshAfterFinish ==
    ASSUME TypeOK, SessionsAgree, Alone, NEW w \in Workers, req[w].op # "idle", Finish(w)
    PROVE  \A v \in Workers : Fresh(req[v])'
  <1> SUFFICES ASSUME NEW v \in Workers PROVE Fresh(req[v])'
      OBVIOUS
  <1>1. req'[v].op = "idle" /\ req'[v].phase # "charged"
    BY OthersIdle DEF Finish, Idle, TypeOK
  <1>2. QED
    BY <1>1 DEF Fresh

\* A session starts from what its guards have read.
LEMMA FreshAfterStart ==
    ASSUME ~Overlap, IInv, SerialInv, NEW w \in Workers, NEW r, Start(w, r),
           UNCHANGED <<agreements, pdf, issued, paid>>, Fresh(r)
    PROVE  \A v \in Workers : Fresh(req[v])'
  <1> SUFFICES ASSUME NEW v \in Workers PROVE Fresh(req[v])'
      OBVIOUS
  <1>0. req \in [Workers -> Request]
    BY DEF IInv, TypeOK
  <1>1. CASE v = w
    <2>1. req'[v] = r
      BY <1>0, <1>1 DEF Start
    <2>2. QED
      BY <2>1 DEF Fresh, AgreementsOf, Exists, AcceptsSignatures
  <1>2. CASE v # w
    <2>1. req'[v] = req[v] /\ req[v].op = "idle" /\ req[v].phase # "charged"
      BY <1>0, <1>2 DEF Start, MayStart, IInv, SessionsAgree, SessionAgrees
    <2>2. QED
      BY <2>1 DEF Fresh
  <1>3. QED
    BY <1>1, <1>2

-----------------------------------------------------------------------------
(* The invariant is kept by each step *)

LEMMA QuietRows ==
    ASSUME SerialInv, UNCHANGED <<agreements, pdf, paid>>, listing' = listing \/ listing' # "AGREED"
    PROVE  OnePerOffer' /\ (\A a \in AgreementId : Fits(a)') /\ AgreedIsSigned'
  BY DEF SerialInv, OnePerOffer, AgreementsOf, Exists, Fits, AgreedIsSigned

LEMMA StartKeepsSerialInv ==
    ASSUME ~Overlap, IInv, SerialInv, NEW w \in Workers, Alone',
           \/ \E o \in OfferId : BeginGenerate(w, o)
           \/ \E a \in AgreementId, p \in Party : BeginSign(w, a, p)
           \/ \E a \in AgreementId, leg \in Leg, n \in ChargeNo : BeginConfirm(w, a, leg, n)
    PROVE  SerialInv'
  <1>1. ASSUME NEW r, Start(w, r), UNCHANGED <<agreements, listing, pdf, issued, paid>>, Fresh(r)
        PROVE  SerialInv'
    BY <1>1, FreshAfterStart, QuietRows DEF SerialInv
  <1>2. ASSUME NEW o \in OfferId, BeginGenerate(w, o) PROVE SerialInv'
    <2>1. Fresh(GenerateRequest(o))
      BY <1>2 DEF BeginGenerate, NoAgreementYet, Fresh, GenerateRequest, Idle
    <2>2. QED
      BY <1>1, <1>2, <2>1 DEF BeginGenerate, GenerateRequest
  <1>3. ASSUME NEW a \in AgreementId, NEW p \in Party, BeginSign(w, a, p) PROVE SerialInv'
    <2>1. Fresh(SignRequest(a, p))
      BY <1>3 DEF BeginSign, Fresh, SignRequest, Idle
    <2>2. QED
      BY <1>1, <1>3, <2>1 DEF BeginSign, SignRequest
  <1>4. ASSUME NEW a \in AgreementId, NEW leg \in Leg, NEW n \in ChargeNo, BeginConfirm(w, a, leg, n)
        PROVE  SerialInv'
    <2>1. Fresh(ConfirmRequest(a, leg, n))
      BY <1>4 DEF BeginConfirm, Completes, MatchesReference, Fresh, ConfirmRequest, Idle
    <2>2. QED
      BY <1>1, <1>4, <2>1 DEF BeginConfirm, ConfirmRequest
  <1>5. QED
    BY <1>2, <1>3, <1>4

\* A session past an effect outside the database: the others stay idle.
LEMMA FreshAfterEffect ==
    ASSUME IInv, SerialInv, NEW w \in Workers, req[w].op = "sign",
           NEW ph \in {"stored", "charged"}, req' = [req EXCEPT ![w].phase = ph],
           NEW r, r = Got(w, ph), Fresh(r)'
    PROVE  \A v \in Workers : Fresh(req[v])'
  <1> SUFFICES ASSUME NEW v \in Workers PROVE Fresh(req[v])'
      OBVIOUS
  <1>0. req \in [Workers -> Request]
    BY DEF IInv, TypeOK
  <1>1. CASE v = w
    <2>1. req'[v] = r
      BY <1>0, <1>1 DEF Got
    <2>2. QED
      BY <2>1 DEF Fresh
  <1>2. CASE v # w
    <2>1. req'[v] = req[v] /\ req[v].op = "idle" /\ req[v].phase # "charged"
      BY <1>0, <1>2, OthersIdle DEF IInv, SerialInv
    <2>2. QED
      BY <2>1 DEF Fresh
  <1>3. QED
    BY <1>1, <1>2

LEMMA StorePdfKeepsSerialInv ==
    ASSUME IInv, SerialInv, NEW w \in Workers, StorePdf(w), Alone'
    PROVE  SerialInv'
  <1> DEFINE a == req[w].agreement
  <1>0. /\ req[w] \in Request /\ req[w].op = "sign" /\ req[w].phase = "read"
        /\ a \in AgreementId /\ AcceptsSignatures(a) /\ req[w].read = agreements[a].signatures
        /\ pdf \in [AgreementId -> Seq(Party)]
    BY DEF StorePdf, IInv, TypeOK, SessionsAgree, SessionAgrees, SerialInv, Fresh
  <1>1. pdf' = [pdf EXCEPT ![a] = Signed(w)] /\ UNCHANGED <<agreements, listing, issued, paid>>
    BY DEF StorePdf
  <1>2. \A v \in Workers : Fresh(req[v])'
    <2>1. PICK r : r = Got(w, "stored")
      OBVIOUS
    <2>2. /\ r.op = "sign" /\ r.phase = "stored" /\ r.agreement = a
          /\ r.read = req[w].read /\ r.party = req[w].party
      BY <1>0, <2>1 DEF Got, Request
    <2>3. pdf'[a] = Append(r.read, r.party)
      BY <1>0, <1>1, <2>2 DEF Signed
    <2>4. Fresh(r)'
      BY <1>0, <1>1, <2>2, <2>3 DEF Fresh, AcceptsSignatures
    <2>5. req' = [req EXCEPT ![w].phase = "stored"]
      BY DEF StorePdf
    <2>6. QED
      BY <1>0, <2>1, <2>4, <2>5, FreshAfterEffect
  <1>3. OnePerOffer' /\ AgreedIsSigned'
    BY <1>1 DEF SerialInv, OnePerOffer, AgreementsOf, Exists, AgreedIsSigned
  <1>4. ASSUME NEW b \in AgreementId PROVE Fits(b)'
    <2>1. CASE b = a
      BY <1>0, <1>1, <2>1 DEF SerialInv, Fits, AcceptsSignatures
    <2>2. CASE b # a
      BY <1>0, <1>1, <2>2 DEF SerialInv, Fits
    <2>3. QED
      BY <2>1, <2>2
  <1>5. QED
    BY <1>2, <1>3, <1>4 DEF SerialInv

LEMMA ChargeKeepsSerialInv ==
    ASSUME IInv, SerialInv, NEW w \in Workers, Charge(w), Alone'
    PROVE  SerialInv'
  <1> DEFINE a == req[w].agreement
  <1>0. /\ req[w] \in Request /\ req[w].op = "sign" /\ req[w].phase = "stored"
        /\ a \in AgreementId /\ issued \in [AgreementId -> ChargeNo] /\ Fresh(req[w])
    BY DEF Charge, IInv, TypeOK, SessionsAgree, SessionAgrees, SerialInv
  <1>1. /\ issued' = [issued EXCEPT ![a] = @ + 1]
        /\ UNCHANGED <<agreements, listing, pdf, paid>>
    BY DEF Charge
  <1>2. \A v \in Workers : Fresh(req[v])'
    <2>1. PICK r : r = Got(w, "charged")
      OBVIOUS
    <2>2. /\ r.op = "sign" /\ r.phase = "charged" /\ r.agreement = a
          /\ r.read = req[w].read /\ r.party = req[w].party
      BY <1>0, <2>1 DEF Got, Request
    <2>3. \A leg \in Leg : <<leg, issued'[a]>> \notin paid'[a]
      <3> SUFFICES ASSUME NEW leg \in Leg, <<leg, issued[a] + 1>> \in paid[a] PROVE FALSE
          BY <1>0, <1>1
      <3>1. issued[a] + 1 \in ChargeNo
        BY <1>0 DEF IInv, TypeOK
      <3>2. issued[a] \in Nat /\ issued[a] + 1 <= issued[a]
        BY <1>0, <3>1, ChargesAreNat DEF IInv, PaidIsIssued
      <3>3. QED
        BY <3>2
    <2>4. Fresh(r)'
      BY <1>0, <1>1, <2>2, <2>3 DEF Fresh, AcceptsSignatures
    <2>5. req' = [req EXCEPT ![w].phase = "charged"]
      BY DEF Charge
    <2>6. QED
      BY <1>0, <2>1, <2>4, <2>5, FreshAfterEffect
  <1>3. QED
    BY <1>1, <1>2, QuietRows DEF SerialInv

LEMMA PayKeepsSerialInv ==
    ASSUME IInv, SerialInv, Alone',
           NEW a \in AgreementId, NEW leg \in Leg, NEW n \in ChargeNo, Pay(a, leg, n)
    PROVE  SerialInv'
  <1>1. /\ paid' = [paid EXCEPT ![a] = @ \cup {<<leg, n>>}]
        /\ UNCHANGED <<agreements, listing, pdf, issued, req>> /\ ~Locked(a)
        /\ paid \in [AgreementId -> SUBSET (Leg \X ChargeNo)]
    BY DEF Pay, IInv, TypeOK
  <1>2. ASSUME NEW w \in Workers PROVE Fresh(req[w])'
    <2>1. req[w].phase = "charged" => req[w].agreement \in AgreementId /\ req[w].agreement # a
      BY <1>1 DEF Locked, IInv, SessionsAgree, SessionAgrees
    <2>2. Fresh(req[w])
      BY DEF SerialInv
    <2>3. QED
      BY <1>1, <2>1, <2>2 DEF Fresh, AgreementsOf, Exists, AcceptsSignatures
  <1>3. OnePerOffer' /\ AgreedIsSigned'
    BY <1>1 DEF SerialInv, OnePerOffer, AgreementsOf, Exists, AgreedIsSigned
  <1>4. ASSUME NEW b \in AgreementId PROVE Fits(b)'
    <2>1. paid[b] \subseteq paid'[b]
      BY <1>1
    <2>2. QED
      BY <1>1, <2>1 DEF SerialInv, Fits
  <1>5. QED
    BY <1>2, <1>3, <1>4 DEF SerialInv

\* A session ends with one row replaced, of an agreement that keeps its offer
\* or that is the first of its offer.
LEMMA RowReplaced ==
    ASSUME IInv, SerialInv, Alone', NEW w \in Workers, req[w].op # "idle", Finish(w),
           NEW a \in AgreementId, NEW row,
           agreements' = [agreements EXCEPT ![a] = row], UNCHANGED <<pdf, issued, paid>>,
           row.status # "absent",
           \/ Exists(a) /\ row.offer = agreements[a].offer
           \/ AgreementsOf(row.offer) = {},
           Fits(a)',
           listing' = "AGREED" => row.status = "SIGNED" \/ listing = "AGREED",
           agreements[a].status = "SIGNED" => row.status = "SIGNED"
    PROVE  SerialInv'
  <1>0. agreements \in [AgreementId -> Agreement]
    BY DEF IInv, TypeOK
  <1>1. \A b \in AgreementId : agreements'[b] = IF b = a THEN row ELSE agreements[b]
    BY <1>0
  <1>2. \A v \in Workers : Fresh(req[v])'
    BY FreshAfterFinish DEF IInv, SerialInv
  <1>3. OnePerOffer'
    <2> SUFFICES ASSUME NEW o \in OfferId, NEW b \in AgreementsOf(o)', NEW c \in AgreementsOf(o)'
                 PROVE  b = c
        BY DEF OnePerOffer
    <2>1. /\ b \in AgreementId /\ agreements'[b].status # "absent" /\ agreements'[b].offer = o
          /\ c \in AgreementId /\ agreements'[c].status # "absent" /\ agreements'[c].offer = o
      BY DEF AgreementsOf, Exists
    <2>2. CASE b = a /\ c = a
      BY <2>2
    <2>3. CASE b # a /\ c # a
      BY <1>1, <2>1, <2>3 DEF SerialInv, OnePerOffer, AgreementsOf, Exists
    <2>4. ASSUME NEW d \in AgreementId, d # a, agreements'[d].status # "absent",
                 agreements'[d].offer = o, row.offer = o
          PROVE  FALSE
      <3>1. d \in AgreementsOf(o)
        BY <1>1, <2>4 DEF AgreementsOf, Exists
      <3>2. Exists(a) /\ agreements[a].offer = o
        BY <2>4, <3>1
      <3>3. a \in AgreementsOf(o)
        BY <3>2 DEF AgreementsOf
      <3>4. QED
        BY <2>4, <3>1, <3>3 DEF SerialInv, OnePerOffer
    <2>5. QED
      BY <1>1, <2>1, <2>2, <2>3, <2>4
  <1>4. ASSUME NEW b \in AgreementId PROVE Fits(b)'
    BY <1>1 DEF SerialInv, Fits
  <1>5. AgreedIsSigned'
    BY <1>1 DEF SerialInv, AgreedIsSigned
  <1>6. QED
    BY <1>2, <1>3, <1>4, <1>5 DEF SerialInv

LEMMA GenerateKeepsSerialInv ==
    ASSUME IInv, SerialInv, Alone', NEW w \in Workers, NEW a \in AgreementId, CommitGenerate(w, a)
    PROVE  SerialInv'
  <1> DEFINE row == [agreements[a] EXCEPT !.status = "DRAFT", !.offer = req[w].offer]
  <1>1. /\ req[w].op = "generate" /\ ~Exists(a) /\ Finish(w)
        /\ agreements' = [agreements EXCEPT ![a] = row]
        /\ UNCHANGED <<listing, pdf, issued, paid>>
        /\ agreements \in [AgreementId -> Agreement] /\ agreements[a] \in Agreement
    BY DEF CommitGenerate, IInv, TypeOK
  <1>2. row.status = "DRAFT" /\ row.offer = req[w].offer /\ row.charge = agreements[a].charge
    BY <1>1 DEF Agreement
  <1>3. AgreementsOf(row.offer) = {}
    BY <1>1, <1>2 DEF SerialInv, Fresh
  <1>4. agreements[a].charge = 0 /\ agreements[a].status = "absent"
    BY <1>1 DEF SerialInv, Fits, Exists
  <1>5. agreements'[a] = row
    BY <1>1
  <1> HIDE DEF row
  <1>6. Fits(a)'
    BY <1>2, <1>4, <1>5 DEF Fits
  <1>7. QED
    BY <1>1, <1>2, <1>3, <1>4, <1>6, RowReplaced

LEMMA FirstSignatureKeepsSerialInv ==
    ASSUME IInv, SerialInv, Alone', NEW w \in Workers, CommitFirstSignature(w)
    PROVE  SerialInv'
  <1>a. PICK a \in AgreementId : a = req[w].agreement
    BY DEF CommitFirstSignature, IInv, SessionsAgree, SessionAgrees
  <1> DEFINE row == [agreements[a] EXCEPT !.signatures = Signed(w), !.status = "PARTIAL_SIGNED"]
  <1>0. req[w].op = "sign" /\ Finish(w) /\ UNCHANGED <<listing, pdf, issued, paid>>
    BY DEF CommitFirstSignature
  <1>1. /\ a \in AgreementId /\ AcceptsSignatures(a) /\ Exists(a)
        /\ agreements \in [AgreementId -> Agreement] /\ agreements[a] \in Agreement
    BY <1>a, <1>0 DEF IInv, TypeOK, SessionsAgree, SessionAgrees, SerialInv, Fresh
  <1>2. agreements' = [agreements EXCEPT ![a] = row]
    BY <1>a, <1>1 DEF CommitFirstSignature
  <1>3. /\ row.status = "PARTIAL_SIGNED" /\ row.offer = agreements[a].offer
        /\ row.charge = agreements[a].charge
    BY <1>1 DEF Agreement
  <1>4. agreements[a].charge = 0 /\ agreements[a].status # "SIGNED"
    BY <1>1 DEF SerialInv, Fits, AcceptsSignatures
  <1>5. agreements'[a] = row
    BY <1>1, <1>2
  <1> HIDE DEF row
  <1>6. Fits(a)'
    BY <1>3, <1>4, <1>5 DEF Fits
  <1>7. QED
    BY <1>0, <1>1, <1>2, <1>3, <1>4, <1>6, RowReplaced

LEMMA SecondSignatureKeepsSerialInv ==
    ASSUME IInv, SerialInv, Alone', NEW w \in Workers, CommitSecondSignature(w)
    PROVE  SerialInv'
  <1>a. PICK a \in AgreementId : a = req[w].agreement
    BY DEF CommitSecondSignature, IInv, SessionsAgree, SessionAgrees
  <1> DEFINE row == RowFullySigned(w, a)
  <1>0. /\ req[w].op = "sign" /\ req[w].phase = "charged" /\ Finish(w)
        /\ UNCHANGED <<listing, pdf, issued, paid>>
    BY DEF CommitSecondSignature
  <1>1. /\ a \in AgreementId /\ AcceptsSignatures(a) /\ Exists(a) /\ issued[a] # 0
        /\ agreements \in [AgreementId -> Agreement] /\ agreements[a] \in Agreement
        /\ pdf[a] = Signed(w)
    BY <1>a, <1>0 DEF IInv, TypeOK, SessionsAgree, SessionAgrees, SerialInv, Fresh, Signed
  <1>2. agreements' = [agreements EXCEPT ![a] = row]
    BY <1>a, <1>1 DEF CommitSecondSignature
  <1>3. /\ row.status = "PENDING_PAYMENT" /\ row.offer = agreements[a].offer
        /\ row.charge = issued[a] /\ row.signatures = Signed(w)
    BY <1>1 DEF Agreement, RowFullySigned
  <1>4. agreements[a].status # "SIGNED"
    BY <1>1 DEF AcceptsSignatures
  <1>5. agreements'[a] = row
    BY <1>1, <1>2
  <1> HIDE DEF row
  <1>6. Fits(a)'
    BY <1>a, <1>0, <1>1, <1>3, <1>5 DEF Fits
  <1>7. QED
    BY <1>0, <1>1, <1>2, <1>3, <1>4, <1>6, RowReplaced

LEMMA ConfirmKeepsSerialInv ==
    ASSUME IInv, SerialInv, Alone', NEW w \in Workers, CommitConfirm(w)
    PROVE  SerialInv'
  <1>a. PICK a \in AgreementId : a = req[w].agreement
    BY DEF CommitConfirm, IInv, SessionsAgree, SessionAgrees
  <1> DEFINE row == [agreements[a] EXCEPT !.status = "SIGNED"]
  <1>0. req[w].op = "confirm" /\ Finish(w) /\ UNCHANGED <<pdf, issued, paid>>
    BY DEF CommitConfirm
  <1>1. /\ a \in AgreementId /\ Exists(a)
        /\ agreements \in [AgreementId -> Agreement] /\ agreements[a] \in Agreement
        /\ \A leg \in Leg : <<leg, req[w].hook[2]>> \in paid[a]
        /\ agreements[a].status \in {"PENDING_PAYMENT", "SIGNED"}
        /\ agreements[a].charge = req[w].hook[2]
        /\ req[w].signs <=> agreements[a].status # "SIGNED"
    BY <1>a, <1>0 DEF IInv, TypeOK, SessionsAgree, SessionAgrees, SerialInv, Fresh
  <1>2. agreements' = [agreements EXCEPT ![a] = row]
    BY <1>a, <1>1 DEF CommitConfirm, Agreement
  <1>3. /\ row.status = "SIGNED" /\ row.offer = agreements[a].offer
        /\ row.charge = agreements[a].charge /\ row.signatures = agreements[a].signatures
    BY <1>1 DEF Agreement
  <1>4. agreements'[a] = row
    BY <1>1, <1>2
  <1> HIDE DEF row
  <1>5. Fits(a)'
    BY <1>a, <1>0, <1>1, <1>3, <1>4 DEF SerialInv, Fits
  <1>6. QED
    BY <1>0, <1>1, <1>2, <1>3, <1>5, RowReplaced

LEMMA NextSerialInv ==
    ASSUME ~Overlap, IInv, SerialInv, [Next]_vars
    PROVE  SerialInv'
  <1>1. Alone'
    BY NextAlone DEF IInv, SerialInv
  <1>2. CASE Sessions
    <2>1. PICK w \in Workers :
            \/ Abort(w)
            \/ \E o \in OfferId : BeginGenerate(w, o)
            \/ \E a \in AgreementId : CommitGenerate(w, a)
            \/ \E a \in AgreementId, p \in Party : BeginSign(w, a, p)
            \/ StorePdf(w) \/ Charge(w)
            \/ CommitFirstSignature(w) \/ CommitSecondSignature(w)
            \/ \E a \in AgreementId, leg \in Leg, n \in ChargeNo : BeginConfirm(w, a, leg, n)
            \/ CommitConfirm(w)
      BY <1>2 DEF Sessions
    <2>2. CASE Abort(w)
      BY <1>1, <2>2, QuietRows, FreshAfterFinish DEF Abort, IInv, SerialInv
    <2>3. QED
      BY <1>1, <2>1, <2>2, StartKeepsSerialInv, GenerateKeepsSerialInv, StorePdfKeepsSerialInv,
         ChargeKeepsSerialInv, FirstSignatureKeepsSerialInv, SecondSignatureKeepsSerialInv,
         ConfirmKeepsSerialInv
  <1>3. CASE \E a \in AgreementId, leg \in Leg, n \in ChargeNo : Pay(a, leg, n)
    BY <1>1, <1>3, PayKeepsSerialInv
  <1>4. ASSUME UNCHANGED <<agreements, pdf, issued, paid, req>>, listing' = listing \/ listing' # "AGREED"
        PROVE  SerialInv'
    <2>1. \A v \in Workers : Fresh(req[v])'
      BY <1>4 DEF SerialInv, Fresh, AgreementsOf, Exists, AcceptsSignatures
    <2>2. QED
      BY <1>1, <1>4, <2>1, QuietRows DEF SerialInv
  <1>5. QED
    BY <1>2, <1>3, <1>4 DEF Next, Payments, IgnoreWebhook, RenewalSweep, Administration, Publish,
       TakeDown, vars

LEMMA SerialInvariance == ASSUME ~Overlap PROVE Spec => [](IInv /\ SerialInv)
  <1>1. Init => SerialInv
    <2> SUFFICES ASSUME Init PROVE SerialInv
        OBVIOUS
    <2>1. Alone /\ \A w \in Workers : Fresh(req[w])
      BY DEF Init, Alone, Fresh, Idle
    <2>2. OnePerOffer /\ AgreedIsSigned
      BY DEF Init, OnePerOffer, AgreementsOf, Exists, NoRow, AgreedIsSigned
    <2>3. \A a \in AgreementId : Fits(a)
      BY DEF Init, NoRow, Fits
    <2>4. QED
      BY <2>1, <2>2, <2>3 DEF SerialInv
  <1>2. IInv /\ SerialInv /\ [Next]_vars => SerialInv'
    BY NextSerialInv
  <1>3. Spec => []IInv
    BY Invariance
  <1>4. Spec /\ []IInv => []SerialInv
    BY <1>1, <1>2, PTL DEF Spec
  <1>5. QED
    BY <1>3, <1>4, PTL

-----------------------------------------------------------------------------
(* Signatures *)

LEMMA AppendExtends ==
    ASSUME NEW S, NEW s \in Seq(S), NEW e \in S
    PROVE  IsPrefix(s, s) /\ IsPrefix(s, Append(s, e))
  <1>1. Len(s) \in Nat /\ SubSeq(s, 1, Len(s)) = s
    BY SubSeqFull
  <1>2. /\ Append(s, e) \in Seq(S) /\ Len(Append(s, e)) = Len(s) + 1
        /\ \A i \in 1 .. Len(s) : Append(s, e)[i] = s[i]
    BY AppendProperties
  <1>3. SubSeq(Append(s, e), 1, Len(s)) = s
    <2> DEFINE t == SubSeq(Append(s, e), 1, Len(s))
    <2>1. /\ t \in Seq(S) /\ Len(t) = IF 1 <= Len(s) THEN Len(s) - 1 + 1 ELSE 0
          /\ \A i \in 1 .. Len(s) - 1 + 1 : t[i] = Append(s, e)[1 + i - 1]
      BY <1>1, <1>2, SubSeqProperties
    <2>2. Len(t) = Len(s) /\ \A i \in 1 .. Len(s) : t[i] = s[i]
      BY <1>1, <1>2, <2>1
    <2> HIDE DEF t
    <2>3. t = s
      BY <2>1, <2>2, SeqEqual
    <2>4. QED
      BY <2>3 DEF t
  <1>4. QED
    BY <1>1, <1>2, <1>3 DEF IsPrefix

-----------------------------------------------------------------------------
(* What Deal sees of the tables *)

PaidUp(a) ==
    /\ agreements[a].charge # 0
    /\ \A leg \in Leg : <<leg, agreements[a].charge>> \in paid[a]

StageFits ==
    /\ Stage = [o \in OfferId |-> Stage[o]] /\ Settled = [o \in OfferId |-> Settled[o]]
    /\ \A o \in OfferId :
          /\ Settled[o] \in BOOLEAN
          /\ AgreementsOf(o) = {} => Stage[o] = "none" /\ ~Settled[o]
          /\ \A a \in AgreementsOf(o) :
                Stage[o] = agreements[a].status /\ (Settled[o] <=> PaidUp(a))

LEMMA StageIs == SerialInv => StageFits
  <1> SUFFICES ASSUME SerialInv PROVE StageFits
      OBVIOUS
  <1>1. Stage = [o \in OfferId |-> Stage[o]] /\ Settled = [o \in OfferId |-> Settled[o]]
    BY DEF Stage, Settled
  <1>2. ASSUME NEW o \in OfferId PROVE Settled[o] \in BOOLEAN
    BY <1>2 DEF Settled
  <1>3. ASSUME NEW o \in OfferId, AgreementsOf(o) = {} PROVE Stage[o] = "none" /\ ~Settled[o]
    BY <1>3 DEF Stage, Settled
  <1>4. ASSUME NEW o \in OfferId, NEW a \in AgreementsOf(o)
        PROVE  Stage[o] = agreements[a].status /\ (Settled[o] <=> PaidUp(a))
    <2>1. AgreementsOf(o) = {a}
      BY DEF SerialInv, OnePerOffer
    <2>2. TheAgreement(o) = a /\ Cardinality(AgreementsOf(o)) = 1
      BY <2>1, FS_Singleton DEF TheAgreement
    <2>3. Stage[o] = agreements[a].status
      <3>1. AgreementsOf(o) # {} /\ ~(Cardinality(AgreementsOf(o)) > 1)
        BY <2>1, <2>2
      <3>2. agreements[TheAgreement(o)].status = agreements[a].status
        BY <2>2
      <3>3. QED
        BY <3>1, <3>2 DEF Stage
    <2>4. Settled[o] <=> PaidUp(a)
      BY <2>1, <2>2 DEF Settled, PaidUp
    <2>5. QED
      BY <2>3, <2>4
  <1>5. QED
    BY <1>1, <1>2, <1>3, <1>4 DEF StageFits

\* An offer whose agreement keeps its status and its payment.
Kept(o) == Stage'[o] = Stage[o] /\ Settled'[o] = Settled[o]

LEMMA KeptByRows ==
    ASSUME StageFits, StageFits', NEW o \in OfferId, AgreementsOf(o)' = AgreementsOf(o),
           \A a \in AgreementsOf(o) : /\ agreements'[a].status = agreements[a].status
                                      /\ PaidUp(a)' <=> PaidUp(a)
    PROVE  Kept(o)
  <1>1. CASE AgreementsOf(o) = {}
    BY <1>1 DEF StageFits, Kept
  <1>2. ASSUME NEW a \in AgreementsOf(o) PROVE Kept(o)
    <2>1. Stage[o] = agreements[a].status /\ (Settled[o] <=> PaidUp(a)) /\ Settled[o] \in BOOLEAN
      BY DEF StageFits
    <2>2. /\ Stage'[o] = agreements'[a].status /\ (Settled'[o] <=> PaidUp(a)')
          /\ Settled'[o] \in BOOLEAN
      BY DEF StageFits
    <2>3. agreements'[a].status = agreements[a].status /\ (PaidUp(a)' <=> PaidUp(a))
      OBVIOUS
    <2>4. QED
      BY <2>1, <2>2, <2>3 DEF Kept
  <1>3. QED
    BY <1>1, <1>2

LEMMA Stutters ==
    ASSUME StageFits, StageFits', \A o \in OfferId : Kept(o)
    PROVE  UNCHANGED Promise!vars
  BY DEF StageFits, Kept, Promise!vars

LEMMA OneOfferMoves ==
    ASSUME StageFits, StageFits', NEW o \in OfferId, NEW to,
           \A p \in OfferId \ {o} : Kept(p), Settled'[o] = Settled[o], Stage'[o] = to
    PROVE  Promise!Advance(o, Stage[o], to)
  <1>1. Stage' = [Stage EXCEPT ![o] = to]
    BY DEF StageFits, Kept
  <1>2. Settled' = Settled
    BY DEF StageFits, Kept
  <1>3. QED
    BY <1>1, <1>2 DEF Promise!Advance

-----------------------------------------------------------------------------
(* Every step is one of Deal, or a stutter *)

Refines == [Promise!Next]_Promise!vars

Ready == IInv /\ SerialInv /\ StageFits

\* The offer of a row.
LEMMA OfferOfRow ==
    ASSUME Ready, NEW a \in AgreementId, Exists(a)
    PROVE  /\ agreements[a].offer \in OfferId /\ a \in AgreementsOf(agreements[a].offer)
           /\ \A o \in OfferId : a \in AgreementsOf(o) <=> o = agreements[a].offer
  BY DEF Ready, IInv, TypeOK, Agreement, AgreementsOf, Exists

\* A step that changes nothing Deal sees.
LEMMA UnseenRefines ==
    ASSUME Ready, Ready', UNCHANGED <<agreements, paid>>
    PROVE  Refines
  <1>1. ASSUME NEW o \in OfferId PROVE Kept(o)
    BY <1>1, KeptByRows DEF Ready, AgreementsOf, Exists, PaidUp
  <1>2. QED
    BY <1>1, Stutters DEF Ready, Refines

\* The row of an agreement that exists is replaced.
LEMMA RowMoves ==
    ASSUME Ready, Ready', NEW a \in AgreementId, Exists(a), NEW row,
           agreements' = [agreements EXCEPT ![a] = row], UNCHANGED paid,
           row.offer = agreements[a].offer, row.status # "absent", PaidUp(a)' <=> PaidUp(a)
    PROVE  Promise!Advance(agreements[a].offer, agreements[a].status, row.status)
  <1> DEFINE o == agreements[a].offer
  <1>0. agreements \in [AgreementId -> Agreement]
    BY DEF Ready, IInv, TypeOK
  <1>1. \A b \in AgreementId : agreements'[b] = IF b = a THEN row ELSE agreements[b]
    BY <1>0
  <1>2. \A p \in OfferId : AgreementsOf(p)' = AgreementsOf(p)
    BY <1>1 DEF AgreementsOf, Exists
  <1>3. ASSUME NEW p \in OfferId \ {o} PROVE Kept(p)
    <2>1. ASSUME NEW b \in AgreementsOf(p)
          PROVE  agreements'[b].status = agreements[b].status /\ (PaidUp(b)' <=> PaidUp(b))
      BY <1>1, <2>1, <1>3 DEF AgreementsOf, PaidUp
    <2>2. QED
      BY <1>2, <2>1, KeptByRows DEF Ready
  <1>4. o \in OfferId /\ a \in AgreementsOf(o) /\ a \in AgreementsOf(o)'
    BY <1>2, OfferOfRow
  <1>5. /\ Stage[o] = agreements[a].status /\ (Settled[o] <=> PaidUp(a)) /\ Settled[o] \in BOOLEAN
    BY <1>4 DEF Ready, StageFits
  <1>6. PICK q \in OfferId : q = o
    BY <1>4
  <1>7. /\ Stage'[q] = row.status /\ (Settled'[q] <=> PaidUp(a)') /\ Settled'[q] \in BOOLEAN
    <2>1. a \in AgreementsOf(q)'
      BY <1>4, <1>6, <1>2
    <2>2. QED
      BY <1>1, <2>1 DEF Ready, StageFits
  <1>8. Stage'[q] = row.status /\ Settled'[q] = Settled[q]
    BY <1>5, <1>6, <1>7
  <1>9. Promise!Advance(q, Stage[q], row.status)
    BY <1>3, <1>6, <1>8, OneOfferMoves DEF Ready
  <1>10. QED
    BY <1>5, <1>6, <1>9

LEMMA GenerateRefines ==
    ASSUME Ready, Ready', NEW w \in Workers, NEW a \in AgreementId, CommitGenerate(w, a)
    PROVE  Refines
  <1>1. PICK o \in OfferId : o = req[w].offer
    BY DEF CommitGenerate, Ready, IInv, SessionsAgree, SessionAgrees
  <1>2. /\ AgreementsOf(o) = {} /\ ~Exists(a) /\ UNCHANGED paid
        /\ agreements \in [AgreementId -> Agreement]
    BY <1>1 DEF CommitGenerate, Ready, IInv, TypeOK, SerialInv, Fresh
  <1>3. /\ agreements'[a].status = "DRAFT" /\ agreements'[a].offer = o
        /\ agreements'[a].charge = agreements[a].charge
        /\ \A b \in AgreementId : b # a => agreements'[b] = agreements[b]
    BY <1>1, <1>2 DEF CommitGenerate, Agreement
  <1>4. ASSUME NEW p \in OfferId \ {o} PROVE Kept(p)
    <2>1. AgreementsOf(p)' = AgreementsOf(p)
      BY <1>2, <1>3, <1>4 DEF AgreementsOf, Exists
    <2>2. ASSUME NEW b \in AgreementsOf(p)
          PROVE  agreements'[b].status = agreements[b].status /\ (PaidUp(b)' <=> PaidUp(b))
      BY <1>2, <1>3, <2>2 DEF AgreementsOf, PaidUp
    <2>3. QED
      BY <2>1, <2>2, KeptByRows DEF Ready
  <1>5. a \in AgreementsOf(o)' /\ ~PaidUp(a)'
    BY <1>2, <1>3 DEF AgreementsOf, Exists, PaidUp, Ready, SerialInv, Fits
  <1>6. Stage'[o] = "DRAFT" /\ ~Settled'[o] /\ Settled'[o] \in BOOLEAN
    BY <1>3, <1>5 DEF Ready, StageFits
  <1>7. Stage[o] = "none" /\ ~Settled[o] /\ Settled[o] \in BOOLEAN
    BY <1>2 DEF Ready, StageFits
  <1>8. Promise!DrawUp(o)
    BY <1>4, <1>6, <1>7, OneOfferMoves DEF Ready, Promise!DrawUp
  <1>9. QED
    BY <1>8 DEF Refines, Promise!Next

\* What an open sign session knows of its agreement.
LEMMA Signing ==
    ASSUME Ready, NEW w \in Workers, req[w].op = "sign"
    PROVE  /\ req[w].agreement \in AgreementId /\ Exists(req[w].agreement)
           /\ agreements \in [AgreementId -> Agreement]
           /\ agreements[req[w].agreement].status =
                 IF req[w].read = <<>> THEN "DRAFT" ELSE "PARTIAL_SIGNED"
           /\ agreements[req[w].agreement].charge = 0
           /\ req[w].read = <<>> <=> Len(Signed(w)) < 2
  <1> DEFINE a == req[w].agreement
  <1>1. /\ a \in AgreementId /\ Exists(a) /\ AcceptsSignatures(a)
        /\ req[w].read = agreements[a].signatures /\ agreements \in [AgreementId -> Agreement]
    BY DEF Ready, IInv, TypeOK, SessionsAgree, SessionAgrees, SerialInv, Fresh
  <1>2. agreements[a].status = IF req[w].read = <<>> THEN "DRAFT" ELSE "PARTIAL_SIGNED"
    <2>1. ASSUME One(<<>>) PROVE FALSE
      BY <2>1, SignatureLists DEF One
    <2>2. QED
      BY <1>1, <2>1 DEF AcceptsSignatures, Ready, IInv, RowsAgree
  <1>3. agreements[a].charge = 0
    BY <1>1 DEF AcceptsSignatures, Ready, SerialInv, Fits
  <1>4. req[w].read = <<>> <=> Len(Signed(w)) < 2
    <2>1. req[w].party \in Party
      BY DEF Ready, IInv, TypeOK, Request
    <2>2. CASE req[w].read = <<>>
      BY <2>1, <2>2, SignatureLists DEF Signed
    <2>3. ASSUME NEW q \in Party, req[w].read = <<q>>
          PROVE  req[w].read # <<>> /\ ~(Len(Signed(w)) < 2)
      BY <2>1, <2>3, SignatureLists DEF Signed
    <2>4. QED
      BY <2>2, <2>3 DEF Ready, IInv, SessionsAgree, SessionAgrees
  <1>5. QED
    BY <1>1, <1>2, <1>3, <1>4

LEMMA FirstSignatureRefines ==
    ASSUME Ready, Ready', NEW w \in Workers, CommitFirstSignature(w)
    PROVE  Refines
  <1>0. req[w].op = "sign" /\ Len(Signed(w)) < 2
    BY DEF CommitFirstSignature
  <1>1. PICK a \in AgreementId : a = req[w].agreement
    BY <1>0, Signing
  <1>2. /\ Exists(a) /\ agreements[a].status = "DRAFT" /\ agreements[a].charge = 0
        /\ agreements[a] \in Agreement
    BY <1>0, <1>1, Signing
  <1> DEFINE row == [agreements[a] EXCEPT !.signatures = Signed(w), !.status = "PARTIAL_SIGNED"]
  <1>3. /\ row.offer = agreements[a].offer /\ row.status = "PARTIAL_SIGNED" /\ row.charge = 0
        /\ agreements' = [agreements EXCEPT ![a] = row] /\ UNCHANGED paid
    BY <1>0, <1>1, <1>2, Signing DEF CommitFirstSignature, Agreement
  <1>4. agreements'[a] = row
    BY <1>0, <1>1, <1>3, Signing
  <1> HIDE DEF row
  <1>5. ~PaidUp(a) /\ ~PaidUp(a)'
    BY <1>2, <1>3, <1>4 DEF PaidUp
  <1>6. Promise!SignFirst(agreements[a].offer)
    BY <1>2, <1>3, <1>5, RowMoves DEF Promise!SignFirst
  <1>7. QED
    BY <1>2, <1>6, OfferOfRow DEF Refines, Promise!Next

LEMMA SecondSignatureRefines ==
    ASSUME Ready, Ready', NEW w \in Workers, CommitSecondSignature(w)
    PROVE  Refines
  <1>0. req[w].op = "sign" /\ req[w].phase = "charged"
    BY DEF CommitSecondSignature
  <1>1. PICK a \in AgreementId : a = req[w].agreement
    BY <1>0, Signing
  <1>2. /\ Exists(a) /\ agreements[a].status = "PARTIAL_SIGNED" /\ agreements[a].charge = 0
        /\ agreements[a] \in Agreement
    BY <1>0, <1>1, Signing DEF Ready, IInv, SessionsAgree, SessionAgrees
  <1> DEFINE row == RowFullySigned(w, a)
  <1>3. /\ row.offer = agreements[a].offer /\ row.status = "PENDING_PAYMENT"
        /\ row.charge = issued[a]
        /\ agreements' = [agreements EXCEPT ![a] = row] /\ UNCHANGED paid
    BY <1>1, <1>2 DEF CommitSecondSignature, RowFullySigned, Agreement
  <1>4. agreements'[a] = row
    BY <1>0, <1>1, <1>3, Signing
  <1> HIDE DEF row
  <1>5. ~PaidUp(a) /\ ~PaidUp(a)'
    <2>1. \A leg \in Leg : <<leg, issued[a]>> \notin paid[a]
      BY <1>0, <1>1 DEF Ready, SerialInv, Fresh
    <2>2. QED
      BY <1>2, <1>3, <1>4, <2>1, LegIsNotEmpty DEF PaidUp
  <1>6. Promise!SignSecond(agreements[a].offer)
    BY <1>2, <1>3, <1>5, RowMoves DEF Promise!SignSecond
  <1>7. QED
    BY <1>2, <1>6, OfferOfRow DEF Refines, Promise!Next

LEMMA ConfirmRefines ==
    ASSUME Ready, Ready', NEW w \in Workers, CommitConfirm(w)
    PROVE  Refines
  <1>0. req[w].op = "confirm"
    BY DEF CommitConfirm
  <1>1. PICK a \in AgreementId : a = req[w].agreement
    BY <1>0 DEF Ready, IInv, SessionsAgree, SessionAgrees
  <1>2. /\ Exists(a) /\ agreements \in [AgreementId -> Agreement]
        /\ agreements[a].status \in {"PENDING_PAYMENT", "SIGNED"}
        /\ agreements[a].charge # 0 /\ PaidUp(a)
        /\ req[w].signs <=> agreements[a].status # "SIGNED"
    BY <1>0, <1>1 DEF Ready, IInv, TypeOK, SessionsAgree, SessionAgrees, SerialInv, Fresh, Fits, PaidUp
  <1> DEFINE row == [agreements[a] EXCEPT !.status = "SIGNED"]
  <1>3. /\ row.offer = agreements[a].offer /\ row.status = "SIGNED"
        /\ row.charge = agreements[a].charge
        /\ agreements' = [agreements EXCEPT ![a] = row] /\ UNCHANGED paid
    BY <1>1, <1>2 DEF CommitConfirm, Agreement
  <1>4. agreements'[a] = row
    BY <1>2, <1>3
  <1>5. CASE agreements[a].status = "SIGNED"
    <2>1. row = agreements[a]
      BY <1>2, <1>5 DEF Agreement
    <2>2. agreements' = agreements
      BY <1>2, <1>3, <2>1
    <2>3. QED
      BY <1>3, <2>2, UnseenRefines
  <1>6. CASE agreements[a].status = "PENDING_PAYMENT"
    <2> HIDE DEF row
    <2>1. PaidUp(a)' <=> PaidUp(a)
      BY <1>3, <1>4 DEF PaidUp
    <2>2. Promise!Advance(agreements[a].offer, "PENDING_PAYMENT", "SIGNED")
      BY <1>2, <1>3, <1>6, <2>1, RowMoves
    <2>3. Settled[agreements[a].offer]
      BY <1>2, OfferOfRow DEF Ready, StageFits
    <2>4. Promise!Complete(agreements[a].offer)
      BY <2>2, <2>3 DEF Promise!Complete
    <2>5. QED
      BY <1>2, <2>4, OfferOfRow DEF Refines, Promise!Next
  <1>7. QED
    BY <1>2, <1>5, <1>6

LEMMA PayRefines ==
    ASSUME Ready, Ready', NEW a \in AgreementId, NEW leg \in Leg, NEW n \in ChargeNo, Pay(a, leg, n)
    PROVE  Refines
  <1>1. /\ paid' = [paid EXCEPT ![a] = @ \cup {<<leg, n>>}] /\ UNCHANGED agreements
        /\ paid \in [AgreementId -> SUBSET (Leg \X ChargeNo)]
    BY DEF Pay, Ready, IInv, TypeOK
  <1>2. \A o \in OfferId : AgreementsOf(o)' = AgreementsOf(o)
    BY <1>1 DEF AgreementsOf, Exists
  <1>3. ASSUME NEW b \in AgreementId, b # a PROVE PaidUp(b)' <=> PaidUp(b)
    BY <1>1, <1>3 DEF PaidUp
  <1>4. CASE ~Exists(a) \/ (PaidUp(a)' <=> PaidUp(a))
    <2>1. ASSUME NEW o \in OfferId PROVE Kept(o)
      <3>1. ASSUME NEW b \in AgreementsOf(o)
            PROVE  agreements'[b].status = agreements[b].status /\ (PaidUp(b)' <=> PaidUp(b))
        BY <1>1, <1>3, <1>4, <3>1 DEF AgreementsOf
      <3>2. QED
        BY <1>2, <3>1, KeptByRows DEF Ready
    <2>2. QED
      BY <2>1, Stutters DEF Ready, Refines
  <1>5. CASE Exists(a) /\ PaidUp(a)' /\ ~PaidUp(a)
    <2>1. PICK o \in OfferId : o = agreements[a].offer
      BY <1>5, OfferOfRow
    <2>2. a \in AgreementsOf(o) /\ a \in AgreementsOf(o)'
      BY <1>2, <1>5, <2>1, OfferOfRow
    <2>3. agreements[a].status = "PENDING_PAYMENT"
      <3>1. agreements[a].charge # 0
        BY <1>1, <1>5 DEF PaidUp
      <3>2. agreements[a].status # "SIGNED"
        BY <1>5, <3>1 DEF PaidUp, Ready, SerialInv, Fits
      <3>3. agreements[a] \in Agreement
        BY DEF Ready, IInv, TypeOK
      <3>4. QED
        BY <3>1, <3>2, <3>3 DEF Ready, SerialInv, Fits, Agreement
    <2>4. ASSUME NEW p \in OfferId \ {o} PROVE Kept(p)
      <3>1. ASSUME NEW b \in AgreementsOf(p)
            PROVE  agreements'[b].status = agreements[b].status /\ (PaidUp(b)' <=> PaidUp(b))
        BY <1>1, <1>3, <2>1, <2>4, <3>1 DEF AgreementsOf
      <3>2. QED
        BY <1>2, <3>1, KeptByRows DEF Ready
    <2>5. /\ Stage[o] = "PENDING_PAYMENT" /\ Stage'[o] = "PENDING_PAYMENT"
          /\ ~Settled[o] /\ Settled'[o] /\ Settled'[o] \in BOOLEAN
      BY <1>1, <1>5, <2>2, <2>3 DEF Ready, StageFits
    <2>6. Stage' = Stage /\ Settled' = [Settled EXCEPT ![o] = TRUE]
      BY <2>4, <2>5 DEF Ready, StageFits, Kept
    <2>7. Promise!Settle(o)
      BY <2>5, <2>6 DEF Promise!Settle
    <2>8. QED
      BY <2>7 DEF Refines, Promise!Next
  <1>6. ASSUME PaidUp(a) PROVE PaidUp(a)'
    BY <1>1, <1>6 DEF PaidUp
  <1>7. QED
    BY <1>4, <1>5, <1>6

LEMMA NextRefines ==
    ASSUME Ready, Ready', [Next]_vars
    PROVE  Refines
  <1>1. ASSUME NEW w \in Workers, Charge(w) PROVE Refines
    BY <1>1, UnseenRefines DEF Charge
  <1>2. CASE Quiet
    BY <1>2, UnseenRefines DEF Quiet
  <1>3. QED
    BY <1>1, <1>2, GenerateRefines, FirstSignatureRefines, SecondSignatureRefines, ConfirmRefines,
       PayRefines, RowSteps

-----------------------------------------------------------------------------
(* The theorems *)

\* Executed one session at a time, failing anywhere, an offer has one
\* agreement, which goes through the state machine of the docstring of
\* agreements/service.py, and only the fees it asks for complete it.
THEOREM DealIsKept == ASSUME ~Overlap PROVE Spec => ImplementsDeal
  <1>1. Init => Promise!Init
    BY DEF Init, NoRow, Promise!Init, Stage, Settled, AgreementsOf, Exists
  <1>2. Ready /\ Ready' /\ [Next]_vars => [Promise!Next]_Promise!vars
    BY NextRefines DEF Refines
  <1>3. Spec => []Ready
    <2>1. IInv /\ SerialInv => Ready
      BY StageIs DEF Ready
    <2>2. Spec => [](IInv /\ SerialInv)
      BY SerialInvariance
    <2>3. QED
      BY <2>1, <2>2, PTL
  <1>4. QED
    BY <1>1, <1>2, <1>3, PTL DEF Spec, ImplementsDeal, Promise!Spec

\* One session at a time, what the parties download and what the market shows
\* is what was signed, whichever sessions failed after they had stored a PDF
\* (submit_signature, confirm_payment).
THEOREM TheWorldSeesWhatIsSigned == ASSUME ~Overlap PROVE Spec => []SignedIsShown
  <1>1. IInv /\ SerialInv => SignedIsShown
    BY DEF SerialInv, Fits, SignedIsShown, PdfShowsSignatures
  <1>2. Spec => [](IInv /\ SerialInv)
    BY SerialInvariance
  <1>3. QED
    BY <1>1, <1>2, PTL

\* One session at a time, no recorded signature is lost (submit_signature).
THEOREM NoSignatureIsLost == ASSUME ~Overlap PROVE Spec => SignaturesAccumulate
  <1> DEFINE Accumulate ==
        \A a \in AgreementId : IsPrefix(agreements[a].signatures, agreements'[a].signatures)
  <1>1. IInv /\ SerialInv /\ [Next]_vars => Accumulate
    <2> SUFFICES ASSUME IInv, SerialInv, [Next]_vars, NEW a \in AgreementId
                 PROVE  IsPrefix(agreements[a].signatures, agreements'[a].signatures)
        OBVIOUS
    <2>0. agreements \in [AgreementId -> Agreement] /\ agreements[a].signatures \in Seq(Party)
      BY DEF IInv, TypeOK, Agreement
    <2>1. CASE agreements'[a].signatures = agreements[a].signatures
      <3>1. "landlord" \in Party
        BY DEF Party
      <3>2. QED
        BY <2>0, <2>1, <3>1, AppendExtends
    <2>2. ASSUME NEW w \in Workers, req[w].op = "sign", a = req[w].agreement,
                 agreements'[a].signatures = Signed(w)
          PROVE  IsPrefix(agreements[a].signatures, agreements'[a].signatures)
      <3>1. req[w].read = agreements[a].signatures /\ req[w].party \in Party
        BY <2>2 DEF SerialInv, Fresh, IInv, TypeOK, Request
      <3>2. QED
        BY <2>0, <2>2, <3>1, AppendExtends DEF Signed
    <2>3. ASSUME NEW w \in Workers, CommitFirstSignature(w) \/ CommitSecondSignature(w)
          PROVE  IsPrefix(agreements[a].signatures, agreements'[a].signatures)
      <3>1. req[w].op = "sign"
        BY <2>3 DEF CommitFirstSignature, CommitSecondSignature
      <3>2. CASE a # req[w].agreement
        BY <2>0, <2>1, <2>3, <3>2 DEF CommitFirstSignature, CommitSecondSignature
      <3>3. CASE a = req[w].agreement
        <4>1. agreements'[a].signatures = Signed(w)
          <5>1. CASE CommitFirstSignature(w)
            BY <2>0, <3>3, <5>1 DEF CommitFirstSignature, Agreement
          <5>2. CASE CommitSecondSignature(w)
            BY <2>0, <3>3, <5>2 DEF CommitSecondSignature, RowFullySigned, Agreement
          <5>3. QED
            BY <2>3, <5>1, <5>2
        <4>2. QED
          BY <2>2, <3>1, <3>3, <4>1
      <3>4. QED
        BY <3>2, <3>3
    <2>4. ASSUME NEW w \in Workers, NEW b \in AgreementId, CommitGenerate(w, b)
          PROVE  agreements'[a].signatures = agreements[a].signatures
      BY <2>0, <2>4 DEF CommitGenerate, Agreement
    <2>5. ASSUME NEW w \in Workers, CommitConfirm(w)
          PROVE  agreements'[a].signatures = agreements[a].signatures
      BY <2>0, <2>5 DEF CommitConfirm, Agreement
    <2>6. QED
      BY <2>1, <2>3, <2>4, <2>5, RowSteps DEF Quiet, Charge, Pay
  <1>2. Spec => [](IInv /\ SerialInv)
    BY SerialInvariance
  <1>3. QED
    BY <1>1, <1>2, PTL DEF Spec, SignaturesAccumulate
=============================================================================
