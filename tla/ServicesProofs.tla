--------------------------- MODULE ServicesProofs ---------------------------
(***************************************************************************)
(* Prices: for every rate, every number of nights and every price, the     *)
(* guest pays what the calendar shows for the days of the stay, and the    *)
(* amounts of a booking and the fees of a rent agreement, each rounded to  *)
(* a kobo, add up.                                                         *)
(*                                                                         *)
(* Notifications: for every number of retries, a row and its task agree on *)
(* what was committed and what was delivered, whichever of the broker, the *)
(* database, the provider and the worker fails.                            *)
(*                                                                         *)
(* Chat: for every market and every limit, a stored session consists of    *)
(* whole exchanges, and an ordinal counts in the list the user was shown.  *)
(***************************************************************************)
EXTENDS Prices, Notifications, ChatSession, FiniteSetTheorems, SequenceTheorems,
        WellFoundedInduction, TLAPS

-----------------------------------------------------------------------------
(* Prices: rounding *)

LEMMA RoundIsNat ==
    ASSUME NEW n \in Nat
    PROVE  Round(n, 100) \in Nat
  BY DEF Round

LEMMA HostFeeIsNat ==
    ASSUME NEW value \in Nat
    PROVE  Round(3 * value, 100) \in Nat
  <1>1. 3 * value \in Nat
    OBVIOUS
  <1>2. QED
    BY <1>1, RoundIsNat

LEMMA PayoutIsNat ==
    ASSUME NEW value \in Nat
    PROVE  value - Round(3 * value, 100) \in Nat
  <1>1. Round(3 * value, 100) = (6 * value + 100) \div 200
    BY DEF Round
  <1>2. value - (6 * value + 100) \div 200 \in Nat
    OBVIOUS
  <1>3. QED
    BY <1>1, <1>2

LEMMA RestIsNat ==
    ASSUME NEW value \in Nat
    PROVE  Round(97 * value, 100) \in Nat
  <1>1. 97 * value \in Nat
    OBVIOUS
  <1>2. QED
    BY <1>1, RoundIsNat

\* What the owner of a student's room and the seller of a dear house pay.
LEMMA QuarterTenthIsNat ==
    ASSUME NEW value \in Nat
    PROVE  Round(25 * value, 1000) \in Nat
  <1>1. Round(25 * value, 1000) = (50 * value + 1000) \div 2000
    BY DEF Round
  <1>2. (50 * value + 1000) \div 2000 \in Nat
    OBVIOUS
  <1>3. QED
    BY <1>1, <1>2

LEMMA SumOfParts ==
    ASSUME NEW value \in Nat, NEW host \in Nat, NEW seeker \in Nat
    PROVE  value + seeker = (value - host) + host + seeker
  OBVIOUS

\* A fee and the rest, rounded apart: of 3% and 97% of an amount, at most one
\* kobo is rounded up twice, and none if the amount is whole Naira.
LEMMA ShareAndRest ==
    ASSUME NEW value \in Nat
    PROVE  /\ value - Round(3 * value, 100) - Round(97 * value, 100) \in {-1, 0}
           /\ Whole(value) => value - Round(3 * value, 100) = Round(97 * value, 100)
  <1>1. /\ Round(3 * value, 100) = (6 * value + 100) \div 200
        /\ Round(97 * value, 100) = (194 * value + 100) \div 200
    BY DEF Round
  <1>2. value - (6 * value + 100) \div 200 - (194 * value + 100) \div 200 \in {-1, 0}
    OBVIOUS
  <1>3. ASSUME value % 100 = 0
        PROVE  value - (6 * value + 100) \div 200 = (194 * value + 100) \div 200
    BY <1>3
  <1>4. QED
    BY <1>1, <1>2, <1>3 DEF Whole

\* The two shares of a rent's fee, rounded apart, against its percentage.
LEMMA SharesOfRent ==
    ASSUME NEW rent \in Nat
    PROVE  LET shares == RentShares(rent) IN
           /\ shares.landlord \in Nat /\ shares.seeker \in Nat /\ shares.pct \in Nat
           /\ shares.landlord + shares.seeker - shares.pct \in {-1, 0, 1}
           /\ Whole(rent) => shares.landlord + shares.seeker = shares.pct
           /\ shares.landlord - 2 * shares.seeker \in {-1, 0, 1}
  <1>1. CASE rent <= RentTier
    <2>1. RentShares(rent) = [landlord |-> (4 * rent + 100) \div 200,
                              seeker |-> (2 * rent + 100) \div 200,
                              pct |-> (6 * rent + 100) \div 200]
      BY <1>1 DEF RentShares, Round
    <2>2. /\ (4 * rent + 100) \div 200 \in Nat
          /\ (2 * rent + 100) \div 200 \in Nat
          /\ (6 * rent + 100) \div 200 \in Nat
      OBVIOUS
    <2>3. (4 * rent + 100) \div 200 + (2 * rent + 100) \div 200 - (6 * rent + 100) \div 200 \in {-1, 0, 1}
      OBVIOUS
    <2>4. ASSUME rent % 100 = 0
          PROVE  (4 * rent + 100) \div 200 + (2 * rent + 100) \div 200 = (6 * rent + 100) \div 200
      BY <2>4
    <2>5. (4 * rent + 100) \div 200 - 2 * ((2 * rent + 100) \div 200) \in {-1, 0, 1}
      OBVIOUS
    <2>6. QED
      BY <2>1, <2>2, <2>3, <2>4, <2>5 DEF Whole
  <1>2. CASE ~ (rent <= RentTier)
    <2>1. RentShares(rent) = [landlord |-> (8 * rent + 300) \div 600,
                              seeker |-> (4 * rent + 300) \div 600,
                              pct |-> (4 * rent + 100) \div 200]
      BY <1>2 DEF RentShares, Round
    <2>2. /\ (8 * rent + 300) \div 600 \in Nat
          /\ (4 * rent + 300) \div 600 \in Nat
          /\ (4 * rent + 100) \div 200 \in Nat
      OBVIOUS
    <2>3. (8 * rent + 300) \div 600 + (4 * rent + 300) \div 600 - (4 * rent + 100) \div 200 \in {-1, 0, 1}
      OBVIOUS
    <2>4. ASSUME rent % 100 = 0
          PROVE  (8 * rent + 300) \div 600 + (4 * rent + 300) \div 600 = (4 * rent + 100) \div 200
      BY <2>4
    <2>5. (8 * rent + 300) \div 600 - 2 * ((4 * rent + 300) \div 600) \in {-1, 0, 1}
      OBVIOUS
    <2>6. QED
      BY <2>1, <2>2, <2>3, <2>4, <2>5 DEF Whole
  <1>3. QED
    BY <1>1, <1>2

-----------------------------------------------------------------------------
(* Prices: the invariant *)

\* What has been counted is a number of kobo.
Counting ==
    /\ stay.base \in Nat /\ stay.weekend \in Nat /\ stay.nights \in Nat
    /\ counted.base_total \in Nat
    /\ deal.price \in Nat
    /\ stage = "agreed" => deal.category \in {"RENT", "OFF_CAMPUS", "SALES"}

\* A quote consists of the fees of what was counted, and is stored as it is.
Quoted ==
    stage \in {"quoted", "checked in"} =>
        /\ quote.base_total \in Nat
        /\ quote.host_fee = Round(3 * quote.base_total, 100)
        /\ quote.host_payout = Round(97 * quote.base_total, 100)
        /\ quote.seeker_fee \in Nat
        /\ quote.grand_total = quote.base_total + quote.seeker_fee

PaidOut == stage = "checked in" => payout = quote.base_total - quote.host_fee

RentCharged ==
    stage = "charged" /\ deal.category = "RENT" => fees = ChargeRent(deal.price)

Adding == Counting /\ Quoted /\ PaidOut /\ RentCharged

MoneyInv == PricesTypeOK /\ Adding

LEMMA InitAdding == PricesInit => Adding
  <1> SUFFICES ASSUME PricesInit PROVE Adding
      OBVIOUS
  <1>1. stay.base \in Nat /\ stay.weekend \in Nat /\ stay.nights \in Nat
    <2>1. ASSUME stay \in Stays
          PROVE  stay.base \in Nat /\ stay.weekend \in Nat /\ stay.nights \in Nat
      <3>1. stay.base \in Rates /\ stay.weekend \in Rates \cup {0} /\ stay.nights \in 1 .. MaxNights
        BY <2>1 DEF Stays, NoRate
      <3>2. Rates \subseteq Nat /\ Rates \cup {0} \subseteq Nat /\ 1 .. MaxNights \subseteq Nat
        BY PricesAssumption
      <3>3. QED
        BY <3>1, <3>2
    <2>2. ASSUME stay = NoStay
          PROVE  stay.base \in Nat /\ stay.weekend \in Nat /\ stay.nights \in Nat
      BY <2>2 DEF NoStay, NoRate
    <2>3. QED
      BY <2>1, <2>2 DEF PricesInit
  <1>2. deal.price \in Nat
    <2>1. ASSUME deal \in Deals PROVE deal.price \in Nat
      <3>1. deal.price \in DealPrices
        BY <2>1 DEF Deals
      <3>2. DealPrices \subseteq Nat
        BY PricesAssumption
      <3>3. QED
        BY <3>1, <3>2
    <2>2. ASSUME deal = NoDeal PROVE deal.price \in Nat
      BY <2>2 DEF NoDeal
    <2>3. QED
      BY <2>1, <2>2 DEF PricesInit
  <1>3. counted.base_total \in Nat /\ stage \in {"counting", "agreed"}
    BY DEF PricesInit, NothingCounted
  <1>4. stage = "agreed" => deal.category \in {"RENT", "OFF_CAMPUS", "SALES"}
    BY DEF PricesInit, Deals
  <1>5. QED
    BY <1>1, <1>2, <1>3, <1>4 DEF Adding, Counting, Quoted, PaidOut, RentCharged

LEMMA CountNightKeeps ==
    ASSUME Adding, CountNight
    PROVE  Adding'
  <1>1. counted'.base_total \in {counted.base_total + stay.weekend, counted.base_total + stay.base}
    BY DEF CountNight
  <1>2. counted'.base_total \in Nat
    BY <1>1 DEF Adding, Counting
  <1>3. stage' = "counting" /\ UNCHANGED <<stay, deal>>
    BY DEF CountNight
  <1>4. QED
    BY <1>2, <1>3 DEF Adding, Counting, Quoted, PaidOut, RentCharged

LEMMA QuoteKeeps ==
    ASSUME Adding, Quote
    PROVE  Adding'
  <1> DEFINE total == counted.base_total
  <1>1. total \in Nat
    BY DEF Adding, Counting
  <1>2. /\ quote'.base_total = total
        /\ quote'.host_fee = Round(3 * total, 100)
        /\ quote'.host_payout = Round(97 * total, 100)
        /\ quote'.seeker_fee = Round(SeekerPct(total) * total, 100)
        /\ quote'.grand_total = total + Round(SeekerPct(total) * total, 100)
    BY DEF Quote, ShortLetFee, GrandTotal
  <1>3. Round(SeekerPct(total) * total, 100) \in Nat
    <2>1. SeekerPct(total) * total \in Nat
      BY <1>1 DEF SeekerPct
    <2>2. QED
      BY <2>1, RoundIsNat
  <1>4. stage' = "quoted" /\ UNCHANGED <<stay, counted, deal>>
    BY DEF Quote
  <1>5. Quoted'
    BY <1>1, <1>2, <1>3 DEF Quoted
  <1>6. QED
    BY <1>4, <1>5 DEF Adding, Counting, PaidOut, RentCharged

LEMMA CheckInKeeps ==
    ASSUME Adding, CheckIn
    PROVE  Adding'
  <1>1. /\ stage = "quoted" /\ stage' = "checked in"
        /\ payout' = quote.base_total - quote.host_fee
        /\ UNCHANGED <<stay, counted, quote, deal, fees>>
    BY DEF CheckIn, Payout
  <1>2. QED
    BY <1>1 DEF Adding, Counting, Quoted, PaidOut, RentCharged

LEMMA ChargeKeeps ==
    ASSUME Adding, Charge
    PROVE  Adding'
  <1>1. stage' = "charged" /\ UNCHANGED <<stay, counted, deal>>
    BY DEF Charge
  <1>2. deal.category = "RENT" => fees' = ChargeRent(deal.price)
    BY DEF Charge
  <1>3. RentCharged'
    BY <1>1, <1>2 DEF RentCharged, ChargeRent, RentFee
  <1>4. QED
    BY <1>1, <1>3 DEF Adding, Counting, Quoted, PaidOut

-----------------------------------------------------------------------------
(* Prices: types *)

LEMMA InitTypeOK == PricesInit => PricesTypeOK
  <1> SUFFICES ASSUME PricesInit PROVE PricesTypeOK
      OBVIOUS
  <1>1. stay \in Stays \cup {NoStay} /\ deal \in Deals \cup {NoDeal} /\ stage \in {"counting", "agreed"}
    BY DEF PricesInit
  <1>2. /\ counted \in [night : Nat, base_total : Nat, uplift : Nat]
        /\ quote \in [base_total : Nat, seeker_fee : Nat, host_fee : Nat, grand_total : Nat, host_payout : Nat]
        /\ payout \in Nat
        /\ fees \in [landlord : Nat, seeker : Nat, facilitation : Nat]
    BY DEF PricesInit, NothingCounted, NoQuote, NoFees
  <1>3. counted.night <= stay.nights
    <2>1. counted.night = 0 /\ stay.nights \in Nat
      BY InitAdding DEF PricesInit, NothingCounted, Adding, Counting
    <2>2. QED
      BY <2>1
  <1>4. QED
    BY <1>1, <1>2, <1>3 DEF PricesTypeOK

LEMMA CountNightTypeOK ==
    ASSUME PricesTypeOK, Adding, CountNight
    PROVE  PricesTypeOK'
  <1>1. /\ counted.night < stay.nights /\ stay.nights \in Nat
        /\ counted.night \in Nat /\ counted.base_total \in Nat /\ counted.uplift \in Nat
    BY DEF PricesTypeOK, Adding, Counting, CountNight
  <1>2. Uplift \in Nat
    BY DEF Uplift, Adding, Counting
  <1>3. PICK rate \in Nat, more \in Nat :
          counted' = [night      |-> counted.night + 1,
                      base_total |-> counted.base_total + rate,
                      uplift     |-> counted.uplift + more]
    BY <1>2 DEF CountNight, Adding, Counting
  <1>4. /\ counted.night + 1 \in Nat /\ counted.night + 1 <= stay.nights
        /\ counted.base_total + rate \in Nat /\ counted.uplift + more \in Nat
    BY <1>1
  <1>5. /\ counted' \in [night : Nat, base_total : Nat, uplift : Nat]
        /\ counted'.night <= stay.nights
    BY <1>3, <1>4
  <1>6. UNCHANGED <<stay, quote, payout, deal, fees>> /\ stage' = stage
    BY DEF CountNight
  <1>7. QED
    BY <1>5, <1>6 DEF PricesTypeOK

LEMMA QuoteTypeOK ==
    ASSUME PricesTypeOK, Adding, Quote
    PROVE  PricesTypeOK'
  <1> DEFINE total == counted.base_total
             pct == SeekerPct(total)
  <1>1. total \in Nat
    BY DEF Adding, Counting
  <1>2. Round(3 * total, 100) \in Nat /\ Round(97 * total, 100) \in Nat
    <2>1. Round(3 * total, 100) \in Nat
      BY <1>1, HostFeeIsNat
    <2>2. Round(97 * total, 100) \in Nat
      BY <1>1, RestIsNat
    <2>3. QED
      BY <2>1, <2>2
  <1>3. Round(pct * total, 100) \in Nat
    <2>1. pct * total \in Nat
      BY <1>1 DEF SeekerPct
    <2>2. QED
      BY <2>1, RoundIsNat
  <1>4. quote' = [base_total |-> total, seeker_fee |-> Round(pct * total, 100),
                  host_fee |-> Round(3 * total, 100),
                  grand_total |-> total + Round(pct * total, 100),
                  host_payout |-> Round(97 * total, 100)]
    BY DEF Quote, ShortLetFee, GrandTotal
  <1>5. total + Round(pct * total, 100) \in Nat
    BY <1>1, <1>3
  <1>6. quote' \in [base_total : Nat, seeker_fee : Nat, host_fee : Nat, grand_total : Nat, host_payout : Nat]
    BY <1>1, <1>2, <1>3, <1>4, <1>5
  <1>7. stage' = "quoted" /\ UNCHANGED <<stay, counted, payout, deal, fees>>
    BY DEF Quote
  <1>8. QED
    BY <1>6, <1>7 DEF PricesTypeOK

LEMMA CheckInTypeOK ==
    ASSUME PricesTypeOK, Adding, CheckIn
    PROVE  PricesTypeOK'
  <1>1. /\ quote.base_total \in Nat
        /\ payout' = quote.base_total - Round(3 * quote.base_total, 100)
    BY DEF Adding, Quoted, CheckIn, Payout
  <1>2. payout' \in Nat
    BY <1>1, PayoutIsNat
  <1>3. stage' = "checked in" /\ UNCHANGED <<stay, counted, quote, deal, fees>>
    BY DEF CheckIn
  <1>4. QED
    BY <1>2, <1>3 DEF PricesTypeOK

LEMMA ChargeTypeOK ==
    ASSUME PricesTypeOK, Adding, Charge
    PROVE  PricesTypeOK'
  <1> DEFINE price == deal.price
             Typed(record) == record \in [landlord : Nat, seeker : Nat, facilitation : Nat]
  <1>1. price \in Nat /\ deal.category \in {"RENT", "OFF_CAMPUS", "SALES"}
    BY DEF Adding, Counting, Charge
  <1>r. Round(3 * price, 100) \in Nat
    BY <1>1, HostFeeIsNat
  <1>s. Round(25 * price, 1000) \in Nat
    BY <1>1, QuarterTenthIsNat
  <1>2. Typed(ChargeRent(price))
    <2>1. FlatLandlord \in Nat /\ FlatSeeker \in Nat
      BY FeesAssumption
    <2>2. RentShares(price).landlord \in Nat /\ RentShares(price).seeker \in Nat
      BY <1>1, SharesOfRent
    <2>3. RentFee(price).landlord \in Nat /\ RentFee(price).seeker \in Nat
      BY <2>1, <2>2 DEF RentFee
    <2>4. QED
      BY <2>3 DEF ChargeRent
  <1>3. Typed(ChargeStudent(price))
    <2>1. StudentFee(price).owner \in Nat /\ StudentFee(price).seeker \in Nat
      BY <1>r, <1>s DEF StudentFee
    <2>2. QED
      BY <2>1 DEF ChargeStudent
  <1>4. Typed(ChargeSale(price))
    <2>1. SalesFee(price).seller \in Nat
      BY <1>r, <1>s DEF SalesFee
    <2>2. QED
      BY <2>1 DEF ChargeSale
  <1>5. fees' \in {ChargeRent(price), ChargeStudent(price), ChargeSale(price)}
    BY <1>1 DEF Charge
  <1>6. Typed(fees')
    BY <1>2, <1>3, <1>4, <1>5
  <1>7. stage' = "charged" /\ UNCHANGED <<stay, counted, quote, payout, deal>>
    BY DEF Charge
  <1>8. QED
    BY <1>6, <1>7 DEF PricesTypeOK

-----------------------------------------------------------------------------
(* Prices: the theorems *)

\* The inductive invariant.
THEOREM MoneyInvariance == PricesSpec => []MoneyInv
  <1>1. PricesInit => MoneyInv
    BY InitAdding, InitTypeOK DEF MoneyInv
  <1>2. MoneyInv /\ [PricesNext]_priceVars => MoneyInv'
    <2> SUFFICES ASSUME MoneyInv, [PricesNext]_priceVars PROVE MoneyInv'
        OBVIOUS
    <2>1. CASE UNCHANGED priceVars
      <3>1. PricesTypeOK'
        BY <2>1 DEF priceVars, MoneyInv, PricesTypeOK
      <3>2. Adding'
        BY <2>1 DEF priceVars, MoneyInv, Adding, Counting, Quoted, PaidOut, RentCharged
      <3>3. QED
        BY <3>1, <3>2 DEF MoneyInv
    <2>2. Adding'
      BY <2>1, CountNightKeeps, QuoteKeeps, CheckInKeeps, ChargeKeeps DEF MoneyInv, PricesNext
    <2>3. PricesTypeOK'
      BY <2>1, CountNightTypeOK, QuoteTypeOK, CheckInTypeOK, ChargeTypeOK DEF MoneyInv, PricesNext
    <2>4. QED
      BY <2>2, <2>3 DEF MoneyInv
  <1>3. QED
    BY <1>1, <1>2, PTL DEF PricesSpec

\* Every kobo the guest is charged reaches the host or is one of the fees on the
\* booking (bookings/pricing.py, bookings/service.py).
LEMMA ChargesAddUp == PricesSpec => []MoneyAddsUp
  <1>1. MoneyInv => MoneyAddsUp
    <2> SUFFICES ASSUME MoneyInv, stage = "checked in"
                 PROVE  quote.grand_total = payout + quote.host_fee + quote.seeker_fee
        BY DEF MoneyAddsUp
    <2>1. /\ quote.base_total \in Nat /\ quote.seeker_fee \in Nat
          /\ quote.host_fee = Round(3 * quote.base_total, 100)
          /\ quote.grand_total = quote.base_total + quote.seeker_fee
          /\ payout = quote.base_total - quote.host_fee
      BY DEF MoneyInv, Adding, Quoted, PaidOut
    <2>2. quote.host_fee \in Nat
      BY <2>1, HostFeeIsNat
    <2>3. PICK value \in Nat, host \in Nat, seeker \in Nat :
            value = quote.base_total /\ host = quote.host_fee /\ seeker = quote.seeker_fee
      BY <2>1, <2>2
    <2>4. quote.grand_total = value + seeker /\ payout = value - host
      BY <2>1, <2>3
    <2>5. value + seeker = (value - host) + host + seeker
      BY SumOfParts
    <2>6. QED
      BY <2>3, <2>4, <2>5
  <1>2. QED
    BY <1>1, MoneyInvariance, PTL

\* The host is paid what the quote promised, within the one kobo that rounding
\* both the fee and the payout can make, and exactly for whole Naira.
LEMMA PayoutsAsQuoted == PricesSpec => []PayoutAsQuoted
  <1>1. MoneyInv => PayoutAsQuoted
    <2> SUFFICES ASSUME MoneyInv, stage = "checked in"
                 PROVE  /\ payout - quote.host_payout \in {-1, 0}
                        /\ Whole(quote.base_total) => payout = quote.host_payout
        BY DEF PayoutAsQuoted
    <2>1. /\ quote.base_total \in Nat
          /\ payout = quote.base_total - Round(3 * quote.base_total, 100)
          /\ quote.host_payout = Round(97 * quote.base_total, 100)
      BY DEF MoneyInv, Adding, Quoted, PaidOut
    <2>2. QED
      BY <2>1, ShareAndRest
  <1>2. QED
    BY <1>1, MoneyInvariance, PTL

\* A rent's fees are those of its tier, however they are split and rounded
\* between landlord and seeker (payments/fees.py).
LEMMA RentSharesAddUp == PricesSpec => []RentFeesAddUp
  <1>1. MoneyInv => RentFeesAddUp
    <2> SUFFICES ASSUME MoneyInv, stage = "charged", deal.category = "RENT"
                 PROVE  /\ Whole(deal.price) => fees.facilitation = RentFee(deal.price).total
                        /\ fees.facilitation - RentFee(deal.price).total \in {-1, 0, 1}
                        /\ fees.landlord - FlatLandlord - 2 * (fees.seeker - FlatSeeker)
                               \in {-1, 0, 1}
        BY DEF RentFeesAddUp
    <2> DEFINE shares == RentShares(deal.price)
    <2>1. deal.price \in Nat
      BY DEF MoneyInv, Adding, Counting
    <2>2. /\ fees.landlord = FlatLandlord + shares.landlord
          /\ fees.seeker = FlatSeeker + shares.seeker
          /\ fees.facilitation = FlatLandlord + shares.landlord + (FlatSeeker + shares.seeker)
          /\ RentFee(deal.price).total = FlatLandlord + FlatSeeker + shares.pct
      BY DEF MoneyInv, Adding, RentCharged, ChargeRent, RentFee
    <2>3. /\ shares.landlord \in Nat /\ shares.seeker \in Nat /\ shares.pct \in Nat
          /\ shares.landlord + shares.seeker - shares.pct \in {-1, 0, 1}
          /\ Whole(deal.price) => shares.landlord + shares.seeker = shares.pct
          /\ shares.landlord - 2 * shares.seeker \in {-1, 0, 1}
      BY <2>1, SharesOfRent
    <2> HIDE DEF shares
    <2>4. FlatLandlord \in Nat /\ FlatSeeker \in Nat
      BY FeesAssumption
    <2>5. QED
      BY <2>2, <2>3, <2>4
  <1>2. QED
    BY <1>1, MoneyInvariance, PTL

\* For every rate, stay, rent and price: no amount is negative, and what guests
\* and parties are charged is what hosts and BeeBop get (bookings/pricing.py,
\* bookings/service.py, payments/fees.py, agreements/service.py).
THEOREM MoneyIsAccountedFor == PricesSpec => []AmountsAddUp
  <1>1. MoneyInv => PricesTypeOK
    BY DEF MoneyInv
  <1>2. PricesTypeOK /\ MoneyAddsUp /\ PayoutAsQuoted /\ RentFeesAddUp => AmountsAddUp
    BY DEF AmountsAddUp
  <1>3. QED
    BY <1>1, <1>2, MoneyInvariance, ChargesAddUp, PayoutsAsQuoted, RentSharesAddUp, PTL

-----------------------------------------------------------------------------
(* Prices: the sum of the rates of a set of days *)

First(s) == CHOOSE x \in s : TRUE

Rest(s) == s \ {First(s)}

\* The equation by which MapThenSumSet sums the rates r over the subsets of S,
\* and its solution.
Sums(r, S, f) == [s \in SUBSET S |-> IF s = {} THEN 0 ELSE r[First(s)] + f[Rest(s)]]

Solution(r, S) == CHOOSE f : f = Sums(r, S, f)

Sum(r, S) == Solution(r, S)[S]

LEMMA RestIsSmaller ==
  ASSUME NEW S, NEW s \in SUBSET S, s # {}
  PROVE  /\ First(s) \in s /\ Rest(s) \in SUBSET S /\ Rest(s) \subseteq s /\ Rest(s) # s
         /\ <<Rest(s), s>> \in StrictSubsetOrdering(S)
  <1>1. First(s) \in s
    BY DEF First
  <1>2. Rest(s) \subseteq s /\ Rest(s) # s /\ Rest(s) \in SUBSET S
    BY <1>1 DEF Rest
  <1>3. QED
    BY <1>1, <1>2 DEF StrictSubsetOrdering

\* Of the subsets of a finite set that have a property, one is minimal.
LEMMA SmallestSubset ==
  ASSUME NEW S, IsFiniteSet(S), NEW T, T \subseteq SUBSET S, T # {}
  PROVE  \E s \in T : \A t \in T : <<t, s>> \notin StrictSubsetOrdering(S)
  <1>1. T \subseteq FiniteSubsetsOf(S)
    BY FS_Subset DEF FiniteSubsetsOf
  <1>2. QED
    BY <1>1, FS_StrictSubsetOrderingWellFounded, WFMin

\* Solutions agree where both are defined.
LEMMA SolutionsAgree ==
  ASSUME NEW r, NEW S, NEW U, IsFiniteSet(S), NEW f, NEW g, f = Sums(r, S, f), g = Sums(r, U, g)
  PROVE  \A s \in SUBSET (S \cap U) : f[s] = g[s]
  <1> DEFINE T == {s \in SUBSET (S \cap U) : f[s] # g[s]}
  <1>1. IsFiniteSet(S \cap U)
    BY FS_Subset
  <1>2. ASSUME T # {} PROVE FALSE
    <2>1. PICK s \in T : \A t \in T : <<t, s>> \notin StrictSubsetOrdering(S \cap U)
      <3>1. T \subseteq SUBSET (S \cap U)
        OBVIOUS
      <3> HIDE DEF T
      <3>2. QED
        BY <1>1, <1>2, <3>1, SmallestSubset
    <2>2. s \in SUBSET S /\ s \in SUBSET U /\ f[s] # g[s]
      OBVIOUS
    <2>3. f[s] = (IF s = {} THEN 0 ELSE r[First(s)] + f[Rest(s)])
      BY <2>2 DEF Sums
    <2>4. g[s] = (IF s = {} THEN 0 ELSE r[First(s)] + g[Rest(s)])
      BY <2>2 DEF Sums
    <2>5. s # {} /\ f[Rest(s)] # g[Rest(s)]
      BY <2>2, <2>3, <2>4
    <2>6. Rest(s) \in SUBSET (S \cap U) /\ <<Rest(s), s>> \in StrictSubsetOrdering(S \cap U)
      BY <2>5, RestIsSmaller
    <2>7. QED
      BY <2>1, <2>5, <2>6
  <1>3. QED
    BY <1>2

LEMMA SolutionExists ==
  ASSUME NEW r, NEW S, IsFiniteSet(S)
  PROVE  Solution(r, S) = Sums(r, S, Solution(r, S))
  <1> DEFINE T == {s \in SUBSET S : \A f : f # Sums(r, s, f)}
  <1>1. ASSUME T # {} PROVE FALSE
    <2>1. PICK s \in T : \A t \in T : <<t, s>> \notin StrictSubsetOrdering(S)
      <3>1. T \subseteq SUBSET S
        OBVIOUS
      <3> HIDE DEF T
      <3>2. QED
        BY <1>1, <3>1, SmallestSubset
    <2>2. ASSUME NEW t \in SUBSET s, t # s PROVE Solution(r, t) = Sums(r, t, Solution(r, t))
      <3>1. t \in SUBSET S /\ <<t, s>> \in StrictSubsetOrdering(S)
        BY <2>2 DEF StrictSubsetOrdering
      <3>2. \E f : f = Sums(r, t, f)
        BY <2>1, <3>1
      <3>3. QED
        BY <3>2 DEF Solution
    <2> DEFINE value(t) == IF t = {} THEN 0 ELSE r[First(t)] + Sum(r, Rest(t))
               h == [t \in SUBSET s |-> value(t)]
    <2>3. ASSUME NEW t \in SUBSET s, t # s PROVE value(t) = Sum(r, t)
      <3> DEFINE f == Solution(r, t)  g == Solution(r, Rest(t))
      <3>1. f = Sums(r, t, f)
        BY <2>2, <2>3
      <3>2. f[t] = (IF t = {} THEN 0 ELSE r[First(t)] + f[Rest(t)])
        BY <3>1 DEF Sums
      <3>3. CASE t = {}
        BY <3>2, <3>3 DEF Sum
      <3>4. CASE t # {}
        <4>1. Rest(t) \in SUBSET t /\ Rest(t) \in SUBSET s /\ Rest(t) # s
          BY <2>3, <3>4, RestIsSmaller
        <4>2. g = Sums(r, Rest(t), g)
          BY <2>2, <4>1
        <4>3. IsFiniteSet(t)
          BY FS_Subset
        <4>4. f[Rest(t)] = g[Rest(t)]
          <5> HIDE DEF f, g
          <5> QED BY <3>1, <4>1, <4>2, <4>3, SolutionsAgree
        <4>5. QED
          BY <3>2, <3>4, <4>4 DEF Sum
      <3>5. QED
        BY <3>3, <3>4
    <2>4. ASSUME NEW t \in SUBSET s
          PROVE  h[t] = (IF t = {} THEN 0 ELSE r[First(t)] + h[Rest(t)])
      <3>1. h[t] = value(t)
        OBVIOUS
      <3>2. CASE t = {}
        BY <3>1, <3>2
      <3>3. CASE t # {}
        <4>1. Rest(t) \in SUBSET s /\ Rest(t) # s
          <5>1. Rest(t) \subseteq t /\ Rest(t) # t /\ t \subseteq s
            BY <3>3, RestIsSmaller
          <5>2. QED
            BY <5>1
        <4>2. h[Rest(t)] = value(Rest(t)) /\ value(Rest(t)) = Sum(r, Rest(t))
          BY <2>3, <4>1
        <4>3. value(t) = r[First(t)] + Sum(r, Rest(t))
          BY <3>3
        <4>4. QED
          BY <3>1, <3>3, <4>2, <4>3
      <3>4. QED
        BY <3>2, <3>3
    <2>5. h = Sums(r, s, h)
      <3>1. h = [t \in SUBSET s |-> h[t]]
        OBVIOUS
      <3> HIDE DEF h
      <3>2. QED
        BY <2>4, <3>1 DEF Sums
    <2>6. QED
      <3> HIDE DEF h
      <3> QED BY <2>5
  <1>2. \E f : f = Sums(r, S, f)
    BY <1>1
  <1>3. QED
    BY <1>2 DEF Solution

LEMMA SumOfRest ==
  ASSUME NEW r, NEW S, IsFiniteSet(S)
  PROVE  Sum(r, S) = IF S = {} THEN 0 ELSE r[First(S)] + Sum(r, Rest(S))
  <1> DEFINE f == Solution(r, S)  g == Solution(r, Rest(S))
  <1>1. f = Sums(r, S, f)
    BY SolutionExists
  <1>2. f[S] = (IF S = {} THEN 0 ELSE r[First(S)] + f[Rest(S)])
    BY <1>1 DEF Sums
  <1>3. ASSUME S # {} PROVE f[Rest(S)] = g[Rest(S)]
    <2>1. Rest(S) \in SUBSET S /\ IsFiniteSet(Rest(S))
      BY <1>3, RestIsSmaller, FS_Subset
    <2>2. g = Sums(r, Rest(S), g)
      BY <2>1, SolutionExists
    <2> HIDE DEF f, g
    <2>3. QED
      BY <1>1, <2>1, <2>2, SolutionsAgree
  <1>4. QED
    BY <1>2, <1>3 DEF Sum

\* Whichever day is taken first, the sum is the same.
LEMMA SumWithout ==
  ASSUME NEW r, NEW S, IsFiniteSet(S), \A day \in S : r[day] \in Nat
  PROVE  Sum(r, S) \in Nat /\ \A x \in S : Sum(r, S) = r[x] + Sum(r, S \ {x})
  <1> DEFINE Fine(s) == Sum(r, s) \in Nat /\ \A x \in s : Sum(r, s) = r[x] + Sum(r, s \ {x})
             T == {s \in SUBSET S : ~Fine(s)}
  <1>1. ASSUME T # {} PROVE FALSE
    <2>1. PICK s \in T : \A t \in T : <<t, s>> \notin StrictSubsetOrdering(S)
      <3>1. T \subseteq SUBSET S
        OBVIOUS
      <3> HIDE DEF T
      <3>2. QED
        BY <1>1, <3>1, SmallestSubset
    <2>2. ASSUME NEW t \in SUBSET s, t # s PROVE Fine(t)
      <3>1. t \in SUBSET S /\ <<t, s>> \in StrictSubsetOrdering(S)
        BY <2>2 DEF StrictSubsetOrdering
      <3>2. QED
        BY <2>1, <3>1
    <2>3. s \in SUBSET S /\ ~Fine(s) /\ IsFiniteSet(s)
      BY FS_Subset
    <2> HIDE DEF Fine, T
    <2>4. Sum(r, s) = IF s = {} THEN 0 ELSE r[First(s)] + Sum(r, Rest(s))
      BY <2>3, SumOfRest
    <2>5. s # {}
      BY <2>3, <2>4 DEF Fine
    <2>6. First(s) \in s /\ Rest(s) \in SUBSET s /\ Rest(s) # s
      BY <2>5, RestIsSmaller
    <2>7. Sum(r, Rest(s)) \in Nat /\ r[First(s)] \in Nat
      BY <2>2, <2>3, <2>6 DEF Fine
    <2>8. ASSUME NEW x \in s PROVE Sum(r, s) = r[x] + Sum(r, s \ {x})
      <3> DEFINE c == First(s)  both == s \ {c, x}
      <3>1. CASE x = c
        BY <2>4, <2>5, <3>1 DEF Rest
      <3>2. CASE x # c
        <4>1. x \in Rest(s) /\ Rest(s) \ {x} = both
          BY <3>2 DEF Rest
        <4>2. Sum(r, Rest(s)) = r[x] + Sum(r, both)
          BY <2>2, <2>6, <4>1 DEF Fine
        <4>3. c \in s \ {x} /\ (s \ {x}) \ {c} = both /\ s \ {x} \in SUBSET s /\ s \ {x} # s
          BY <2>6, <3>2
        <4>4. Sum(r, s \ {x}) = r[c] + Sum(r, both)
          BY <2>2, <4>3 DEF Fine
        <4>5. both \in SUBSET s /\ both # s
          BY <4>3
        <4>6. Sum(r, both) \in Nat /\ r[x] \in Nat /\ r[c] \in Nat
          BY <2>2, <2>3, <2>6, <4>5 DEF Fine
        <4> HIDE DEF both, c
        <4>7. QED
          BY <2>4, <2>5, <4>2, <4>4, <4>6 DEF c
      <3>3. QED
        BY <3>1, <3>2
    <2>9. QED
      BY <2>3, <2>4, <2>5, <2>7, <2>8 DEF Fine
  <1>2. QED
    BY <1>1

CalendarRates == [day \in Int |-> CalendarRate(day)]

\* MapThenSumSet computes the sum of the rates the calendar shows.
LEMMA CalendarSum ==
  ASSUME NEW S \in SUBSET Int, IsFiniteSet(S)
  PROVE  MapThenSumSet(CalendarRate, S) = Sum(CalendarRates, S)
  <1> DEFINE Eq(f) == [s \in SUBSET S |-> IF s = {} THEN 0 ELSE CalendarRate(First(s)) + f[Rest(s)]]
             F == CHOOSE f : f = Eq(f)
             r == CalendarRates
  <1>1. MapThenSumSet(CalendarRate, S) = F[S]
    BY DEF MapThenSumSet, MapThenFoldSet, First, Rest
  <1>2. ASSUME NEW f PROVE Eq(f) = Sums(r, S, f)
    <2>1. ASSUME NEW s \in SUBSET S, s # {} PROVE CalendarRate(First(s)) = r[First(s)]
      <3>1. First(s) \in Int
        BY <2>1, RestIsSmaller
      <3>2. QED
        BY <3>1 DEF CalendarRates
    <2> HIDE DEF r
    <2>2. QED
      BY <2>1 DEF Sums
  <1> HIDE DEF Eq, r
  <1>3. Solution(r, S) = Sums(r, S, Solution(r, S))
    BY SolutionExists
  <1>4. F = Eq(F)
    BY <1>2, <1>3
  <1>5. F = Sums(r, S, F)
    BY <1>2, <1>4
  <1> HIDE DEF F
  <1>6. F[S] = Solution(r, S)[S]
    BY <1>3, <1>5, SolutionsAgree
  <1>7. QED
    BY <1>1, <1>6 DEF Sum, r

-----------------------------------------------------------------------------
(* Prices: night by night *)

OfAStay == stage \in {"counting", "quoted", "checked in"}

\* What the weekend has added up to now, and when the quote is made.
UpliftSoFar ==
    OfAStay =>
        /\ stay.base \in Nat \ {0}
        /\ stage # "counting" => quote.base_total = counted.base_total /\ counted.night = stay.nights
        /\ stay.weekend >= stay.base => counted.uplift = counted.base_total - counted.night * stay.base

NightIsShown == counted'.base_total = counted.base_total + CalendarRate(stay.checkIn + counted.night)

LEMMA InitUplift == PricesInit => UpliftSoFar
  <1> SUFFICES ASSUME PricesInit, OfAStay PROVE UpliftSoFar
      BY DEF UpliftSoFar
  <1>1. stage = "counting" /\ stay.base \in Nat \ {0}
    BY PricesAssumption DEF OfAStay, PricesInit, Stays
  <1>2. counted.uplift = 0 /\ counted.base_total = 0 /\ counted.night = 0
    BY DEF PricesInit, NothingCounted
  <1>3. 0 = 0 - 0 * stay.base
    BY <1>1
  <1>4. QED
    BY <1>1, <1>2, <1>3 DEF UpliftSoFar

LEMMA NightAdds ==
    ASSUME MoneyInv, UpliftSoFar, CountNight
    PROVE  UpliftSoFar' /\ NightIsShown
  <1>1. stage = "counting" /\ stage' = "counting" /\ stay' = stay /\ stay.base \in Nat \ {0}
    BY DEF CountNight, UpliftSoFar, OfAStay
  <1>2. counted.night \in Nat /\ counted.base_total \in Nat /\ counted.uplift \in Nat
    BY DEF MoneyInv, PricesTypeOK
  <1>3. stay.weekend \in Nat
    BY DEF MoneyInv, Adding, Counting
  <1> DEFINE weekend == IsWeekend(stay.checkIn + counted.night) /\ HasWeekendRate
  <1>4. /\ counted'.night = counted.night + 1
        /\ counted'.base_total = counted.base_total + (IF weekend THEN stay.weekend ELSE stay.base)
        /\ counted'.uplift = counted.uplift + (IF weekend THEN Uplift ELSE 0)
    BY DEF CountNight
  <1>5. NightIsShown
    BY <1>4 DEF NightIsShown, CalendarRate, IsWeekend
  <1> HIDE DEF weekend
  <1>6. ASSUME stay.weekend >= stay.base
        PROVE  counted'.uplift = counted'.base_total - counted'.night * stay.base
    <2> DEFINE b == stay.base  n == counted.night  t == counted.base_total  u == counted.uplift
               x == stay.weekend  p == n * b
    <2>1. /\ b \in Nat /\ n \in Nat /\ t \in Nat /\ u \in Nat /\ x \in Nat /\ x >= b
      BY <1>1, <1>2, <1>3, <1>6
    <2>2. p \in Nat /\ (n + 1) * b = p + b
      BY <2>1
    <2>3. u = t - p
      BY <1>1, <1>6 DEF UpliftSoFar, OfAStay
    <2>4. Uplift = x - b
      BY <2>1 DEF Uplift
    <2> HIDE DEF b, n, t, u, x, p
    <2>5. u + (x - b) = (t + x) - (p + b) /\ u + 0 = (t + b) - (p + b)
      BY <2>1, <2>2, <2>3
    <2>6. QED
      BY <1>4, <2>2, <2>4, <2>5 DEF b, n, t, u, x
  <1>7. QED
    BY <1>1, <1>5, <1>6 DEF UpliftSoFar, OfAStay

\* What the nights counted so far come to on the calendar.
CountedSoFar ==
    OfAStay =>
        /\ stay.checkIn \in Int
        /\ CalendarRates \in [Int -> Nat]
        /\ counted.base_total =
               Sum(CalendarRates, stay.checkIn .. (stay.checkIn + counted.night - 1))

LEMMA InitCounted == PricesInit => CountedSoFar
  <1> SUFFICES ASSUME PricesInit, OfAStay
               PROVE  CountedSoFar
      BY DEF CountedSoFar
  <1>1. stage = "counting" /\ stay.checkIn \in Int /\ stay.base \in Nat /\ stay.weekend \in Nat
    <2>1. stage = "counting" /\ stay \in Stays
      BY DEF OfAStay, PricesInit
    <2>2. stay.checkIn \in 0..6 /\ stay.base \in Rates /\ stay.weekend \in Rates \cup {0}
      BY <2>1 DEF Stays, NoRate
    <2>3. Rates \subseteq Nat /\ Rates \cup {0} \subseteq Nat
      BY PricesAssumption
    <2>4. stay.checkIn \in Int
      BY <2>2
    <2>5. QED
      BY <2>1, <2>2, <2>3, <2>4
  <1>2. \A day \in Int : CalendarRate(day) \in Nat
    BY <1>1 DEF CalendarRate
  <1>3. stay.checkIn .. (stay.checkIn + 0 - 1) = {}
    BY <1>1
  <1>4. Sum(CalendarRates, {}) = 0
    BY SumOfRest, FS_EmptySet
  <1>5. counted.night = 0 /\ counted.base_total = 0
    BY DEF PricesInit, NothingCounted
  <1>6. QED
    BY <1>1, <1>2, <1>3, <1>4, <1>5 DEF CountedSoFar, CalendarRates

LEMMA NightIsSummed ==
    ASSUME MoneyInv, UpliftSoFar, CountedSoFar, CountNight
    PROVE  CountedSoFar'
  <1> DEFINE c == stay.checkIn  n == counted.night  days == c .. (c + n - 1)
             more == c .. (c + n)  r == CalendarRates
  <1>1. stage = "counting" /\ stage' = "counting" /\ stay' = stay /\ counted'.night = n + 1
    BY DEF CountNight
  <1>2. n \in Nat /\ c \in Int /\ r \in [Int -> Nat] /\ counted.base_total = Sum(r, days)
    BY <1>1 DEF MoneyInv, PricesTypeOK, CountedSoFar, OfAStay
  <1> HIDE DEF c, n
  <1>3. counted'.base_total = Sum(r, days) + r[c + n]
    <2>1. counted'.base_total = counted.base_total + CalendarRate(c + n)
      BY NightAdds DEF NightIsShown, c, n
    <2>2. c + n \in Int
      BY <1>2
    <2>3. r[c + n] = CalendarRate(c + n)
      BY <2>2 DEF CalendarRates
    <2>4. QED
      BY <1>2, <2>1, <2>3
  <1>4. CalendarRates' = r
    BY <1>1 DEF CalendarRates, CalendarRate, HasWeekendRate
  <1> HIDE DEF r
  <1>5. more \in SUBSET Int /\ c + n \in more /\ more \ {c + n} = days
    <2>1. n \in Nat /\ c \in Int
      BY <1>2
    <2>2. c + n \in more
      BY <2>1
    <2>3. more \ {c + n} = days
      BY <2>1
    <2>4. more \in SUBSET Int
      BY <2>1
    <2>5. QED
      BY <2>2, <2>3, <2>4
  <1>6. IsFiniteSet(more)
    BY <1>2, FS_Interval
  <1>7. Sum(r, more) = r[c + n] + Sum(r, days) /\ Sum(r, days) \in Nat /\ r[c + n] \in Nat
    <2>1. \A day \in more : r[day] \in Nat
      BY <1>2, <1>5
    <2>2. Sum(r, days) \in Nat
      <3>1. IsFiniteSet(days) /\ \A day \in days : r[day] \in Nat
        BY <1>5, <1>6, <2>1, FS_Subset
      <3>2. QED
        BY <3>1, SumWithout
    <2> HIDE DEF more, days
    <2>3. Sum(r, more) = r[c + n] + Sum(r, more \ {c + n})
      <3> DEFINE today == c + n
      <3>1. today \in more
        BY <1>5
      <3> HIDE DEF today
      <3>2. Sum(r, more) = r[today] + Sum(r, more \ {today})
        BY <1>6, <2>1, <3>1, SumWithout
      <3>3. QED
        BY <3>2 DEF today
    <2>4. QED
      BY <1>2, <1>5, <2>2, <2>3
  <1>8. counted'.base_total = Sum(r, more)
    BY <1>3, <1>7
  <1>9. more = c .. (c + (n + 1) - 1)
    BY <1>2
  <1>10. QED
    BY <1>1, <1>2, <1>4, <1>8, <1>9 DEF CountedSoFar, c, n, OfAStay

\* For any rates and any number of nights: a guest is quoted for a stay what the
\* host's calendar shows for its days, and the uplift is what the weekend adds to
\* the base rate (pricing.py, dashboards/service.py).
THEOREM GuestsPayTheCalendar == PricesSpec => []QuoteFitsCalendar
  <1>1. PricesInit => UpliftSoFar /\ CountedSoFar
    BY InitUplift, InitCounted
  <1>2. MoneyInv /\ UpliftSoFar /\ CountedSoFar /\ [PricesNext]_priceVars
            => UpliftSoFar' /\ CountedSoFar'
    <2> SUFFICES ASSUME MoneyInv, UpliftSoFar, CountedSoFar, [PricesNext]_priceVars
                 PROVE  UpliftSoFar' /\ CountedSoFar'
        OBVIOUS
    <2>1. CASE CountNight
      BY <2>1, NightAdds, NightIsSummed
    <2>2. CASE Quote \/ CheckIn \/ Charge \/ UNCHANGED priceVars
      <3>1. stay' = stay /\ counted' = counted /\ CalendarRates' = CalendarRates
        BY <2>2 DEF Quote, CheckIn, Charge, priceVars, CalendarRates, CalendarRate, HasWeekendRate
      <3>2. CountedSoFar'
        BY <2>2, <3>1 DEF Quote, CheckIn, Charge, priceVars, CountedSoFar, OfAStay
      <3>3. UpliftSoFar'
        <4>1. CASE Quote
          BY <4>1 DEF Quote, UpliftSoFar, OfAStay
        <4>2. CASE CheckIn
          BY <4>2 DEF CheckIn, UpliftSoFar, OfAStay
        <4>3. CASE Charge
          BY <4>3 DEF Charge, UpliftSoFar, OfAStay
        <4>4. CASE UNCHANGED priceVars
          BY <4>4 DEF priceVars, UpliftSoFar, OfAStay
        <4>5. QED
          BY <2>2, <4>1, <4>2, <4>3, <4>4
      <3>4. QED
        BY <3>2, <3>3
    <2>3. QED
      BY <2>1, <2>2 DEF PricesNext
  <1>3. MoneyInv /\ UpliftSoFar /\ CountedSoFar => QuoteFitsCalendar
    <2> SUFFICES ASSUME MoneyInv, UpliftSoFar, CountedSoFar, OfAStay, stage # "counting"
                 PROVE  /\ quote.base_total = MapThenSumSet(CalendarRate, StayDays)
                        /\ stay.weekend >= stay.base =>
                               counted.uplift = quote.base_total - stay.nights * stay.base
        BY DEF QuoteFitsCalendar, OfAStay
    <2>1. /\ quote.base_total = counted.base_total /\ counted.night = stay.nights
          /\ stay.weekend >= stay.base =>
                 counted.uplift = counted.base_total - counted.night * stay.base
      BY DEF UpliftSoFar
    <2>2. counted.base_total = Sum(CalendarRates, StayDays)
      BY <2>1 DEF CountedSoFar, StayDays
    <2>3. StayDays \in SUBSET Int /\ IsFiniteSet(StayDays)
      <3>1. stay.checkIn \in Int
        BY DEF CountedSoFar
      <3>2. counted.night \in Nat
        BY DEF MoneyInv, PricesTypeOK
      <3> DEFINE first == stay.checkIn  last == stay.checkIn + stay.nights - 1
      <3>3. stay.nights \in Int
        BY <2>1, <3>2
      <3>4. first \in Int /\ last \in Int
        BY <3>1, <3>3
      <3> HIDE DEF first, last
      <3>5. IsFiniteSet(first .. last)
        BY <3>4, FS_Interval
      <3>6. first .. last \in SUBSET Int
        BY <3>4
      <3>7. QED
        BY <3>5, <3>6 DEF StayDays, first, last
    <2>4. QED
      BY <2>1, <2>2, <2>3, CalendarSum
  <1>4. QED
    BY <1>1, <1>2, <1>3, MoneyInvariance, PTL DEF PricesSpec

-----------------------------------------------------------------------------
(* Notifications: the invariant *)

Stored == {"QUEUED", "SENT", "FAILED"}

\* The row follows the transaction that adds it.
RowFollowsSession ==
    /\ session = "idle" => notice = "none" /\ task = "none"
    /\ session = "open" => notice \in {"none", "flushed"}
    /\ session = "committed" => notice # "flushed"
    /\ session = "rolled back" => notice = "none"

\* A worker that got past _load_notification has a committed row.
LoadedHasRow ==
    task \in {"loaded", "unsendable", "accepted", "refused", "done"} => notice \in Stored

\* The deliveries of a task that was never queued, and of one that is accepted.
DeliveriesHaveTask ==
    /\ task = "none" => sent = 0 /\ retries = 0
    /\ task = "accepted" => sent > 0
    /\ sent > 0 => session = "committed"

\* OneMessagePerRun, for the runs that have not sent yet too.
RunsAreCounted ==
    /\ sent <= retries + 1
    /\ task \in {"none", "queued", "loaded", "unsendable"} => sent <= retries

\* NotificationsTypeOK in two parts: types and counters, and flags.
Typed ==
    /\ call \in Calls /\ channel \in Channels
    /\ session \in {"idle", "open", "committed", "rolled back"}
    /\ notice \in {"none", "flushed"} \cup Stored
    /\ task \in {"none", "queued", "loaded", "unsendable", "accepted", "refused",
                 "done", "failed", "lost"}
    /\ retries \in Nat /\ retries <= MaxRetries
    /\ sent \in Nat

Flags == read \in BOOLEAN /\ phone \in BOOLEAN

Core ==
    /\ Typed
    /\ RowFollowsSession
    /\ LoadedHasRow
    /\ DeliveriesHaveTask
    /\ RunsAreCounted
    /\ SentWasDelivered

\* The open transaction has added the row, and a committed row has its task.
Tasks ==
    /\ session = "open" /\ HasRow => notice = "flushed"
    /\ CommittedHasTask

DeliveryInv == Core /\ Flags /\ Tasks

USE NotificationsAssumption

LEMMA InitDeliveryInv == NotificationsInit => DeliveryInv
  <1> SUFFICES ASSUME NotificationsInit PROVE DeliveryInv
      OBVIOUS
  <1>1. Flags
    BY DEF NotificationsInit, Flags
  <1>2. Core
    BY DEF NotificationsInit, Core, Typed, RowFollowsSession, LoadedHasRow, DeliveriesHaveTask,
           RunsAreCounted, SentWasDelivered, Stored
  <1>3. Tasks
    BY DEF NotificationsInit, Tasks, CommittedHasTask
  <1>4. QED
    BY <1>1, <1>2, <1>3 DEF DeliveryInv

\* A task that ran is queued once more with its retries counted, or it ends.
LEMMA RetryCounts ==
    ASSUME Core, Retry, sent' = sent
    PROVE  /\ task' \in {"queued", "failed"}
           /\ retries' \in Nat /\ retries' <= MaxRetries
           /\ RunsAreCounted'
  <1>1. retries \in Nat /\ retries <= MaxRetries /\ sent \in Nat /\ sent <= retries + 1
    BY DEF Core, Typed, RunsAreCounted
  <1>2. CASE retries < MaxRetries /\ task' = "queued" /\ retries' = retries + 1
    <2>1. retries' \in Nat /\ retries' <= MaxRetries /\ sent' <= retries'
      BY <1>1, <1>2
    <2>2. sent' <= retries' + 1
      BY <1>1, <1>2
    <2>3. QED
      BY <1>2, <2>1, <2>2 DEF RunsAreCounted
  <1>3. CASE retries = MaxRetries /\ task' = "failed" /\ UNCHANGED retries
    <2>1. retries' \in Nat /\ retries' <= MaxRetries /\ sent' <= retries' + 1
      BY <1>1, <1>3
    <2>2. QED
      BY <1>3, <2>1 DEF RunsAreCounted
  <1>4. QED
    BY <1>2, <1>3 DEF Retry

\* Whether the channel has a row is settled by the call.
LEMMA HasRowStays ==
    ASSUME UNCHANGED <<call, channel>>
    PROVE  HasRow' <=> HasRow
  BY DEF HasRow, Message

LEMMA TasksStay == DeliveryInv /\ [NotificationsNext]_notificationVars => Tasks'
  <1> SUFFICES ASSUME DeliveryInv, [NotificationsNext]_notificationVars PROVE Tasks'
      OBVIOUS
  <1>1. UNCHANGED <<call, channel>>
    BY DEF NotificationsNext, Deliver, AddRow, Delay, CommitRequest, RollBackRequest, Load, GiveUp,
           Send, Mark, MarkFails, WorkerDies, MarkRead, notificationVars
  <1>2. HasRow' <=> HasRow
    BY <1>1, HasRowStays
  <1>3. CASE AddRow
    BY <1>2, <1>3 DEF AddRow, Tasks, CommittedHasTask
  <1>4. CASE CommitRequest
    BY <1>1, <1>4 DEF CommitRequest, TaskIsQueued, NeedsTask, DeliveryInv, Tasks, CommittedHasTask
  <1>5. CASE RollBackRequest
    BY <1>5 DEF RollBackRequest, Tasks, CommittedHasTask
  <1>6. CASE Delay \/ Load \/ GiveUp \/ Send \/ Mark \/ MarkFails \/ WorkerDies \/ MarkRead
             \/ UNCHANGED notificationVars
    <2>1. session' = session /\ (task' # "none" \/ task' = task)
      BY <1>6 DEF Delay, Load, GiveUp, Send, Answers, Mark, MarkFails, Retry, WorkerDies, MarkRead,
                  notificationVars
    <2>2. \/ notice' = notice
          \/ task \in {"unsendable", "accepted", "refused"} /\ notice' \in Stored
      BY <1>6 DEF Delay, Load, GiveUp, Send, Mark, MarkFails, StatusToMark, WorkerDies, MarkRead,
                  Stored, notificationVars
    <2>3. task \in {"unsendable", "accepted", "refused"} => session # "open"
      BY DEF DeliveryInv, Core, LoadedHasRow, RowFollowsSession, Stored
    <2>4. QED
      BY <1>1, <1>2, <2>1, <2>2, <2>3 DEF DeliveryInv, Tasks, CommittedHasTask
  <1>7. QED
    BY <1>3, <1>4, <1>5, <1>6 DEF NotificationsNext, Deliver

LEMMA FlagsStay == DeliveryInv /\ [NotificationsNext]_notificationVars => Flags'
  <1> SUFFICES ASSUME DeliveryInv, [NotificationsNext]_notificationVars PROVE Flags'
      OBVIOUS
  <1>1. phone' = phone /\ (read' = read \/ read' = TRUE)
    BY DEF NotificationsNext, Deliver, AddRow, Delay, CommitRequest, RollBackRequest, Load, GiveUp,
           Send, Mark, MarkFails, WorkerDies, MarkRead, notificationVars
  <1>2. QED
    BY <1>1 DEF DeliveryInv, Flags

-----------------------------------------------------------------------------
(* Notifications: the request *)

LEMMA AddRowKeeps == Core /\ AddRow => Core'
  BY DEF AddRow, Core, Typed, RowFollowsSession, LoadedHasRow, DeliveriesHaveTask,
         RunsAreCounted, SentWasDelivered, Stored

LEMMA DelayKeeps == Core /\ Delay => Core'
  BY DEF Delay, NeedsTask, Core, Typed, RowFollowsSession, LoadedHasRow, DeliveriesHaveTask,
         RunsAreCounted, SentWasDelivered, Stored

LEMMA CommitRequestKeeps == Core /\ CommitRequest => Core'
  BY DEF CommitRequest, TaskIsQueued, NeedsTask, Core, Typed, RowFollowsSession, LoadedHasRow, DeliveriesHaveTask,
         RunsAreCounted, SentWasDelivered, Stored

LEMMA RollBackRequestKeeps == Core /\ RollBackRequest => Core'
  BY DEF RollBackRequest, Core, Typed, RowFollowsSession, LoadedHasRow, DeliveriesHaveTask,
         RunsAreCounted, SentWasDelivered, Stored

-----------------------------------------------------------------------------
(* Notifications: the worker *)

LEMMA LoadKeeps == Core /\ Load => Core'
  <1> SUFFICES ASSUME Core, Load PROVE Core'
      OBVIOUS
  <1>1. CASE Visible /\ task' = "loaded" /\ UNCHANGED retries
    BY <1>1
       DEF Load, Visible, Core, Typed, RowFollowsSession, LoadedHasRow, DeliveriesHaveTask,
           RunsAreCounted, SentWasDelivered, Stored
  <1>2. CASE Retry
    <2>1. task = "queued" /\ UNCHANGED <<call, channel, session, notice, sent>>
      BY DEF Load
    <2>2. /\ task' \in {"queued", "failed"}
          /\ retries' \in Nat /\ retries' <= MaxRetries
          /\ RunsAreCounted'
      BY <1>2, <2>1, RetryCounts
    <2>3. Typed'
      BY <2>1, <2>2 DEF Core, Typed, Stored
    <2>4. RowFollowsSession' /\ LoadedHasRow'
      BY <2>1, <2>2 DEF Core, RowFollowsSession, LoadedHasRow, Stored
    <2>5. DeliveriesHaveTask' /\ SentWasDelivered'
      BY <2>1, <2>2 DEF Core, DeliveriesHaveTask, SentWasDelivered
    <2>6. QED
      BY <2>2, <2>3, <2>4, <2>5 DEF Core
  <1>3. QED
    BY <1>1, <1>2 DEF Load

LEMMA GiveUpKeeps == Core /\ GiveUp => Core'
  BY DEF GiveUp, Core, Typed, RowFollowsSession, LoadedHasRow, DeliveriesHaveTask,
         RunsAreCounted, SentWasDelivered, Stored

LEMMA SendKeeps == Core /\ Send => Core'
  <1> SUFFICES ASSUME Core, Send PROVE Core'
      OBVIOUS
  <1>1. /\ UNCHANGED <<call, channel, session, notice, retries>>
        /\ task = "loaded"
        /\ \/ sent' = sent + 1 /\ task' \in {"accepted", "refused"}
           \/ sent' = sent /\ task' = "refused"
    BY DEF Send, Answers
  <1>2. CASE sent' = sent /\ task' = "refused"
    <2>1. Typed' /\ RunsAreCounted'
      BY <1>1, <1>2 DEF Core, Typed, RunsAreCounted, Stored
    <2>2. RowFollowsSession' /\ LoadedHasRow'
      BY <1>1, <1>2 DEF Core, RowFollowsSession, LoadedHasRow, Stored
    <2>3. DeliveriesHaveTask' /\ SentWasDelivered'
      BY <1>1, <1>2 DEF Core, Typed, RowFollowsSession, LoadedHasRow, DeliveriesHaveTask, SentWasDelivered, Stored
    <2>4. QED
      BY <2>1, <2>2, <2>3 DEF Core
  <1>3. CASE sent' = sent + 1 /\ task' \in {"accepted", "refused"}
    <2>1. sent \in Nat /\ sent <= retries /\ retries \in Nat /\ session = "committed"
      BY <1>1 DEF Core, Typed, RunsAreCounted, LoadedHasRow, RowFollowsSession, Stored
    <2>2. Typed' /\ RunsAreCounted'
      BY <1>1, <1>3, <2>1 DEF Core, Typed, RunsAreCounted
    <2>3. QED
      BY <1>1, <1>3, <2>1, <2>2
         DEF Core, RowFollowsSession, LoadedHasRow, DeliveriesHaveTask,
             SentWasDelivered, Stored
  <1>4. QED
    BY <1>1, <1>2, <1>3

LEMMA MarkKeeps == Core /\ Mark => Core'
  <1> SUFFICES ASSUME Core, Mark PROVE Core'
      OBVIOUS
  <1>1. CASE task = "refused" /\ Retry
    <2>1. notice' = "FAILED" /\ UNCHANGED <<call, channel, session, sent>>
      BY <1>1 DEF Mark, StatusToMark
    <2>2. /\ task' \in {"queued", "failed"}
          /\ retries' \in Nat /\ retries' <= MaxRetries
          /\ RunsAreCounted'
      BY <1>1, <2>1, RetryCounts
    <2>3. Typed'
      BY <1>1, <2>1, <2>2 DEF Core, Typed, Stored
    <2>4. RowFollowsSession' /\ LoadedHasRow'
      BY <1>1, <2>1, <2>2 DEF Core, RowFollowsSession, LoadedHasRow, Stored
    <2>5. DeliveriesHaveTask' /\ SentWasDelivered'
      BY <1>1, <2>1, <2>2 DEF Core, DeliveriesHaveTask, SentWasDelivered
    <2>6. QED
      BY <2>2, <2>3, <2>4, <2>5 DEF Core
  <1>2. CASE task # "refused"
    BY <1>2
       DEF Mark, StatusToMark, Core, Typed, RowFollowsSession, LoadedHasRow, DeliveriesHaveTask,
           RunsAreCounted, SentWasDelivered, Stored
  <1>3. QED
    BY <1>1, <1>2 DEF Mark

LEMMA MarkFailsKeeps == Core /\ MarkFails => Core'
  <1> SUFFICES ASSUME Core, MarkFails PROVE Core'
      OBVIOUS
  <1>1. /\ UNCHANGED <<call, channel, session, sent>>
        /\ task \in {"unsendable", "accepted", "refused"}
        /\ notice' \in {notice, "FAILED", "SENT"}
        /\ notice' = "SENT" => notice = "SENT" \/ task = "accepted"
    BY DEF MarkFails, StatusToMark
  <1>2. /\ task' \in {"queued", "failed"}
        /\ retries' \in Nat /\ retries' <= MaxRetries
        /\ RunsAreCounted'
    BY <1>1, RetryCounts DEF MarkFails
  <1>3. Typed'
    BY <1>1, <1>2 DEF Core, Typed, Stored
  <1>4. RowFollowsSession' /\ LoadedHasRow'
    BY <1>1, <1>2 DEF Core, RowFollowsSession, LoadedHasRow, Stored
  <1>5. DeliveriesHaveTask' /\ SentWasDelivered'
    BY <1>1, <1>2 DEF Core, DeliveriesHaveTask, SentWasDelivered
  <1>6. QED
    BY <1>2, <1>3, <1>4, <1>5 DEF Core

LEMMA WorkerDiesKeeps == Core /\ WorkerDies => Core'
  BY DEF WorkerDies, Core, Typed, RowFollowsSession, LoadedHasRow, DeliveriesHaveTask,
         RunsAreCounted, SentWasDelivered, Stored

LEMMA MarkReadKeeps == Core /\ MarkRead => Core'
  BY DEF MarkRead, Core, Typed, RowFollowsSession, LoadedHasRow, DeliveriesHaveTask,
         RunsAreCounted, SentWasDelivered, Stored

LEMMA StutterKeeps == Core /\ UNCHANGED notificationVars => Core'
  BY DEF notificationVars, Core, Typed, RowFollowsSession, LoadedHasRow, DeliveriesHaveTask,
         RunsAreCounted, SentWasDelivered, Stored

-----------------------------------------------------------------------------
(* Notifications: the theorems *)

\* The inductive invariant.
THEOREM DeliveryInvariance == NotificationsSpec => []DeliveryInv
  <1>1. NotificationsInit => DeliveryInv
    BY InitDeliveryInv
  <1>2. Core /\ [NotificationsNext]_notificationVars => Core'
    BY AddRowKeeps, DelayKeeps, CommitRequestKeeps, RollBackRequestKeeps, LoadKeeps, GiveUpKeeps,
       SendKeeps, MarkKeeps, MarkFailsKeeps, WorkerDiesKeeps, MarkReadKeeps, StutterKeeps
       DEF NotificationsNext, Deliver
  <1>3. DeliveryInv /\ [NotificationsNext]_notificationVars => DeliveryInv'
    BY <1>2, FlagsStay, TasksStay DEF DeliveryInv
  <1>4. QED
    BY <1>1, <1>3, PTL DEF NotificationsSpec

\* Types, and only the row of a committed request has a status (dispatch.py).
LEMMA TypeCorrectness == NotificationsSpec => []NotificationsTypeOK
  <1>1. DeliveryInv => NotificationsTypeOK
    <2> SUFFICES ASSUME DeliveryInv PROVE NotificationsTypeOK
        OBVIOUS
    <2>0. retries \in Nat /\ retries <= MaxRetries
      BY DEF DeliveryInv, Core, Typed
    <2>00. retries \in 0 .. MaxRetries
      BY <2>0
    <2>1. Typed /\ (notice \in Stored => session = "committed")
      BY DEF DeliveryInv, Core, Typed, RowFollowsSession, Stored
    <2>2. Flags
      BY DEF DeliveryInv
    <2>3. QED
      BY <2>00, <2>1, <2>2 DEF Typed, Flags, Stored, NotificationsTypeOK
  <1>2. QED
    BY <1>1, DeliveryInvariance, PTL

\* Nobody gets a message about something that was rolled back, although its
\* task may be taken before the commit, and again after each retry (dispatch.py).
LEMMA MessagesAreCommitted == NotificationsSpec => []NoGhostMessage
  <1>1. DeliveryInv => NoGhostMessage
    BY DEF DeliveryInv, Core, DeliveriesHaveTask, NoGhostMessage
  <1>2. QED
    BY <1>1, DeliveryInvariance, PTL

\* A row is SENT only if the provider delivered its message (tasks.py).
LEMMA SentMeansDelivered == NotificationsSpec => []SentWasDelivered
  <1>1. DeliveryInv => SentWasDelivered
    BY DEF DeliveryInv, Core
  <1>2. QED
    BY <1>1, DeliveryInvariance, PTL

\* Nobody gets a message more than 1 + max_retries times, whatever is lost
\* between the worker, the provider and the database (tasks.py).
THEOREM MessagesAreBounded == NotificationsSpec => [](OneMessagePerRun /\ sent <= MaxRetries + 1)
  <1>1. DeliveryInv => OneMessagePerRun /\ sent <= MaxRetries + 1
    <2> SUFFICES ASSUME DeliveryInv PROVE OneMessagePerRun /\ sent <= MaxRetries + 1
        OBVIOUS
    <2>1. retries \in Nat /\ retries <= MaxRetries /\ sent \in Nat
      BY DEF DeliveryInv, Core, Typed
    <2>2. sent <= retries + 1 /\ (task = "queued" => sent <= retries)
      BY DEF DeliveryInv, Core, RunsAreCounted
    <2>3. CASE task = "queued"
      BY <2>1, <2>2, <2>3 DEF OneMessagePerRun
    <2>4. CASE task # "queued"
      BY <2>1, <2>2, <2>4 DEF OneMessagePerRun
    <2>5. QED
      BY <2>3, <2>4
  <1>2. QED
    BY <1>1, DeliveryInvariance, PTL

\* A committed row has, or had, the task that delivers it (dispatch.py).
LEMMA CommittedIsDelivered == NotificationsSpec => []CommittedHasTask
  <1>1. DeliveryInv => CommittedHasTask
    BY DEF DeliveryInv, Tasks
  <1>2. QED
    BY <1>1, DeliveryInvariance, PTL

\* What users are told was committed, and what was committed has the task that
\* delivers it, a bounded number of times: for every bound on retries and every
\* failure of worker, provider and database (dispatch.py, tasks.py).
THEOREM NotificationsAreSound == NotificationsSpec => []NotificationsInv
  <1>1. /\ NotificationsTypeOK /\ NoGhostMessage /\ SentWasDelivered
        /\ (OneMessagePerRun /\ sent <= MaxRetries + 1) /\ CommittedHasTask
        => NotificationsInv
    BY DEF NotificationsInv
  <1>2. QED
    BY <1>1, TypeCorrectness, MessagesAreCommitted, SentMeansDelivered, MessagesAreBounded,
       CommittedIsDelivered, PTL

-----------------------------------------------------------------------------
(* Notifications: what messages show *)

\* Each key a renderer shows is in the payload, or has words of its own.
RenderFits(render, payload) ==
    \A medium \in DOMAIN render : (render[medium] \ payload) \ HasWording = {}

CallFits(c) == \A template \in REGISTRY : template.event = c.event => RenderFits(template.render, c.payload)

LEMMA EmailFits ==
  ASSUME NEW shown, NEW payload, shown \subseteq payload \cup HasWording
  PROVE  RenderFits(Email(shown), payload)
  BY DEF Email, RenderFits

LEMMA WhatsAppFits ==
  ASSUME NEW shown, NEW payload, shown \subseteq payload \cup HasWording
  PROVE  RenderFits(WhatsApp(shown), payload)
  BY DEF WhatsApp, RenderFits

LEMMA BothFit ==
  ASSUME NEW email, NEW whatsapp, NEW payload,
         email \subseteq payload \cup HasWording, whatsapp \subseteq payload \cup HasWording
  PROVE  RenderFits(Both(email, whatsapp), payload)
  BY DEF RenderFits, Both

LEMMA UnrenderedFits ==
  ASSUME NEW payload PROVE RenderFits(Unrendered, payload)
  BY DEF RenderFits, Unrendered

\* Each payload, but for one, against the template of its event.
LEMMA CallsFit == ASSUME NEW c \in Calls, c # CallAccessWithoutDetails PROVE CallFits(c)
  <1> USE DEF CallFits, Call, Title, Template, InApp, ByEmail, ByWhatsApp, Everywhere
  <1> USE EmailFits, WhatsAppFits, BothFit, UnrenderedFits
  <1>1. CallFits(CallOfferReceived)
    BY DEF REGISTRY, CallOfferReceived, NewOfferWhatsApp, HasWording
  <1>2. CallFits(CallOfferCountered)
    BY DEF REGISTRY, CallOfferCountered, OfferCounteredWhatsApp, HasWording
  <1>3. CallFits(CallOfferAccepted)
    BY DEF REGISTRY, CallOfferAccepted, OfferAcceptedEmail, OfferAcceptedWhatsApp, HasWording
  <1>4. CallFits(CallOfferRejected)
    BY DEF REGISTRY, CallOfferRejected, Unrendered, HasWording
  <1>5. CallFits(CallOfferExpired)
    BY DEF REGISTRY, CallOfferExpired, OfferExpiredEmail, OfferExpiredWhatsApp, HasWording
  <1>6. CallFits(CallOfferUrgent)
    BY DEF REGISTRY, CallOfferUrgent, ExpiringRender, OfferExpiringEmail, OfferExpiringWhatsApp,
           HasWording
  <1>7. CallFits(CallOfferExpiring)
    BY DEF REGISTRY, CallOfferExpiring, ExpiringRender, OfferExpiringEmail,
           OfferExpiringWhatsApp, HasWording
  <1>8. CallFits(CallAgentConflict)
    BY DEF REGISTRY, CallAgentConflict, VisitCancelledEmail, VisitCancelledWhatsApp, HasWording
  <1>9. CallFits(CallVisitConfirmed)
    BY DEF REGISTRY, CallVisitConfirmed, VisitConfirmedEmail, VisitConfirmedWhatsApp, HasWording
  <1>10. CallFits(CallVisitCancelled)
    BY DEF REGISTRY, CallVisitCancelled, VisitCancelledEmail, VisitCancelledWhatsApp, HasWording
  <1>11. CallFits(CallReportApproved)
    BY DEF REGISTRY, CallReportApproved, VisitReportApprovedEmail, HasWording
  <1>12. CallFits(CallReportQueried)
    BY DEF REGISTRY, CallReportQueried, Unrendered, HasWording
  <1>13. CallFits(CallVisitAssigned)
    BY DEF REGISTRY, CallVisitAssigned, VisitAssignedWhatsApp, HasWording
  <1>14. CallFits(CallAgreementReady)
    BY DEF REGISTRY, CallAgreementReady, AgreementReadyEmail, AgreementReadyWhatsApp, HasWording
  <1>15. CallFits(CallInvoiceIssued)
    BY DEF REGISTRY, CallInvoiceIssued, SalesInvoiceEmail, HasWording
  <1>16. CallFits(CallAgreementSigned)
    BY DEF REGISTRY, CallAgreementSigned, AgreementSignedEmail, HasWording
  <1>17. CallFits(CallRenewalPrompt)
    BY DEF REGISTRY, CallRenewalPrompt, RenewalPromptEmail, HasWording
  <1>18. CallFits(CallInstantBooking)
    BY DEF REGISTRY, CallInstantBooking, BookingConfirmedEmail, BookingConfirmedWhatsApp, HasWording
  <1>19. CallFits(CallBookingRequested)
    BY DEF REGISTRY, CallBookingRequested, BookingRequestedEmail, BookingRequestedWhatsApp,
           HasWording
  <1>20. CallFits(CallRequestAccepted)
    BY DEF REGISTRY, CallRequestAccepted, BookingConfirmedEmail, BookingConfirmedWhatsApp,
           HasWording
  <1>21. CallFits(CallRequestDeclined)
    BY DEF REGISTRY, CallRequestDeclined, BookingDeclinedEmail, HasWording
  <1>22. CallFits(CallRequestLapsed)
    BY DEF REGISTRY, CallRequestLapsed, BookingDeclinedEmail, HasWording
  <1>23. CallFits(CallBookingCancelled)
    BY DEF REGISTRY, CallBookingCancelled, BookingCancelledEmail, HasWording
  <1>24. CallFits(CallAccessReleased)
    BY DEF REGISTRY, CallAccessReleased, AccessDetailsEmail, AccessDetailsWhatsApp, HasWording
  <1>25. CallFits(CallHostPayout)
    BY DEF REGISTRY, CallHostPayout, HostPayoutEmail, HasWording
  <1>26. CallFits(CallBadgeAwarded)
    BY DEF REGISTRY, CallBadgeAwarded, BadgeIssuedEmail, BadgeIssuedWhatsApp, HasWording
  <1>27. CallFits(CallListingQueried)
    BY DEF REGISTRY, CallListingQueried, ListingQueriedEmail, HasWording
  <1>28. CallFits(CallListingRejected)
    BY DEF REGISTRY, CallListingRejected, ListingRejectedEmail, HasWording
  <1>29. CallFits(CallNinVerified)
    BY DEF REGISTRY, CallNinVerified, NinVerifiedEmail, HasWording
  <1>30. CallFits(CallNinRejected)
    BY DEF REGISTRY, CallNinRejected, NinRejectedEmail, HasWording
  <1>31. CallFits(CallInspectionSubmitted)
    BY DEF REGISTRY, CallInspectionSubmitted, HasWording
  <1>32. CallFits(CallInvoiceWithoutLink)
    BY DEF REGISTRY, CallInvoiceWithoutLink, SalesInvoiceEmail, HasWording
  <1>33. QED
    BY <1>1, <1>2, <1>3, <1>4, <1>5, <1>6, <1>7, <1>8, <1>9, <1>10, <1>11, <1>12, <1>13, <1>14,
       <1>15, <1>16, <1>17, <1>18, <1>19, <1>20, <1>21, <1>22, <1>23, <1>24, <1>25, <1>26,
       <1>27, <1>28, <1>29, <1>30, <1>31, <1>32 DEF Calls

\* Without the details that were not saved the email lacks those, and nothing else.
LEMMA WithoutDetailsFits ==
  ASSUME NEW template \in REGISTRY, template.event = CallAccessWithoutDetails.event,
         NEW medium \in DOMAIN template.render
  PROVE  (template.render[medium] \ CallAccessWithoutDetails.payload) \ HasWording
             \subseteq {"access_details"}
  <1>1. template = Everywhere("access_details.released", Both(AccessDetailsEmail, AccessDetailsWhatsApp))
    BY DEF REGISTRY, CallAccessWithoutDetails, Call, Template, InApp, ByEmail, ByWhatsApp, Everywhere
  <1>2. template.render = Both(AccessDetailsEmail, AccessDetailsWhatsApp)
    BY <1>1 DEF Everywhere, Template
  <1>3. template.render[medium] \in {AccessDetailsEmail, AccessDetailsWhatsApp}
    BY <1>2 DEF Both
  <1>4. QED
    BY <1>3 DEF AccessDetailsEmail, AccessDetailsWhatsApp, CallAccessWithoutDetails, Call, Title, HasWording

\* A channel with a row is one of a registered template.
RowIsRegistered == notice # "none" => HasRow

\* What a message of the call may lack.
MayLack == IF call = CallAccessWithoutDetails THEN {"access_details"} ELSE {}

BlankInv == RowIsRegistered /\ blanks \subseteq MayLack

LEMMA SendShows ==
  ASSUME DeliveryInv, RowIsRegistered, Send PROVE Blank \subseteq MayLack
  <1>1. task = "loaded" /\ HasRenderer
    BY DEF Send
  <1>2. notice # "none" /\ call \in Calls
    BY <1>1 DEF DeliveryInv, Core, Typed, LoadedHasRow, Stored
  <1>3. \E template \in REGISTRY : template.event = call.event
    BY <1>2 DEF RowIsRegistered, HasRow
  <1>4. Message \in REGISTRY /\ Message.event = call.event
    BY <1>3 DEF Message
  <1>5. CASE call = CallAccessWithoutDetails
    <2>1. Blank \subseteq {"access_details"}
      BY <1>1, <1>4, <1>5, WithoutDetailsFits DEF HasRenderer, Blank
    <2>2. QED
      BY <1>5, <2>1 DEF MayLack
  <1>6. CASE call # CallAccessWithoutDetails
    <2>1. RenderFits(Message.render, call.payload)
      BY <1>2, <1>4, <1>6, CallsFit DEF CallFits
    <2>2. QED
      BY <1>1, <2>1 DEF RenderFits, HasRenderer, Blank
  <1>7. QED
    BY <1>5, <1>6

\* For every call of dispatch_notification and every bound on retries, the one
\* value a message that is sent may show and lack are the access details of a
\* host who saved none (templates.py; bookings/service.py).
THEOREM OnlyDetailsAreMissing == NotificationsSpec => []OnlyDetailsAreBlank
  <1>1. NotificationsInit => BlankInv
    BY DEF NotificationsInit, BlankInv, RowIsRegistered
  <1>2. DeliveryInv /\ BlankInv /\ [NotificationsNext]_notificationVars => BlankInv'
    <2> SUFFICES ASSUME DeliveryInv, BlankInv, [NotificationsNext]_notificationVars PROVE BlankInv'
        OBVIOUS
    <2>1. UNCHANGED <<call, channel>>
      BY DEF NotificationsNext, Deliver, AddRow, Delay, CommitRequest, RollBackRequest, Load, GiveUp,
             Send, Mark, MarkFails, WorkerDies, MarkRead, notificationVars
    <2>2. (HasRow' <=> HasRow) /\ MayLack' = MayLack
      BY <2>1, HasRowStays DEF MayLack
    <2>3. CASE Send
      BY <2>2, <2>3, SendShows DEF Send, BlankInv, RowIsRegistered
    <2>4. CASE AddRow \/ CommitRequest \/ RollBackRequest
      BY <2>2, <2>4 DEF AddRow, CommitRequest, RollBackRequest, BlankInv, RowIsRegistered
    <2>5. CASE Mark \/ MarkFails
      BY <2>2, <2>5 DEF Mark, MarkFails, BlankInv, RowIsRegistered, DeliveryInv, Core, LoadedHasRow, Stored
    <2>6. CASE Delay \/ Load \/ GiveUp \/ WorkerDies \/ MarkRead \/ UNCHANGED notificationVars
      BY <2>2, <2>6 DEF Delay, Load, GiveUp, WorkerDies, MarkRead, notificationVars, BlankInv,
                        RowIsRegistered
    <2>7. QED
      BY <2>3, <2>4, <2>5, <2>6 DEF NotificationsNext, Deliver
  <1>3. BlankInv => OnlyDetailsAreBlank
    BY DEF BlankInv, MayLack, OnlyDetailsAreBlank
  <1>4. QED
    BY <1>1, <1>2, <1>3, DeliveryInvariance, PTL DEF NotificationsSpec

-----------------------------------------------------------------------------
(* Chat: the invariant *)

USE SessionsAssumption, ChatAssumption

Lists == BoundedSeq(Catalogue, ResultLimit)

\* Whole exchanges, question before answer.
Exchanges ==
    {t \in Seq({"user", "assistant"}) :
        /\ Len(t) <= MaxTurns /\ Len(t) % 2 = 0
        /\ \A i \in 1 .. Len(t) : t[i] = IF i % 2 = 1 THEN "user" ELSE "assistant"}

NothingFound(x) == x.parameters.category = Nothing => x.results = <<>>

StoredSessions == {s \in [parameters : Parameters, results : Lists, turns : Exchanges] : NothingFound(s)}

\* What a reply points at: one listing, or nothing.
Single == {s \in Lists : Len(s) <= 1}

Replies ==
    {p \in [parameters : Parameters, results : Lists, lists : BOOLEAN, points : Single] :
        NothingFound(p)}

Asks ==
    {Idle} \cup [op : {"interpret"}, state : StoredSessions, attempts : 0 .. LlmAttempts]
           \cup [op : {"save"}, turns : Exchanges, ordinal : SUBSET (0 .. ResultLimit), reply : Replies]

\* The list the user was shown is what the session knows, or the session was lost.
Seen(results) == results = listed \/ results = <<>>

OfTheList(r) ==
    /\ r.op = "interpret" => Seen(r.state.results)
    /\ r.op = "save" =>
         /\ r.reply.lists \/ Seen(r.reply.results)
         /\ r.reply.points # <<>> => \A n \in r.ordinal : r.reply.points = Nth(listed, n)

OneAsks == \A v, w \in Workers : asked[v] # Idle /\ asked[w] # Idle => v = w

SessionInv ==
    /\ overlap \in BOOLEAN
    /\ market \subseteq Catalogue
    /\ chat # Nothing => chat \in StoredSessions
    /\ asked \in [Workers -> Asks]
    /\ listed \in Lists
    /\ screen \in Lists
    /\ ~overlap =>
         /\ OneAsks
         /\ screen = listed \/ screen \in Single
         /\ chat # Nothing => Seen(chat.results)
         /\ \A w \in Workers : OfTheList(asked[w])

-----------------------------------------------------------------------------
(* Chat: turns *)

LEMMA Parity ==
  ASSUME NEW m \in Nat, NEW n \in Nat, m % 2 = 0, n % 2 = 0
  PROVE  /\ (m + 2) % 2 = 0
         /\ m > n => m - n \in Nat /\ (m - n) % 2 = 0
         /\ \A i \in Nat : (i + m) % 2 = i % 2
         /\ (m + 1) % 2 = 1
  OBVIOUS

\* An exchange is added, and the oldest are dropped whole.
LEMMA TrimmedFits ==
  ASSUME NEW turns \in Exchanges
  PROVE  Trimmed(turns \o <<"user", "assistant">>) \in Exchanges
  <1> DEFINE t == turns \o <<"user", "assistant">>
             n == Len(turns)
             R == {"user", "assistant"}
  <1>1. turns \in Seq(R) /\ n \in Nat /\ n <= MaxTurns /\ n % 2 = 0
    BY DEF Exchanges
  <1>2. t \in Seq(R) /\ Len(t) = n + 2
    BY <1>1
  <1>3. /\ \A i \in 1 .. n : t[i] = turns[i]
        /\ t[n + 1] = "user" /\ t[n + 2] = "assistant"
    BY <1>1
  <1>4. /\ (n + 2) % 2 = 0 /\ (n + 1) % 2 = 1
    BY <1>1, Parity
  <1>5. \A i \in 1 .. Len(t) : t[i] = IF i % 2 = 1 THEN "user" ELSE "assistant"
    <2> SUFFICES ASSUME NEW i \in 1 .. Len(t)
                 PROVE  t[i] = IF i % 2 = 1 THEN "user" ELSE "assistant"
        OBVIOUS
    <2>1. i \in 1 .. n \/ i = n + 1 \/ i = n + 2
      BY <1>1, <1>2
    <2>2. CASE i \in 1 .. n
      BY <1>3, <2>2 DEF Exchanges
    <2>3. CASE i = n + 1
      BY <1>3, <1>4, <2>3
    <2>4. CASE i = n + 2
      BY <1>3, <1>4, <2>4
    <2>5. QED
      BY <2>1, <2>2, <2>3, <2>4
  <1> HIDE DEF t, n
  <1>6. CASE Len(t) > MaxTurns
    <2> DEFINE k == Len(t) - MaxTurns
               s == SubSeq(t, k + 1, Len(t))
    <2>1. k \in Nat /\ k % 2 = 0 /\ Len(t) = k + MaxTurns /\ Len(t) \in Nat
      BY <1>1, <1>2, <1>4, <1>6, Parity
    <2> HIDE DEF k
    <2>2. \A i \in k + 1 .. Len(t) : t[i] \in R
      BY <1>2, <2>1
    <2>3. k + 1 \in Int /\ Len(t) \in Int /\ k + 1 <= Len(t)
      BY <2>1
    <2>4. /\ s \in Seq(R)
          /\ Len(s) = Len(t) - (k + 1) + 1
          /\ \A i \in 1 .. Len(t) - (k + 1) + 1 : s[i] = t[k + 1 + i - 1]
      BY <2>2, <2>3, SubSeqProperties
    <2>5. Len(s) = MaxTurns
      BY <2>1, <2>4
    <2> HIDE DEF s
    <2>6. \A i \in 1 .. Len(s) : s[i] = IF i % 2 = 1 THEN "user" ELSE "assistant"
      <3> SUFFICES ASSUME NEW i \in 1 .. Len(s)
                   PROVE  s[i] = IF i % 2 = 1 THEN "user" ELSE "assistant"
          OBVIOUS
      <3>1. s[i] = t[i + k] /\ i + k \in 1 .. Len(t) /\ i \in Nat
        <4>1. i \in Nat /\ i <= MaxTurns /\ i \in 1 .. Len(t) - (k + 1) + 1
          BY <2>1, <2>5
        <4>2. i + k \in 1 .. Len(t) /\ k + 1 + i - 1 = i + k
          BY <2>1, <4>1
        <4>3. QED
          BY <2>4, <4>1, <4>2
      <3>2. (i + k) % 2 = i % 2
        BY <2>1, <3>1, Parity
      <3>3. QED
        BY <1>5, <3>1, <3>2
    <2>7. s \in Exchanges
      BY <2>4, <2>5, <2>6 DEF Exchanges
    <2>8. Trimmed(t) = s
      BY <1>6 DEF Trimmed, s, k
    <2>9. QED
      BY <2>7, <2>8 DEF t
  <1>7. CASE ~(Len(t) > MaxTurns)
    <2>1. Trimmed(t) = t
      BY <1>7 DEF Trimmed
    <2>2. t \in Exchanges
      BY <1>1, <1>2, <1>4, <1>5, <1>7 DEF Exchanges
    <2>3. QED
      BY <2>1, <2>2 DEF t
  <1>8. QED
    BY <1>6, <1>7

-----------------------------------------------------------------------------
(* Chat: results *)

LEMMA SequenceOfSet ==
  ASSUME NEW S, IsFiniteSet(S)
  PROVE  Cardinality(S) \in Nat /\ SetToSeq(S) \in [1 .. Cardinality(S) -> S]
  <1>1. Cardinality(S) \in Nat /\ ExistsBijection(1 .. Cardinality(S), S)
    BY FS_CardinalityType
  <1>2. \E f \in [1 .. Cardinality(S) -> S] : IsInjective(f)
    BY <1>1 DEF ExistsBijection, Bijection, Injection
  <1>3. QED
    BY <1>1, <1>2 DEF SetToSeq

LEMMA CatalogueIsFinite == IsFiniteSet(Catalogue)
  <1> DEFINE T == Categories \X SUBSET Amenities
             f == [l \in Catalogue |-> <<l.category, l.amenities>>]
  <1>1. IsFiniteSet(T)
    BY FS_SUBSET, FS_Product
  <1>2. f \in [Catalogue -> T]
    BY DEF Catalogue
  <1>3. \A a, b \in Catalogue : f[a] = f[b] => a = b
    BY DEF Catalogue
  <1>4. f \in Injection(Catalogue, T)
    BY <1>2, <1>3 DEF Injection, IsInjective
  <1> HIDE DEF T, f
  <1>5. QED
    BY <1>1, <1>4, FS_Injection

\* No listing is without a category.
LEMMA FoundFits ==
  ASSUME market \subseteq Catalogue, NEW p
  PROVE  Found(p) \in Lists /\ (p.category = Nothing => Found(p) = <<>>)
  <1> DEFINE S == {l \in market : Satisfies(l, p)}
             ranked == SetToSeq(S)
             n == Cardinality(S)
             m == IF n < ResultLimit THEN n ELSE ResultLimit
  <1>1. IsFiniteSet(S) /\ S \subseteq Catalogue
    BY CatalogueIsFinite, FS_Subset
  <1>2. n \in Nat /\ ranked \in [1 .. n -> S]
    BY <1>1, SequenceOfSet
  <1>3. p.category = Nothing => n = 0
    <2>1. p.category = Nothing => S = {}
      BY DEF Satisfies, Catalogue
    <2>2. QED
      BY <2>1, FS_EmptySet
  <1> HIDE DEF n, ranked, S
  <1>4. Len(ranked) = n /\ \A i \in 1 .. n : ranked[i] \in Catalogue
    <2>1. ranked \in Seq(S) /\ DOMAIN ranked = 1 .. n
      BY <1>2
    <2>2. QED
      BY <1>1, <1>2, <2>1
  <1>5. Found(p) = SubSeq(ranked, 1, m)
    BY <1>4 DEF Found, ranked, S
  <1>6. m \in 0 .. ResultLimit /\ m <= n
    BY <1>2
  <1> HIDE DEF m
  <1>7. \A i \in 1 .. m : ranked[i] \in Catalogue
    BY <1>2, <1>4, <1>6
  <1>8. Found(p) \in Seq(Catalogue) /\ Len(Found(p)) = m
    <2>1. m \in Int /\ 1 \in Int
      BY <1>6
    <2>2. SubSeq(ranked, 1, m) \in Seq(Catalogue) /\ Len(SubSeq(ranked, 1, m)) = IF 1 <= m THEN m - 1 + 1 ELSE 0
      BY <1>7, <2>1, SubSeqProperties
    <2>3. QED
      BY <1>5, <1>6, <2>2
  <1>9. Found(p) \in [1 .. m -> Catalogue]
    BY <1>8
  <1>10. Found(p) \in Lists
    BY <1>6, <1>9 DEF Lists, BoundedSeq, SeqOf
  <1>11. p.category = Nothing => Found(p) = <<>>
    BY <1>2, <1>3, <1>8 DEF m
  <1>12. QED
    BY <1>10, <1>11

\* The parts of a session that is stored or was loaded.
LEMMA SessionParts ==
  ASSUME NEW s \in StoredSessions
  PROVE  s.parameters \in Parameters /\ s.results \in Lists /\ s.turns \in Exchanges /\ NothingFound(s)
  BY DEF StoredSessions

LEMMA EmptyIsSingle == <<>> \in Lists /\ <<>> \in Single
  <1>1. <<>> \in [1 .. 0 -> Catalogue] /\ 0 \in 0 .. ResultLimit
    OBVIOUS
  <1>2. QED
    BY <1>1 DEF Single, Lists, BoundedSeq, SeqOf

LEMMA NthIsListing ==
  ASSUME NEW results \in Lists, NEW n PROVE Nth(results, n) \in Single
  <1>1. PICK m \in 0 .. ResultLimit : results \in [1 .. m -> Catalogue]
    BY DEF Lists, BoundedSeq, SeqOf
  <1>2. CASE n \in DOMAIN results
    <2>1. PICK l \in Catalogue : Nth(results, n) = <<l>>
      BY <1>1, <1>2 DEF Nth
    <2>2. <<l>> \in [1 .. 1 -> Catalogue] /\ Len(<<l>>) = 1 /\ 1 \in 0 .. ResultLimit
      OBVIOUS
    <2>3. QED
      BY <2>1, <2>2 DEF Single, Lists, BoundedSeq, SeqOf
  <1>3. CASE n \notin DOMAIN results
    BY <1>3, EmptyIsSingle DEF Nth
  <1>4. QED
    BY <1>2, <1>3

-----------------------------------------------------------------------------
(* Chat: replies *)

\* A reply that shows no list keeps the results, and what an ordinal points at
\* is one of them.
ReplyFits(p, state, reference) ==
    /\ p \in Replies
    /\ p.lists => p.points = <<>>
    /\ ~p.lists => p.results = state.results
    /\ reference.kind = "ordinal" /\ p.points # <<>> => p.points = Nth(state.results, reference.index)

LEMMA MergedFits ==
  ASSUME NEW previous \in Parameters, NEW incoming \in Parameters
  PROVE  /\ Merged(previous, incoming) \in Parameters
         /\ Merged(previous, incoming).category = Nothing => previous.category = Nothing
  BY DEF Merged, Parameters

LEMMA RefinedFits ==
  ASSUME NEW q \in Parameters, NEW reference
  PROVE  /\ Refined(q, reference) \in Parameters
         /\ Refined(q, reference).category = q.category
  BY DEF Refined, Narrowed, Normalised, Parameters

LEMMA ListFits ==
  ASSUME market \subseteq Catalogue, NEW q \in Parameters, NEW state, NEW reference
  PROVE  ReplyFits(List(q), state, reference)
  <1>1. Found(q) \in Lists /\ (q.category = Nothing => Found(q) = <<>>)
    BY FoundFits
  <1>2. QED
    BY <1>1, EmptyIsSingle DEF List, ReplyFits, Replies, NothingFound

LEMMA PointFits ==
  ASSUME NEW state \in StoredSessions, NEW q \in Parameters, NEW shown \in Single,
         NEW reference,
         q.category = Nothing => state.parameters.category = Nothing,
         reference.kind = "ordinal" /\ shown # <<>> => shown = Nth(state.results, reference.index)
  PROVE  ReplyFits(Point(state, q, shown), state, reference)
  <1>1. state.results \in Lists /\ NothingFound(state)
    BY SessionParts
  <1>2. QED
    BY <1>1 DEF Point, ReplyFits, Replies, NothingFound

LEMMA ResolvedFits ==
  ASSUME market \subseteq Catalogue, NEW state \in StoredSessions, NEW q, NEW reference \in References
  PROVE  /\ Resolved(reference, state, q) \in Single
         /\ reference.kind = "ordinal" =>
              Resolved(reference, state, q) = Nth(state.results, reference.index)
  <1>1. state.results \in Lists
    BY SessionParts
  <1>2. Nth(state.results, reference.index) \in Single
    BY <1>1, NthIsListing
  <1>3. Nth(Found(Narrowed(q, reference.amenity)), 1) \in Single
    BY FoundFits, NthIsListing
  <1>4. QED
    BY <1>2, <1>3, EmptyIsSingle DEF Resolved

LEMMA SearchFits ==
  ASSUME market \subseteq Catalogue, NEW state \in StoredSessions, NEW q \in Parameters, NEW reference,
         q.category = Nothing => state.parameters.category = Nothing
  PROVE  ReplyFits(Search(state, q), state, reference)
  <1>1. ReplyFits(List(q), state, reference)
    BY ListFits
  <1>2. ReplyFits(AskBack(state, q), state, reference)
    BY PointFits, EmptyIsSingle DEF AskBack
  <1>3. QED
    BY <1>1, <1>2 DEF Search

LEMMA ReplyAlwaysFits ==
  ASSUME market \subseteq Catalogue, NEW state \in StoredSessions, NEW said \in Interpretations
  PROVE  ReplyFits(Reply(state, said), state, said.reference)
  <1> DEFINE q == Merged(state.parameters, said.parameters)
             ref == said.reference
             refined == Refined(q, ref)
             chosen == Resolved(ref, state, q)
  <1>1. /\ said.parameters \in Parameters /\ ref \in References
        /\ said.intent \in {"search", "clarification", "information", "transactional"}
    BY DEF Interpretations
  <1>2. state.parameters \in Parameters
    BY SessionParts
  <1>3. q \in Parameters /\ (q.category = Nothing => state.parameters.category = Nothing)
    BY <1>1, <1>2, MergedFits
  <1> HIDE DEF q, ref
  <1>4. refined \in Parameters /\ refined.category = q.category
    BY <1>3, RefinedFits
  <1>5. chosen \in Single /\ (ref.kind = "ordinal" => chosen = Nth(state.results, ref.index))
    BY <1>1, ResolvedFits
  <1> HIDE DEF refined, chosen
  <1>6. ReplyFits(AskBack(state, state.parameters), state, ref)
    BY <1>2, PointFits, EmptyIsSingle DEF AskBack
  <1>7. ReplyFits(Search(state, q), state, ref)
    BY <1>3, SearchFits
  <1>8. ReplyFits(List(refined), state, ref)
    BY <1>4, ListFits
  <1>9. ReplyFits(Point(state, q, chosen), state, ref)
    BY <1>3, <1>5, PointFits
  <1>10. ReplyFits(Point(state, refined, chosen), state, ref)
    BY <1>3, <1>4, <1>5, PointFits
  <1>11. ReplyFits(Clarify(state, q, ref), state, ref)
    BY <1>7, <1>8, <1>9 DEF Clarify, refined, chosen
  <1>12. ReplyFits(Transact(state, q, ref), state, ref)
    BY <1>8, <1>10 DEF Transact, refined, chosen
  <1>13. QED
    BY <1>1, <1>6, <1>7, <1>11, <1>12 DEF Reply, q, ref

-----------------------------------------------------------------------------
(* Chat: the invariant holds *)

LEMMA NewSessionIsStored == NewSession \in StoredSessions
  <1>1. <<>> \in Exchanges
    BY DEF Exchanges
  <1>2. [category |-> Nothing, amenities |-> {}] \in Parameters
    BY DEF Parameters
  <1>3. QED
    BY <1>1, <1>2, EmptyIsSingle DEF NewSession, StoredSessions, NothingFound

LEMMA AskTypes ==
  ASSUME NEW r \in Asks
  PROVE  /\ r.op = "interpret" => r.state \in StoredSessions /\ r.attempts \in 0 .. LlmAttempts
         /\ r.op = "save" =>
              r.turns \in Exchanges /\ r.ordinal \in SUBSET (0 .. ResultLimit) /\ r.reply \in Replies
         /\ r = Idle <=> r.op = "idle"
         /\ r.op \in {"idle", "interpret", "save"}
  BY DEF Asks, Idle

LEMMA InitSessionInv == ChatInit => SessionInv
  <1> SUFFICES ASSUME ChatInit PROVE SessionInv
      OBVIOUS
  <1>1. overlap \in BOOLEAN /\ market \subseteq Catalogue /\ chat = Nothing
        /\ listed = <<>> /\ screen = <<>>
    BY DEF ChatInit
  <1>2. asked \in [Workers -> Asks] /\ \A w \in Workers : asked[w] = Idle
    BY DEF ChatInit, Asks
  <1>3. \A w \in Workers : OfTheList(asked[w])
    <2>1. OfTheList(Idle)
      BY DEF OfTheList, Idle
    <2>2. QED
      BY <1>2, <2>1
  <1>4. QED
    BY <1>1, <1>2, <1>3, EmptyIsSingle DEF SessionInv, OneAsks

\* A request is opened or goes on, or ends with an error.
LEMMA AskMoves ==
  ASSUME SessionInv, NEW w \in Workers, NEW r \in Asks, asked' = [asked EXCEPT ![w] = r],
         UNCHANGED <<overlap, market, chat, listed, screen>>,
         asked[w] # Idle \/ MayStart(asked),
         ~overlap => OfTheList(r)
  PROVE  SessionInv'
  <1>1. /\ asked' \in [Workers -> Asks]
        /\ \A v \in Workers : asked'[v] = IF v = w THEN r ELSE asked[v]
    BY DEF SessionInv
  <1>2. ~overlap => OneAsks'
    BY <1>1 DEF SessionInv, OneAsks, MayStart
  <1>3. ~overlap => \A v \in Workers : OfTheList(asked[v])'
    <2> SUFFICES ASSUME ~overlap, NEW v \in Workers PROVE OfTheList(asked[v])'
        OBVIOUS
    <2>1. PICK x \in Asks : x = asked'[v] /\ OfTheList(x)
      BY <1>1 DEF SessionInv
    <2>2. QED
      BY <2>1 DEF OfTheList, Seen
  <1>4. QED
    BY <1>1, <1>2, <1>3 DEF SessionInv, Seen

LEMMA AskFailsKeeps ==
  ASSUME SessionInv, NEW w \in Workers, AskFails(w) PROVE SessionInv'
  <1>1. Idle \in Asks /\ OfTheList(Idle)
    BY DEF Asks, OfTheList, Idle
  <1>2. QED
    BY <1>1, AskMoves DEF AskFails, panelVars

LEMMA AskKeeps ==
  ASSUME SessionInv, NEW w \in Workers, Ask(w) PROVE SessionInv'
  <1>1. PICK n \in {0, LlmAttempts} :
            asked' = [asked EXCEPT ![w] = [op |-> "interpret", state |-> LoadSession, attempts |-> n]]
    BY DEF Ask
  <1> DEFINE r == [op |-> "interpret", state |-> LoadSession, attempts |-> n]
  <1>2. LoadSession \in StoredSessions
    BY NewSessionIsStored DEF LoadSession, SessionInv
  <1>3. ~overlap => Seen(LoadSession.results)
    BY DEF LoadSession, SessionInv, NewSession, Seen
  <1>4. r \in Asks /\ (~overlap => OfTheList(r))
    <2>1. n \in 0 .. LlmAttempts
      OBVIOUS
    <2>2. QED
      BY <1>2, <1>3, <2>1 DEF Asks, OfTheList
  <1> HIDE DEF r
  <1>5. asked' = [asked EXCEPT ![w] = r]
    BY <1>1 DEF r
  <1>6. QED
    BY <1>4, <1>5, AskMoves DEF Ask, panelVars

LEMMA LlmFailsKeeps ==
  ASSUME SessionInv, NEW w \in Workers, LlmFails(w) PROVE SessionInv'
  <1>1. PICK r \in Asks : r = asked[w] /\ (~overlap => OfTheList(r))
    BY DEF SessionInv
  <1>2. /\ r.op = "interpret" /\ r # Idle /\ r.attempts < LlmAttempts /\ r.attempts \in 0 .. LlmAttempts
        /\ r.state \in StoredSessions
    BY <1>1, AskTypes DEF LlmFails, Idle
  <1>3. r \in [op : {"interpret"}, state : StoredSessions, attempts : 0 .. LlmAttempts]
    BY <1>2 DEF Asks, Idle
  <1> DEFINE s == [r EXCEPT !.attempts = @ + 1]
  <1>4. r.attempts + 1 \in 0 .. LlmAttempts
    BY <1>2
  <1>5. s \in [op : {"interpret"}, state : StoredSessions, attempts : 0 .. LlmAttempts]
    BY <1>3, <1>4
  <1>6. s.op = "interpret" /\ s.state = r.state
    BY <1>2, <1>3
  <1>7. asked' = [asked EXCEPT ![w] = s]
    BY <1>1 DEF LlmFails, SessionInv
  <1> HIDE DEF s
  <1>8. s \in Asks /\ (~overlap => OfTheList(s))
    BY <1>1, <1>2, <1>5, <1>6 DEF Asks, OfTheList
  <1>9. QED
    BY <1>1, <1>2, <1>7, <1>8, AskMoves DEF LlmFails, panelVars

\* What an ordinal points at is of the last list: a session that was lost has
\* no results to point at.
LEMMA HandleKeeps ==
  ASSUME SessionInv, NEW w \in Workers, NEW said \in Interpretations, Handle(w, said) PROVE SessionInv'
  <1> DEFINE ref == said.reference
             numbers == {x.index : x \in {ref} \cap Ordinals}
  <1>1. PICK q \in Asks : q = asked[w] /\ (~overlap => OfTheList(q))
    BY DEF SessionInv
  <1>2. q.op = "interpret" /\ q # Idle
    BY <1>1 DEF Handle, Idle
  <1>3. PICK s \in StoredSessions : q.state = s
    BY <1>2, AskTypes
  <1>4. PICK p : p = Reply(s, said)
    OBVIOUS
  <1>5. ReplyFits(p, s, ref)
    BY <1>4, ReplyAlwaysFits DEF SessionInv
  <1>6. \A n \in numbers : n \in 0 .. ResultLimit /\ ref.kind = "ordinal" /\ n = ref.index
    BY DEF Ordinals
  <1> HIDE DEF ref, numbers
  <1> DEFINE r == [op |-> "save", turns |-> s.turns, ordinal |-> numbers, reply |-> p]
  <1>7. asked' = [asked EXCEPT ![w] = r]
    BY <1>1, <1>3, <1>4 DEF Handle, ref, numbers
  <1>8. r.op = "save" /\ r.turns = s.turns /\ r.ordinal = numbers /\ r.reply = p
    OBVIOUS
  <1>9. r \in Asks
    <2>1. s.turns \in Exchanges /\ p \in Replies
      BY <1>5, SessionParts DEF ReplyFits
    <2>2. numbers \in SUBSET (0 .. ResultLimit)
      BY <1>6
    <2>3. QED
      BY <2>1, <2>2 DEF Asks
  <1> HIDE DEF r
  <1>10. ASSUME ~overlap PROVE OfTheList(r)
    <2>1. Seen(s.results)
      BY <1>1, <1>2, <1>3, <1>10 DEF OfTheList
    <2>2. p.lists \/ Seen(p.results)
      BY <1>5, <2>1 DEF ReplyFits
    <2>3. ASSUME p.points # <<>>, NEW n \in numbers PROVE p.points = Nth(listed, n)
      <3>1. p.points = Nth(s.results, n)
        BY <1>5, <1>6, <2>3 DEF ReplyFits
      <3>2. Nth(<<>>, n) = <<>>
        BY DEF Nth
      <3>3. QED
        BY <2>1, <2>3, <3>1, <3>2 DEF Seen
    <2>4. QED
      BY <1>8, <2>2, <2>3 DEF OfTheList
  <1>11. QED
    BY <1>1, <1>2, <1>7, <1>9, <1>10, AskMoves DEF Handle, panelVars

LEMMA SaveKeeps ==
  ASSUME SessionInv, NEW w \in Workers, Save(w) PROVE SessionInv'
  <1>1. PICK r \in Asks : r = asked[w] /\ r.op = "save" /\ r # Idle /\ (~overlap => OfTheList(r))
    BY DEF SessionInv, Save, Idle
  <1>2. PICK p \in Replies, t \in Exchanges : r.reply = p /\ r.turns = t
    BY <1>1, AskTypes
  <1>3. /\ chat' = [parameters |-> p.parameters,
                    results    |-> p.results,
                    turns      |-> Trimmed(t \o <<"user", "assistant">>)]
        /\ overlap => UNCHANGED <<listed, screen>>
        /\ ~overlap => /\ listed' = IF p.lists THEN p.results ELSE listed
                       /\ screen' = IF p.lists THEN p.results ELSE p.points
        /\ asked' = [asked EXCEPT ![w] = Idle]
        /\ UNCHANGED <<overlap, market>>
    BY <1>1, <1>2 DEF Save, Shown, panelVars
  <1>4. p.parameters \in Parameters /\ p.results \in Lists /\ p.points \in Single /\ NothingFound(p)
    BY DEF Replies
  <1>5. chat' \in StoredSessions /\ chat'.results = p.results
    BY <1>3, <1>4, TrimmedFits DEF StoredSessions, NothingFound
  <1>6. /\ listed' \in Lists /\ screen' \in Lists
        /\ ~overlap => screen' = listed' \/ screen' \in Single
    <2>1. listed \in Lists /\ screen \in Lists /\ p.points \in Lists
      BY <1>4 DEF SessionInv, Single
    <2>2. CASE overlap
      BY <1>3, <2>1, <2>2
    <2>3. CASE ~overlap
      BY <1>3, <1>4, <2>1, <2>3
    <2>4. QED
      BY <2>2, <2>3
  <1>7. /\ asked' \in [Workers -> Asks]
        /\ ~overlap => \A v \in Workers : asked'[v] = Idle
    BY <1>1, <1>3 DEF SessionInv, Asks, OneAsks
  <1>8. ~overlap => Seen(chat.results)'
    BY <1>1, <1>2, <1>3, <1>5 DEF OfTheList, Seen
  <1>9. ~overlap => OneAsks' /\ \A v \in Workers : OfTheList(asked[v])'
    BY <1>7 DEF OneAsks, OfTheList, Idle
  <1>10. QED
    BY <1>3, <1>5, <1>6, <1>7, <1>8, <1>9 DEF SessionInv

LEMMA OthersKeep ==
  ASSUME SessionInv, Expire \/ NewChat \/ MarketMoves \/ UNCHANGED chatVars PROVE SessionInv'
  <1>1. CASE Expire
    BY <1>1 DEF Expire, panelVars, SessionInv, OneAsks, OfTheList, Seen
  <1>2. CASE NewChat
    <2>1. /\ chat' = Nothing /\ listed' = <<>> /\ screen' = <<>> /\ UNCHANGED <<overlap, market>>
          /\ asked' \in [Workers -> Asks] /\ \A w \in Workers : asked'[w] = Idle
      BY <1>2 DEF NewChat, Asks
    <2>2. OneAsks' /\ \A w \in Workers : OfTheList(asked[w])'
      BY <2>1 DEF OneAsks, OfTheList, Idle
    <2>3. QED
      BY <2>1, <2>2, EmptyIsSingle DEF SessionInv
  <1>3. CASE MarketMoves
    <2>1. market' \subseteq Catalogue /\ UNCHANGED <<overlap, chat, asked, listed, screen>>
      BY <1>3 DEF MarketMoves, panelVars, SessionInv
    <2>2. QED
      BY <2>1 DEF SessionInv, OneAsks, OfTheList, Seen
  <1>4. CASE UNCHANGED chatVars
    BY <1>4 DEF chatVars, panelVars, SessionInv, OneAsks, OfTheList, Seen
  <1>5. QED
    BY <1>1, <1>2, <1>3, <1>4

\* For any categories, amenities, market, limits and attempts: a stored session
\* consists of whole exchanges and has no results without a category, however
\* requests overlap, and, one at a time, an ordinal counts in the window if that
\* shows more than one listing, and in the last list otherwise
\* (ai_search/service.py, session_store.py).
THEOREM SessionsHoldTogether == ChatSpec => []ChatInv
  <1>1. ChatInit => SessionInv
    BY InitSessionInv
  <1>2. SessionInv /\ [ChatNext]_chatVars => SessionInv'
    BY AskKeeps, LlmFailsKeeps, HandleKeeps, SaveKeeps, AskFailsKeeps, OthersKeep
       DEF ChatNext, LlmAnswers, FallBack
  <1>3. SessionInv => ChatInv
    <2> SUFFICES ASSUME SessionInv PROVE ChatInv
        OBVIOUS
    <2>1. ChatTypeOK
      <3>1. chat # Nothing =>
               /\ chat.parameters \in Parameters /\ chat.results \in Lists /\ chat.turns \in Exchanges
        BY SessionParts DEF SessionInv
      <3>2. \A w \in Workers : asked[w] = Idle \/ asked[w].op \in {"interpret", "save"}
        BY AskTypes DEF SessionInv
      <3>3. \A t \in Exchanges :
               /\ Len(t) <= MaxTurns
               /\ \A i \in DOMAIN t : t[i] = IF i % 2 = 1 THEN "user" ELSE "assistant"
        BY DEF Exchanges
      <3>4. QED
        BY <3>1, <3>2, <3>3 DEF SessionInv, ChatTypeOK, Lists
    <2>2. OrdinalIsInTheList
      <3> DEFINE seen == IF Len(screen) > 1 THEN screen ELSE listed
      <3> SUFFICES ASSUME NEW w \in Workers, asked[w].op = "save", asked[w].reply.points # <<>>,
                          NEW n \in asked[w].ordinal, ~overlap
                   PROVE  n \in DOMAIN seen /\ asked[w].reply.points = <<seen[n]>>
          BY DEF OrdinalIsInTheList
      <3>1. asked[w].reply.points = Nth(listed, n)
        BY DEF SessionInv, OfTheList
      <3>2. seen = listed
        BY DEF SessionInv, Single
      <3>3. QED
        BY <3>1, <3>2 DEF Nth
    <2>3. NoCategoryNoResults
      BY SessionParts DEF SessionInv, NoCategoryNoResults, NothingFound
    <2>4. QED
      BY <2>1, <2>2, <2>3 DEF ChatInv
  <1>4. QED
    BY <1>1, <1>2, <1>3, PTL DEF ChatSpec

=============================================================================
