------------------------------- MODULE Prices -------------------------------
(***************************************************************************)
(* What a short-let guest pays and its host gets: the quote               *)
(* (backend/app/bookings/pricing.py) counted night by night, the amounts   *)
(* submit_booking stores, the charge it asks Paystack for, the payout of   *)
(* confirm_check_in, and the rates the host's calendar shows               *)
(* (backend/app/dashboards/service.py); and the fees an agreement charges  *)
(* (agreements/service.py, _initiate_payments).  Amounts are in kobo.      *)
(***************************************************************************)
EXTENDS Fees, FiniteSets, FiniteSetsExt

CONSTANTS
    Rates,        \* nightly rates a host may set
    MaxNights,    \* bound: nights of a stay
    DealPrices    \* annual rents and sale prices agreed on

ASSUME PricesAssumption ==
    /\ Rates \subseteq Nat \ {0}
    /\ MaxNights \in Nat \ {0}
    /\ DealPrices \subseteq Nat \ {0}

VARIABLES
    stay,       \* check-in (a day of the week), nights, base and weekend rate
    counted,    \* the loop of stay_price: nights counted, and its sums
    stage,      \* "counting", "quoted", "checked in"; "agreed", "charged"
    quote,      \* the BookingQuoteCalc, then columns of the booking
    payout,     \* booking.payout_amount
    deal,       \* an agreement's category and price
    fees        \* its *_fee_total columns

priceVars == <<stay, counted, stage, quote, payout, deal, fees>>

\* weekend_rate is None.
NoRate == 0

Stays == [checkIn : 0..6, nights : 1..MaxNights, base : Rates, weekend : Rates \cup {NoRate}]

NoStay == [checkIn |-> 0, nights |-> 0, base |-> 0, weekend |-> NoRate]

Deals == [category : {"RENT", "OFF_CAMPUS", "SALES"}, price : DealPrices]

NoDeal == [category |-> "SHORT_LET", price |-> 0]

NothingCounted == [night |-> 0, base_total |-> 0, uplift |-> 0]

NoQuote == [base_total |-> 0, seeker_fee |-> 0, host_fee |-> 0, grand_total |-> 0, host_payout |-> 0]

NoFees == [landlord |-> 0, seeker |-> 0, facilitation |-> 0]

PricesInit ==
    /\ \/ stage = "counting" /\ stay \in Stays  /\ deal = NoDeal
       \/ stage = "agreed"   /\ stay = NoStay    /\ deal \in Deals
    /\ counted = NothingCounted
    /\ quote = NoQuote
    /\ payout = 0
    /\ fees = NoFees

-----------------------------------------------------------------------------
(* pricing.py *)

\* Fault: the weekend is Saturday and Sunday.
SaturdayAndSunday(day) == day % 7 \in {5, 6}

\* Monday is 0; Friday and Saturday: "Nigerian short-let convention".
IsWeekend(day) == day % 7 \in {4, 5}

HasWeekendRate == stay.weekend # NoRate

\* What a night of the weekend adds.
Uplift == IF stay.weekend > stay.base THEN stay.weekend - stay.base ELSE 0

\* One turn of the loop of stay_price.
CountNight ==
    LET weekend == IsWeekend(stay.checkIn + counted.night) /\ HasWeekendRate IN
    /\ stage = "counting"
    /\ counted.night < stay.nights
    /\ counted' =
         [night      |-> counted.night + 1,
          base_total |-> counted.base_total + (IF weekend THEN stay.weekend ELSE stay.base),
          uplift     |-> counted.uplift + (IF weekend THEN Uplift ELSE 0)]
    /\ UNCHANGED <<stay, stage, quote, payout, deal, fees>>

GrandTotal(total, fee) == total + fee.seeker_fee

\* calculate_quote
Quote ==
    LET total == counted.base_total
        fee   == ShortLetFee(total) IN
    /\ stage = "counting"
    /\ counted.night = stay.nights
    /\ stage' = "quoted"
    /\ quote' = [base_total |-> total, seeker_fee |-> fee.seeker_fee, host_fee |-> fee.host_fee,
                 grand_total |-> GrandTotal(total, fee), host_payout |-> fee.host_payout]
    /\ UNCHANGED <<stay, counted, payout, deal, fees>>

\* Fault: the host is paid the guest's fee too.
PayoutOfTotal == quote.grand_total - quote.host_fee

\* From the columns of the booking.
Payout == quote.base_total - quote.host_fee

\* confirm_check_in
CheckIn ==
    /\ stage = "quoted"
    /\ payout' = Payout
    /\ stage' = "checked in"
    /\ UNCHANGED <<stay, counted, quote, deal, fees>>

-----------------------------------------------------------------------------
(* _calendar_days: the rate the host sees on a day *)

CalendarRate(day) == IF day % 7 \in {4, 5} /\ HasWeekendRate THEN stay.weekend ELSE stay.base

-----------------------------------------------------------------------------
(* _initiate_payments *)

ChargeRent(rent) ==
    [landlord |-> RentFee(rent).landlord, seeker |-> RentFee(rent).seeker,
     facilitation |-> RentFee(rent).landlord + RentFee(rent).seeker]

ChargeStudent(price) ==
    [landlord |-> StudentFee(price).owner, seeker |-> StudentFee(price).seeker,
     facilitation |-> StudentFee(price).owner + StudentFee(price).seeker]

\* The seller pays everything.
ChargeSale(price) ==
    [landlord |-> SalesFee(price).seller, seeker |-> 0, facilitation |-> SalesFee(price).seller]

Charge ==
    /\ stage = "agreed"
    /\ fees' = CASE deal.category = "RENT"       -> ChargeRent(deal.price)
                 [] deal.category = "OFF_CAMPUS" -> ChargeStudent(deal.price)
                 [] deal.category = "SALES"      -> ChargeSale(deal.price)
    /\ stage' = "charged"
    /\ UNCHANGED <<stay, counted, quote, payout, deal>>

PricesNext == CountNight \/ Quote \/ CheckIn \/ Charge

PricesSpec == PricesInit /\ [][PricesNext]_priceVars

-----------------------------------------------------------------------------
(* Properties *)

\* Types; no amount is negative, and no stay is counted beyond its nights.
PricesTypeOK ==
    /\ stay \in Stays \cup {NoStay}
    /\ stage \in {"counting", "quoted", "checked in", "agreed", "charged"}
    /\ counted \in [night : Nat, base_total : Nat, uplift : Nat]
    /\ counted.night <= stay.nights
    /\ quote \in [base_total : Nat, seeker_fee : Nat, host_fee : Nat, grand_total : Nat, host_payout : Nat]
    /\ payout \in Nat
    /\ deal \in Deals \cup {NoDeal}
    /\ fees \in [landlord : Nat, seeker : Nat, facilitation : Nat]

StayDays == stay.checkIn .. (stay.checkIn + stay.nights - 1)

\* The guest pays for the stay what the host's calendar shows for its days,
\* and the uplift is what the weekend adds, wherever the stay falls in the
\* week (pricing.py and dashboards/service.py walk the days separately).
QuoteFitsCalendar ==
    stage \in {"quoted", "checked in"} =>
        /\ quote.base_total = MapThenSumSet(CalendarRate, StayDays)
        /\ stay.weekend >= stay.base =>
               counted.uplift = quote.base_total - stay.nights * stay.base

\* When the stay begins, all the guest was charged has gone to the host, as
\* payout, or to BeeBop, as the fees on the booking, to the kobo.
MoneyAddsUp ==
    stage = "checked in" => quote.grand_total = payout + quote.host_fee + quote.seeker_fee

Whole(amount) == amount % 100 = 0

\* The host is paid what the quote promised, to the kobo for a whole number of
\* Naira and within one kobo for any other.
PayoutAsQuoted ==
    stage = "checked in" =>
        /\ payout - quote.host_payout \in {-1, 0}
        /\ Whole(quote.base_total) => payout = quote.host_payout

\* A rent's fees, charged to two parties and rounded for each, are those of
\* the tier: 3% or 2% of the rent and the flat parts, to the kobo for a whole
\* number of Naira; the landlord's share is twice the seeker's within a kobo.
RentFeesAddUp ==
    stage = "charged" /\ deal.category = "RENT" =>
        /\ Whole(deal.price) => fees.facilitation = RentFee(deal.price).total
        /\ fees.facilitation - RentFee(deal.price).total \in {-1, 0, 1}
        /\ fees.landlord - FlatLandlord - 2 * (fees.seeker - FlatSeeker) \in {-1, 0, 1}

\* What guests and parties are charged is what hosts and BeeBop get, through
\* every rounding (fees.py, pricing.py, confirm_check_in).
AmountsAddUp == PricesTypeOK /\ MoneyAddsUp /\ PayoutAsQuoted /\ RentFeesAddUp
=============================================================================
