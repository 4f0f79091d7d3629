-------------------------------- MODULE Fees --------------------------------
(***************************************************************************)
(* The fees of backend/app/payments/fees.py, in kobo (1 Naira = 100 kobo). *)
(* An amount is a whole number of kobo; a fee is rounded to one as _round2 *)
(* rounds it: half a kobo, which 1e-9 lifts above the tie, goes up.        *)
(***************************************************************************)
EXTENDS Integers

CONSTANTS
    RentTier,        \* RENT_TIER_THRESHOLD_NAIRA, in kobo
    ShortLetTier,    \* SHORT_LET_TIER_THRESHOLD_NAIRA, in kobo
    SalesTier,       \* SALES_TIER_THRESHOLD_NAIRA, in kobo
    FlatLandlord,    \* RENT_FLAT_LANDLORD, in kobo
    FlatSeeker       \* RENT_FLAT_SEEKER, in kobo

ASSUME FeesAssumption ==
    /\ RentTier \in Nat /\ ShortLetTier \in Nat /\ SalesTier \in Nat
    /\ FlatLandlord \in Nat /\ FlatSeeker \in Nat

\* n / d kobo, rounded.
Round(n, d) == (2 * n + d) \div (2 * d)

RentShares(rent) ==
    IF rent <= RentTier
    THEN [landlord |-> Round(2 * rent, 100), seeker |-> Round(rent, 100), pct |-> Round(3 * rent, 100)]
    ELSE [landlord |-> Round(4 * rent, 300), seeker |-> Round(2 * rent, 300), pct |-> Round(2 * rent, 100)]

RentFee(rent) ==
    [landlord |-> FlatLandlord + RentShares(rent).landlord,
     seeker   |-> FlatSeeker + RentShares(rent).seeker,
     total    |-> FlatLandlord + FlatSeeker + RentShares(rent).pct]

SeekerPct(value) == IF value <= ShortLetTier THEN 10 ELSE 8

ShortLetFee(value) ==
    [host_fee    |-> Round(3 * value, 100),
     seeker_fee  |-> Round(SeekerPct(value) * value, 100),
     host_payout |-> Round(97 * value, 100),
     grand_total |-> Round((100 + SeekerPct(value)) * value, 100)]

SalesFee(value) ==
    [seller |-> IF value <= SalesTier THEN Round(3 * value, 100) ELSE Round(25 * value, 1000)]

StudentFee(price) == [owner |-> Round(25 * price, 1000), seeker |-> Round(3 * price, 100)]
=============================================================================
