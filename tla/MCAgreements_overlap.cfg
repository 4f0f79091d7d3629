SPECIFICATION FairSpec
CONSTANTS
    OfferId = {o1}
    AgreementId = {a1}
    Workers = {w1, w2}
    None = None
    Category = "RENT"
    MaxCharges = 1
    Overlap = TRUE
INVARIANTS
    AgreementsInv
    SignedIsPaid
PROPERTIES
    MoneyIsNotStuck
