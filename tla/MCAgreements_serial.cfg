SPECIFICATION Spec
CONSTANTS
    OfferId = {o1}
    AgreementId = {a1, a2}
    Workers = {w1}
    None = None
    Category = "RENT"
    MaxCharges = 2
    Overlap = FALSE
SYMMETRY Symmetry
INVARIANTS
    SignedIsShown
PROPERTIES
    SignaturesAccumulate
    ImplementsDeal
