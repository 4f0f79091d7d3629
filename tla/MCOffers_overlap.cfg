SPECIFICATION FairSpec
CONSTANTS
    Seekers = {s1}
    OfferId = {o1, o2}
    Workers = {w1}
    Sweepers = {k1}
    None = None
    MaxRounds = 3
    Overlap = TRUE
INVARIANTS
    OffersInv
    ExpiredOnlyAfterWindow
    NoticesMatchFlags
    AcceptedIsCarriedOut
PROPERTIES
    ClosedStaysClosed
    EveryRoundIsClosed
