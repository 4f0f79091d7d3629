SPECIFICATION FairSpec
CONSTANTS
    BookingId = {b1}
    Workers = {w1, w2}
    LastDay = 0
    Turnaround = 0
    MinStay = 1
    InstantModes = {TRUE, FALSE}
    MaxCharges = 2
    Overlap = TRUE
INVARIANTS
    BookingsInv
PROPERTIES
    MoneyIsNotStuck
    EveryRequestIsDecided
