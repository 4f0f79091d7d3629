SPECIFICATION Spec
CONSTANTS
    BookingId = {b1, b2}
    Workers = {w1, w2}
    LastDay = 1
    Turnaround = 0
    MinStay = 1
    InstantModes = {TRUE, FALSE}
    MaxCharges = 1
    Overlap = TRUE
SYMMETRY Symmetry
INVARIANTS
    NightsDisjoint
