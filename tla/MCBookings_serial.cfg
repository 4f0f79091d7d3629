SPECIFICATION Spec
CONSTANTS
    BookingId = {b1, b2}
    Workers = {w1}
    LastDay = 2
    Turnaround = 1
    MinStay = 1
    InstantModes = {TRUE, FALSE}
    MaxCharges = 1
    Overlap = FALSE
SYMMETRY Symmetry
INVARIANTS
    AccessIsDue
    PayoutAtMostOnce
PROPERTIES
    ImplementsCalendar
