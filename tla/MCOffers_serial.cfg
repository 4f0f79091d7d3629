SPECIFICATION Spec
CONSTANTS
    Seekers = {s1, s2}
    OfferId = {o1, o2, o3}
    Workers = {w1}
    Sweepers = {k1}
    None = None
    MaxRounds = 3
    Overlap = FALSE
SYMMETRY Symmetry
CONSTRAINT VisitsOutstanding
PROPERTIES
    ImplementsNegotiation
