SPECIFICATION Spec
CONSTANTS
    Seekers = {s1}
    OfferId = {o1}
    Workers = {w1}
    Sweepers = {k1}
    None = None
    MaxRounds = 3
    Overlap = TRUE
PROPERTIES
    AcceptanceIsTerminal
