SPECIFICATION Spec
CONSTANTS
    VisitId = {v1, v2}
    Agents = {g1, g2, g3}
    Inspectors = {g3}
    Workers = {w1}
    None = None
    Overlap = FALSE
SYMMETRY Symmetry
INVARIANTS
    VisitsInv
    ConductedByConfirmer
PROPERTIES
    ImplementsConduct
