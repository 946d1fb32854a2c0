SPECIFICATION Spec
CONSTANTS
    Process = {p1, p2}
    Business <- TwoBusinesses
    MaxKey = 3
SYMMETRY Symmetry
INVARIANTS
    KeyServes
    RegistryConsistent
    TurnsKept
