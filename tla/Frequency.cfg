SPECIFICATION Spec
CONSTANTS
    Proc = {p1}
    RPn = 1
    RP0 = 5
    Fallible = {"read", "run"}
INVARIANTS TypeOK WritesAccepted MeasuresAsSet Restored
