SPECIFICATION Spec
CONSTANTS
    Proc = {p1, p2}
    RPn = 1
    RP0 = 2
    Fallible = {}
INVARIANTS WritesAccepted
