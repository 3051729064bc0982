SPECIFICATION Spec
CONSTANTS
    CallIds = {c1, c2}
    MaxConns = 2
    MaxWire = 2
SYMMETRY Symmetry
INVARIANTS CallersAreUp
CHECK_DEADLOCK FALSE
