SPECIFICATION Spec
CONSTANTS
    CallIds = {c1, c2}
    MaxConns = 2
    MaxWire = 2
SYMMETRY Symmetry
PROPERTIES AllAreHungUp
CHECK_DEADLOCK FALSE
