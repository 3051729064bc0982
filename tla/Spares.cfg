SPECIFICATION SparesSpec
CONSTANTS
    Callers = {c1, c2, c3, c4}
    Nobody = Nobody
    Floors <- SmallFloors
SYMMETRY Symmetry
INVARIANTS
    StopsAreOrdered
    PlaceIsKept
CHECK_DEADLOCK FALSE
