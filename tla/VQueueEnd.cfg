SPECIFICATION Spec
CONSTANTS
    MaxPriority = 1
    Ids = {id1}
    NoId = NoId
    Shapes <- ActorShapes
    Buffers = {b1, b2, b3}
    NoBuffer = NoBuffer
    MaxMolecules = 3
    StartCanFail = FALSE
    Unchecked = FALSE
SYMMETRY Symmetry
PROPERTIES EndIsOfActive
CHECK_DEADLOCK FALSE
