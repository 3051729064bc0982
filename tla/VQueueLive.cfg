SPECIFICATION LiveSpec
CONSTANTS
    MaxPriority = 1
    Ids = {id1}
    NoId = NoId
    Shapes <- FiniteShapes
    Buffers = {b1, b2, b3}
    NoBuffer = NoBuffer
    MaxMolecules = 2
    StartCanFail = FALSE
    Unchecked = FALSE
PROPERTIES Drains
CHECK_DEADLOCK FALSE
