SPECIFICATION Spec
CONSTANTS
    MaxPriority = 1
    Ids = {id1}
    NoId = NoId
    Shapes <- AllShapes
    Buffers = {b1, b2, b3}
    NoBuffer = NoBuffer
    MaxMolecules = 2
    StartCanFail = TRUE
    Unchecked = TRUE
SYMMETRY Symmetry
INVARIANTS
    TypeOK
    RecorderIsOwned
    TimersAreOwned
    CrashNeedsFault
    ScheduleIsRecursive
CHECK_DEADLOCK FALSE
