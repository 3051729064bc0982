SPECIFICATION Spec
CONSTANTS
    MaxCommands = 2
    MaxEvents = 3
INVARIANT HandledInOrder
PROPERTIES
    ServerIsChannel
    WorldIsChannel
CHECK_DEADLOCK FALSE
