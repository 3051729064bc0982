SPECIFICATION Spec
CONSTANTS
    Callers = {c1, c2}
    Rooms <- SmallRooms
    Nowhere = Nowhere
    Entry = "hall"
    Background <- SmallBackground
    Connects <- SmallConnects
    Shortcuts <- SmallShortcuts
    Keys = {"2", "4", "5", "6", "*", "#"}
    MaxDigits = 1
    MaxTalks = 2
SYMMETRY Symmetry
INVARIANTS
    TypeOK
    EveryoneIsSomewhere
    BackgroundFits
    AnnouncedAreThere
    TalksAreOwn
PROPERTIES
    DoorsAreHeard
    DataIsOwn
