SPECIFICATION LiveSpec
CONSTANTS
    Callers = {c1, c2}
    Rooms <- VillaRooms
    Nowhere = Nowhere
    Entry = "diele"
    Background <- VillaBackground
    Connects <- VillaConnects
    Shortcuts <- VillaShortcuts
    Keys = {"2", "5", "*", "#"}
    MaxDigits = 1
    MaxTalks = 1
PROPERTIES ModesTimeOut
