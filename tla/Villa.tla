------------------------------- MODULE Villa -------------------------------
(***************************************************************************)
(* The house that Villa.connection_made of src/actor-v3/villa.py builds:   *)
(* values for the constants of module House.                               *)
(***************************************************************************)
EXTENDS Sequences

Room(digits, background) == [shortcut |-> digits, background |-> background]

\* The classes of the rooms that are built.  Two classes that are not
\* (Garten, Kuehlschrank) have no place in the Villa.
VillaRoom ==
    [diele      |-> Room(<<"1", "0", "1">>, TRUE),
     flur       |-> Room(<<"1", "0", "2">>, TRUE),
     salon      |-> Room(<<"1", "0", "3">>, TRUE),
     sofa       |-> Room(<<"1", "0", "4">>, TRUE),
     speiseraum |-> Room(<<"1", "0", "5">>, TRUE),
     kueche     |-> Room(<<"1", "0", "6">>, TRUE),
     bibliothek |-> Room(<<"1", "0", "8">>, TRUE),
     terasse    |-> Room(<<"1", "0", "9">>, FALSE),
     damenklo   |-> Room(<<"1", "1", "1">>, TRUE),
     herrenklo  |-> Room(<<"1", "1", "2">>, TRUE),
     regal      |-> Room(<<"1", "1", "3">>, FALSE),
     kommode    |-> Room(<<"1", "1", "4">>, FALSE)]

VillaRooms == DOMAIN VillaRoom

VillaBackground == {r \in VillaRooms : VillaRoom[r].background}

\* update_shortcuts
VillaShortcuts == {VillaRoom[r].shortcut : r \in VillaRooms}

Door(from, to, direction) == [from |-> from, to |-> to, direction |-> direction]

\* The doors in the order they are connected: the last but three replaces the
\* door from the terasse back to the flur, and nothing leads to the
\* bibliothek.
VillaConnects ==
    <<Door("diele", "flur", "north"), Door("diele", "kueche", "east"), Door("diele", "speiseraum", "west"),
      Door("flur", "terasse", "north"), Door("flur", "salon", "east"),
      Door("flur", "damenklo", "west"), Door("flur", "herrenklo", "northwest"),
      Door("salon", "terasse", "north"), Door("salon", "sofa", "east"),
      Door("salon", "kommode", "northeast"), Door("salon", "regal", "southeast")>>
=============================================================================
