------------------------------- MODULE MCZone -------------------------------
(* Two rooms with a door and a secret passage, and a cave in a zone of its *)
(* own; or one room with a guard, its sword, and a chest with a gem.       *)
EXTENDS Zone
CONSTANTS hero, rogue, hall, vault, cave, g1, g2, s1, s2, c1, c2, gem

Cmd(letter, if_flag, kind, max, room, each) ==
    [letter |-> letter, if_flag |-> if_flag, kind |-> kind, max |-> max,
     room |-> room, each |-> each]

\* Zones.
MCZoneOf == [r \in Rooms |-> IF r = cave THEN 2 ELSE 1]
MCLifespan == [z \in Zones |-> 1]
MCMode == [z \in Zones |-> IF z = 1 THEN "empty" ELSE "always"]
MCKindOf == [x \in Mobs \cup Objs |->
                IF x \in {g1, g2} THEN "guard" ELSE IF x \in {s1, s2} THEN "sword"
                ELSE IF x \in {c1, c2} THEN "chest" ELSE "gem"]
MCSides == {<<hall, vault>>, <<vault, hall>>, <<hall, cave>>, <<cave, hall>>}
MCSpecial == {<<hall, cave>>, <<cave, hall>>}
MCKeyed == {<<hall, vault>>, <<vault, hall>>}
MCTable ==
    [z \in Zones |->
        IF z = 1 THEN <<Cmd("M", FALSE, "guard", 1, hall, 0),
                        Cmd("D", FALSE, "locked", 0, <<hall, vault>>, 0),
                        Cmd("D", FALSE, "locked", 0, <<vault, hall>>, 0)>>
        ELSE <<Cmd("M", FALSE, "guard", 1, cave, 0)>>]

\* Stock.
MCStock ==
    <<<<Cmd("M", FALSE, "guard", 1, hall, 0),
        Cmd("E", TRUE, "sword", 1, 0, 0),
        Cmd("O", FALSE, "chest", 2, hall, 1),
        Cmd("P", TRUE, "gem", 1, "chest", 0)>>>>

\* The tables are such as the proofs about doors and resets ask for.
ASSUME MCTables == DoorsPaired /\ PutsFollow
=============================================================================
