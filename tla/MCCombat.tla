------------------------------ MODULE MCCombat ------------------------------
(* A player, a wolf and a horse, in a street and a wood of no death, with  *)
(* a death trap between them.                                              *)
EXTENDS Combat
CONSTANTS hero, wolf, horse, street, wood, pit

\* Bound: two at a time of a wound or a fall, a lost connection, a follower
\* or a rider, and three fights.
Calm ==
    Cardinality({c \in Chars : world.hp[c] # "fit" \/ world.pos[c] \in {"sitting", "stunned"}})
    + Cardinality(world.linkdead)
    + Cardinality({c \in Chars : world.master[c] # None \/ world.mount[c] # None})
    + (IF Cardinality(world.combat_list) > 2 THEN 1 ELSE 0) <= 2
=============================================================================
