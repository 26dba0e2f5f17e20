----------------------------- MODULE MCObjects -----------------------------
(* Objects for TLC: two worlds in one run.  A player and a dog with two    *)
(* bags, a dagger, a drinking horn and scraps in a yard; and a player who  *)
(* has all that hands can be used for and may also be in the air.          *)
EXTENDS Objects, TLC

CONSTANTS bag, box, corpse, torch, sword, dagger, club, shield, horn, scrap,
          hero, dog, sky, yard

MCWeight ==
    [o \in Objs |-> CASE o = sword -> 5 [] o \in {dagger, horn} -> 2 [] OTHER -> 1]
MCCanCarryN == [c \in Chars |-> IF c = hero THEN 3 ELSE 1]
MCCanCarryW == [c \in Chars |-> 9]
Symmetry == Permutations(Bags)
MCBelow == [r \in Rooms |-> IF r = sky THEN yard ELSE None]

Exist == world.object_list
TwoWorlds ==
    \/ Exist \subseteq {bag, box, corpse, dagger, horn, scrap} /\ sky \notin Range(where)
    \/ Exist \subseteq {torch, sword, dagger, club, shield} /\ where[dog] = None
=============================================================================
