------------------------------- MODULE MCRent -------------------------------
(* Rent for TLC: two interchangeable containers, two interchangeable things *)
(* and a corpse; the containers may be refused when they are worn.          *)
EXTENDS Rent, TLC

Things == Objs \ (Containers \cup Corpses)
Symmetry == Permutations(Containers) \cup Permutations(Things)

\* One thing, a corpse, and two positions to wear something at; or two things,
\* so that the file can overflow, which are taken up one after the other.
Present == InWorld(world) \cup Stored
TwoWorlds ==
    \/ Cardinality(Present \cap Things) <= 1 /\ Cardinality(world.rotten) <= 1
    \/ /\ Present \cap Corpses = {} /\ world.worn[MaxWear] = Nothing
       /\ Cardinality(world.floor) <= 1 /\ world.rotten = {}
=============================================================================
