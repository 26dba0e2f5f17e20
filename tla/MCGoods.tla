------------------------------ MODULE MCGoods ------------------------------
(* Two players and two objects; see Goods.cfg. *)
EXTENDS Goods, TLC

Symmetry == Permutations(Players) \cup Permutations(Items)

\* One thing in doubt at a time: an object, until it has two owners, or coins.
OneDoubt == /\ Cardinality(hasty) + made <= 1
            /\ \A i \in hasty : Cardinality(held[i]) + Cardinality({p \in Players : i \in vault[p]}) <= 2
=============================================================================
