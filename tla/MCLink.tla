------------------------------- MODULE MCLink -------------------------------
(* Link for TLC: an implementor, a god and a mortal, a weak and a strong    *)
(* mobile.  Connections are interchangeable.                               *)
EXTENDS Link, TLC

CONSTANTS implementor, god, mortal, sapling, demon

MCLevel == implementor :> 59 @@ god :> 57 @@ mortal :> 20 @@ sapling :> 10 @@ demon :> 52

Symmetry == Permutations(Desc)
=============================================================================
