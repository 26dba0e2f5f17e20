------------------------------ MODULE MCNanny ------------------------------
(* Nanny for TLC: connections and passwords are interchangeable.           *)
EXTENDS Nanny, TLC

Symmetry == Permutations(Desc) \cup Permutations(Pwds)
=============================================================================
