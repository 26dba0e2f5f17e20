------------------------------- MODULE MCMail --------------------------------
EXTENDS Mail, TLC

CONSTANTS letter, epistle

\* Two blocks, and three.
MCSize == [l \in Letters |-> IF l = letter THEN 2 ELSE 3]

Symmetry == Permutations(Players)
==============================================================================
