CONSTANTS
    Players = {p1, p2}
    letter = letter
    epistle = epistle
    Letters = {letter, epistle}
    Size <- MCSize
    Torn = FALSE
SYMMETRY Symmetry
SPECIFICATION Spec
INVARIANTS
    IndexAgrees
    NoBlockLost
PROPERTIES
    ImplementsMailboxes
