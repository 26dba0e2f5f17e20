SPECIFICATION Spec
CONSTANTS
  Players = {anna, bruno}
  Items = {ring, sword}
  Purse = 1
  MaxMade = 1
CONSTRAINT OneDoubt
SYMMETRY Symmetry
INVARIANTS
  OneOwner
  KeptIsSaved
  CoinsNotDoubled
