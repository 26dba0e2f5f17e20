CONSTANTS
  Desc = {d1, d2, d3}
  implementor = implementor
  god = god
  mortal = mortal
  sapling = sapling
  demon = demon
  Players = {implementor, god, mortal}
  Mobs = {sapling, demon}
  None = None
  Level <- MCLevel
  StaleSwitch = FALSE
SPECIFICATION Spec
SYMMETRY Symmetry
INVARIANTS
  BodyOfOne
  SnoopAgrees
PROPERTIES
  ImplementsSession
