CONSTANTS
  Objs = {bag, pouch, sword, ring, corpse}
  Containers = {bag, pouch}
  Corpses = {corpse}
  Perishable = {bag, pouch}
  Fickle = {bag, pouch}
  MaxWear = 2
  MaxObjSave = 3
  MaxDepth = 2
  RefusedRent = FALSE
  Nothing = Nothing
SPECIFICATION RentSpec
SYMMETRY Symmetry
CONSTRAINT TwoWorlds
INVARIANTS
  OneCopy
PROPERTIES
  RestoredAsSaved
  NothingLost
  RentedIsStored
