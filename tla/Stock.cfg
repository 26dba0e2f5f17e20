CONSTANTS
  hall = hall
  vault = vault
  cave = cave
  g1 = g1
  g2 = g2
  s1 = s1
  s2 = s2
  c1 = c1
  c2 = c2
  gem = gem
  None = None
  Zones = {1}
  Rooms = {hall}
  Players = {hero, rogue}
  hero = hero
  rogue = rogue
  Mobs = {g1, g2}
  Objs = {s1, s2, c1, c2, gem}
  Containers = {c1, c2}
  Rare = {"sword"}
  ReloadQueued = FALSE
  Breakable = FALSE
  ZoneOf <- MCZoneOf
  Lifespan <- MCLifespan
  Mode <- MCMode
  KindOf <- MCKindOf
  Table <- MCStock
  Sides = {}
  Special = {}
  Keyed = {}
SPECIFICATION Spec
INVARIANTS
  RareStaysRare
  CountersSuffice
PROPERTIES
  ResetsKeepOff
