CONSTANTS
  bag = bag
  box = box
  corpse = corpse
  torch = torch
  sword = sword
  dagger = dagger
  club = club
  shield = shield
  horn = horn
  scrap = scrap
  hero = hero
  dog = dog
  sky = sky
  yard = yard
  None = None
  Objs = {bag, box, corpse, torch, sword, dagger, club, shield, horn, scrap}
  Chars = {hero, dog}
  Rooms = {sky, yard}
  Bags = {bag, box}
  Corpses = {corpse}
  Drinks = {horn}
  Scraps = {scrap}
  Takeable = {bag, box, corpse, torch, sword, dagger, club, shield, horn}
  Lights = {torch}
  Shields = {shield}
  Blades = {sword, dagger, club}
  Holdable = {torch, dagger}
  Pcs = {hero}
  Humanoid = {hero}
  Capacity = 4
  Wield = 4
  Weight <- MCWeight
  CanCarryN <- MCCanCarryN
  CanCarryW <- MCCanCarryW
  Below <- MCBelow
SPECIFICATION Spec
SYMMETRY Symmetry
CONSTRAINT TwoWorlds
INVARIANTS
  PlacesAgree
  NothingKept
  ContainerWeight
  TwoHands
