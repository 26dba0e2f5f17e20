CONSTANTS
    hero = hero
    friend = friend
    wolf = wolf
    imp = imp
    rat = rat
    street = street
    wood = wood
    pit = pit
    limbo = limbo
    None = None
    Thing = thing
    Chars = {hero, friend, wolf, imp, rat}
    Rooms = {street, wood, pit, limbo}
    Pcs = {hero, friend}
    Rideable = {wolf, imp, rat}
    Able = {hero, friend}
    Shielded = {}
    Immortals = {}
    Peaceful = {}
    NoDeath = {}
    DeathTraps = {pit}
    Crowd = 2
    SwitchRoom = 1
    ElbowRoom = 2
    Undead = {wolf}
    NoMagic = {limbo}
    Home = wood
    Limbo = limbo
    Scenes <- MCScenes
    Invoked <- SpellPointer
    MaxDone = 2
SPECIFICATION Spec
CHECK_DEADLOCK FALSE
INVARIANTS
  TiesAgree
  NothingAstray
  NoneDoubled
  NoDeadLeft
PROPERTIES
  GroupSpared
