CONSTANTS
    hero = hero
    wolf = wolf
    horse = horse
    street = street
    wood = wood
    pit = pit
    None = None
    Chars = {hero, wolf, horse}
    Rooms = {street, wood, pit}
    Pcs = {hero}
    Rideable = {horse}
    Able = {hero}
    Shielded = {}
    Immortals = {}
    Peaceful = {}
    NoDeath = {wood}
    DeathTraps = {pit}
    Crowd = 2
    SwitchRoom = 1
    ElbowRoom = 2
SPECIFICATION Spec
INVARIANTS FightsAgree BondsAgree DeadAreGone
PROPERTY RoundShrinks
CONSTRAINT Calm
