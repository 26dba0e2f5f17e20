CONSTANTS
    Spells <- MCSpells
    Items <- MCItems
    Slot <- MCSlot
    Effects <- MCEffects
    Needs <- MCNeeds
    AntiEvil = {"sword"}
    MAX_WEAR = 2
    Flags = {"flying", "infravision"}
    Fly = "flying"
    Racial = {"infravision"}
    Base = 4
    Top = 6
    Low = 3
    Lasts = 1
    MAX_AFFECT = 3
    MaxSaves = 2
SPECIFICATION AffectsSpec
INVARIANTS
    Balanced
