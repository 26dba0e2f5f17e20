------------------------------- MODULE Casting -------------------------------
(***************************************************************************)
(* How a spell is called (spells1.c, spells2.c, mind_use1.c).              *)
(*                                                                         *)
(* Every spell has a row in spell_info, set by assign_spell_pointers: in   *)
(* what position it can be cast, what it may be aimed at, and a wrapper,   *)
(* cast_...  The wrapper looks whether the spell comes from a caster, a    *)
(* potion, a scroll, a wand or a staff, finds the victim, and calls the    *)
(* spell.  What the wrappers do are the ways of this module; a type that   *)
(* has no way is refused with a message to the log.                        *)
(***************************************************************************)
EXTENDS Spells, TLC

CONSTANT Invoked(_, _, _, _, _)    \* the spells themselves: see SpellBook

Types == {"spell", "potion", "scroll", "wand", "staff"}

-----------------------------------------------------------------------------
(* spell_info: the least position, and the targets.  Of the objects there  *)
(* is only Thing, at hand or on the ground.                                *)

Kind(position, aims) == [least |-> position, targets |-> aims]
Attacking == Kind("fighting", {"room", "foe", "violent"})
Blast == Kind("fighting", {"ignore", "violent"})
Undirected == Kind("standing", {"ignore"})
Blessing == Kind("standing", {"room"})
Aid == Kind("fighting", {"room"})
Personal == Kind("standing", {"room", "only self"})
PersonalInFight == Kind("fighting", {"room", "only self"})

MagicMissileToProtectionFromEvilKinds ==
    [s \in {"magic_missile", "chill_touch", "shocking_grasp", "lightning_bolt",
          "colour_spray", "call_lightning", "energy_drain", "harm", "blindness"} |-> Attacking]
    @@ [s \in {"burning_hands", "fireball", "earthquake"} |-> Blast]
    @@ [s \in {"dispel_evil"} |-> Kind("fighting", {"room", "foe"})]
    @@ [s \in {"armor", "clone", "cure_blind", "detect_evil", "detect_invisibility",
          "detect_magic", "protection_from_evil"} |-> Blessing]
    @@ [s \in {"teleport"} |-> Kind("standing", {"room", "foe", "violent"})]
    @@ [s \in {"bless", "detect_poison", "invisibility"} |-> Kind("standing", {"room", "thing"})]
    @@ [s \in {"charm_person"} |-> Kind("standing", {"room", "foe", "not self", "violent"})]
    @@ [s \in {"control_weather", "create_food"} |-> Undirected]
    @@ [s \in {"create_water", "enchant_weapon", "locate_object"} |-> Kind("standing", {"thing"})]
    @@ [s \in {"cure_critic", "cure_light", "heal"} |-> Aid]
    @@ [s \in {"curse"} |-> Kind("standing", {"room", "foe", "thing", "violent"})]
    @@ [s \in {"poison"} |-> Kind("fighting", {"room", "foe", "thing", "not self", "violent"})]

RemoveCurseToMonSum2Kinds ==
    [s \in {"remove_curse", "remove_poison"} |-> Kind("standing", {"room", "thing"})]
    @@ [s \in {"sanctuary", "strength", "sense_life", "infravision", "water_breath",
          "flying"} |-> Blessing]
    @@ [s \in {"sleep"} |-> Kind("standing", {"room", "foe", "violent"})]
    @@ [s \in {"summon"} |-> Kind("standing", {"world", "violent"})]
    @@ [s \in {"ventriloquate"} |-> Kind("standing", {"room", "thing", "not self"})]
    @@ [s \in {"word_of_recall"} |-> Personal]
    @@ [s \in {"identify", "animate_dead"} |-> Kind("standing", {"thing"})]
    @@ [s \in {"cause_light", "dispel_good", "remove_paralysis"} |-> Kind("fighting", {"room", "foe"})]
    @@ [s \in {"cause_critic", "flamestrike", "weakness", "paralyze", "fear", "acid_blast",
          "meteor_swarm"} |-> Attacking]
    @@ [s \in {"dispel_magic"} |-> Kind("fighting", {"room", "foe", "thing", "violent"})]
    @@ [s \in {"knock", "mon_sum1", "mon_sum2"} |-> Undirected]
    @@ [s \in {"know_alignment"} |-> Kind("standing", {"room", "foe"})]
    @@ [s \in {"cone_of_cold", "ice_storm"} |-> Blast]
    @@ [s \in {"shield"} |-> Aid]

MonSum3ToChangestaffKinds ==
    [s \in {"mon_sum3", "mon_sum4", "mon_sum5", "mon_sum6", "mon_sum7", "succor",
          "light", "cont_light", "conjure_elemental", "minor_creation", "faerie_fog",
          "cacaodemon", "poly_self", "heroes_feast", "fly_group", "golem", "familiar",
          "changestaff"} |-> Undirected]
    @@ [s \in {"fireshield"} |-> Personal]
    @@ [s \in {"charm_monster"} |-> Kind("standing", {"room", "violent"})]
    @@ [s \in {"cure_serious", "second_wind", "web"} |-> Aid]
    @@ [s \in {"cause_serious"} |-> Kind("fighting", {"room", "violent"})]
    @@ [s \in {"refresh", "turn", "calm", "true_seeing", "minor_track", "major_track"} |-> Blessing]
    @@ [s \in {"stone_skin"} |-> Kind("standing", {"only self"})]
    @@ [s \in {"faerie_fire"} |-> Kind("standing", {"room", "not self", "violent"})]
    @@ [s \in {"mana"} |-> Kind("fighting", {"ignore"})]
    @@ [s \in {"astral_walk"} |-> Kind("standing", {"world"})]
    @@ [s \in {"resurrection"} |-> Kind("standing", {"thing"})]
    @@ [s \in {"dragon_breath"} |-> Kind("standing", {"ignore", "violent"})]

HolywordToGustOfWindKinds ==
    [s \in {"holyword", "unholyword"} |-> Blast]
    @@ [s \in {"pword_kill", "pword_blind", "chain_lightn", "scare", "command",
          "feeblemind", "entangle", "snare"} |-> Attacking]
    @@ [s \in {"aid"} |-> Aid]
    @@ [s \in {"change_form", "goodberry", "flame_blade", "creeping_death", "commune",
          "animal_summon_1", "animal_summon_2", "animal_summon_3", "fire_servant",
          "earth_servant", "water_servant", "wind_servant"} |-> Undirected]
    @@ [s \in {"shillelagh", "reincarnate", "animate_rock"} |-> Kind("standing", {"thing"})]
    @@ [s \in {"animal_growth", "insect_growth", "veggie_growth"} |-> Kind("fighting", {"room", "not self"})]
    @@ [s \in {"charm_veggie"} |-> Kind("standing", {"room", "violent"})]
    @@ [s \in {"tree"} |-> Personal]
    @@ [s \in {"tree_travel", "travelling", "invis_to_animals"} |-> Kind("standing", {"only self"})]
    @@ [s \in {"animal_friendship"} |-> Kind("standing", {"room", "not self"})]
    @@ [s \in {"slow_poison"} |-> Blessing]
    @@ [s \in {"gust_of_wind"} |-> Kind("sitting", {"ignore"})]

BarkskinToMountKinds ==
    [s \in {"barkskin"} |-> Blessing]
    @@ [s \in {"sunray", "heat_stuff", "silence"} |-> Attacking]
    @@ [s \in {"warp_weapon"} |-> Kind("fighting", {"room", "foe", "thing", "violent"})]
    @@ [s \in {"find_traps"} |-> Kind("standing", {"only self"})]
    @@ [s \in {"firestorm"} |-> Kind("fighting", {"ignore"})]
    @@ [s \in {"haste", "slow"} |-> Kind("standing", {"room", "violent"})]
    @@ [s \in {"dust_devil", "dragon_ride", "mount"} |-> Undirected]
    @@ [s \in {"know_monster"} |-> Kind("fighting", {"room", "foe", "not self"})]
    @@ [s \in {"transport_via_plant", "speak_with_plants"} |-> Kind("standing", {"thing"})]
    @@ [s \in {"teleport_wo_error", "portal"} |-> Kind("standing", {"world"})]

GlobeDarknessToMindMindWipeKinds ==
    [s \in {"globe_darkness", "prot_dragon_breath"} |-> Blessing]
    @@ [s \in {"globe_minor_inv", "globe_major_inv", "prot_energy_drain",
          "anti_magic_shell"} |-> Personal]
    @@ [s \in {"mind_burn"} |-> Blast]
    @@ [s \in {"mind_clairvoyance", "mind_danger_sense", "mind_cell_adjustment",
          "mind_chameleon", "mind_psi_strength", "mind_mind_over_body",
          "mind_probability_travel"} |-> PersonalInFight]
    @@ [s \in {"mind_disintegrate", "mind_telekinesis", "mind_teleport", "mind_domination",
          "mind_mind_wipe"} |-> Attacking]
    @@ [s \in {"mind_levitation"} |-> Aid]

MindPsychicCrushToWizardEyeKinds ==
    [s \in {"mind_psychic_crush"} |-> Attacking]
    @@ [s \in {"mind_tower_iron_will", "mind_mindblank", "mind_psychic_impersonation",
          "mind_intensify"} |-> PersonalInFight]
    @@ [s \in {"mind_ultra_blast"} |-> Kind("fighting", {"room", "foe", "ignore", "violent"})]
    @@ [s \in {"protection_from_evil_group"} |-> Undirected]
    @@ [s \in {"prismatic_spray", "incendiary_cloud"} |-> Blast]
    @@ [s \in {"disintegrate"} |-> Kind("fighting", {"room", "violent"})]
    @@ [s \in {"comp_languages"} |-> Blessing]
    @@ [s \in {"prot_fire", "prot_cold", "prot_energy", "prot_elec",
          "prot_dragon_breath_fire", "prot_dragon_breath_frost",
          "prot_dragon_breath_elec", "prot_dragon_breath_acid",
          "prot_dragon_breath_gas", "wizard_eye"} |-> Personal]
    @@ [s \in {"enchant_armor"} |-> Kind("standing", {"thing"})]

SpellInfo ==
    MagicMissileToProtectionFromEvilKinds
    @@ RemoveCurseToMonSum2Kinds
    @@ MonSum3ToChangestaffKinds
    @@ HolywordToGustOfWindKinds
    @@ BarkskinToMountKinds
    @@ GlobeDarknessToMindMindWipeKinds
    @@ MindPsychicCrushToWizardEyeKinds

-----------------------------------------------------------------------------
(* The wrappers: the way each type of magic finds its victims.             *)

By(types, way) == [type \in types |-> way]
Always(way) == By(Types, way)
Nowhere == By({}, "none")

BurningHandsToEarthquake ==
    [burning_hands |-> By({"spell", "scroll", "wand", "staff"}, "none"),
     call_lightning |-> [spell |-> "target", potion |-> "self",
            scroll |-> "orSelfNoObj", staff |-> "strangers"],
     chill_touch |-> By({"spell", "wand"}, "target"),
     shocking_grasp |-> By({"spell", "wand", "staff"}, "target"),
     colour_spray |-> [spell |-> "target", scroll |-> "orSelfNoObj",
            wand |-> "targetOnly"],
     earthquake |-> By({"spell", "scroll", "staff"}, "none")]

EnergyDrainToConeOfCold ==
    [energy_drain |-> [spell |-> "target", potion |-> "self",
            scroll |-> "orSelfNoObj", wand |-> "targetOnly", staff |-> "strangers"],
     fireball |-> By({"spell", "scroll", "wand", "staff"}, "none"),
     harm |-> [spell |-> "target", potion |-> "self", staff |-> "strangers"],
     lightning_bolt |-> [spell |-> "target", scroll |-> "orSelfNoObj",
            wand |-> "targetOnly"],
     acid_blast |-> [spell |-> "target", scroll |-> "orSelf", wand |-> "targetOnly"],
     cone_of_cold |-> By({"spell", "scroll", "wand"}, "none")]

IceStormToCauseSerious ==
    [ice_storm |-> By({"spell", "scroll", "wand"}, "none"),
     meteor_swarm |-> [spell |-> "target", scroll |-> "orSelf", wand |-> "targetOnly"],
     flamestrike |-> [spell |-> "target", scroll |-> "orSelfNoObj",
            wand |-> "targetOnly"],
     magic_missile |-> [spell |-> "target", scroll |-> "orSelfNoObj",
            wand |-> "targetOnly"],
     cause_light |-> [spell |-> "target", potion |-> "self", wand |-> "target",
            staff |-> "strangers"],
     cause_serious |-> [spell |-> "target", potion |-> "self",
            wand |-> "orSelfNoObj", staff |-> "strangers"]]

CauseCriticToDisintegrate ==
    [cause_critic |-> [spell |-> "target", potion |-> "orSelf",
            scroll |-> "orSelf", wand |-> "orSelf", staff |-> "strangers"],
     geyser |-> By({"spell", "scroll", "wand", "staff"}, "none"),
     green_slime |-> [spell |-> "target", scroll |-> "orSelfNoObj",
            wand |-> "targetOnly"],
     incendiary_cloud |-> By({"spell", "scroll", "wand", "staff"}, "none"),
     prismatic_spray |-> By({"spell", "scroll", "wand", "staff"}, "none"),
     wizard_eye |-> By({"spell", "scroll", "wand", "staff"}, "target"),
     disintegrate |-> By({"spell", "scroll", "wand", "staff"}, "both")]

ResurrectionToMana ==
    [resurrection |-> By({"spell", "staff"}, "itemOnly"),
     major_track |-> [spell |-> "orSelf", potion |-> "self", scroll |-> "orSelf",
            wand |-> "orSelf", staff |-> "others"],
     minor_track |-> [spell |-> "orSelf", potion |-> "self", scroll |-> "orSelf",
            wand |-> "orSelf", staff |-> "others"],
     mana |-> [potion |-> "self", wand |-> "orSelf", staff |-> "others"]]

ArmorToTeleport ==
    [armor |-> [spell |-> "target", potion |-> "self", scroll |-> "selfNoObj",
            wand |-> "selfNoObj"],
     stone_skin |-> [spell |-> "self", potion |-> "self", scroll |-> "selfNoObj",
            wand |-> "selfNoObj"],
     astral_walk |-> By({"spell", "potion", "scroll", "wand"}, "targetOnly"),
     teleport |-> [spell |-> "orSelf", potion |-> "orSelf", scroll |-> "orSelf",
            wand |-> "orSelf", staff |-> "others"]]

BlessToInfravision ==
    [bless |-> [spell |-> "both", potion |-> "self", scroll |-> "itemOrSelf",
            wand |-> "both"],
     infravision |-> [spell |-> "target", potion |-> "self",
            scroll |-> "orSelfNoObj", wand |-> "noObj", staff |-> "others"]]

TrueSeeingToContLight ==
    [true_seeing |-> [spell |-> "target", potion |-> "self",
            scroll |-> "orSelfNoObj", wand |-> "noObj", staff |-> "others"],
     blindness |-> [spell |-> "target", potion |-> "self",
            scroll |-> "orSelfNoObj", wand |-> "orSelfNoObj", staff |-> "strangers"],
     light |-> [spell |-> "self", scroll |-> "selfNoObj", wand |-> "selfNoObj"],
     cont_light |-> [spell |-> "self", scroll |-> "selfNoObj", wand |-> "selfNoObj"]]

CalmToClone ==
    [calm |-> [spell |-> "target", scroll |-> "orSelfNoObj", wand |-> "selfNoObj",
            staff |-> "everyone"],
     web |-> [spell |-> "target", scroll |-> "orSelfNoObj", wand |-> "selfNoObj",
            staff |-> "strangers"],
     clone |-> Nowhere]

ControlWeatherToCreateWater ==
    [control_weather |-> [spell |-> "none"],
     create_food |-> By({"spell", "scroll"}, "none"),
     create_water |-> [spell |-> "item"]]

WaterBreathToCureCritic ==
    [water_breath |-> By({"spell", "potion", "wand"}, "target"),
     flying |-> By({"spell", "potion", "wand"}, "target"),
     fly_group |-> [spell |-> "none", potion |-> "target", wand |-> "none",
            staff |-> "none"],
     heroes_feast |-> By({"spell", "wand", "staff"}, "none"),
     cure_blind |-> [spell |-> "target", potion |-> "self", staff |-> "others"],
     cure_critic |-> [spell |-> "target", potion |-> "self", scroll |-> "target",
            wand |-> "orSelf", staff |-> "others"]]

CureLightToShield ==
    [cure_light |-> [spell |-> "target", potion |-> "self", wand |-> "orSelf",
            staff |-> "others"],
     cure_serious |-> [spell |-> "target", potion |-> "self", wand |-> "orSelf",
            staff |-> "others"],
     refresh |-> [spell |-> "target", potion |-> "self", wand |-> "orSelf",
            staff |-> "others"],
     second_wind |-> [spell |-> "target", potion |-> "self", wand |-> "others",
            staff |-> "others"],
     shield |-> [spell |-> "target", potion |-> "self", wand |-> "orSelf",
            staff |-> "others"]]

CurseToDetectMagic ==
    [curse |-> [spell |-> "both", potion |-> "self", scroll |-> "itemOrSelf",
            wand |-> "itemOrSelf", staff |-> "others"],
     detect_evil |-> [spell |-> "target", potion |-> "self", staff |-> "others"],
     detect_invisibility |-> [spell |-> "target", potion |-> "self",
            staff |-> "group"],
     detect_magic |-> [spell |-> "target", potion |-> "self", staff |-> "others"]]

DetectPoisonToEnchantWeapon ==
    [detect_poison |-> [spell |-> "both", potion |-> "self", scroll |-> "itemOrSelf"],
     dispel_evil |-> [spell |-> "target", potion |-> "self",
            scroll |-> "orSelfNoObj", wand |-> "noObj", staff |-> "strangers"],
     dispel_good |-> [spell |-> "target", potion |-> "self",
            scroll |-> "orSelfNoObj", wand |-> "noObj", staff |-> "strangers"],
     faerie_fire |-> [spell |-> "target", potion |-> "self",
            scroll |-> "orSelfNoObj", wand |-> "noObj", staff |-> "strangers"],
     enchant_weapon |-> [spell |-> "item", scroll |-> "itemOnly"]]

HealToProtectionFromEvil ==
    [heal |-> [spell |-> "target", potion |-> "self", staff |-> "others"],
     invisibility |-> [spell |-> "both", potion |-> "self",
            scroll |-> "itemOrSelf", wand |-> "both", staff |-> "others"],
     locate_object |-> [spell |-> "item"],
     poison |-> [spell |-> "both", potion |-> "self", wand |-> "both",
            staff |-> "others"],
     protection_from_evil |-> [spell |-> "target", potion |-> "self",
            scroll |-> "orSelfNoObj", staff |-> "others"]]

ProtectionFromEvilGroupToSanctuary ==
    [protection_from_evil_group |-> [spell |-> "target", potion |-> "self",
            scroll |-> "orSelfNoObj", staff |-> "others"],
     remove_curse |-> [spell |-> "both", potion |-> "self",
            scroll |-> "itemOrSelf", staff |-> "others"],
     remove_poison |-> [spell |-> "both", potion |-> "self", staff |-> "others"],
     remove_paralysis |-> [spell |-> "both", potion |-> "self", wand |-> "orSelf",
            staff |-> "others"],
     sanctuary |-> [spell |-> "target", potion |-> "self",
            scroll |-> "orSelfNoObj", wand |-> "self", staff |-> "others"]]

FireshieldToVentriloquate ==
    [fireshield |-> [spell |-> "target", potion |-> "self",
            scroll |-> "orSelfNoObj", wand |-> "self", staff |-> "others"],
     sleep |-> [spell |-> "target", potion |-> "self", scroll |-> "orSelfNoObj",
            wand |-> "noObj", staff |-> "others"],
     strength |-> [spell |-> "target", potion |-> "self", scroll |-> "orSelfNoObj",
            wand |-> "target", staff |-> "others"],
     ventriloquate |-> [spell |-> "nothing"]]

\* Mutant: the next one is taken when the victim has gone home.
WordOfRecallUnkept ==
    [spell |-> "self", potion |-> "self", scroll |-> "selfNoObj", wand |-> "noObj",
     staff |-> "others"]

WordOfRecallWays ==
    [spell |-> "self", potion |-> "self", scroll |-> "selfNoObj", wand |-> "noObj",
     staff |-> "othersKept"]

WordOfRecallToSenseLife ==
    [word_of_recall |-> WordOfRecallWays,
     summon |-> [spell |-> "target"],
     charm_person |-> [spell |-> "target", scroll |-> "targetOnly",
            staff |-> "strangers"],
     charm_monster |-> [spell |-> "target", scroll |-> "targetOnly",
            staff |-> "strangers"],
     sense_life |-> [spell |-> "self", potion |-> "self", staff |-> "others"]]

IdentifyToLightningBreath ==
    [identify |-> By({"spell", "scroll", "wand"}, "both"),
     dragon_breath |-> [potion |-> "self"],
     fire_breath |-> [spell |-> "target"],
     frost_breath |-> [spell |-> "target"],
     acid_breath |-> [spell |-> "target"],
     gas_breath |-> [spell |-> "target"],
     lightning_breath |-> [spell |-> "target"]]

KnockToDispelMagic ==
    [knock |-> By({"spell", "scroll", "wand"}, "none"),
     know_alignment |-> [spell |-> "both", potion |-> "self", scroll |-> "orSelf"],
     weakness |-> [spell |-> "target", potion |-> "self", scroll |-> "orSelfNoObj",
            wand |-> "target", staff |-> "strangers"],
     dispel_magic |-> [spell |-> "both", potion |-> "self",
            scroll |-> "itemOrSelf", wand |-> "both", staff |-> "others"]]

AnimateDeadToTurn ==
    [animate_dead |-> By({"spell", "scroll", "wand"}, "itemOnly"),
     succor |-> By({"spell", "wand", "staff"}, "none"),
     paralyze |-> [spell |-> "target", potion |-> "self", scroll |-> "orSelfNoObj",
            wand |-> "noObj", staff |-> "others"],
     fear |-> [spell |-> "target", potion |-> "self", scroll |-> "orSelfNoObj",
            wand |-> "orSelfNoObj", staff |-> "strangers"],
     turn |-> [spell |-> "target", scroll |-> "orSelfNoObj",
            wand |-> "orSelfNoObj", staff |-> "strangers"]]

FaerieFogToMinorCreation ==
    [faerie_fog |-> By({"spell", "scroll", "staff"}, "none"),
     poly_self |-> [spell |-> "none"],
     minor_creation |-> By({"spell", "scroll"}, "none")]

ConjureElementalWays ==
    [conjure_elemental |-> By({"spell", "scroll"}, "sacrifice")]

CacaodemonToMonSum2 ==
    [cacaodemon |-> By({"spell", "scroll"}, "sacrifice"),
     mon_sum1 |-> By({"spell", "scroll", "wand", "staff"}, "none"),
     mon_sum2 |-> By({"spell", "scroll", "wand", "staff"}, "none")]

MonSum3ToTransportViaPlant ==
    [mon_sum3 |-> By({"spell", "scroll", "wand", "staff"}, "none"),
     mon_sum4 |-> By({"spell", "scroll", "wand", "staff"}, "none"),
     mon_sum5 |-> By({"spell", "scroll", "wand", "staff"}, "none"),
     mon_sum6 |-> By({"spell", "scroll", "wand", "staff"}, "none"),
     mon_sum7 |-> By({"spell", "scroll", "wand", "staff"}, "none"),
     tree_travel |-> By({"spell", "scroll", "wand", "staff"}, "self"),
     speak_with_plants |-> By({"spell", "scroll", "wand"}, "item"),
     transport_via_plant |-> By({"spell", "scroll"}, "item")]

HasteToPwordBlind ==
    [haste |-> [spell |-> "target", scroll |-> "orSelfNoObj",
            wand |-> "orSelfNoObj", staff |-> "strangers"],
     slow |-> [spell |-> "target", scroll |-> "orSelfNoObj",
            wand |-> "orSelfNoObj", staff |-> "strangers"],
     reincarnate |-> By({"spell", "staff"}, "itemOnly"),
     changestaff |-> By({"spell", "scroll", "staff"}, "none"),
     pword_kill |-> By({"spell", "scroll"}, "target"),
     pword_blind |-> By({"spell", "scroll"}, "target")]

ChainLightnToGolem ==
    [chain_lightn |-> By({"spell", "scroll", "wand", "staff"}, "target"),
     scare |-> By({"spell", "scroll", "wand", "staff"}, "target"),
     familiar |-> [spell |-> "none"],
     aid |-> By({"spell", "scroll", "wand", "staff"}, "target"),
     holyword |-> By({"spell", "scroll"}, "none"),
     unholyword |-> By({"spell", "scroll"}, "none"),
     golem |-> By({"spell", "scroll"}, "none")]

CommandToShillelagh ==
    [command |-> By({"spell", "scroll"}, "target"),
     change_form |-> [spell |-> "none"],
     shillelagh |-> By({"spell", "scroll"}, "item")]

GoodberryToFeeblemind ==
    [goodberry |-> By({"spell", "scroll"}, "self"),
     flame_blade |-> By({"spell", "scroll"}, "self"),
     animal_growth |-> By({"spell", "scroll", "wand"}, "target"),
     insect_growth |-> By({"spell", "scroll", "wand"}, "target"),
     creeping_death |-> By({"spell", "scroll"}, "none"),
     commune |-> By({"spell", "scroll"}, "none"),
     feeblemind |-> [spell |-> "orSelf", potion |-> "self", scroll |-> "orSelf",
            wand |-> "orSelf"]]

AnimalSummon1ToVeggieGrowth ==
    [animal_summon_1 |-> Always("none"),
     animal_summon_2 |-> Always("none"),
     animal_summon_3 |-> Always("none"),
     fire_servant |-> By({"spell", "scroll", "staff"}, "none"),
     earth_servant |-> By({"spell", "scroll", "staff"}, "none"),
     water_servant |-> By({"spell", "scroll", "staff"}, "none"),
     wind_servant |-> By({"spell", "scroll", "staff"}, "none"),
     veggie_growth |-> By({"spell", "scroll", "wand"}, "target")]

CharmVeggieToSlowPoison ==
    [charm_veggie |-> [spell |-> "target", scroll |-> "targetOnly",
            staff |-> "strangers"],
     tree |-> By({"spell", "potion", "scroll", "staff"}, "none"),
     animate_rock |-> By({"spell", "scroll", "wand"}, "item"),
     travelling |-> Always("self"),
     animal_friendship |-> By({"spell", "scroll", "wand"}, "target"),
     invis_to_animals |-> By({"spell", "potion", "scroll"}, "self"),
     slow_poison |-> By({"spell", "potion", "scroll", "wand"}, "orSelf")]

EntangleToSunray ==
    [entangle |-> [spell |-> "orSelf", scroll |-> "orSelf", wand |-> "orSelf",
            staff |-> "strangersMortal"],
     snare |-> [spell |-> "orSelf", scroll |-> "orSelf", wand |-> "orSelf",
            staff |-> "strangersMortal"],
     gust_of_wind |-> By({"spell", "scroll", "wand", "staff"}, "none"),
     barkskin |-> [spell |-> "orSelf", scroll |-> "orSelf", wand |-> "orSelf",
            staff |-> "strangers"],
     warp_weapon |-> By({"spell", "scroll", "wand"}, "orSelfBoth"),
     heat_stuff |-> By({"spell", "scroll", "wand"}, "orSelf"),
     sunray |-> By({"spell", "scroll", "wand"}, "orSelf")]

FindTrapsToSending ==
    [find_traps |-> [spell |-> "target", potion |-> "self", scroll |-> "target",
            wand |-> "target", staff |-> "self"],
     firestorm |-> By({"spell", "scroll", "staff"}, "none"),
     dust_devil |-> By({"spell", "scroll", "staff"}, "none"),
     know_monster |-> By({"spell", "scroll", "wand"}, "targetOnly"),
     silence |-> [spell |-> "orSelf", potion |-> "self", scroll |-> "orSelf",
            wand |-> "orSelf", staff |-> "strangersMortal"],
     dragon_ride |-> Always("self"),
     mount |-> By({"spell", "scroll", "staff"}, "self"),
     sending |-> Nowhere]

PortalToAntiMagicShell ==
    [portal |-> By({"spell", "scroll", "staff"}, "orSelf"),
     teleport_wo_error |-> By({"spell", "potion", "scroll", "wand"}, "targetOnly"),
     globe_darkness |-> By({"spell", "scroll", "wand", "staff"}, "target"),
     globe_minor_inv |-> By({"spell", "scroll", "wand", "staff"}, "target"),
     globe_major_inv |-> By({"spell", "scroll", "wand", "staff"}, "target"),
     prot_energy_drain |-> By({"spell", "scroll", "wand", "staff"}, "target"),
     prot_dragon_breath |-> By({"spell", "scroll", "wand", "staff"}, "target"),
     anti_magic_shell |-> [spell |-> "target", potion |-> "target",
            scroll |-> "noObj", wand |-> "noObj"]]

CompLanguagesToMessenger ==
    [comp_languages |-> [spell |-> "target", potion |-> "target",
            scroll |-> "noObj", wand |-> "noObj"],
     prot_fire |-> [spell |-> "target", potion |-> "target", scroll |-> "noObj",
            wand |-> "noObj"],
     prot_cold |-> [spell |-> "target", potion |-> "target", scroll |-> "noObj",
            wand |-> "noObj"],
     prot_energy |-> [spell |-> "target", potion |-> "target", scroll |-> "noObj",
            wand |-> "noObj"],
     prot_elec |-> [spell |-> "target", potion |-> "target", scroll |-> "noObj",
            wand |-> "noObj"],
     enchant_armor |-> [spell |-> "item", scroll |-> "itemOnly"],
     messenger |-> Nowhere]

ProtDragonBreathFireToProtDragonBreathGas ==
    [prot_dragon_breath_fire |-> By({"spell", "scroll", "wand", "staff"}, "target"),
     prot_dragon_breath_frost |-> By({"spell", "scroll", "wand", "staff"}, "target"),
     prot_dragon_breath_elec |-> By({"spell", "scroll", "wand", "staff"}, "target"),
     prot_dragon_breath_acid |-> By({"spell", "scroll", "wand", "staff"}, "target"),
     prot_dragon_breath_gas |-> By({"spell", "scroll", "wand", "staff"}, "target")]

MindBurnToMindTelekinesis ==
    [mind_burn |-> By({"spell", "scroll", "wand", "staff"}, "none"),
     mind_teleport |-> By({"spell", "scroll", "wand", "staff"}, "target"),
     mind_probability_travel |-> By({"spell", "scroll", "wand", "staff"}, "target"),
     mind_danger_sense |-> By({"spell", "scroll", "wand", "staff"}, "target"),
     mind_clairvoyance |-> By({"spell", "scroll", "wand", "staff"}, "target"),
     mind_disintegrate |-> By({"spell", "scroll", "wand", "staff"}, "target"),
     mind_telekinesis |-> By({"spell", "scroll", "wand", "staff"}, "target")]

MindLevitationToMindPsychicCrush ==
    [mind_levitation |-> By({"spell", "scroll", "wand", "staff"}, "target"),
     mind_cell_adjustment |-> By({"spell", "scroll", "wand", "staff"}, "target"),
     mind_chameleon |-> By({"spell", "scroll", "wand", "staff"}, "target"),
     mind_psi_strength |-> By({"spell", "scroll", "wand", "staff"}, "target"),
     mind_mind_over_body |-> By({"spell", "scroll", "wand", "staff"}, "target"),
     mind_domination |-> By({"spell", "scroll", "wand", "staff"}, "target"),
     mind_mind_wipe |-> By({"spell", "scroll", "wand", "staff"}, "target"),
     mind_psychic_crush |-> By({"spell", "scroll", "wand", "staff"}, "target")]

MindTowerIronWillToMindIntensify ==
    [mind_tower_iron_will |-> By({"spell", "scroll", "wand", "staff"}, "target"),
     mind_mindblank |-> By({"spell", "scroll", "wand", "staff"}, "target"),
     mind_psychic_impersonation |-> By({"spell", "scroll", "wand", "staff"}, "target"),
     mind_ultra_blast |-> By({"spell", "scroll", "wand", "staff"}, "target"),
     mind_intensify |-> By({"spell", "scroll", "wand", "staff"}, "target")]

Spells1Ways ==
    BurningHandsToEarthquake
    @@ EnergyDrainToConeOfCold
    @@ IceStormToCauseSerious
    @@ CauseCriticToDisintegrate

Spells2Ways ==
    ResurrectionToMana
    @@ ArmorToTeleport
    @@ BlessToInfravision
    @@ TrueSeeingToContLight
    @@ CalmToClone
    @@ ControlWeatherToCreateWater
    @@ WaterBreathToCureCritic
    @@ CureLightToShield
    @@ CurseToDetectMagic
    @@ DetectPoisonToEnchantWeapon
    @@ HealToProtectionFromEvil
    @@ ProtectionFromEvilGroupToSanctuary
    @@ FireshieldToVentriloquate
    @@ WordOfRecallToSenseLife
    @@ IdentifyToLightningBreath
    @@ KnockToDispelMagic
    @@ AnimateDeadToTurn
    @@ FaerieFogToMinorCreation
    @@ ConjureElementalWays
    @@ CacaodemonToMonSum2
    @@ MonSum3ToTransportViaPlant
    @@ HasteToPwordBlind
    @@ ChainLightnToGolem
    @@ CommandToShillelagh
    @@ GoodberryToFeeblemind
    @@ AnimalSummon1ToVeggieGrowth
    @@ CharmVeggieToSlowPoison
    @@ EntangleToSunray
    @@ FindTrapsToSending
    @@ PortalToAntiMagicShell
    @@ CompLanguagesToMessenger
    @@ ProtDragonBreathFireToProtDragonBreathGas

MindWays ==
    MindBurnToMindTelekinesis
    @@ MindLevitationToMindPsychicCrush
    @@ MindTowerIronWillToMindIntensify

-----------------------------------------------------------------------------
(* A spell of one of the types, aimed at t: a character, Thing or None.    *)

Ways == Spells1Ways @@ Spells2Ways @@ MindWays

\* Whom a wrapper finds, or "nobody"; "none" is a call without a victim.
Found(c, t, way) ==
    LET victim == IF t \in Chars THEN t ELSE None
        orSelf == IF t \in Chars THEN t ELSE c
    IN  CASE way = "target" -> victim
          [] way = "self" -> c
          [] way = "none" -> None
          [] way = "orSelf" -> orSelf
          [] way = "targetOnly" -> IF victim = None THEN "nobody" ELSE victim
          [] way = "orSelfNoObj" -> IF t = Thing THEN "nobody" ELSE orSelf
          [] way = "selfNoObj" -> IF t = Thing THEN "nobody" ELSE c
          [] way = "noObj" -> IF t = Thing THEN "nobody" ELSE victim
          [] way = "both" -> t
          [] way = "item" -> IF t = Thing THEN Thing ELSE None
          [] way = "itemOnly" -> IF t = Thing THEN Thing ELSE "nobody"
          [] way \in {"itemOrSelf", "orSelfBoth"} -> IF t = None THEN c ELSE t
          [] way = "sacrifice" -> Thing
          [] OTHER -> "nobody"

\* Whom a walk comes to: only that with "othersKept" keeps the next one.
Walked(w, c, way) ==
    CASE way \in {"others", "othersKept"} -> People(w, c) \ {c}
      [] way = "strangers" -> Strangers(w, c)
      [] way = "strangersMortal" -> Mortals(w, c)
      [] way = "group" -> People(w, c) \ Strangers(w, c)
      [] way = "everyone" -> People(w, c)
Walks == {"others", "othersKept", "strangers", "strangersMortal", "group", "everyone"}

\* What is held is given for the spell, if it is what is asked for; whether
\* something is wielded too is not looked at for a demon.
Unsacrificed(w, s) == {w} \cup IF s = "cacaodemon" THEN {Faulty(w, "aborted")} ELSE {}

Through(w, c, s, type, t) ==
    LET way == Ways[s][type]
        found == Found(c, t, way)
        onNext(x, v) == {IF way # "othersKept" /\ y.where[v] # x.where[v]
                         THEN Faulty(y, "astray") ELSE y : y \in Invoked(x, c, s, type, v)}
    IN  IF way \in Walks THEN Each(w, c, Walked(w, c, way), onNext)
        ELSE (IF way = "sacrifice" THEN Unsacrificed(w, s) ELSE {})
             \cup (IF found = "nobody" THEN {w}
                   ELSE IF way = "sacrifice" /\ w.thing = "gone" THEN {}
                   ELSE Invoked(w, c, s, type, found))

Cast(w, c, s, type, t) == IF type \in DOMAIN Ways[s] THEN Through(w, c, s, type, t) ELSE {w}
=============================================================================
