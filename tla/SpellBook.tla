------------------------------ MODULE SpellBook ------------------------------
(* The spells that the wrappers of spells1.c, spells2.c and mind_use1.c    *)
(* call.                                                                   *)
EXTENDS Mind

\* A word of command: to flee, to sit, or any other; who resists it is angry.
Ordered(w, c, v) ==
    Aimed(w, v, {w} \cup Flee(w, v) \cup IF v \in Pcs THEN {} ELSE Hit(w, v, c))

BreathSpells == {"fire breath", "frost breath", "acid breath", "gas breath", "lightning breath"}
Breath(w, c, v) == {w} \cup {Lay(w, c, s) : s \in BreathSpells}

MindPointer(w, c, s, type, t) ==
    CASE s = "mind_burn" -> MindBurn(w, c, t)
      [] s = "mind_teleport" -> MindTeleport(w, c, t)
      [] s = "mind_probability_travel" -> MindProbabilityTravel(w, c, t)
      [] s = "mind_danger_sense" -> MindDangerSense(w, c, t)
      [] s = "mind_clairvoyance" -> MindClairvoyance(w, c, t)
      [] s = "mind_disintegrate" -> MindDisintegrate(w, c, t)
      [] s = "mind_telekinesis" -> MindTelekinesis(w, c, t)
      [] s = "mind_levitation" -> MindLevitation(w, c, t)
      [] s = "mind_cell_adjustment" -> MindCellAdjustment(w, c, t)
      [] s = "mind_chameleon" -> MindChameleon(w, c, t)
      [] s = "mind_psi_strength" -> MindPsiStrength(w, c, t)
      [] s = "mind_mind_over_body" -> MindMindOverBody(w, c, t)
      [] s = "mind_domination" -> MindDomination(w, c, t)
      [] s = "mind_mind_wipe" -> MindMindWipe(w, c, t)
      [] s = "mind_psychic_crush" -> MindPsychicCrush(w, c, t)
      [] s = "mind_tower_iron_will" -> MindTowerIronWill(w, c, t)
      [] s = "mind_mindblank" -> MindMindblank(w, c, t)
      [] s = "mind_psychic_impersonation" -> MindPsychicImpersonation(w, c, t)
      [] s = "mind_ultra_blast" -> MindUltraBlast(w, c, t)
      [] s = "mind_intensify" -> MindIntensify(w, c, t)
      [] OTHER -> {w}

Spells2Pointer(w, c, s, type, t) ==
    CASE s = "resurrection" -> SpellResurrection(w, c, t)
      [] s \in {"major_track", "minor_track"} -> SpellTrack(w, c, t)
      [] s = "mana" -> SpellMana(w, c, t)
      [] s = "armor" -> SpellArmor(w, c, t)
      [] s = "stone_skin" -> SpellStoneSkin(w, c, t)
      [] s \in {"astral_walk", "teleport_wo_error"} -> SpellAstralWalk(w, c, t)
      [] s = "teleport" -> SpellTeleport(w, c, t)
      [] s = "bless" -> SpellBless(w, c, t)
      [] s = "infravision" -> SpellInfravision(w, c, t)
      [] s = "true_seeing" -> SpellTrueSeeing(w, c, t)
      [] s = "blindness" -> SpellBlindness(w, c, t)
      [] s = "light" -> SpellLight(w, c, t)
      [] s = "cont_light" -> SpellContLight(w, c, t)
      [] s = "calm" -> SpellCalm(w, c, t)
      [] s = "web" -> SpellWeb(w, c, t)
      [] s = "create_food" -> SpellCreateFood(w, c, t)
      [] s = "create_water" -> SpellCreateWater(w, c, t)
      [] s = "water_breath" -> SpellWaterBreath(w, c, t)
      [] s = "flying" -> SpellFly(w, c, t)
      [] s = "fly_group" -> IF type = "potion" THEN SpellFly(w, c, t) ELSE SpellFlyGroup(w, c, t)
      [] s = "heroes_feast" -> SpellHeroesFeast(w, c, t)
      [] s = "cure_blind" -> SpellCureBlind(w, c, t)
      [] s = "cure_critic" -> SpellCureCritic(w, c, t)
      [] s = "cure_light" -> SpellCureLight(w, c, t)
      [] s = "cure_serious" -> SpellCureSerious(w, c, t)
      [] s = "refresh" -> SpellRefresh(w, c, t)
      [] s = "second_wind" -> SpellSecondWind(w, c, t)
      [] s = "shield" -> SpellShield(w, c, t)
      [] s = "curse" -> SpellCurse(w, c, t)
      [] s = "detect_evil" -> SpellDetectEvil(w, c, t)
      [] s = "detect_invisibility" -> SpellDetectInvisibility(w, c, t)
      [] s = "detect_magic" -> SpellDetectMagic(w, c, t)
      [] s = "detect_poison" -> SpellDetectPoison(w, c, t)
      [] s = "dispel_evil" -> SpellDispelEvil(w, c, t)
      [] s = "dispel_good" -> SpellDispelGood(w, c, t)
      [] s = "faerie_fire" -> SpellFaerieFire(w, c, t)
      [] s = "enchant_weapon" -> SpellEnchantWeapon(w, c, t)
      [] s = "heal" -> SpellHeal(w, c, t)
      [] s = "invisibility" -> SpellInvisibility(w, c, t)
      [] s = "locate_object" -> SpellLocateObject(w, c, t)
      [] s = "poison" -> SpellPoison(w, c, t)
      [] s = "protection_from_evil" -> SpellProtectionFromEvil(w, c, t)
      [] s = "protection_from_evil_group" -> SpellProtectionFromEvilGroup(w, c, t)
      [] s = "remove_curse" -> SpellRemoveCurse(w, c, t)
      [] s = "remove_poison" -> SpellRemovePoison(w, c, t)
      [] s = "remove_paralysis" -> SpellRemoveParalysis(w, c, t)
      [] s = "sanctuary" -> SpellSanctuary(w, c, t)
      [] s = "fireshield" -> SpellFireshield(w, c, t)
      [] s = "sleep" -> SpellSleep(w, c, t)
      [] s = "strength" -> SpellStrength(w, c, t)
      [] s = "word_of_recall" -> SpellWordOfRecall(w, c, t)
      [] s = "summon" -> SpellSummon(w, c, t)
      [] s = "charm_person" -> SpellCharmPerson(w, c, t)
      [] s = "charm_monster" -> SpellCharmMonster(w, c, t)
      [] s = "sense_life" -> SpellSenseLife(w, c, t)
      [] s = "identify" -> SpellIdentify(w, c, t)
      [] s = "dragon_breath" -> Breath(w, c, t)
      [] s = "fire_breath" -> SpellFireBreath(w, c, t)
      [] s = "frost_breath" -> SpellFrostBreath(w, c, t)
      [] s = "acid_breath" -> SpellAcidBreath(w, c, t)
      [] s = "gas_breath" -> SpellGasBreath(w, c, t)
      [] s = "lightning_breath" -> SpellLightningBreath(w, c, t)
      [] s = "know_alignment" -> SpellKnowAlignment(w, c, t)
      [] s = "weakness" -> SpellWeakness(w, c, t)
      [] s = "dispel_magic" -> SpellDispelMagic(w, c, t)
      [] s = "animate_dead" -> SpellAnimateDead(w, c, t)
      [] s = "succor" -> SpellSuccor(w, c, t)
      [] s = "paralyze" -> SpellParalyze(w, c, t)
      [] s = "fear" -> SpellFear(w, c, t)
      [] s = "turn" -> SpellTurn(w, c, t)
      [] s = "faerie_fog" -> SpellFaerieFog(w, c, t)
      [] s \in {"poly_self", "change_form"} -> SpellPolySelf(w, c, t)
      [] s = "minor_creation" -> SpellMinorCreate(w, c, t)
      [] s = "conjure_elemental" -> SpellConjureElemental(w, c, t)
      [] s = "cacaodemon" -> SpellCacaodemon(w, c, t)
      [] s \in {"mon_sum1", "mon_sum2", "mon_sum3", "mon_sum4", "mon_sum5", "mon_sum6",
               "mon_sum7"} -> SpellCreateMonster(w, c, t)
      [] s = "tree_travel" -> SpellTreeTravel(w, c, t)
      [] s = "speak_with_plants" -> SpellSpeakWithPlants(w, c, t)
      [] s = "transport_via_plant" -> SpellTransportViaPlant(w, c, t)
      [] s = "haste" -> SpellHaste(w, c, t)
      [] s = "slow" -> SpellSlow(w, c, t)
      [] s = "reincarnate" -> SpellReincarnate(w, c, t)
      [] s = "changestaff" -> SpellChangestaff(w, c, t)
      [] s = "pword_kill" -> SpellPwordKill(w, c, t)
      [] s = "pword_blind" -> SpellPwordBlind(w, c, t)
      [] s = "chain_lightn" -> SpellChainLightn(w, c, t)
      [] s = "scare" -> SpellScare(w, c, t)
      [] s = "familiar" -> SpellFamiliar(w, c, t)
      [] s = "aid" -> SpellAid(w, c, t)
      [] s \in {"holyword", "unholyword"} -> SpellHolyword(w, c, t)
      [] s = "golem" -> SpellGolem(w, c, t)
      [] s = "command" -> Ordered(w, c, t)
      [] s = "shillelagh" -> SpellShillelagh(w, c, t)
      [] s = "goodberry" -> SpellGoodberry(w, c, t)
      [] s = "flame_blade" -> SpellFlameBlade(w, c, t)
      [] s = "animal_growth" -> SpellAnimalGrowth(w, c, t)
      [] s = "insect_growth" -> SpellInsectGrowth(w, c, t)
      [] s = "creeping_death" -> SpellCreepingDeath(w, c, t)
      [] s = "commune" -> SpellCommune(w, c, t)
      [] s = "feeblemind" -> SpellFeeblemind(w, c, t)
      [] s \in {"animal_summon_1", "animal_summon_2", "animal_summon_3"} -> SpellAnimalSummon(w, c, t)
      [] s \in {"fire_servant", "earth_servant", "water_servant", "wind_servant"} -> SpellElementalSummoning(w, c, s)
      [] s = "veggie_growth" -> SpellVeggieGrowth(w, c, t)
      [] s = "charm_veggie" -> SpellCharmVeggie(w, c, t)
      [] s = "tree" -> SpellTree(w, c, t)
      [] s = "animate_rock" -> SpellAnimateRock(w, c, t)
      [] s = "travelling" -> SpellTravelling(w, c, t)
      [] s = "animal_friendship" -> SpellAnimalFriendship(w, c, t)
      [] s = "invis_to_animals" -> SpellInvisToAnimals(w, c, t)
      [] s = "slow_poison" -> SpellSlowPoison(w, c, t)
      [] s = "entangle" -> SpellEntangle(w, c, t)
      [] s = "snare" -> SpellSnare(w, c, t)
      [] s = "gust_of_wind" -> SpellGustOfWind(w, c, t)
      [] s = "barkskin" -> SpellBarkskin(w, c, t)
      [] s = "warp_weapon" -> SpellWarpWeapon(w, c, t)
      [] s = "heat_stuff" -> SpellHeatStuff(w, c, t)
      [] s = "sunray" -> SpellSunray(w, c, t)
      [] s = "find_traps" -> SpellFindTraps(w, c, t)
      [] s = "firestorm" -> SpellFirestorm(w, c, t)
      [] s = "dust_devil" -> SpellDustDevil(w, c, t)
      [] s = "know_monster" -> SpellKnowMonster(w, c, t)
      [] s = "silence" -> SpellSilence(w, c, t)
      [] s = "dragon_ride" -> SpellDragonRide(w, c, t)
      [] s = "mount" -> SpellMount(w, c, t)
      [] s = "portal" -> SpellPortal(w, c, t)
      [] s = "globe_darkness" -> SpellGlobeDarkness(w, c, t)
      [] s = "globe_minor_inv" -> SpellGlobeMinorInv(w, c, t)
      [] s = "globe_major_inv" -> SpellGlobeMajorInv(w, c, t)
      [] s = "prot_energy_drain" -> SpellProtEnergyDrain(w, c, t)
      [] s = "prot_dragon_breath" -> SpellProtDragonBreath(w, c, t)
      [] s = "anti_magic_shell" -> SpellAntiMagicShell(w, c, t)
      [] s = "comp_languages" -> SpellCompLanguages(w, c, t)
      [] s = "prot_fire" -> SpellProtFire(w, c, t)
      [] s = "prot_cold" -> SpellProtCold(w, c, t)
      [] s = "prot_energy" -> SpellProtEnergy(w, c, t)
      [] s = "prot_elec" -> SpellProtElec(w, c, t)
      [] s = "enchant_armor" -> SpellEnchantArmor(w, c, t)
      [] s = "prot_dragon_breath_fire" -> SpellProtDragonBreathFire(w, c, t)
      [] s = "prot_dragon_breath_frost" -> SpellProtDragonBreathFrost(w, c, t)
      [] s = "prot_dragon_breath_elec" -> SpellProtDragonBreathElec(w, c, t)
      [] s = "prot_dragon_breath_acid" -> SpellProtDragonBreathAcid(w, c, t)
      [] s = "prot_dragon_breath_gas" -> SpellProtDragonBreathGas(w, c, t)
      [] OTHER -> MindPointer(w, c, s, type, t)

Spells1Pointer(w, c, s, type, t) ==
    CASE s = "burning_hands" -> SpellBurningHands(w, c, t)
      [] s = "call_lightning" -> SpellCallLightning(w, c, t)
      [] s = "chill_touch" -> SpellChillTouch(w, c, t)
      [] s = "shocking_grasp" -> SpellShockingGrasp(w, c, t)
      [] s = "colour_spray" -> SpellColourSpray(w, c, t)
      [] s = "earthquake" -> SpellEarthquake(w, c, t)
      [] s = "energy_drain" -> SpellEnergyDrain(w, c, t)
      [] s = "fireball" -> SpellFireball(w, c, t)
      [] s = "harm" -> SpellHarm(w, c, t)
      [] s = "lightning_bolt" -> SpellLightningBolt(w, c, t)
      [] s = "acid_blast" -> SpellAcidBlast(w, c, t)
      [] s = "cone_of_cold" -> SpellConeOfCold(w, c, t)
      [] s = "ice_storm" -> SpellIceStorm(w, c, t)
      [] s = "meteor_swarm" -> SpellMeteorSwarm(w, c, t)
      [] s = "flamestrike" -> SpellFlamestrike(w, c, t)
      [] s = "magic_missile" -> SpellMagicMissile(w, c, t)
      [] s = "cause_light" -> SpellCauseLight(w, c, t)
      [] s = "cause_serious" -> SpellCauseSerious(w, c, t)
      [] s = "cause_critic" -> SpellCauseCritical(w, c, t)
      [] s = "geyser" -> SpellGeyser(w, c, t)
      [] s = "green_slime" -> SpellGreenSlime(w, c, t)
      [] s = "incendiary_cloud" -> SpellIncendiaryCloud(w, c, t)
      [] s = "prismatic_spray" -> SpellPrismaticSpray(w, c, t)
      [] s = "wizard_eye" -> SpellWizardEye(w, c, t)
      [] s = "disintegrate" -> SpellDisintegrate(w, c, t)
      [] OTHER -> Spells2Pointer(w, c, s, type, t)

\* What the wrapper of s calls.
SpellPointer(w, c, s, type, t) ==
    LET called == Spells1Pointer(w, c, s, type, t) IN called
=============================================================================
