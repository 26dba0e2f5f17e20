-------------------------------- MODULE Items --------------------------------
(* The potions, scrolls, wands and staffs of the world, leudata.obj: the   *)
(* spells that are in their values, once for each list.  "none" stands for *)
(* the number of a spell that has no wrapper.                              *)
Potions ==
    {<<"animal_summon_2">>, <<"armor">>, <<"armor", "bless">>,
     <<"armor", "energy_drain", "sanctuary">>, <<"astral_walk">>,
     <<"bless", "cure_light">>, <<"blindness", "fear">>,
     <<"blindness", "sanctuary", "strength">>, <<"blindness", "teleport", "cure_blind">>,
     <<"call_lightning">>, <<"cure_blind", "heal", "sanctuary">>, <<"cure_critic">>,
     <<"cure_critic", "bless", "armor">>, <<"cure_critic", "cure_critic">>,
     <<"cure_critic", "cure_light", "cure_serious">>, <<"cure_critic", "cure_serious">>,
     <<"cure_critic", "remove_poison">>, <<"cure_light">>, <<"cure_light", "aid">>,
     <<"cure_serious", "cure_serious">>, <<"curse">>,
     <<"curse", "detect_evil", "energy_drain">>, <<"curse", "weakness", "teleport">>,
     <<"detect_evil", "detect_invisibility", "detect_magic">>, <<"detect_invisibility">>,
     <<"detect_invisibility", "detect_magic", "sense_life">>,
     <<"dispel_magic", "detect_evil", "remove_paralysis">>, <<"dragon_breath">>,
     <<"dragon_ride">>, <<"feeblemind", "feeblemind", "feeblemind">>, <<"flying">>,
     <<"harm">>, <<"harm", "curse", "sanctuary">>, <<"harm", "harm", "harm">>,
     <<"haste">>, <<"heal">>, <<"heal", "blindness", "paralyze">>,
     <<"heat_stuff", "slow", "sanctuary">>, <<"insect_growth">>, <<"mana">>,
     <<"mana", "fear">>, <<"mon_sum7">>, <<"poison", "curse">>,
     <<"poison", "sanctuary">>, <<"protection_from_evil">>, <<"refresh">>,
     <<"remove_poison">>, <<"remove_poison", "cause_serious">>, <<"sanctuary">>,
     <<"sanctuary", "remove_poison", "heal">>, <<"second_wind">>,
     <<"second_wind", "cause_light">>, <<"second_wind", "cure_critic">>,
     <<"second_wind", "travelling", "cause_critic">>, <<"sense_life">>,
     <<"silence", "stone_skin", "poison">>, <<"silence", "strength", "aid">>,
     <<"sleep", "armor">>, <<"sleep", "sleep", "sleep">>, <<"strength">>,
     <<"strength", "blindness", "cure_light">>, <<"travelling", "barkskin">>,
     <<"travelling", "major_track">>, <<"tree">>, <<"water_breath">>,
     <<"weakness", "blindness", "harm">>, <<"word_of_recall">>,
     <<"word_of_recall", "invisibility", "cure_critic">>}

Scrolls ==
    {<<"none">>, <<"animal_growth">>, <<"armor", "shield", "stone_skin">>,
     <<"armor", "teleport", "protection_from_evil">>, <<"astral_walk">>,
     <<"blindness", "curse", "sleep">>, <<"chain_lightn">>, <<"charm_person">>,
     <<"commune">>, <<"comp_languages">>, <<"create_food">>,
     <<"cure_blind", "remove_curse", "remove_poison">>, <<"cure_serious">>,
     <<"curse", "identify">>, <<"detect_evil", "detect_invisibility", "detect_magic">>,
     <<"detect_poison", "cause_critic">>, <<"dispel_magic">>, <<"earth_servant">>,
     <<"enchant_weapon">>, <<"fireball", "lightning_bolt">>, <<"goodberry">>,
     <<"haste">>, <<"heal">>, <<"identify">>, <<"invis_to_animals">>, <<"invisibility">>,
     <<"know_monster">>, <<"lightning_bolt">>, <<"magic_missile", "sanctuary", "armor">>,
     <<"major_track", "travelling", "know_monster">>, <<"meteor_swarm">>, <<"mon_sum1">>,
     <<"mount">>, <<"protection_from_evil">>, <<"remove_curse", "bless">>,
     <<"sanctuary">>, <<"teleport", "lightning_bolt", "call_lightning">>,
     <<"true_seeing">>, <<"web">>, <<"word_of_recall">>}

Wands ==
    {<<"none">>, <<"acid_blast">>, <<"animate_dead">>, <<"bless">>, <<"blindness">>,
     <<"call_lightning">>, <<"colour_spray">>, <<"cone_of_cold">>,
     <<"detect_invisibility">>, <<"dispel_evil">>, <<"earthquake">>, <<"energy_drain">>,
     <<"faerie_fire">>, <<"fireball">>, <<"flying">>, <<"infravision">>,
     <<"invisibility">>, <<"knock">>, <<"lightning_bolt">>, <<"magic_missile">>,
     <<"sleep">>, <<"teleport">>, <<"veggie_growth">>, <<"word_of_recall">>}

Staffs ==
    {<<"astral_walk">>, <<"blindness">>, <<"call_lightning">>, <<"cause_critic">>,
     <<"cause_light">>, <<"charm_monster">>, <<"charm_person">>, <<"cure_critic">>,
     <<"cure_light">>, <<"detect_invisibility">>, <<"dispel_magic">>, <<"earthquake">>,
     <<"faerie_fire">>, <<"fireball">>, <<"gust_of_wind">>, <<"harm">>, <<"heal">>,
     <<"ice_storm">>, <<"invisibility">>, <<"mon_sum7">>, <<"poison">>,
     <<"protection_from_evil">>, <<"pword_kill">>, <<"refresh">>, <<"sanctuary">>,
     <<"second_wind">>, <<"sleep">>, <<"teleport">>, <<"travelling">>,
     <<"word_of_recall">>}
=============================================================================
