------------------------------- MODULE Magic1 -------------------------------
(* The spells of magic.c, in its order; prismatic spray, which casts       *)
(* others, is in Magic3.                                                   *)
EXTENDS Magic2

-----------------------------------------------------------------------------
(* Blows.                                                                  *)

SpellMagicMissile(w, c, v) == Hurled(w, c, v)

SpellChillTouch(w, c, v) ==
    Aimed(w, v, UNION {SpellDamage(x, c, v) : x \in {w, Joined(w, v, "chill touch")}})

\* The caster's group is only blinded.
SpellBurningHands(w, c, v) ==
    UpToTheGods(w, c, LAMBDA x, y :
        IF InGroup(x, c, y) THEN HeatBlind(x, y)
        ELSE UNION {Missile(z, c, y) : z \in HeatBlind(x, y)})

\* It starts the heart of a dying humanoid.
SpellShockingGrasp(w, c, v) ==
    IF v \in Chars /\ w.where[v] # None /\ w.hp[v] = "hurt"
    THEN {UpdatePos(Wounded(w, v, h), v) : h \in {"fit", "hurt"}} \cup SpellDamage(w, c, v)
    ELSE Hurt(w, c, v)

SpellLightningBolt(w, c, v) == Hurled(w, c, v)
SpellColourSpray(w, c, v) == Hurled(w, c, v)

\* A mobile loses hit points for good, and nobody looks what is left of it.
Drained(w, v) ==
    IF w.where[v] = None THEN {Faulty(w, "astray")}
    ELSE IF v \in Pcs THEN {w} ELSE {Wounded(w, v, h) : h \in Lower(w.hp[v])}

\* A victim that is immune drains the caster; a caster that is a mobile
\* drains the victim all the same.
SpellEnergyDrain(w, c, v) ==
    Aimed(w, v, {w} \cup SpellDamage(w, c, v)
                \cup (IF v \in Immortals THEN {}
                      ELSE UNION {Drained(x, v) : x \in SpellDamage(w, c, v)}))

\* Mutant: the sparks fall on the gods and the group too.
FireballOnAll(w, c, v) == EachOther(w, c, LAMBDA x, y : Missile(x, c, y))

\* Both walk character_list, and keep the next one.
SpellFireball(w, c, v) ==
    EachOther(w, c, LAMBDA x, y :
        IF InGroup(x, c, y) \/ y \in Immortals THEN HeatBlind(x, y)
        ELSE UNION {Missile(z, c, y) : z \in HeatBlind(x, y)})

SpellEarthquake(w, c, v) ==
    EachOther(w, c, LAMBDA x, y :
        IF InGroup(x, c, y) \/ y \in Immortals THEN {x} ELSE Missile(x, c, y))

\* An evil caster dispels itself.
SpellDispelEvil(w, c, v) ==
    Aimed(w, v, UNION {{w, Extract(w, x)} \cup SpellDamage(w, c, x) : x \in {v, c}})

SpellCallLightning(w, c, v) == Aimed(w, v, Maybe(w, Missile(w, c, v)))
SpellHarm(w, c, v) == Hurt(w, c, v)

-----------------------------------------------------------------------------
(* Journeys.                                                               *)

SpellArmor(w, c, v) == Guarded(w, v, "armor")

\* AFF_GROUP may be lacking.
SpellAstralWalk(w, c, v) ==
    Each(w, c, {x \in People(w, c) \cap Pcs : InGroup(w, c, x) /\ w.fighting[x] = None},
         LAMBDA x, y : {x, Sent(x, y, Home)})

\* A stranger may resist; the room of the traveller says nothing of fights.
SpellTeleport(w, c, v) ==
    Aimed(w, v, {w} \cup (IF v = c THEN {} ELSE Resent(w, v, c))
                \cup {Arrived(w, v, r) : r \in Rooms \ NoMagic})

\* To the temple; not out of a fight.
SpellWordOfRecall(w, c, v) ==
    Aimed(w, v, IF v \notin Pcs \/ w.fighting[v] # None THEN {w} ELSE {w, Sent(w, v, Home)})

\* A mobile that is called may come stunned, or angry.
RawSummon(w, v, c) ==
    LET near == Sent(w, v, w.where[c]) IN
    UNION {IF v \in Pcs THEN {x} ELSE Maybe(x, Hit(x, v, c)) :
           x \in {near, Placed(near, c, "stunned")}}

\* With a player comes the player; for a mobile, anybody of its room may.
SpellSummon(w, c, v) ==
    LET ends == {w.where[c], w.where[v]}
        whom == IF v \in Pcs THEN {v} ELSE {x \in Chars : Together(w, v, x)}
    IN  IF v \notin Chars THEN {Faulty(w, "aborted")}
        ELSE IF w.where[v] = None \/ ends \cap (NoMagic \cup Peaceful) # {}
                \/ v \in Immortals \/ w.fighting[v] # None THEN {w}
        ELSE {w} \cup UNION {RawSummon(w, x, c) : x \in whom}

-----------------------------------------------------------------------------
(* Blessings, curses and cures.                                            *)

\* A blessing waits for the end of the fight.
SpellBless(w, c, t) ==
    Either(w, t, Enchanted(w), IF w.fighting[t] # None THEN {w} ELSE {Lay(w, t, "bless")})

SpellBlindness(w, c, v) ==
    Aimed(w, v, IF "blindness" \in w.under[v] THEN {w}
                ELSE {w} \cup (IF v = c THEN {Laid(w, v, "blindness")}
                               ELSE Attack(Laid(w, v, "blindness"), v, c)))

SpellClone(w, c, v) == {w}
SpellControlWeather(w, c, v) == {w}
SpellCreateFood(w, c, v) == {w}
SpellCreateWater(w, c, t) == Owned(w, t, {w})
SpellLocateObject(w, c, v) == {w}
SpellDetectPoison(w, c, v) == {w}
SpellVentriloquate(w, c, v) == {w}

Seeing(w, v) == Lifted(w, v, {"blindness", "blind for good"})
SpellCureBlind(w, c, v) == IF v \in Chars THEN Aimed(w, v, {w, Seeing(w, v)}) ELSE {w}
SpellCureCritic(w, c, v) == Cured(w, v)
SpellCureLight(w, c, v) == Cured(w, v)
SpellHeal(w, c, v) == Aimed(w, v, UNION {Cured(x, v) : x \in {w, Seeing(w, v)}})

\* A mobile that is cursed turns on the caster.
SpellCurse(w, c, t) ==
    Either(w, t, Enchanted(w),
           IF "curse" \in w.under[t] THEN {w} ELSE {w} \cup Resent(Laid(w, t, "curse"), t, c))

SpellDetectEvil(w, c, v) == Guarded(w, v, "detect evil")
SpellDetectInvisibility(w, c, v) == Guarded(w, v, "detect invisible")
SpellDetectMagic(w, c, v) == Guarded(w, v, "detect magic")
SpellEnchantWeapon(w, c, t) == Owned(w, t, Enchanted(w))
SpellEnchantArmor(w, c, t) == Owned(w, t, Enchanted(w))
SpellInvisibility(w, c, t) == Either(w, t, Enchanted(w), {Lay(w, t, "invisible")})

\* The deadly poison of a mobile kills at once; a mobile that poisons starts
\* a fight, one that is poisoned too.
SpellPoison(w, c, t) ==
    LET ill == Joined(w, t, "poison") IN
    Either(w, t, Enchanted(w),
           Fail(w, t, c) \cup
           (IF c \in Pcs THEN Resent(ill, t, c) ELSE Attack(ill, t, c) \cup Poisoned(w, t)))

SpellProtectionFromEvil(w, c, v) == Guarded(w, v, "protect from evil")
SpellRemoveCurse(w, c, t) ==
    Either(w, t, {w, [w EXCEPT !.thing = "plain"]}, {w, Freed(w, t, "curse")})
SpellRemovePoison(w, c, t) == Either(w, t, {w}, {Freed(w, t, "poison")})
SpellFireshield(w, c, v) == Guarded(w, v, "fireshield")
SpellSanctuary(w, c, v) == Guarded(w, v, "sanctuary")
SpellStrength(w, c, v) == Guarded(w, v, "strength")
SpellSenseLife(w, c, v) == Guarded(w, v, "sense life")
SpellGlobeMinorInv(w, c, v) == Guarded(w, v, "globe minor inv")
SpellGlobeMajorInv(w, c, v) == Guarded(w, v, "globe major inv")
SpellWizardEye(w, c, v) == Guarded(w, v, "wizardeye")
SpellCompLanguages(w, c, v) == GuardedIfAny(w, v, "comprehend languages")
\* It costs a mortal its strength.
SpellIdentify(w, c, v) == {w, Placed(w, c, "stunned")}

\* Those in the room that have the leader of the caster, if AFF_GROUP is set.
SpellProtectionFromEvilGroup(w, c, v) ==
    LET leader(x) == IF w.master[x] = None THEN x ELSE w.master[x] IN
    Maybe(w, Each(w, c, {x \in People(w, c) : leader(x) = leader(c)},
                  LAMBDA x, y : {Lay(x, y, "protect from evil")}))

\* It lifts what is on the caster, and is laid on the victim.
SpellAntiMagicShell(w, c, v) ==
    IF v \notin Chars THEN {w}
    ELSE Aimed(w, v, IF "anti magic shell" \in w.under[v] THEN {w}
                     ELSE {Laid(x, v, "anti magic shell") :
                           x \in Dispelled(w, c, c, Dispellable \cup DeepDispelled)})

-----------------------------------------------------------------------------
(* Sleep and charm.                                                        *)

\* Sleep does not end a fight.
SpellSleep(w, c, v) ==
    LET x == Joined(w, v, "sleep") IN
    Aimed(w, v, Fail(w, v, c) \cup {IF Awake(x, v) THEN Placed(x, v, "sleeping") ELSE x})

\* Mutant: whom the victim leads is not looked at.
CharmedOutright(w, c, v, s) ==
    IF v = c \/ v \in w.charmed THEN {w}
    ELSE Fail(w, v, c) \cup {Bound(w, c, v, s)}

\* One that is charmed is not charmed again, and cannot charm.
Charmed(w, c, v, s) ==
    IF v = c \/ {v, c} \cap w.charmed # {} \/ CircleFollow(w, v, c) THEN {w}
    ELSE Fail(w, v, c) \cup {Bound(w, c, v, s)}

SpellCharmPerson(w, c, v) == Aimed(w, v, Charmed(w, c, v, "charm person"))
\* It may fail with one that is charmed already.
SpellCharmMonster(w, c, v) ==
    Aimed(w, v, Charmed(w, c, v, "charm person") \cup IF v = c THEN {} ELSE Fail(w, v, c))

-----------------------------------------------------------------------------
(* Clouds and breaths.                                                     *)

SpellIncendiaryCloud(w, c, v) ==
    EachOther(w, c, LAMBDA x, y :
        IF InGroup(x, c, y) \/ y \in Immortals THEN {x}
        ELSE UNION {Missile(z, c, y) : z \in HeatBlind(x, y)})

SpellFireBreath(w, c, v) == Hurled(w, c, v)
SpellFrostBreath(w, c, v) == Hurled(w, c, v)
SpellAcidBreath(w, c, v) == Hurled(w, c, v)
SpellGasBreath(w, c, v) == Hurled(w, c, v)
SpellLightningBreath(w, c, v) == Hurled(w, c, v)
SpellDisintegrate(w, c, v) == IF v \in Chars THEN Hurled(w, c, v) ELSE {w}
=============================================================================
