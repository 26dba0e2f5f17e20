------------------------------- MODULE Magic2 -------------------------------
(* The spells of magic2.c, in its order.                                   *)
EXTENDS Spells

CONSTANT Limbo        \* room 3, where the body waits while its owner is a beast
ASSUME Limbo \in Rooms

-----------------------------------------------------------------------------
(* Cures and causes.                                                       *)

Cured(w, v) == Aimed(w, v, Maybe(w, {UpdatePos(Wounded(w, v, "fit"), v)}))
Placid(w, v) == Aimed(w, v, {w})          \* points of mana or moves, a message

\* A corpse of a mobile is a servant again; that of a player costs the
\* caster its strength, if the player is not in the game.
SpellResurrection(w, c, t) ==
    LET x == Consumed(w) IN
    IF t # Thing THEN {w}
    ELSE Given(w, {w, Placed(x, c, "stunned")}
                  \cup {Placed(y, m, "stunned") :
                        m \in Newcomers(w),
                        y \in UNION {{Came(x, k, w.where[c]),
                                      BoundAsIs(Came(x, k, w.where[c]), c, k, "charm person")} :
                                     k \in Newcomers(w)}})

SpellCauseLight(w, c, v) == Hurt(w, c, v)
SpellCauseCritical(w, c, v) == Hurt(w, c, v)
SpellCauseSerious(w, c, v) == Hurt(w, c, v)
SpellCureSerious(w, c, v) == Cured(w, v)
SpellMana(w, c, v) == {w}
SpellSecondWind(w, c, v) == Placid(w, v)

SpellFlamestrike(w, c, v) ==
    Aimed(w, v, Then(HeatBlind(w, v), LAMBDA x : Missile(x, c, v)))

\* A good caster dispels itself.
SpellDispelGood(w, c, v) == Aimed(w, v, {w} \cup {Extract(w, x) : x \in {v, c}})

SpellTurn(w, c, v) == Aimed(w, v, Maybe(w, IF v \in Undead THEN Flee(w, v) ELSE {}))

SpellRemoveParalysis(w, c, v) == Aimed(w, v, {Freed(w, v, "paralysis")})

SpellHolyWord(w, c, v) == {w}
SpellUnholyWord(w, c, v) == {w}
SpellSuccor(w, c, v) == {w}
SpellDetectCharm(w, c, v) == {w}
SpellTrueSeeing(w, c, v) == Guarded(w, v, "true sight")

\* Not guarded: each casting lays one more.
SpellTrack(w, c, v) ==
    Aimed(w, v, {Laid(w, v, "minor track"), Laid(w, v, "major track")})

\* The connection goes over to the beast, the body to limbo.  It leaves its
\* master, but neither its followers nor its fight.
SpellPolySelf(w, c, v) ==
    {w} \cup {StopFollower(Sent(Came(w, m, w.where[c]), c, Limbo), c) : m \in Newcomers(w)}

SpellMinorCreate(w, c, t) == {w}
SpellStoneSkin(w, c, v) == {Lay(w, c, "stone skin")}
SpellInfravision(w, c, v) == Guarded(w, v, "infravision")
SpellShield(w, c, v) == Guarded(w, v, "shield")
SpellWeakness(w, c, v) == Aimed(w, v, {w, Lay(w, v, "weakness")})

SpellInvisGroup(w, c, v) ==
    Each(w, c, {x \in People(w, c) \ {c} : InGroup(w, c, x)},
         LAMBDA x, y : {Lay(x, y, "invisible")})

SpellAcidBlast(w, c, v) == Hurled(w, c, v)

\* Mutant: in the storm nobody is spared.
StormOnAll(w, c) == UpToTheGods(w, c, LAMBDA x, v : Missile(x, c, v))

\* Cold and ice strike all but the group, until a god is met.
Storm(w, c) ==
    UpToTheGods(w, c, LAMBDA x, v : IF InGroup(x, c, v) THEN {x} ELSE Missile(x, c, v))

SpellConeOfCold(w, c, v) == Storm(w, c)
SpellIceStorm(w, c, v) == Storm(w, c)
SpellPoisonCloud(w, c, v) == {w}
SpellMajorCreate(w, c, v) == {w}
SpellSending(w, c, v) == {w}
SpellMeteorSwarm(w, c, v) == Hurled(w, c, v)

\* A mobile's monster is charmed by the bit alone.
SpellCreateMonster(w, c, v) ==
    Served(w, c, "charm person") \cup
    (IF c \in Pcs \/ w.master[c] # None THEN {}
     ELSE {[AddFollower(Came(w, m, w.where[c]), m, c) EXCEPT !.charmed = @ \cup {m}] :
           m \in Newcomers(w)})

SpellLight(w, c, v) == {w}
SpellFly(w, c, v) == Guarded(w, v, "fly")
\* Not guarded: each casting lays one more.
SpellFlyGroup(w, c, v) ==
    Each(w, c, {x \in People(w, c) : InGroup(w, c, x)}, LAMBDA x, y : {Laid(x, y, "fly")})
SpellRefresh(w, c, v) == Placid(w, v)
SpellWaterBreath(w, c, v) == Aimed(w, v, {Laid(w, v, "water breath")})
SpellContLight(w, c, v) == {w}

\* The zombie is charmed by the bit alone.
SpellAnimateDead(w, c, t) ==
    LET z(m) == Came(Consumed(w), m, w.where[c]) IN
    Owned(w, t, {w} \cup UNION {{z(m), [AddFollower(z(m), m, c) EXCEPT !.charmed = @ \cup {m}]} :
                                m \in Newcomers(w)})

SpellKnowAlignment(w, c, v) == Placid(w, v)

-----------------------------------------------------------------------------
(* Dispelling.                                                             *)

Dispellable ==
    {"invisible", "detect invisible", "detect evil", "detect magic", "sense life",
     "sanctuary", "protect from evil", "infravision", "sleep", "charm person", "weakness",
     "strength", "armor", "detect poison", "bless", "fly", "water breath", "fire breath",
     "lightning breath", "gas breath", "frost breath", "fireshield", "faerie fire",
     "minor track", "major track", "aid", "shield", "true sight", "globe darkness",
     "globe minor inv", "globe major inv", "prot energy drain", "prot dragon breath",
     "wizardeye", "prot breath fire", "prot breath frost", "prot breath elec",
     "prot breath acid", "prot breath gas"}
\* There is no saving throw for these.
AlwaysDispelled ==
    {"web", "silence", "tree travel", "heat stuff", "haste", "slow", "barkskin",
     "invis to animals", "dragon ride"}
\* At the level of an implementor.
DeepDispelled == {"anti magic shell", "blindness", "paralysis", "poison"}

Lifted(w, v, S) ==
    Totalled([w EXCEPT !.under = Put(@, v, @[v] \ S),
                       !.charmed = IF S \cap CharmSpells \cap w.under[v] = {} THEN @
                                   ELSE @ \ {v}], v)

\* A mobile whose shield of light or fire is attempted turns on the caster.
Dispelled(w, c, v, most) ==
    LET always == AlwaysDispelled \cap w.under[v]
        bare(x) == /\ w.under[v] \cap {"sanctuary", "fireshield"} # {}
                   /\ v \notin Pcs /\ w.attackers[v] < Crowd
    IN  UNION {IF bare(x) THEN Attack(x, v, c) ELSE {x} :
               x \in {Lifted(w, v, S \cup always) : S \in SUBSET (most \cap w.under[v])}}

SpellDispelMagic(w, c, t) ==
    Either(w, t, {w, [w EXCEPT !.thing = "plain"]},
           Dispelled(w, c, t, Dispellable) \cup Dispelled(w, c, t, Dispellable \cup DeepDispelled))

-----------------------------------------------------------------------------
(* Bonds and fears.                                                        *)

\* It does not end a fight.
Paralysed(w, v) == Placed(Joined(w, v, "paralysis"), v, "stunned")
SpellParalyze(w, c, v) ==
    Aimed(w, v, IF "paralysis" \in w.under[v] THEN {w} ELSE Fail(w, v, c) \cup {Paralysed(w, v)})

SpellFear(w, c, v) == Aimed(w, v, Maybe(w, Flee(w, v)))
SpellCalm(w, c, v) == Placid(w, v)

\* Not guarded: who fails the saving throw twice sticks twice.
SpellWeb(w, c, v) ==
    Aimed(w, v, Then({w, Laid(w, v, "web")}, LAMBDA x : Maybe(x, Resent(x, v, c))))

SpellHeroesFeast(w, c, v) == {w}

\* An elemental and a demon are called by the wrapper; a stone or a weapon
\* is given for them.
Called(w, c) == {x \in Served(w, c, "charm person") : x # w}
SpellConjureElemental(w, c, t) == Owned(w, t, Called(Consumed(w), c))

SpellFaerieFire(w, c, v) == Guarded(w, v, "faerie fire")
SpellFaerieFog(w, c, v) == {w}

\* A cleric of the dark keeps the weapon, while it is worth something.
SpellCacaodemon(w, c, t) == Owned(w, t, Called(w, c) \cup Called(Consumed(w), c))

SpellImprovedIdentify(w, c, t) == {w}

\* The group is not spared.
SpellGeyser(w, c, v) ==
    Each(w, c, People(w, c) \ ({c} \cup Immortals), LAMBDA x, y : Missile(x, c, y))

\* damage() with green slime starts no fight.
SpellGreenSlime(w, c, v) ==
    Aimed(w, v, IF DamCheckDeny(w, c, v) \/ ~ DamDetailsOk(w, c, v) THEN {w}
                ELSE Then(Struck(OffIts(w, c, v), c, v),
                          LAMBDA x : Settled(UpdatePos(x, v), c, v)))

-----------------------------------------------------------------------------
(* Protections.  Those against a breath do nothing without a victim.       *)

GuardedIfAny(w, v, s) == IF v \in Chars THEN Guarded(w, v, s) ELSE {w}

SpellProtDragonBreath(w, c, v) == GuardedIfAny(w, v, "prot dragon breath")
\* It looks at the victim, and protects the caster.
SpellProtEnergyDrain(w, c, v) ==
    Aimed(w, v, {IF "prot energy drain" \in w.under[v] THEN w ELSE Laid(w, c, "prot energy drain")})
SpellGlobeDarkness(w, c, v) == Guarded(w, v, "globe darkness")
SpellProtFire(w, c, v) == GuardedIfAny(w, v, "prot fire")
SpellProtCold(w, c, v) == GuardedIfAny(w, v, "prot cold")
SpellProtEnergy(w, c, v) == GuardedIfAny(w, v, "prot energy")
SpellProtElec(w, c, v) == GuardedIfAny(w, v, "prot elec")
SpellProtDragonBreathFire(w, c, v) == GuardedIfAny(w, v, "prot breath fire")
SpellProtDragonBreathFrost(w, c, v) == GuardedIfAny(w, v, "prot breath frost")
SpellProtDragonBreathElec(w, c, v) == GuardedIfAny(w, v, "prot breath elec")

\* These two look for the protection against lightning.
LaidUnlessElec(w, v, s) ==
    IF v \notin Chars THEN {w}
    ELSE Aimed(w, v, {IF "prot breath elec" \in w.under[v] THEN w ELSE Laid(w, v, s)})
SpellProtDragonBreathAcid(w, c, v) == LaidUnlessElec(w, v, "prot breath acid")
SpellProtDragonBreathGas(w, c, v) == LaidUnlessElec(w, v, "prot breath gas")
=============================================================================
