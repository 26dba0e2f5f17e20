------------------------------- MODULE Magic3 -------------------------------
(* The spells of magic3.c, in its order, and prismatic spray of magic.c.   *)
EXTENDS Magic1

\* What asks about the victim before it asserts that there is one.
Looked(w, v, W) == Aimed(w, v, W)
GuardedSelf(w, c, s) == {Lay(w, c, s)}

-----------------------------------------------------------------------------
(* Druids, words of power, and the spells of sorcerers.                    *)

SpellTreeTravel(w, c, v) ==
    Looked(w, v, {IF "tree travel" \in w.under[c] THEN w ELSE Laid(w, v, "tree travel")})

SpellTransportViaPlant(w, c, t) == {w} \cup {Sent(w, c, r) : r \in Rooms}
SpellSpeakWithPlants(w, c, t) == {w}

\* The staff that is held is a dud, or a tree that follows.  With too many
\* followers the staff is left in no place.
SpellChangestaff(w, c, v) ==
    LET tree(x) == Served(x, c, "charm person") IN
    IF w.thing = "gone" THEN {w}
    ELSE {w, Consumed(w)} \cup
         UNION {IF x.master # w.master THEN {Consumed(x)} ELSE {Faulty(Consumed(x), "lost")} :
                x \in tree(w) \ {w}}

SpellPwordKill(w, c, v) == Looked(w, v, Maybe(w, SpellDamage(w, c, v)))
SpellPwordBlind(w, c, v) == Looked(w, v, {w, Joined(w, v, "blind for good")})

\* The first lightning leaps on only if its victim lives.
Leap(w, c, v) ==
    Each(w, c, People(w, c) \ ({v} \cup Immortals),
         LAMBDA x, y : IF InGroup(x, c, y) THEN {x} ELSE SpellDamage(x, c, y))
SpellChainLightn(w, c, v) ==
    Looked(w, v, UNION {IF x.where[v] = None THEN {x} ELSE Leap(x, c, v) :
                        x \in SpellDamage(w, c, v)})

SpellScare(w, c, v) == Looked(w, v, Maybe(w, Flee(w, v)))

\* Who is not of the group of a mobile that hastens it strikes at once.
SpellHaste(w, c, v) ==
    LET ends(x) == IF ~ InGroup(x, c, v) /\ c \notin Pcs THEN Hit(x, v, c) ELSE {x} IN
    Looked(w, v, IF "haste" \in w.under[v] \/ v \notin Pcs THEN {w}
                 ELSE ends(w) \cup ends(Laid(w, v, "haste")))

SpellSlow(w, c, v) ==
    LET immune == IF ~ InGroup(w, c, v) /\ c \notin Pcs THEN Hit(w, v, c) ELSE {w}
        slowed == Laid(w, v, "slow")
    IN  Looked(w, v, IF "slow" \in w.under[v] THEN {w}
                     ELSE immune \cup (IF v \in Pcs THEN {slowed} ELSE Hit(slowed, v, c)))

\* One pet at a time, charmed by the bit alone; no circle can arise, and no
\* limit is kept.
Pet(w, c, m) ==
    [AddFollower(Came(w, m, w.where[c]), m, c) EXCEPT !.charmed = @ \cup {m}]
Pets(w, c) == {Pet(w, c, m) : m \in Newcomers(w)}
SpellFamiliar(w, c, v) ==
    IF "familiar" \in w.under[c] THEN {w} ELSE {w} \cup {Laid(x, c, "familiar") : x \in Pets(w, c)}

SpellAid(w, c, v) ==
    Looked(w, v, IF "aid" \in w.under[v] THEN {w}
                 ELSE {Laid(UpdatePos(Wounded(w, v, h), v), v, "aid") :
                       h \in {w.hp[v], "fit"}})

\* The weak die, the others are hurt, and paralysed, blinded or stunned,
\* whether they are still there or not.
Word(w, c, v) ==
    LET hurt == SpellDamage(w, c, v)
        stays(x) == x.where[v] # None
        stunned(x) == IF stays(x) THEN Placed(x, v, "stunned") ELSE Faulty(x, "astray")
    IN  {w} \cup hurt \cup {stunned(x) : x \in hurt}
        \cup UNION {SpellParalyze(x, c, v) \cup SpellBlindness(x, c, v) : x \in hurt}
SpellHolyword(w, c, v) ==
    Each(w, c, {x \in People(w, c) \ Immortals : "silence" \notin w.under[x]},
         LAMBDA x, y : Word(x, c, y))

\* Six pieces of armour lie in the room.
SpellGolem(w, c, v) ==
    IF w.thing = "gone" THEN {w} ELSE {w} \cup {Consumed(x) : x \in Pets(w, c)}

\* A mind that is blank takes it as an attack, players' minds too.
SpellFeeblemind(w, c, v) ==
    Looked(w, v, {Lay(w, v, "feeblemind")} \cup
                 (IF "mind blank" \in w.under[v] THEN Attack(w, v, c) ELSE {}))

SpellShillelagh(w, c, t) == Owned(w, t, Enchanted(w))
SpellGoodberry(w, c, v) == {w}
SpellFlameBlade(w, c, v) == {w}

-----------------------------------------------------------------------------
(* Beasts, plants and servants.                                            *)

GrownBeast(w, v, s) == Looked(w, v, IF v \in Pcs THEN {w} ELSE {w, Lay(w, v, s)})
SpellAnimalGrowth(w, c, v) == GrownBeast(w, v, "animal growth")
SpellInsectGrowth(w, c, v) == GrownBeast(w, v, "insect growth")
SpellVeggieGrowth(w, c, v) == GrownBeast(w, v, "veggie growth")

\* Not guarded.  The swarm leaves on the way it was sent, if it can.
SpellCreepingDeath(w, c, v) ==
    LET spent(x) == IF c \in Immortals THEN x ELSE Placed(x, c, "stunned") IN
    {w} \cup {Laid(spent(Came(w, m, r)), c, "creeping death") : m \in Newcomers(w), r \in Rooms}

SpellCommune(w, c, v) == {w}

\* What comes follows c unless too many do, and keeps c from calling again.
Servants(w, c) == SpellCreateMonster(w, c, None) \ {w}
Summoned(w, c, s, W) == IF s \in w.under[c] THEN {w} ELSE {w} \cup {Laid(x, c, s) : x \in W}

\* Four are called, of which some may not exist.
SpellAnimalSummon(w, c, v) ==
    LET more(W) == W \cup UNION {Servants(x, c) : x \in W} IN
    Summoned(w, c, "animal summon", more(more(more(more({w})))))

SpellElementalSummoning(w, c, s) == Summoned(w, c, s, Servants(w, c))

\* No limit is kept.
SpellDustDevil(w, c, v) ==
    Summoned(w, c, "dust devil", {x \in Servants(w, c) : x.master # w.master})

\* It costs all strength, and the corpse; the body is in Nanny.
SpellReincarnate(w, c, t) ==
    IF t # Thing THEN {w} ELSE Given(w, {w, Placed(Consumed(w), c, "sitting")})

SpellCharmVeggie(w, c, v) == Aimed(w, v, Charmed(w, c, v, "charm person"))

SpellTree(w, c, v) == SpellPolySelf(w, c, v)

\* Two affects charm the rock, and no limit is kept.
SpellAnimateRock(w, c, t) ==
    LET two(m) == [Pet(w, c, m) EXCEPT
                       !.under = Put(@, m, {"animate rock", "charm person"})]
    IN  IF t # Thing THEN {Faulty(w, "aborted")}
        ELSE Given(w, {w} \cup {Consumed(two(m)) : m \in Newcomers(w)})

SpellTravelling(w, c, v) == Guarded(w, v, "travelling")

\* Nobody looks whom the beast leads: the friend may be one's own leader.
SpellAnimalFriendship(w, c, v) ==
    Aimed(w, v, IF "animal friendship" \in w.under[c] \/ v \in Pcs THEN {w}
                ELSE {w, Bound([w EXCEPT !.under = Put(@, c, @[c] \cup {"animal friendship"})],
                               c, v, "animal friendship")})

SpellInvisToAnimals(w, c, v) == Guarded(w, v, "invis to animals")
SpellSlowPoison(w, c, v) ==
    Aimed(w, v, {IF "poison" \in w.under[v] THEN Laid(w, v, "slow poison") ELSE w})
SpellSnare(w, c, v) == Looked(w, v, {w} \cup Fail(w, v, c))
\* Not guarded: who is entangled is entangled once more.
SpellEntangle(w, c, v) == Looked(w, v, {w, Laid(w, v, "entangle")} \cup Fail(w, v, c))
SpellBarkskin(w, c, v) ==
    Aimed(w, v, {IF w.under[v] \cap {"barkskin", "armor"} # {} THEN w
                 ELSE Laid(w, v, "barkskin")})

SpellGustOfWind(w, c, v) ==
    UpToTheGods(w, c, LAMBDA x, y :
        IF InGroup(x, c, y) THEN {x} ELSE {x, Placed(x, y, "sitting")})

\* Not guarded; a mobile that may have a special of its own resents a miss.
SpellSilence(w, c, v) ==
    Aimed(w, v, {w, Laid(w, v, "silence")} \cup Resent(w, v, c))

\* Aimed at an object, it is the caster that it resents.
SpellWarpWeapon(w, c, t) ==
    LET v == IF t = Thing THEN c ELSE t IN
    Looked(w, v, {w} \cup Resent(w, v, c) \cup Resent(Consumed(w), v, c))

SpellHeatStuff(w, c, v) ==
    Looked(w, v, IF "heat stuff" \in w.under[v] THEN {w}
                 ELSE {w} \cup Resent(Laid(w, v, "heat stuff"), v, c))

SpellSunray(w, c, v) ==
    Each(w, c, People(w, c) \ Immortals, LAMBDA x, y :
        IF InGroup(x, c, y) THEN {x}
        ELSE UNION {IF y \in Undead THEN SpellDamage(z, c, y) ELSE {z} :
                    z \in SpellBlindness(x, c, y)})

SpellKnowMonster(w, c, v) == {w}
SpellFindTraps(w, c, v) == GuardedSelf(w, c, "find traps")
SpellFirestorm(w, c, v) == SpellBurningHands(w, c, v)

-----------------------------------------------------------------------------
(* Ways, mounts, and the spray.                                            *)

\* One time in twenty the way leads anywhere.
SpellTeleportWoError(w, c, v) ==
    Aimed(w, v, IF v \in Immortals \/ w.where[v] \in NoMagic THEN {w}
                ELSE SpellTeleport(w, c, c) \cup {Arrived(w, c, w.where[v])})

\* A portal is read twice: the first stays in no place.
SpellPortal(w, c, v) == Looked(w, v, {Faulty(w, "lost")})

\* The old mount, if any, keeps its rider.
SpellMount(w, c, v) ==
    {w} \cup {[Came(w, m, w.where[c]) EXCEPT !.mount = Put(@, c, m), !.rider = Put(@, m, c),
                                              !.pos = Put(@, c, "mounted")] :
              m \in Newcomers(w)}
SpellDragonRide(w, c, v) == GuardedSelf(w, c, "dragon ride")

\* One of seven rays for each; the one who acts takes up the fight with who
\* does not fight back, wherever the ray has sent it.
Ray(w, c, v) ==
    LET rays == SpellPoison(w, c, v) \cup SpellParalyze(w, c, v)
                \cup SpellFeeblemind(w, c, v) \cup SpellTeleport(w, c, v)
        ends(x) == IF x.where[v] = None THEN {Faulty(x, "astray")}
                   ELSE IF x.fighting[v] = None /\ x.fighting[c] # v THEN Attack(x, c, v)
                   ELSE {x}
    IN  Missile(w, c, v) \cup UNION {ends(x) : x \in rays \cup {w}}
SpellPrismaticSpray(w, c, v) ==
    EachOther(w, c, LAMBDA x, y :
        IF InGroup(x, c, y) \/ y \in Immortals THEN {x} ELSE Ray(x, c, y))
=============================================================================
