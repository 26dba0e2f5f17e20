------------------------------- MODULE Spells -------------------------------
(***************************************************************************)
(* What the spells of magic.c, magic2.c, magic3.c and mindskills1.c are    *)
(* made of: an affect that is laid or lifted, damage from afar, a saving   *)
(* throw, a walk through the people of a room, a journey, a servant.       *)
(*                                                                         *)
(* As in Fights, an operator maps a world to the set of the worlds it can  *)
(* lead to.  A spell is given its caster c and a target t, which is a      *)
(* character, the object Thing, or None when the function is called with   *)
(* neither.  Levels, saving throws, resistances and dice are left open;    *)
(* so are points of mana, moves and alignment.                             *)
(*                                                                         *)
(* Two fields are added to the world: what became of Thing, and the        *)
(* faults: "aborted", an assertion that fails or a null pointer that is    *)
(* followed; "astray", a spell that goes on with somebody it has itself    *)
(* taken out of the game; "doubled", an affect laid on one that is under   *)
(* it already; "lost", an object in no place.                              *)
(***************************************************************************)
EXTENDS Fights
LOCAL INSTANCE FiniteSetsExt

CONSTANTS Thing,            \* an object: what is enchanted, a corpse, a sacrifice
          Undead,           \* mobiles that are turned, and cannot be scared
          NoMagic,          \* PRIVATE, TUNNEL, NO_SUM, NO_MAGIC: no spell leads there
          Home              \* where a word of recall leads

ASSUME SpellsAssumption ==
    /\ Thing \notin Chars \cup Rooms \cup {None}
    /\ Undead \subseteq Chars \ Pcs
    /\ NoMagic \subseteq Rooms /\ Home \in Rooms

Faults == {"aborted", "astray", "doubled", "lost"}
Faulty(w, f) == [w EXCEPT !.faults = @ \cup {f}]

\* assert( victim ), and the victim is still there.
Aimed(w, v, W) ==
    IF v \notin Chars THEN {Faulty(w, "aborted")}
    ELSE IF w.where[v] = None THEN {Faulty(w, "astray")} ELSE W

\* One after the other.
Then(W, F(_)) == UNION {F(w) : w \in W}
Maybe(w, W) == {w} \cup W

-----------------------------------------------------------------------------
(* Affects (handler.c).                                                    *)

CharmSpells == {"charm person", "animal friendship", "animate rock"}

\* affect_total: the bits are those of the affects.
Totalled(w, v) ==
    IF w.under[v] \cap CharmSpells = {} THEN w ELSE [w EXCEPT !.charmed = @ \cup {v}]

Laid(w, v, s) ==                                       \* affect_to_char
    Totalled([w EXCEPT !.under = Put(@, v, @[v] \cup {s}),
                       !.faults = IF s \in w.under[v] THEN @ \cup {"doubled"} ELSE @], v)

Joined(w, v, s) == Totalled([w EXCEPT !.under = Put(@, v, @[v] \cup {s})], v)

Freed(w, v, s) ==                                      \* affect_from_char
    Totalled([w EXCEPT !.under = Put(@, v, @[v] \ {s}),
                       !.charmed = IF s \in CharmSpells \cap w.under[v] THEN @ \ {v} ELSE @], v)

\* Mutant: whether v is under s already is not asked.
LayAlways(w, v, s) == Laid(w, v, s)

\* if( !affected_by_spell( victim, s ) ) affect_to_char( victim, s ).
Lay(w, v, s) == IF s \in w.under[v] THEN w ELSE Laid(w, v, s)
Guarded(w, v, s) == Aimed(w, v, {Lay(w, v, s)})

\* The bit AFF_BLIND is set by an affect, or by a word of power.
Blind(w, v) == w.under[v] \cap {"blindness", "blind for good"} # {}

HeatBlind(w, v) == Maybe(w, IF Blind(w, v) \/ v \in Immortals THEN {}
                            ELSE {Laid(w, v, "blindness")})

-----------------------------------------------------------------------------
(* Blows from afar, and tempers (fight.c, magicutils.c).                   *)

\* MissileDamage: only the victim takes up the fight.
Missile(w, c, v) ==
    IF DamCheckDeny(w, c, v) \/ ~ DamDetailsOk(w, c, v) THEN {w}
    ELSE Then(Then(Engage(OffIts(w, c, v), v, c), LAMBDA x : Struck(x, c, v)),
              LAMBDA x : Settled(UpdatePos(x, v), c, v))
Hurled(w, c, v) == Aimed(w, v, Missile(w, c, v))
Hurt(w, c, v) == Aimed(w, v, SpellDamage(w, c, v))

\* A spell of death by one's own hand: damage( v, v, ..., SPELL_POISON ).
Poisoned(w, v) ==
    IF DamCheckDeny(w, v, v) \/ v \in Immortals THEN {w}
    ELSE Then(Struck(w, v, v), LAMBDA x : Settled(UpdatePos(x, v), v, v))

\* set_fighting, which does not look where the two are.
Attack(w, v, c) == IF w.fighting[v] = None THEN SetFighting(w, v, c) ELSE {w}

\* FailCharm, FailSleep, FailPara, FailCalm, FailSnare, FailPoison: a mobile
\* that the spell did not bind may turn on the caster.
Fail(w, v, c) == Maybe(w, IF v \in Pcs THEN {} ELSE Attack(w, v, c))

\* A mobile that resists, or suffers, turns on the caster.
Resent(w, v, c) == IF v \in Pcs THEN {w} ELSE Attack(w, v, c)

-----------------------------------------------------------------------------
(* Groups and rooms.                                                       *)

InGroup(w, c, d) ==
    \/ c = d
    \/ /\ w.master[c] # None \/ w.master[d] # None
       /\ \/ w.master[d] = c \/ w.master[c] = d \/ w.master[c] = w.master[d]
          \/ w.mount[c] = d \/ w.rider[c] = d

People(w, c) == {v \in Chars : Together(w, c, v)}

\* A walk through the room of c that keeps the next one before it acts.
Each(w, c, S, F(_, _)) ==
    FoldSet(LAMBDA v, W : UNION {IF Together(x, c, v) THEN F(x, v) ELSE {x} : x \in W},
            {w}, S)
EachOther(w, c, F(_, _)) == Each(w, c, People(w, c) \ {c}, F)

\* Some walks end at the first god they meet.
UpToTheGods(w, c, F(_, _)) ==
    LET all == People(w, c) \ {c} IN
    IF all \cap Immortals = {} THEN Each(w, c, all, F)
    ELSE UNION {Each(w, c, S, F) : S \in SUBSET (all \ Immortals)}

Strangers(w, c) == {v \in People(w, c) : ~ InGroup(w, c, v)}
Mortals(w, c) == Strangers(w, c) \ Immortals

-----------------------------------------------------------------------------
(* Journeys and servants.                                                  *)

\* char_from_room and char_to_room: a mount stays behind.
Sent(w, v, r) == [w EXCEPT !.where = Put(@, v, r)]

\* NailThisSucker.
Nailed(w, v) == Extract(w, v)

Arrived(w, v, r) == IF r \in DeathTraps /\ v \notin Immortals THEN Nailed(w, v) ELSE Sent(w, v, r)

\* circle_follow has been looked at: v follows c, under s.
Bound(w, c, v, s) == Laid(AddFollower(StopFollower(w, v), v, c), v, s)
BoundAsIs(w, c, v, s) == Laid(AddFollower(w, v, c), v, s)

\* read_mobile and char_to_room.
Newcomers(w) == {m \in Chars \ Pcs : w.where[m] = None}
Came(w, m, r) == [w EXCEPT !.where = Put(@, m, r), !.hp = Put(@, m, "fit"),
                           !.pos = Put(@, m, "standing"), !.under = Put(@, m, {})]

\* A servant that is made in the room of c, and follows c unless
\* too_many_followers.
Served(w, c, s) ==
    {w} \cup UNION {{Came(w, m, w.where[c]), Bound(Came(w, m, w.where[c]), c, m, s)} :
                    m \in Newcomers(w)}

-----------------------------------------------------------------------------
(* The object.                                                             *)

Enchanted(w) == IF w.thing = "plain" THEN {w, [w EXCEPT !.thing = "magic"]} ELSE {w}
Consumed(w) == [w EXCEPT !.thing = "gone"]
Given(w, W) == IF w.thing = "gone" THEN {Faulty(w, "astray")} ELSE W
\* assert( victim || obj ), and the object if there is one.
Either(w, t, onThing, onVictim) ==
    IF t = Thing THEN Given(w, onThing) ELSE Aimed(w, t, onVictim)
Owned(w, t, W) == IF t # Thing THEN {Faulty(w, "aborted")} ELSE Given(w, W)
=============================================================================
