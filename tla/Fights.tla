------------------------------- MODULE Fights -------------------------------
(***************************************************************************)
(* Fights (fight.c, act.off.c) and the two other relations between         *)
(* characters that a death or a flight must undo: who follows whom, and    *)
(* who rides whom.  All three are kept twice: a fighter points to its      *)
(* target, which counts its attackers, and is in combat_list; a follower   *)
(* points to its master, which lists it; rider and mount point to each     *)
(* other.                                                                  *)
(*                                                                         *)
(* A blow is a call of hit() and of all that it calls: a fire shield that  *)
(* strikes back, a fall from the saddle, a flight, a death.  The functions *)
(* are operators on the record `world', and return the set of the worlds   *)
(* the dice can lead to.  Hit points count as far as they tell the fit     *)
(* from the hurt and from those below -10; waiting, sleep and paralysis    *)
(* are left out, and so are rooms in the air.                              *)
(*                                                                         *)
(* combat_list is the set of its members.  A round walks the list and      *)
(* set_fighting adds in front of it, so what matters of the order is who   *)
(* comes from combat_next_dude on: the set `ahead'.                        *)
(***************************************************************************)
EXTENDS Naturals, FiniteSets

CONSTANTS Chars, Rooms, None,
          Pcs,            \* the other characters are mobiles
          Rideable,
          Able,           \* bound: who does more than strike, help, flee and walk
          Shielded,       \* AFF_FIRESHIELD
          Immortals,      \* no blow reaches them
          Peaceful, NoDeath, DeathTraps,      \* room flags
          Crowd,          \* 6: as many can attack one character
          SwitchRoom,     \* 5: with fewer, one can still turn to it
          ElbowRoom       \* 3: with fewer, one can still get in between

ASSUME CombatAssumption ==
    /\ IsFiniteSet(Chars)
    /\ Immortals \subseteq Pcs
    /\ Pcs \subseteq Chars /\ Able \subseteq Chars /\ Rideable \subseteq Chars \ Pcs
    /\ Peaceful \cup NoDeath \cup DeathTraps \subseteq Rooms
    /\ None \notin Chars \cup Rooms
    /\ Crowd \in Nat /\ SwitchRoom \in Nat /\ ElbowRoom \in Nat

Hits == {"fit", "hurt", "dead"}                \* above 0, to -10, below
Down == {"dead", "stunned"}                    \* POSITION_STUNNED and below
Positions == Down \cup {"sleeping", "sitting", "fighting", "standing", "mounted"}

InGame(w) == {c \in Chars : w.where[c] # None}
Together(w, c, d) == w.where[c] # None /\ w.where[c] = w.where[d]
Awake(w, c) == w.pos[c] \notin Down

-----------------------------------------------------------------------------
(* Positions, and the saddle.                                              *)

Put(f, c, x) == [d \in Chars |-> IF d = c THEN x ELSE f[d]]
Placed(w, c, p) == [w EXCEPT !.pos = Put(@, c, p)]
Wounded(w, c, h) == [w EXCEPT !.hp = Put(@, c, h)]

OnFeet(w, c) == IF w.mount[c] # None THEN "mounted" ELSE "standing"

UpdatePos(w, c) ==
    LET p == CASE w.hp[c] = "dead" -> "dead"
               [] w.hp[c] = "hurt" -> "stunned"
               [] w.hp[c] = "fit" /\ Awake(w, c) -> w.pos[c]
               [] OTHER -> IF "paralysis" \in w.under[c] THEN "stunned" ELSE OnFeet(w, c)
    IN  [w EXCEPT !.pos = Put(@, c, p)]

\* Mutant: the mount still thinks it is ridden.
DismountHalf(w, c, h, p) ==
    [w EXCEPT !.mount = Put(@, c, None), !.pos = Put(@, c, p)]

Dismount(w, c, h, p) ==
    [w EXCEPT !.mount = Put(@, c, None), !.rider = Put(@, h, None), !.pos = Put(@, c, p)]

\* A blow or a bad day: v falls off its mount, or off comes its rider.
Tumbles(w, v) ==
    {w} \cup {Dismount(w, v, h, "sitting") : h \in {w.mount[v]} \ {None}}
        \cup (IF w.mount[v] # None THEN {}
              ELSE {Dismount(w, r, v, "sitting") : r \in {w.rider[v]} \ {None}})

-----------------------------------------------------------------------------
(* Followers (spell_parser.c).                                             *)

\* The chain of masters that starts at victim comes to ch.
CircleFollow(w, ch, victim) ==
    \A S \in SUBSET Chars :
        (victim \in S /\ \A k \in S : w.master[k] \in S \cup {None}) => ch \in S

StopFollower(w, c) ==
    IF w.master[c] = None THEN w
    ELSE LET m == w.master[c] IN
         [w EXCEPT !.followers = Put(@, m, @[m] \ {c}),
                   !.master = Put(@, c, None), !.charmed = @ \ {c},
                   !.under = Put(@, c, @[c] \ {"charm person"})]

\* die_follower: c follows nobody any more, and nobody follows c.
DieFollower(w, c) ==
    LET gone == w.followers[c] \cup {c} IN
    [w EXCEPT !.followers = [d \in Chars |-> IF d = c THEN {} ELSE @[d] \ {c}],
              !.master = [d \in Chars |-> IF d \in gone THEN None ELSE @[d]],
              !.charmed = @ \ gone,
              !.under = [d \in Chars |-> IF d \in gone THEN @[d] \ {"charm person"} ELSE @[d]]]

\* The caller has seen that no circle arises.
AddFollower(w, c, leader) ==
    IF w.master[c] # None THEN w
    ELSE [w EXCEPT !.master = Put(@, c, leader),
                   !.followers = Put(@, leader, @[leader] \cup {c})]

-----------------------------------------------------------------------------
(* The list of fights.  These three are the whole of it.                   *)

Fewer(n) == IF n > 0 THEN n - 1 ELSE 0

StopFighting(w, c) ==
    LET v == w.fighting[c] IN
    IF v = None THEN w
    ELSE UpdatePos([w EXCEPT !.attackers = Put(@, v, Fewer(@[v])),
                             !.combat_list = @ \ {c}, !.ahead = @ \ {c},
                             !.fighting = Put(@, c, None),
                             !.pos = Put(@, c, OnFeet(w, c))], c)

\* stop_fighting for all in F, whose targets lose as many attackers.
StopAll(w, F) ==
    LET out == {c \in F : w.fighting[c] # None}
        by(v) == Cardinality({c \in out : w.fighting[c] = v})
        up(c) == CASE w.hp[c] = "dead" -> "dead"
                   [] w.hp[c] = "hurt" -> "stunned"
                   [] OTHER -> OnFeet(w, c)
    IN  [w EXCEPT !.attackers = [v \in Chars |-> IF @[v] > by(v) THEN @[v] - by(v) ELSE 0],
                  !.combat_list = @ \ out, !.ahead = @ \ out,
                  !.fighting = [c \in Chars |-> IF c \in out THEN None ELSE @[c]],
                  !.pos = [c \in Chars |-> IF c \in out THEN up(c) ELSE @[c]]]

StopAllFightingWith(w, v) == StopAll(w, {c \in Chars : w.fighting[c] = v})

More(n) == IF n < Crowd THEN n + 1 ELSE n

\* Mutant: behind the others instead of in front.
BeginsBehind(w, c, v) ==
    [w EXCEPT !.attackers = Put(@, v, More(@[v])),
              !.combat_list = @ \cup {c}, !.ahead = @ \cup {c},
              !.fighting = Put(@, c, v),
              !.under = Put(@, c, @[c] \ {"sleep"}),
              !.pos = Put(@, c, "fighting")]

\* set_fighting counts up to six attackers, and then only complains.
Begins(w, c, v) ==
    [w EXCEPT !.attackers = Put(@, v, More(@[v])),
              !.combat_list = @ \cup {c},
              !.fighting = Put(@, c, v),
              !.under = Put(@, c, @[c] \ {"sleep"}),
              !.pos = Put(@, c, "fighting")]

-----------------------------------------------------------------------------
(* Movement (act.move.c), and flight.                                      *)

\* Mutant: those who fight c are forgotten.
ExtractFoughtOver(w, c) ==
    LET x == StopFighting(DieFollower(w, c), c)
        y == IF x.mount[c] = None THEN x ELSE Dismount(x, c, x.mount[c], "standing")
        z == IF y.rider[c] = None THEN y ELSE Dismount(y, y.rider[c], c, "standing")
    IN  [z EXCEPT !.where = Put(@, c, None), !.linkdead = @ \ {c},
                  !.hp = Put(@, c, "fit"), !.pos = Put(@, c, "dead")]

\* The end of a character, with who fights, follows and rides it.  Whatever
\* became of its body, who is out of the game counts as dead.
Extract(w, c) ==
    LET x == StopAllFightingWith(StopFighting(DieFollower(w, c), c), c)
        y == IF x.mount[c] = None THEN x ELSE Dismount(x, c, x.mount[c], "standing")
        z == IF y.rider[c] = None THEN y ELSE Dismount(y, y.rider[c], c, "standing")
    IN  [z EXCEPT !.where = Put(@, c, None), !.linkdead = @ \ {c},
                  !.hp = Put(@, c, "fit"), !.pos = Put(@, c, "dead")]

\* command_interpreter and ValidMove: a mount that is elsewhere is left.
Readied(w, c) ==
    IF w.mount[c] = None \/ Together(w, c, w.mount[c]) THEN w
    ELSE Dismount(w, c, w.mount[c], "standing")

\* ValidMove: the mount stands.
MayMove(w, c) ==
    /\ w.where[c] # None
    /\ w.mount[c] # None => w.pos[w.mount[c]] \notin Down \cup {"sitting"}
Loyal(w, c) ==       \* the charmed do not leave their master
    c \in w.charmed /\ w.master[c] # None /\ Together(w, c, w.master[c])

\* Those in S go to room r, on horseback with the horse.
Moved(w, S, r) ==
    LET left == {c \in S : w.mount[c] # None /\ ~ Together(w, c, w.mount[c])}
        d == [w EXCEPT !.mount = [c \in Chars |-> IF c \in left THEN None ELSE @[c]],
                       !.rider = [h \in Chars |-> IF @[h] \in left THEN None ELSE @[h]],
                       !.pos = [c \in Chars |-> IF c \in left THEN "standing" ELSE @[c]]]
        go == S \cup {d.mount[c] : c \in S}
    IN  [d EXCEPT !.where = [x \in Chars |-> IF x \in go THEN r ELSE @[x]]]

\* do_flee: not when down; the first try only gets one on one's feet; with
\* whom one rides; the charm is lifted for the flight out of a fight.
Flee(w, c) ==
    LET goes == IF w.rider[c] # None THEN w.rider[c] ELSE c
        loyal == Loyal(w, goes) /\ (goes # c \/ w.fighting[c] = None)
        free == MayMove(w, goes) /\ ~ loyal
        away == {Moved(w, {goes}, r) : r \in Rooms \ (DeathTraps \cup {w.where[goes]})}
    IN  CASE w.pos[c] \in Down -> {w}
          [] w.pos[c] = "sitting" -> {Placed(w, c, "standing")}
          [] OTHER -> {w} \cup
                (IF ~ free THEN {}
                 ELSE IF w.fighting[c] = None /\ goes # c THEN away
                 ELSE {StopFighting(StopAllFightingWith(x, c), c) : x \in away})

FleeIfLinkdead(w, c) == IF c \in w.linkdead THEN Flee(w, c) ELSE {w}

\* set_fighting: the linkdead flee from the fight at once.
SetFighting(w, c, v) ==
    IF w.fighting[c] # None THEN {w}
    ELSE UNION {FleeIfLinkdead(x, v) : x \in FleeIfLinkdead(Begins(w, c, v), c)}

-----------------------------------------------------------------------------
(* A blow (fight.c).                                                       *)

Die(w, c) == Extract(StopFighting(w, c), c)        \* die, raw_kill

Lower(h) == CASE h = "fit" -> Hits [] h = "hurt" -> {"hurt", "dead"} [] OTHER -> {"dead"}

\* SetVictFighting(ch, v) is Engage(w, v, ch), SetCharFighting(ch, v) the reverse.
Engage(w, c, v) ==
    IF c # v /\ Awake(w, c) /\ w.fighting[c] = None /\ w.attackers[v] < Crowd
    THEN SetFighting(w, c, v) ELSE {w}

DamCheckDeny(w, c, v) == w.pos[v] = "dead" \/ w.where[c] \in Peaceful

\* Mutant: a room of no death only stops the fights.
DamageEpilogLeaves(w, c, v) ==
    LET x == IF Awake(w, v) THEN w ELSE StopFighting(w, v) IN
    IF w.pos[v] # "dead" THEN {x} ELSE {x, Die(x, v)}

DamageEpilog(w, c, v) ==
    LET x == IF Awake(w, v) THEN w ELSE StopFighting(w, v)
        y == IF x.fighting[c] = v THEN StopFighting(x, c) ELSE x
        lost == v \in w.linkdead
        spared == w.pos[v] = "dead" /\ ~ lost /\ w.where[v] \in NoDeath
    IN  IF spared \/ (lost /\ w.pos[v] # "dead")
        THEN Flee(IF lost THEN w ELSE Placed(Wounded(x, v, "fit"), v, "standing"), v)
        ELSE {IF w.pos[v] # "dead" THEN x ELSE Die(IF lost THEN w ELSE y, v)}

\* SkipImmortals and DamDetailsOk: who strikes its mount gets off.
DamDetailsOk(w, c, v) == Together(w, c, v) /\ c # v /\ v \notin Immortals
OffIts(w, c, v) == IF w.mount[c] = v THEN Dismount(w, c, v, "sitting") ELSE w

\* DamageTrivia and DoDamage: v leaves a master that strikes it, may fall,
\* and has one of the hit points that are left to it.
Struck(w, c, v) ==
    LET left == IF w.master[v] = c THEN StopFollower(w, v) ELSE w IN
    UNION {{Wounded(x, v, h) : h \in Lower(x.hp[v])} : x \in Tumbles(left, v)}

\* damage() up to there: the two fight each other.
Fought(w, c, v) == UNION {Engage(x, c, v) : x \in Engage(OffIts(w, c, v), v, c)}

\* DamageMessages: who bleeds, is on its feet and is wimpy, flees.
DamageMessages(w, v) ==
    {w} \cup (IF w.hp[v] = "fit" /\ w.pos[v] \notin Down \cup {"sleeping"}
              THEN Flee(Readied(w, v), v) ELSE {})

\* When the attacker has died (of the flames of a shield), what the blow did
\* to the victim is not looked at.
Settled(w, c, v) ==
    IF c # v /\ w.pos[c] = "dead" THEN {w}
    ELSE UNION {DamageEpilog(x, c, v) : x \in DamageMessages(w, v)}

\* damage() with a spell, or with the flames of a shield.
SpellDamage(w, c, v) ==
    IF DamCheckDeny(w, c, v) \/ ~ DamDetailsOk(w, c, v) THEN {w}
    ELSE UNION {Settled(UpdatePos(x, v), c, v) :
                x \in UNION {Struck(y, c, v) : y \in Fought(w, c, v)}}

Burns(c, v) == v \in Shielded /\ c \notin Shielded

\* damage() with a weapon.
WeaponDamage(w, c, v) ==
    IF DamCheckDeny(w, c, v) \/ ~ DamDetailsOk(w, c, v) THEN {w}
    ELSE UNION {Settled(UpdatePos(y, v), c, v) :
                y \in UNION {IF Burns(c, v) THEN SpellDamage(x, v, c) ELSE {x} :
                             x \in UNION {Struck(z, c, v) : z \in Fought(w, c, v)}}}

NoRoom(w, c, v) ==
    /\ w.fighting[c] # v
    /\ w.attackers[v] >= Crowd \/ (w.attackers[c] >= Crowd /\ w.fighting[v] # c)

\* HitCheckDeny: the worlds in which the blow does not come.
Denied(w, c, v) ==
    LET stop == {StopFighting(w, c)} IN
    IF w.where[c] \in Peaceful \/ ~ Together(w, c, v) THEN stop
    ELSE stop \cup                                     \* too exhausted
         (IF NoRoom(w, c, v) THEN {w} ELSE {})

\* The linkdead flee, a bad rider falls; what is left is blows.
Ready(w, c, v) ==
    LET flees(x, d) == IF x.fighting[d] # None THEN FleeIfLinkdead(x, d) ELSE {x}
    IN  IF w.where[c] \in Peaceful \/ ~ Together(w, c, v) \/ NoRoom(w, c, v) THEN {}
        ELSE UNION {flees(x, c) : x \in flees(w, v)}

\* The rider falls, or strikes; v still lives and is near, it may also
\* feel the weapon's spell.
Blow(w, c, v) ==
    LET felt(x) == {x} \cup (IF x.pos[c] # "dead" THEN SpellDamage(x, c, v) ELSE {}) IN
    IF c = v \/ w.pos[v] = "dead" THEN {w}
    ELSE (Tumbles(w, c) \ {w}) \cup UNION {felt(x) : x \in WeaponDamage(w, c, v)}

Hit(w, c, v) == Denied(w, c, v) \cup UNION {Blow(x, c, v) : x \in Ready(w, c, v)}

-----------------------------------------------------------------------------
(* Worlds.                                                                 *)

Nobody ==
    [where       |-> [c \in Chars |-> None],
     hp          |-> [c \in Chars |-> "fit"],
     pos         |-> [c \in Chars |-> "dead"],
     fighting    |-> [c \in Chars |-> None],
     attackers   |-> [c \in Chars |-> 0],
     combat_list |-> {},
     ahead       |-> {},   \* combat_next_dude and all behind it
     master      |-> [c \in Chars |-> None],
     followers   |-> [c \in Chars |-> {}],
     charmed     |-> {},   \* AFF_CHARM
     under       |-> [c \in Chars |-> {}],     \* the spells it is under
     mount       |-> [c \in Chars |-> None],
     rider       |-> [c \in Chars |-> None],
     linkdead    |-> {}]

\* The spells a fight looks at; more of them with the spells of Casting.
FightSpells == {"charm person", "sleep", "paralysis"}

Worlds ==
    [where       : [Chars -> Rooms \cup {None}],
     hp          : [Chars -> Hits],
     pos         : [Chars -> Positions],
     fighting    : [Chars -> Chars \cup {None}],
     attackers   : [Chars -> 0 .. Crowd],
     combat_list : SUBSET Chars,
     ahead       : SUBSET Chars,
     master      : [Chars -> Chars \cup {None}],
     followers   : [Chars -> SUBSET Chars],
     charmed     : SUBSET Chars,
     under       : [Chars -> SUBSET FightSpells],
     mount       : [Chars -> Chars \cup {None}],
     rider       : [Chars -> Chars \cup {None}],
     linkdead    : SUBSET Pcs]

\* combat_list holds those who fight and nobody else, the walk through it
\* never meets one that has left it, everyone fights someone who is in the
\* game, and a character is never thought to have more attackers than it has:
\* the last one to stop leaves it free to be attacked again.
Fight(w) ==
    /\ w.combat_list = {c \in Chars : w.fighting[c] # None}
    /\ w.ahead \subseteq w.combat_list
    /\ \A c \in w.combat_list : w.where[c] # None /\ w.where[w.fighting[c]] # None
    /\ \A v \in Chars : w.attackers[v] <= Cardinality({c \in Chars : w.fighting[c] = v})

\* Master and followers, rider and mount name each other, in the game only;
\* nobody follows itself through others, and the charmed have a master.
Bonds(w) ==
    /\ \A c, d \in Chars : c \in w.followers[d] <=> w.master[c] = d
    /\ \A c, d \in Chars : w.mount[c] = d <=> w.rider[d] = c
    /\ \A c \in Chars : w.where[c] = None =>
          /\ w.master[c] = None /\ w.followers[c] = {}
          /\ w.mount[c] = None /\ w.rider[c] = None
    /\ \A S \in SUBSET Chars : S # {} => \E c \in S : w.master[c] \notin S
    /\ \A c \in w.charmed : w.master[c] # None
=============================================================================
