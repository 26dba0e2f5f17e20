------------------------------- MODULE Combat -------------------------------
(* The commands and events that begin, join, leave and end the fights, the *)
(* companies and the rides of module Fights (act.off.c, act.move.c), and   *)
(* the rounds of the fights (perform_violence).                            *)
EXTENDS Fights

VARIABLE world        \* characters and what ties them

Init == world = Nobody

InRound == world.ahead # {}

-----------------------------------------------------------------------------
(* Commands.  A mobile acts on its own, or on its master's order.          *)

Become(W) == world' \in W

\* A character that stands or fights gives a command.
Command(c) ==
    /\ ~ InRound
    /\ c \in InGame(world)
    /\ world.pos[c] \in {"fighting", "standing", "mounted"}
At(c, v) == Together(world, c, v) /\ c # v
Violent(c) == Command(c) /\ world.where[c] \notin Peaceful

\* do_hit, kill: to strike, or to switch opponents, which may only confuse.
DoHit(c, v) ==
    LET w == Readied(world, c)
        turned == StopFighting(w, c)
    IN  /\ Violent(c) /\ At(c, v)
        /\ ~ (c \in w.charmed /\ w.master[c] = v)
        /\ IF w.fighting[c] = None THEN Become(Hit(w, c, v))
           ELSE /\ v # w.fighting[c]
                /\ Become({turned} \cup (IF turned.attackers[v] < SwitchRoom
                                         THEN SetFighting(turned, c, v) ELSE {}))

\* do_kill of the gods.
DoKill(c, v) == Command(c) /\ At(c, v) /\ c \in Pcs \cap Able /\ Become({Die(Readied(world, c), v)})

DoFlee(c) ==
    /\ ~ InRound /\ c \in InGame(world) /\ Awake(world, c)
    /\ Become(Flee(Readied(world, c), c))

DoStopFight(c) ==
    /\ Command(c) /\ c \in Able /\ world.fighting[c] # None
    /\ Become({StopFighting(Readied(world, c), c)})

\* do_rescue: t, who fights v, will fight c instead, however many do already.
DoRescue(c, v, t) ==
    LET w == Readied(world, c)
        a == IF w.fighting[v] = t THEN StopFighting(w, v) ELSE w
        b == StopFighting(StopFighting(a, t), c)
    IN  /\ Violent(c) /\ At(c, v) /\ Together(w, c, t)
        /\ w.mount[v] = None /\ w.fighting[c] # v
        /\ w.attackers[v] < ElbowRoom
        /\ w.fighting[t] = v
        /\ Become(UNION {SetFighting(x, t, c) : x \in SetFighting(b, c, t)})

DoAssist(c, v) ==
    LET w == Readied(world, c) IN
    /\ Violent(c) /\ At(c, v)
    /\ w.fighting[c] = None /\ w.attackers[v] < Crowd
    /\ w.fighting[v] # None /\ Together(w, c, w.fighting[v])
    /\ Become(Hit(w, c, w.fighting[v]))

\* do_bash: who misses falls; who is hit sits, also when stunned by the blow.
DoBash(c, v) ==
    LET w == Readied(world, c)
        sits(x, d) == Placed(x, d, "sitting")
        blow(x) == SpellDamage(x, c, v)
    IN  /\ Violent(c) /\ At(c, v) /\ c \in Able
        /\ w.mount[c] = None /\ w.mount[v] = None
        /\ w.attackers[c] <= ElbowRoom /\ w.attackers[v] < Crowd
        /\ w.pos[v] # "dead"
        /\ \/ Become({sits(x, c) : x \in blow(w)})
           \/ Become({IF x.where[v] = None THEN x ELSE sits(x, v) : x \in blow(sits(w, v))})

\* A kick, or a spell that hurts.
Harm(c, v) == Violent(c) /\ At(c, v) /\ c \in Able /\ Become(SpellDamage(Readied(world, c), c, v))

DoFollow(c, leader) ==
    LET w == Readied(world, c) IN
    /\ Command(c) /\ Together(w, c, leader) /\ c \in Able
    /\ c \notin w.charmed
    /\ IF leader = c THEN Become({StopFollower(w, c)})
       ELSE /\ ~ CircleFollow(w, c, leader)
            /\ Become({AddFollower(StopFollower(w, c), c, leader)})

\* spell_charm_person.
Charm(c, v) ==
    LET w == Readied(world, c)
        x == AddFollower(StopFollower(w, v), v, c)
    IN  /\ Command(c) /\ At(c, v) /\ c \in Able
        /\ c \notin w.charmed /\ v \notin w.charmed
        /\ ~ CircleFollow(w, v, c)
        /\ Become({[x EXCEPT !.charmed = @ \cup {v},
                             !.under = Put(@, v, @[v] \cup {"charm person"})]})

\* do_mount: up it goes, or down on the ground.
DoMount(c, h) ==
    LET w == Readied(world, c) IN
    /\ Command(c) /\ Together(w, c, h)
    /\ h \in Rideable /\ c \notin Rideable /\ c \in Able
    /\ w.pos[c] # "fighting" /\ w.pos[h] \in {"standing", "mounted"}
    /\ w.rider[h] = None /\ w.mount[c] = None
    /\ Become({[w EXCEPT !.mount = Put(@, c, h), !.rider = Put(@, h, c),
                         !.pos = Put(@, c, "mounted")],
               Placed(w, c, "sitting")} \cup Hit(w, h, c))

DoDismount(c) ==
    /\ Command(c)
    /\ Readied(world, c).pos[c] = "mounted"
    /\ Become({Dismount(world, c, world.mount[c], "standing")})

DoSit(c) ==
    /\ Command(c) /\ c \in Able /\ Readied(world, c).pos[c] = "standing"
    /\ Become({Placed(Readied(world, c), c, "sitting")})

DoStand(c) ==
    /\ ~ InRound /\ c \in InGame(world) /\ world.pos[c] = "sitting"
    /\ Become({Placed(Readied(world, c), c, "standing")})

\* do_move of one that is not ridden, and MoveGroup: who follows and stands
\* comes too, if it can; who walks into a death trap goes alone.
DoMove(c, r) ==
    LET w == Readied(world, c)
        can(f) == Together(w, c, f) /\ MayMove(w, f) /\ w.pos[f] \in {"standing", "mounted"}
        trains == {F \in SUBSET (Chars \ {c}) :
                      \A f \in F : can(f) /\ w.master[f] \in F \cup {c} /\ CircleFollow(w, c, f)}
    IN  /\ Command(c) /\ r # w.where[c]
        /\ w.pos[c] # "fighting" /\ w.rider[c] = None
        /\ w.attackers[c] <= 1
        /\ MayMove(w, c) /\ ~ Loyal(w, c)
        /\ IF r \in DeathTraps
           THEN w.mount[c] = None /\ Become({Extract(w, c)})
           ELSE Become({Moved(w, F \cup {c}, r) : F \in trains})

\* do_move of a mount that does not carry its rider along throws it off.
ThrowOff(c) ==
    /\ Command(c) /\ world.pos[c] # "fighting" /\ world.rider[c] # None
    /\ Become({Dismount(Readied(world, c), world.rider[c], c, "sitting")})

-----------------------------------------------------------------------------
(* What happens to a character.                                            *)

Event(c) == ~ InRound /\ c \in InGame(world)

Enter(c, r) ==
    /\ ~ InRound /\ c \notin InGame(world) /\ r \notin DeathTraps
    /\ world' = [world EXCEPT !.where[c] = r, !.hp[c] = "fit", !.pos[c] = "standing"]

\* do_quit, check_idling, and the end of a mobile.
Leave(c) ==
    /\ Event(c)
    /\ c \in Pcs \ world.linkdead => world.pos[c] # "fighting" /\ c \notin world.charmed
    /\ Become({Extract(world, c)})

LinkChanges(c) ==
    /\ Event(c) /\ c \in Pcs
    /\ world' = [world EXCEPT !.linkdead = IF c \in @ THEN @ \ {c} ELSE @ \cup {c}]

Heal(c) ==
    /\ Event(c) /\ world.hp[c] # "fit"
    /\ Become({UpdatePos(Wounded(world, c, "fit"), c)})

\* hit_gain: damage( ch, ch, ..., TYPE_SUFFERING ).
Suffer(c) ==
    /\ Event(c) /\ world.pos[c] = "stunned"
    /\ Become(UNION {Settled(UpdatePos(Wounded(world, c, h), c), c, c) :
                     h \in Lower(world.hp[c])})

-----------------------------------------------------------------------------
(* perform_violence.                                                       *)

BeginRound ==
    /\ ~ InRound /\ world.combat_list # {}
    /\ world' = [world EXCEPT !.ahead = world.combat_list]

\* A mobile without a fight turns on who hates it or strikes it.
Victims(w, c) ==
    IF w.fighting[c] # None THEN {w.fighting[c]}
    ELSE {v \in Chars \ {c} : c \notin Pcs /\ Together(w, c, v) /\ w.attackers[v] < Crowd}

\* PCAttacks and NPCAttacks: c strikes once, or (a bound) twice, until
\* hit() says that it is dead or there is nobody to strike.
Once(w, c) ==
    IF w.pos[c] = "dead" \/ Victims(w, c) = {} THEN {w}
    ELSE UNION {Hit(w, c, v) : v \in Victims(w, c)}
Attacks(w, c) ==
    UNION {{x} \cup Once(x, c) : x \in Once(w, c)}

\* combat_next_dude is moved on before ch fights.
Turn(c) ==
    LET w == [world EXCEPT !.ahead = @ \ {c}] IN
    /\ InRound /\ c \in world.ahead
    /\ IF \/ w.where[c] \in Peaceful \/ c = w.fighting[c]
          \/ ~ Awake(w, c) \/ ~ Together(w, c, w.fighting[c])
       THEN Become({StopFighting(w, c)})
       ELSE Become(Attacks(w, c))

Round == BeginRound \/ \E c \in Chars : Turn(c)

Commands ==
    \/ \E c, v \in Chars :
          \/ DoHit(c, v) \/ DoKill(c, v) \/ DoAssist(c, v) \/ DoBash(c, v)
          \/ Harm(c, v) \/ DoFollow(c, v) \/ Charm(c, v) \/ DoMount(c, v)
          \/ \E t \in Chars : DoRescue(c, v, t)
    \/ \E c \in Chars :
          \/ DoFlee(c) \/ DoStopFight(c) \/ DoDismount(c) \/ DoSit(c) \/ DoStand(c)
          \/ ThrowOff(c) \/ \E r \in Rooms : DoMove(c, r)

Events ==
    \E c \in Chars :
        \/ Leave(c) \/ LinkChanges(c) \/ Heal(c) \/ Suffer(c)
        \/ \E r \in Rooms : Enter(c, r)

Next == Commands \/ Events \/ Round

Spec == Init /\ [][Next]_world

-----------------------------------------------------------------------------
(* Properties.                                                             *)

TypeOK == world \in Worlds

\* However the commands, the rounds and the events meet, the fights agree.
FightsAgree == Fight(world)

\* So do the bonds: a death, a flight or a departure leaves none behind.
BondsAgree == Bonds(world)

\* Between commands nobody whose hit points say dead is left in the game.
DeadAreGone == \A c \in InGame(world) : world.pos[c] # "dead"

\* A round comes to its end, however much it makes others fight: who joins
\* the fights during the round waits for the next one.
RoundShrinks == [][InRound => world'.ahead # world.ahead /\ world'.ahead \subseteq world.ahead]_world
=============================================================================
