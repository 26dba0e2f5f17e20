-------------------------------- MODULE Deeds --------------------------------
(***************************************************************************)
(* What one command can do to all that are in a room.  A world is taken    *)
(* from Scenes, a deed from the spells that can be cast (spell_parser.c)   *)
(* and the potions, scrolls, wands and staffs there are (act.other.c), and *)
(* then the characters do that deed to each other.                         *)
(***************************************************************************)
EXTENDS Casting, Items, Sequences
LOCAL INSTANCE SequencesExt

CONSTANTS Scenes,       \* the worlds in which the deeds are done
          MaxDone       \* bound: how often

VARIABLES world,
          deed,         \* what is done: by what means, and with which spells
          doer, done

vars == <<world, deed, doer, done>>

Deed(by, spells) == [by |-> by, spells |-> spells]
Deeds ==
    {Deed("spell", <<s>>) : s \in DOMAIN SpellInfo}
    \cup {Deed("potion", l) : l \in Potions} \cup {Deed("scroll", l) : l \in Scrolls}
    \cup {Deed("wand", l) : l \in Wands} \cup {Deed("staff", l) : l \in Staffs}

Init ==
    /\ world \in {w @@ [thing |-> "plain", faults |-> {}] : w \in Scenes}
    /\ deed \in Deeds
    /\ doer = None
    /\ done = 0

-----------------------------------------------------------------------------
(* do_cast.                                                                *)

Rank == [p \in Positions |->
            CASE p \in Down -> 0 [] p = "sleeping" -> 1 [] p = "sitting" -> 2
              [] p = "fighting" -> 3 [] OTHER -> 4]

\* Whom c can name for a spell, or gets without a name.
Named(w, c, aims) ==
    LET free(v) == v = c \/ v = w.fighting[c] \/ w.attackers[v] < Crowd \/ w.fighting[v] = c
    IN  (IF "room" \in aims THEN {v \in People(w, c) : free(v)} ELSE {})
        \cup (IF "world" \in aims THEN InGame(w) ELSE {})
        \cup (IF "thing" \in aims /\ w.thing # "gone" THEN {Thing} ELSE {})
        \cup (IF "only self" \in aims THEN {c} ELSE {})
Unnamed(w, c, aims) ==
    IF "foe" \in aims /\ w.fighting[c] # None THEN {w.fighting[c]}
    ELSE IF "only self" \in aims THEN {c} ELSE {}

Refused(w, c, t, aims) ==
    \/ t = c /\ "not self" \in aims
    \/ t # c /\ "only self" \in aims
    \/ c \in w.charmed /\ w.master[c] = t

Targets(w, c, aims) ==
    IF "ignore" \in aims THEN {None}
    ELSE {t \in Named(w, c, aims) \cup Unnamed(w, c, aims) : ~ Refused(w, c, t, aims)}

\* A shell stops the magic that goes through it.
Shelled(w, v) == v \in Chars /\ "anti magic shell" \in w.under[v]

Doing(means, c) ==
    /\ done < MaxDone /\ deed.by = means
    /\ c \in InGame(world) \cap Pcs /\ Awake(world, c)

Does(c, W) ==
    /\ world' \in W
    /\ doer' = c
    /\ done' = done + 1
    /\ UNCHANGED deed

-----------------------------------------------------------------------------
(* The spells of a deed, one after the other.                              *)

\* Each spell of a scroll asks again whether the place allows it.
Readable(w, c, s) ==
    /\ w.where[c] \notin NoMagic
    /\ s \in DOMAIN SpellInfo /\ "violent" \in SpellInfo[s].targets => w.where[c] \notin Peaceful

\* A number without a wrapper calls nothing at all.
Wrought(w, c, t) ==
    LET one(x, s) ==
            IF deed.by = "scroll" /\ x.where[c] = None THEN {Faulty(x, "astray")}
            ELSE IF deed.by = "scroll" /\ ~ Readable(x, c, s) THEN {x}
            ELSE IF s = "none" THEN {Faulty(x, "aborted")}
            ELSE Cast(x, c, s, deed.by, t)
    IN  FoldLeft(LAMBDA W, s : UNION {one(x, s) : x \in W}, {w}, deed.spells)

DoCast(c, t) ==
    LET s == deed.spells[1]
        info == SpellInfo[s]
        w == Readied(world, c)
        stopped == \/ Shelled(w, t) \/ Shelled(w, c) \/ w.where[c] \in NoMagic
                   \/ t \in Chars /\ w.pos[t] = "dead"
    IN  /\ Doing("spell", c)
        /\ Rank[w.pos[c]] >= Rank[info.least]
        /\ "violent" \in info.targets => w.where[c] \notin Peaceful
        /\ t \in Targets(w, c, info.targets)
        /\ Does(c, {w} \cup IF stopped THEN {} ELSE Wrought(w, c, t))

\* The potion is thrown away after its spells: what is held must still be.
DoQuaff(c) ==
    /\ Doing("potion", c)
    /\ Does(c, UNION {{x} \cup IF x.where[c] = None THEN {Faulty(x, "aborted")} ELSE {} :
                     x \in Wrought(Readied(world, c), c, c)})

DoRecite(c, t) ==
    LET w == Readied(world, c) IN
    /\ Doing("scroll", c)
    /\ t \in People(w, c) \cup (IF w.thing = "gone" THEN {} ELSE {Thing})
    /\ Does(c, {w} \cup Wrought(w, c, t))

\* A staff asks nothing about peace.
DoUse(c, t) ==
    LET w == Readied(world, c)
        s == deed.spells[1]
    IN  /\ w.rider[c] = None
        /\ w.where[c] \notin NoMagic
        /\ \/ Doing("staff", c) /\ t = None
           \/ /\ Doing("wand", c)
              /\ t \in People(w, c) \cup (IF w.thing = "gone" THEN {} ELSE {Thing})
              /\ Readable(w, c, s)
        /\ Does(c, Wrought(w, c, t))

Next ==
    \E c \in Chars :
        \/ DoQuaff(c)
        \/ \E t \in Chars \cup {Thing, None} : DoCast(c, t) \/ DoRecite(c, t) \/ DoUse(c, t)

Spec == Init /\ [][Next]_vars

-----------------------------------------------------------------------------
(* Properties.  Each is about the spells it holds of: the others are named *)
(* first, with the line where they do what they should not.                *)

Uses(S) == \E i \in DOMAIN deed.spells : deed.spells[i] \in S

\* spell_mount gets on the new mount without getting off the old one
\* (magic3.c:2666), spell_animal_friendship does not ask circle_follow
\* (magic3.c:1809).
Tangling == {"mount", "animal_friendship"}

\* After spells and items, potions and scrolls: no fight and no bond is left
\* that one of the two knows nothing of, and nobody leads itself.
TiesAgree == ~ Uses(Tangling) => Fight(world) /\ Bonds(world)

\* Spells that go on with a victim they have killed or moved (magic.c:246 says
\* so itself, magic3.c:428, magic.c:2304), read what is not wielded
\* (spells2.c:2748), or leave an object nowhere (magic3.c:159, 2595); and a
\* number that no spell has.
Reckless == {"energy_drain", "holyword", "unholyword", "prismatic_spray", "cacaodemon",
             "changestaff", "portal", "none"}
\* Staffs whose walk takes the next one from a victim that is gone.
RecklessStaffs == {"call_lightning", "cause_critic", "cause_light", "harm", "teleport"}
\* Spells with a victim, from a wand or scroll that is aimed at an object.
Misaimed == {"flying", "veggie_growth", "animal_growth", "chain_lightn"}
\* Spells in front of others that may take the victim away.
Removing == {"teleport", "fireball", "lightning_bolt", "magic_missile"}

KnownAstray ==
    \/ Uses(Reckless)
    \/ deed.by = "staff" /\ Uses(RecklessStaffs)
    \/ deed.by \in {"wand", "scroll"} /\ Uses(Misaimed)
    \/ Len(deed.spells) > 1 /\ Uses(Removing)

\* No other deed fails an assertion, follows a null pointer, goes on with one
\* that has left the game or the room, or leaves an object in no place.
NothingAstray == ~ KnownAstray => world.faults \cap {"aborted", "astray", "lost"} = {}

\* Spells that lay an affect without asking whether it is there: they do not
\* ask at all, or for another affect (slow_poison for the poison, magic3.c:1864,
\* the two protections for that against lightning, magic2.c:2539), or somebody
\* else (animal_friendship its caster alone, magic3.c:1765).  Two more look at
\* one and protect another, tree_travel (magic3.c:26) and prot_energy_drain
\* (magic2.c:2243), but can only be aimed at oneself, and no item holds them.
Doubling == {"water_breath", "fly_group", "silence", "web", "entangle", "major_track",
             "minor_track", "slow_poison", "creeping_death", "prot_dragon_breath_acid",
             "prot_dragon_breath_gas", "animal_friendship"}

\* Nobody is under the same spell twice: what would be taken off once, or
\* saved once, has been added twice.
NoneDoubled == ~ Uses(Doubling) => "doubled" \notin world.faults

\* Who has no hit points left is out of the game when the deed is done; the
\* drained are not looked at again (magic.c:249).
NoDeadLeft ==
    ~ Uses({"energy_drain"}) => \A c \in InGame(world) : world.hp[c] # "dead"

\* The words of power do not ask who is a friend (magic3.c:425).
Words == {"holyword", "unholyword"}
AimedAtAll ==
    \A i \in DOMAIN deed.spells :
        /\ deed.spells[i] \in DOMAIN SpellInfo \ Words
        /\ {"ignore", "violent"} \subseteq SpellInfo[deed.spells[i]].targets
Worse(h) == CASE h = "fit" -> {"hurt", "dead"} [] h = "hurt" -> {"dead"} [] OTHER -> {}

\* An attack on the whole room, by spell or by item, strikes down nobody of
\* the group of who does it.
GroupSpared ==
    [][AimedAtAll => \A v \in Pcs \ {doer'} :
           InGroup(world, doer', v) =>
               /\ world'.hp[v] \notin Worse(world.hp[v])
               /\ world.where[v] # None => world'.where[v] # None]_vars
=============================================================================
