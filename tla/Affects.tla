------------------------------- MODULE Affects -------------------------------
(***************************************************************************)
(* What spells and worn objects do to a character.  The effects are added  *)
(* to the quantities they change when they begin, and subtracted when they *)
(* end; nothing keeps the bare quantities but the ability scores.  Saving  *)
(* a character takes everything off it, writes the bare quantities, and    *)
(* puts everything back, object by object through equip_char, which may    *)
(* refuse one: it falls to the floor, and the character is saved again     *)
(* from within the saving.  The objects of the rent file are put on in the *)
(* same way: what happens to a refused one is up to in_room, which is the  *)
(* room the character was saved in.                                        *)
(*                                                                         *)
(* One player is followed: through the game, the menu, its two files, the  *)
(* floor around it, and crashes.  Numbers stand for the many quantities of *)
(* the same kind: hitroll for those which reset_char clears (damage, armor *)
(* class, immunities ...), saves for those that only store_to_char clears, *)
(* hp for those of ch->points that are written as they are, stat for an    *)
(* ability score, bits for affected_by.                                    *)
(***************************************************************************)
EXTENDS Integers, FiniteSets, Sequences, SequencesExt

CONSTANTS Spells,
          Items,
          MAX_WEAR,
          Slot,          \* the position an object is worn at, 1 .. MAX_WEAR
          Effects,       \* the affects of a spell, or of an object
          Needs,         \* the score below which an object may refuse (ego)
          AntiEvil,      \* the objects with ITEM_ANTI_EVIL
          Flags,         \* the bits of affected_by
          Fly,           \* AFF_FLYING
          Racial,        \* the bits that SetRacialStuff sets
          Base,          \* the ability score, abilities
          Top,           \* the race's maximum of it
          Low,           \* the minimum of a score, 3
          Lasts,         \* bound: how long spells last
          MAX_AFFECT,    \* affects the file has room for
          MaxSaves       \* bound: how far saves may drift

NoItem == "none"

\* affected_type: a location and a modifier, or bits.
Modifiers == [hitroll: Int, saves: Int, hp: Int, stat: Int, bits: SUBSET Flags]

ASSUME AffectsAssumption ==
    /\ NoItem \notin Items /\ Spells \cap Items = {} /\ IsFiniteSet(Spells)
    /\ MAX_WEAR \in Nat /\ MAX_AFFECT \in Nat /\ Lasts \in Nat
    /\ Slot \in [Items -> 1 .. MAX_WEAR]
    /\ Effects \in [Spells \cup Items -> Seq(Modifiers)]
    /\ \A s \in Spells : \A k \in DOMAIN Effects[s] : Effects[s][k].hp = 0
           \* the growth spells, which alone do, refuse players
    /\ Racial \subseteq Flags
    /\ {Base, Top, Low} \subseteq Int /\ 0 <= Low /\ Low <= Base /\ Base <= Top

VARIABLE w   \* the player's struct, its room, and its files

Affected == {a \in [spell: Spells, part: Nat, left: 0 .. Lasts] :
                 a.part \in DOMAIN Effects[a.spell]}
Worn == [1 .. MAX_WEAR -> Items \cup {NoItem}]
Bare == [p \in 1 .. MAX_WEAR |-> NoItem]
WornSet(v) == {v.worn[p] : p \in 1 .. MAX_WEAR} \ {NoItem}

\* in_room and load_room: a room, or one of the two numbers that are none.
Rooms == {"real", "NOWHERE", "AUTO_RENT"}

\* What the files begin with: a character without affects and objects.
NewFile == [affects |-> <<>>, hp |-> 0, bits |-> Racial, align |-> "good",
            room |-> "AUTO_RENT"]
NoRent == [valid |-> FALSE, worn |-> Bare, pack |-> {}]

\* What there is when nobody is connected under the name.
Blank(file, rent) ==
    [at |-> "out", in_room |-> "NOWHERE", align |-> "good", affects |-> <<>>, worn |-> Bare,
     pack |-> {}, ground |-> {}, hitroll |-> 0, saves |-> 0, hp |-> 0,
     stat |-> Base, bits |-> {}, air |-> FALSE,
     file |-> file, rent |-> rent]

\* A loop: what v becomes in the turns 1 .. n.
Turns(n, v, Turn(_, _)) ==
    LET after[k \in 0 .. n] == IF k = 0 THEN v ELSE Turn(after[k - 1], k)
    IN  after[n]

AffectsInit == w = Blank(NewFile, NoRent)
-----------------------------------------------------------------------------
(* handler.c *)

\* affect_modify: a bit is set or cleared whoever else gave it, a score stays
\* between nothing and what the race can reach, everything else is a sum.
Flagged(bits, m, add) == IF add THEN bits \cup m.bits ELSE bits \ m.bits

Scored(score, change) ==
    IF score + change < 0 THEN 0
    ELSE IF score + change > Top THEN Top ELSE score + change

Modify(v, m, add) ==
    LET sign == IF add THEN 1 ELSE -1
    IN  [v EXCEPT !.bits = Flagged(@, m, add),
                  !.stat = Scored(@, sign * m.stat),
                  !.hitroll = @ + sign * m.hitroll,
                  !.saves = @ + sign * m.saves,
                  !.hp = @ + sign * m.hp]

ModifyAll(v, ms, add) ==
    Turns(Len(ms), v, LAMBDA u, k : Modify(u, ms[k], add))

OfAffects(as) == [k \in DOMAIN as |-> Effects[as[k].spell][as[k].part]]
OfWorn(worn) ==
    Turns(MAX_WEAR, <<>>, LAMBDA ms, p :
              IF worn[p] = NoItem THEN ms ELSE ms \o Effects[worn[p]])
Active(v) == OfWorn(v.worn) \o OfAffects(v.affects)

\* affect_total: everything off, the score as it was rolled, everything on
Total(v) ==
    LET all == Active(v)
        off == ModifyAll(v, all, FALSE)
        on == ModifyAll([off EXCEPT !.stat = Base], all, TRUE)
    IN  [on EXCEPT !.stat = IF @ < Low THEN Low ELSE @]

AffectToChar(v, a) ==
    Total(Modify([v EXCEPT !.affects = <<a>> \o @], Effects[a.spell][a.part], TRUE))

\* Mutant: only the list is corrected.
RemoveListed(v, k) == Total([v EXCEPT !.affects = RemoveAt(@, k)])

AffectRemove(v, k) ==
    LET a == v.affects[k]
        off == Modify(v, Effects[a.spell][a.part], FALSE)
    IN  Total([off EXCEPT !.affects = RemoveAt(@, k)])

\* affect_from_char: every affect of the spell
AffectFromChar(v, s) ==
    LET n == Len(v.affects)
    IN  Turns(n, v, LAMBDA u, k :
                  IF u.affects[n - k + 1].spell = s THEN AffectRemove(u, n - k + 1) ELSE u)

\* Of several spells; SetToSeq is the order in which they are named.
AffectsFromChar(v, S) ==
    Turns(Cardinality(S), v, LAMBDA u, k : AffectFromChar(u, SetToSeq(S)[k]))

\* affect_to_char, of one after the other.
AffectsToChar(v, as) == Turns(Len(as), v, LAMBDA u, k : AffectToChar(u, as[k]))

\* equip_char, after its tests
Equip(v, i) ==
    Total(ModifyAll([v EXCEPT !.worn[Slot[i]] = i], Effects[i], TRUE))

\* Mutant: what the object gave is forgotten.
UnequipForgets(v, p) == Total([v EXCEPT !.worn[p] = NoItem])

UnequipChar(v, p) ==
    Total(ModifyAll([v EXCEPT !.worn[p] = NoItem], Effects[v.worn[p]], FALSE))

\* Everything off, position by position.
Stripped(v) ==
    Turns(MAX_WEAR, v, LAMBDA u, p : IF u.worn[p] = NoItem THEN u ELSE UnequipChar(u, p))

\* Everything on, without tests.
PutOn(v, worn) ==
    Turns(MAX_WEAR, v, LAMBDA u, p : IF worn[p] = NoItem THEN u ELSE Equip(u, worn[p]))

\* The tests of equip_char, made unless in_room is NOWHERE: alignment, and the
\* object's ego.  R are the objects for which the die that goes into the ego falls
\* badly; it is cast once in an action.
Refuses(v, i, R) ==
    /\ v.in_room # "NOWHERE"
    /\ \/ i \in AntiEvil /\ v.align = "evil"
       \/ i \in R /\ v.stat < Needs[i]

\* Whose ego is tested.
Proud == {i \in Items : Needs[i] > 0}
-----------------------------------------------------------------------------
(* Saving *)

\* save_obj
SaveObj(v) == [v EXCEPT !.rent = [valid |-> TRUE, worn |-> v.worn, pack |-> v.pack]]

\* char_to_store: everything off, the first MAX_AFFECT affects out, the record
\* made, and the affects on again.
Written(v, room) ==
    LET kept == SubSeq(v.affects, 1, IF Len(v.affects) < MAX_AFFECT
                                     THEN Len(v.affects) ELSE MAX_AFFECT)
        off == ModifyAll(Stripped(v), OfAffects(kept), FALSE)
    IN  ModifyAll([off EXCEPT
                      !.stat = Base,
                      !.file = [affects |-> kept, hp |-> off.hp, bits |-> off.bits,
                                align |-> v.align, room |-> room]],
                  OfAffects(kept), TRUE)

\* The do_save from within equip_char, while a character is being dressed: with
\* what is worn and carried so far.  What it puts back has just passed the same
\* tests in the same order, so that it refuses nothing.
NestedSave(v) == Total(PutOn(Written(SaveObj(v), "AUTO_RENT"), v.worn))

\* Refused, an object falls to the floor.
EquipChar(v, i, R) ==
    IF Refuses(v, i, R) THEN NestedSave([v EXCEPT !.ground = @ \cup {i}]) ELSE Equip(v, i)

\* Everything on, as far as equip_char lets it.
TryOn(v, worn, R) ==
    Turns(MAX_WEAR, v, LAMBDA u, p :
              IF worn[p] = NoItem THEN u ELSE EquipChar(u, worn[p], R))

\* save_char writes the record when the character is dressed again, over what
\* the saves from within have written.
SaveChar(v, room, R) ==
    LET x == Written(v, room)
    IN  [Total(TryOn(x, v.worn, R)) EXCEPT !.file = x.file]
DoSave(v, R) == SaveChar(SaveObj(v), "AUTO_RENT", R)
-----------------------------------------------------------------------------
(* Death *)

RemAllAffects(v) == AffectsFromChar(v, Spells)

\* make_corpse with RemAllAffects, zero_rent, extract_char and do_save
Die(v) ==
    DoSave([RemAllAffects(Stripped(v)) EXCEPT
                !.at = "menu", !.in_room = "NOWHERE", !.air = FALSE, !.pack = {},
                !.ground = @ \cup v.pack \cup WornSet(v)], {})

\* check_falling: who cannot fly in the air lands on the ground or dies.
Falls(v) == v.air /\ Fly \notin v.bits
CheckFalling(v) ==
    IF Falls(v) THEN {[v EXCEPT !.air = FALSE], Die(v)} ELSE {v}
-----------------------------------------------------------------------------
(* Coming and going *)

\* The file is read at the name prompt: store_to_char.
Login ==
    /\ w.at = "out"
    /\ LET read == [w EXCEPT !.at = "login", !.hp = w.file.hp, !.align = w.file.align,
                             !.bits = w.file.bits, !.in_room = w.file.room]
       IN  w' = AffectsToChar(read, Reverse(w.file.affects))

\* reset_char, in the menu, applies the affects of the struct once more.
ResetChar(v) ==
    ModifyAll([v EXCEPT !.hitroll = 0, !.bits = @ \cup Racial],
              OfAffects(v.affects), TRUE)

\* obj_store_to_char: what was worn is put on, then the pack is filled.
Wears(v, r, R) == [TryOn(v, r.worn, R) EXCEPT !.pack = r.pack]

InGame(v) == [v EXCEPT !.at = "game", !.in_room = "real"]

\* The game stops.  At the next boot update_obj_file takes AUTO_RENT out of the
\* files that go with a rent file, and sells what others have not the money for.
Down(v) ==
    LET lost == [v.file EXCEPT !.room = "NOWHERE"]
    IN  IF ~v.rent.valid THEN {Blank(v.file, v.rent)}
        ELSE IF v.file.room = "AUTO_RENT" THEN {Blank(lost, v.rent)}
        ELSE {Blank(v.file, v.rent), Blank(lost, NoRent)}

\* load_char_objs, and the character gets its room.  AUTO_RENT is no room an
\* object can fall to: there, not to wear all of the file is to bring the game
\* down.
EnterGame ==
    /\ w.at \in {"login", "menu"}
    /\ \E long, broke \in BOOLEAN, R \in SUBSET Proud :
        LET r == w.rent
            c == IF long /\ r.valid THEN RemAllAffects(ResetChar(w)) ELSE ResetChar(w)
            x == SaveChar(Wears(c, r, R), "AUTO_RENT", R)
        IN  /\ c.saves \in -MaxSaves .. MaxSaves
            /\ IF ~r.valid THEN w' = InGame(c)
               ELSE IF broke
                    THEN w' = InGame(SaveChar([c EXCEPT !.rent = NoRent], "AUTO_RENT", R))
               ELSE IF c.in_room = "AUTO_RENT" /\ x.worn # r.worn THEN w' \in Down(c)
               ELSE w' = InGame(x)

\* do_quit: extract_char leaves the objects in the room, zero_rent and do_save.
Quit ==
    /\ w.at = "game"
    /\ w' = DoSave([Stripped(w) EXCEPT
                        !.at = "menu", !.in_room = "NOWHERE", !.air = FALSE, !.pack = {},
                        !.ground = @ \cup w.pack \cup WornSet(w)], {})

\* receptionist: save_obj stores the objects away, extract_char and save_char,
\* and the character remembers its room.
RentOut ==
    /\ w.at = "game" /\ ~w.air
    /\ w' = SaveChar([Stripped(SaveObj(w)) EXCEPT !.at = "menu", !.pack = {}], "real", {})

LeaveMenu == /\ w.at \in {"login", "menu"}
             /\ w' = [Blank(w.file, w.rent) EXCEPT !.ground = w.ground]

Crash == w' \in Down(w)

\* The game stops between the two files of do_save.
CrashInSave == /\ w.at = "game"
               /\ w' \in Down(SaveObj(w))
-----------------------------------------------------------------------------
(* In the game *)

\* What equip_char refuses falls to the floor, and do_save follows.
DoWear(i) ==
    /\ w.at = "game" /\ i \in w.pack /\ w.worn[Slot[i]] = NoItem
    /\ \E R \in SUBSET Proud :
        LET taken == [w EXCEPT !.pack = @ \ {i}]
        IN  w' = IF Refuses(taken, i, R)
                 THEN DoSave([taken EXCEPT !.ground = @ \cup {i}], R)
                 ELSE Equip(taken, i)

DoRemove(p) ==
    /\ w.at = "game" /\ w.worn[p] # NoItem
    /\ w' \in CheckFalling([UnequipChar(w, p) EXCEPT !.pack = @ \cup {w.worn[p]}])

\* Objects are found on the floor, or made somewhere if there is none.
DoGet(i) ==
    /\ w.at = "game" /\ i \notin w.pack \cup WornSet(w)
    /\ \E R \in SUBSET Proud :
        w' = DoSave([w EXCEPT !.pack = @ \cup {i}, !.ground = @ \ {i}], R)

DoDrop(i) ==
    /\ w.at = "game" /\ i \in w.pack
    /\ \E R \in SUBSET Proud :
        w' = DoSave([w EXCEPT !.pack = @ \ {i}, !.ground = @ \cup {i}], R)

\* A spell is cast on the player; none takes effect twice.
Cast(s) ==
    /\ w.at = "game"
    /\ \A k \in DOMAIN w.affects : w.affects[k].spell # s
    /\ w' = AffectsToChar(w, [k \in DOMAIN Effects[s] |->
                                 [spell |-> s, part |-> k, left |-> Lasts]])

\* spell_dispel_magic: each spell may resist
Dispel(S) ==
    /\ w.at = "game"
    /\ \E k \in DOMAIN w.affects : w.affects[k].spell \in S
    /\ w' \in CheckFalling(AffectsFromChar(w, S))

\* affect_update, for this character.  SpellWearOff comes before affect_remove:
\* what flies still flies when check_falling is asked there.
WearOff(v, k) == AffectRemove(v, k)

\* The walk goes from the head; k counts from there, and what is removed
\* makes the next affect take its place.
WalkOn(s) ==
    IF s.v.affects[s.k].left >= 1
    THEN [v |-> [s.v EXCEPT !.affects[s.k].left = @ - 1], k |-> s.k + 1]
    ELSE [v |-> WearOff(s.v, s.k), k |-> s.k]

Walked(v) == Turns(Len(v.affects), [v |-> v, k |-> 1], LAMBDA s, n : WalkOn(s)).v

AffectUpdate(saves) ==
    /\ w.at = "game"
    /\ LET walked == Walked(w)
       IN  \E R \in SUBSET Proud :
               w' \in CheckFalling(IF saves THEN DoSave(walked, R) ELSE walked)

Save == /\ w.at = "game"
        /\ \E R \in SUBSET Proud : w' = DoSave(w, R)

\* The bank saves the character alone, and where it is.
Bank == /\ w.at = "game"
        /\ \E R \in SUBSET Proud : w' = SaveChar(w, "real", R)

\* Movement into a room in the air, or out of it.
Move == /\ w.at = "game"
        /\ w' \in CheckFalling([w EXCEPT !.air = ~@])

\* change_alignment and others
ChangeAlign == /\ w.at = "game"
               /\ w' = [w EXCEPT !.align = IF @ = "good" THEN "evil" ELSE "good"]

Killed == /\ w.at = "game"
          /\ w' = Die(w)
-----------------------------------------------------------------------------
AffectsNext ==
    \/ Login \/ EnterGame \/ Quit \/ RentOut \/ LeaveMenu
    \/ Crash \/ CrashInSave
    \/ \E i \in Items : DoWear(i) \/ DoGet(i) \/ DoDrop(i)
    \/ \E p \in 1 .. MAX_WEAR : DoRemove(p)
    \/ \E s \in Spells : Cast(s)
    \/ \E S \in SUBSET Spells : Dispel(S)
    \/ \E saves \in BOOLEAN : AffectUpdate(saves)
    \/ Save \/ Bank \/ Move \/ ChangeAlign \/ Killed

AffectsSpec == AffectsInit /\ [][AffectsNext]_w
-----------------------------------------------------------------------------
Sum(ms, f) == Turns(Len(ms), 0, LAMBDA n, k : n + ms[k][f])
Bits(ms) == UNION {ms[k].bits : k \in DOMAIN ms}

\* char_to_store has room for all affects.
FitsTheFile == Len(w.affects) <= MAX_AFFECT

AffectsTypeOK ==
    /\ w.at \in {"out", "login", "menu", "game"}
    /\ w.in_room \in Rooms /\ w.file.room \in Rooms
    /\ w.align \in {"good", "evil"} /\ {w.air, w.rent.valid} \subseteq BOOLEAN
    /\ w.affects \in Seq(Affected) /\ w.file.affects \in Seq(Affected)
    /\ w.worn \in Worn /\ w.rent.worn \in Worn
    /\ w.pack \cup w.ground \cup w.rent.pack \subseteq Items
    /\ w.pack \cap WornSet(w) = {}
    /\ \A i \in Items, p \in 1 .. MAX_WEAR : w.worn[p] = i => p = Slot[i]
    /\ w.saves \in Int /\ w.hp \in Int /\ w.hitroll \in Int
    /\ w.stat \in 0 .. Top

\* What is added is taken away again, through wearing, casting, wearing off,
\* saving, dying, quitting, and coming back from the files: in the game the
\* quantities are what the worn objects and the active spells give, and no
\* bit is left that nothing gives.
Balanced ==
    w.at = "game" =>
        /\ w.hitroll = Sum(Active(w), "hitroll")
        /\ w.hp = Sum(Active(w), "hp")
        /\ Bits(Active(w)) \subseteq w.bits /\ w.bits \subseteq Bits(Active(w)) \cup Racial

\* The same of the saving throws, of which the comments of store_to_char and
\* char_to_store say that spell effects are added, and not doubled.  reset_char
\* does not clear them before it applies the affects of the struct: they are
\* doubled whenever a player goes from the game to the menu and back.
SavesBalanced == w.at = "game" => w.saves = Sum(Active(w), "saves")
=============================================================================
