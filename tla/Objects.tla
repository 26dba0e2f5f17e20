------------------------------ MODULE Objects ------------------------------
(***************************************************************************)
(* Objects and the places they are in (handler.c), and the commands and    *)
(* events that move them.  The same fact is kept twice: every place lists  *)
(* what is in it (room->contents, ch->carrying, ch->equipment,             *)
(* obj->contains), and every object points to its place (in_room,          *)
(* carried_by, equipped_by and eq_pos, in_obj).  Two sums are kept beside  *)
(* the lists: what a character carries (weight and number), and the weight *)
(* of a container, which includes that of its contents.                    *)
(*                                                                         *)
(* The functions of handler.c are operators on the record `world`, so that *)
(* a command is the composition of the calls it makes.  Where the code     *)
(* loops over objects of one place, the operator takes a set of them.      *)
(***************************************************************************)
EXTENDS Integers, FiniteSets, FiniteSetsExt

CONSTANTS Objs, Chars, Rooms,
          Bags,          \* containers with room in them
          Corpses,       \* made by make_corpse: value[0] is 0, value[3] is 1
          Drinks,        \* ITEM_DRINKCON
          Scraps,        \* object 30, what MakeScrap leaves
          Takeable,      \* ITEM_TAKE
          Lights, Shields, Blades, Holdable,   \* wear flags
          Pcs, Humanoid,
          Weight,        \* of each object as read_object makes it, empty
          Capacity,      \* value[0] of a bag, in weight
          Wield,         \* str_app[].wield_w
          CanCarryN, CanCarryW,
          Below,         \* where things fall to from a SECT_AIR room, or None
          None

Containers == Bags \cup Corpses
Pos == {"WEAR_LIGHT", "WEAR_SHIELD", "WIELD", "HOLD"}

\* ITEM_CONTAINER and ITEM_DRINKCON are values of one field, type_flag.
ASSUME ObjectsAssumption ==
    /\ IsFiniteSet(Objs)
    /\ Containers \cup Drinks \cup Scraps \subseteq Objs
    /\ Bags \cap Corpses = {} /\ Containers \cap Drinks = {}
    /\ Pcs \cup Humanoid \subseteq Chars
    /\ Weight \in [Objs -> Nat]
    /\ Below \in [Rooms -> Rooms \cup {None}]
    /\ \A r \in Rooms : Below[r] # r
    /\ None \notin Objs \cup Chars \cup Rooms \cup Pos

VARIABLES where,         \* ch->in_room of every character, None out of the game
          world          \* objects and their places
vars == <<where, world>>

Init ==
    /\ where = [c \in Chars |-> None]
    /\ world = [object_list |-> {},
                contents    |-> [r \in Rooms |-> {}],
                carrying    |-> [c \in Chars |-> {}],
                equipment   |-> [c \in Chars |-> [p \in Pos |-> None]],
                contains    |-> [o \in Objs |-> {}],
                in_room     |-> [o \in Objs |-> None],
                carried_by  |-> [o \in Objs |-> None],
                equipped_by |-> [o \in Objs |-> None],
                eq_pos      |-> [o \in Objs |-> None],
                in_obj      |-> [o \in Objs |-> None],
                weight      |-> Weight,
                carrying_w  |-> [c \in Chars |-> 0],
                carrying_n  |-> [c \in Chars |-> 0]]

-----------------------------------------------------------------------------
(* What is where.                                                          *)

SetAll(f, S, x) == [o \in DOMAIN f |-> IF o \in S THEN x ELSE f[o]]

WeightOf(w, S) == MapThenSumSet(LAMBDA o : w.weight[o], S)

\* What the objects in S contain, at every depth.
Inside(w, S) ==
    {o \in Objs : \A D \in SUBSET Containers :
        (/\ S \cap Containers \subseteq D
         /\ \A c \in D : w.contains[c] \cap Containers \subseteq D)
        => \E c \in D : o \in w.contains[c]}

\* The containers around an object, and the outermost of them.
Around(w, o) == {c \in Containers : o \in Inside(w, {c})}
Outermost(w, o) == CHOOSE c \in Around(w, o) : w.in_obj[c] = None

Worn(w, c) == {w.equipment[c][p] : p \in Pos} \ {None}

\* get_obj_vis_accessible: what is carried, and what lies in the room.
Accessible(c) == world.carrying[c] \cup world.contents[where[c]]

-----------------------------------------------------------------------------
(* handler.c.                                                              *)

ObjToChar(w, S, c) ==
    [w EXCEPT !.carrying[c] = @ \cup S,
              !.carried_by = SetAll(@, S, c),
              !.equipped_by = SetAll(@, S, None),
              !.in_obj = SetAll(@, S, None),
              !.in_room = SetAll(@, S, None),
              !.carrying_w[c] = @ + WeightOf(w, S),
              !.carrying_n[c] = @ + Cardinality(S)]

\* The objects are carried by c: callers take them from c's list.
ObjFromChar(w, S, c) ==
    [w EXCEPT !.carrying[c] = @ \ S,
              !.carried_by = SetAll(@, S, None),
              !.equipped_by = SetAll(@, S, None),
              !.in_obj = SetAll(@, S, None),
              !.carrying_w[c] = @ - WeightOf(w, S),
              !.carrying_n[c] = @ - Cardinality(S)]

\* obj_to_room leaves in_obj alone.
ObjToRoom(w, S, r) ==
    [w EXCEPT !.contents[r] = @ \cup S,
              !.in_room = SetAll(@, S, r),
              !.carried_by = SetAll(@, S, None),
              !.equipped_by = SetAll(@, S, None)]

ObjFromRoom(w, S, r) ==
    [w EXCEPT !.contents[r] = @ \ S, !.in_room = SetAll(@, S, None)]

\* Mutant: the container stays as heavy as it was.
ObjToObjLight(w, o, c) ==
    [w EXCEPT !.contains[c] = @ \cup {o}, !.in_obj[o] = c]

\* obj_to_obj, for an object that is nowhere and a container that is not in it.
ObjToObj(w, o, c) ==
    LET v == [w EXCEPT !.contains[c] = @ \cup {o},
                       !.in_obj[o] = c,
                       !.carried_by[o] = None,
                       !.equipped_by[o] = None]
        around == Around(v, o)
        carrier == w.carried_by[Outermost(v, o)]
        heavier == [v EXCEPT !.weight = [x \in Objs |->
                        IF x \in around THEN @[x] + w.weight[o] ELSE @[x]]]
    IN IF carrier = None THEN heavier
       ELSE [heavier EXCEPT !.carrying_w[carrier] = @ + w.weight[o]]

Less(a, b) == IF a < b THEN 0 ELSE a - b

ObjFromObj(w, o) ==
    LET around == Around(w, o)
        carrier == w.carried_by[Outermost(w, o)]
        lighter == [w EXCEPT !.contains[w.in_obj[o]] = @ \ {o},
                             !.in_obj[o] = None,
                             !.weight = [x \in Objs |->
                                 IF x \in around THEN Less(@[x], w.weight[o]) ELSE @[x]]]
    IN IF carrier = None THEN lighter
       ELSE [lighter EXCEPT !.carrying_w[carrier] = Less(@, w.weight[o])]

\* unequip_char for several positions.
UnequipChar(w, c, P) ==
    LET S == {w.equipment[c][p] : p \in P}
    IN [w EXCEPT !.equipment[c] = SetAll(@, P, None),
                 !.equipped_by = SetAll(@, S, None),
                 !.eq_pos = SetAll(@, S, None)]

\* equip_char of an object that is nowhere.  Ego, barbarian and alignment may
\* refuse it: then it lies in the room.
PutOn(w, c, o, p) ==
    [w EXCEPT !.equipment[c][p] = o, !.equipped_by[o] = c, !.eq_pos[o] = p]

EquipChar(w, c, o, p, refused) ==
    IF refused THEN ObjToRoom(w, {o}, where[c]) ELSE PutOn(w, c, o, p)

\* check_falling_obj, for a set that lies in room r.
CheckFallingObj(w, S, r) ==
    IF Below[r] = None THEN w ELSE ObjToRoom(ObjFromRoom(w, S, r), S, Below[r])

\* What free_obj leaves: nothing.
FreeObj(w, S) ==
    [w EXCEPT !.object_list = @ \ S,
              !.contains = SetAll(@, S, {}),
              !.in_obj = SetAll(@, S, None),
              !.weight = [o \in Objs |-> IF o \in S THEN Weight[o] ELSE @[o]]]

\* extract_obj of objects that are nowhere, with all that is in them.
ExtractObj(w, S) == FreeObj(w, S \cup Inside(w, S))

\* extract_obj of an object in a container: it is unlinked, and the containers
\* around it keep its weight.
Unlinked(w, o) == [w EXCEPT !.contains[w.in_obj[o]] = @ \ {o}, !.in_obj[o] = None]
ExtractFromObj(w, o) == ExtractObj(Unlinked(w, o), {o})

\* weight_change_object, for an object that c carries.
WeightChangeObject(w, o, c, change) ==
    LET d == IF w.weight[o] + change < 1 THEN 1 - w.weight[o] ELSE change
        out == ObjFromChar(w, {o}, c)
    IN ObjToChar([out EXCEPT !.weight[o] = @ + d], {o}, c)

ReadObject(w, o) == [w EXCEPT !.object_list = @ \cup {o}]

-----------------------------------------------------------------------------
(* Objects come into the world.                                            *)

Unused(o) == o \notin world.object_list

\* do_load, reset_zone: on the floor, or into somebody's hands.
LoadToRoom(o, r) ==
    /\ Unused(o) /\ o \notin Corpses \cup Scraps
    /\ world' = ObjToRoom(ReadObject(world, o), {o}, r)
    /\ UNCHANGED where

LoadToChar(o, c) ==
    /\ Unused(o) /\ o \notin Corpses \cup Scraps
    /\ where[c] # None
    /\ world.carrying_n[c] < CanCarryN[c]
    /\ world' = ObjToChar(ReadObject(world, o), {o}, c)
    /\ UNCHANGED where

-----------------------------------------------------------------------------
(* act.obj1.c.                                                             *)

\* get: `get all` wants room for one more object, `get <object>` for two.
Get(c, o) ==
    /\ where[c] # None /\ o \in world.contents[where[c]] \cap Takeable
    /\ world.carrying_n[c] + 1 <= CanCarryN[c]
    /\ world.carrying_w[c] + world.weight[o] <= CanCarryW[c]
    /\ world' = ObjToChar(ObjFromRoom(world, {o}, where[c]), {o}, c)
    /\ UNCHANGED where

\* get from a container.  One that is carried already need not be light.
GetFrom(c, o, from) ==
    /\ where[c] # None /\ from \in Accessible(c) /\ o \in world.contains[from] \cap Takeable
    /\ world.carrying_n[c] + 1 < CanCarryN[c]
    /\ \/ from \in world.carrying[c]
       \/ world.carrying_w[c] + world.weight[o] < CanCarryW[c]
    /\ world' = ObjToChar(ObjFromObj(world, o), {o}, c)
    /\ UNCHANGED where

DoDrop(c, o) ==
    /\ where[c] # None /\ o \in world.carrying[c]
    /\ LET r == where[c] IN
       world' = CheckFallingObj(ObjToRoom(ObjFromChar(world, {o}, c), {o}, r), {o}, r)
    /\ UNCHANGED where

DoPut(c, o, into) ==
    /\ where[c] # None /\ o \in world.carrying[c]
    /\ into \in Accessible(c) \cap Bags
    /\ o # into
    /\ world.weight[into] + world.weight[o] < Capacity
    /\ world' = ObjToObj(ObjFromChar(world, {o}, c), o, into)
    /\ UNCHANGED where

DoGive(c, v, o) ==
    /\ c # v /\ where[c] # None /\ where[v] = where[c]
    /\ o \in world.carrying[c]
    /\ world.carrying_n[v] + 1 <= CanCarryN[v]
    /\ world.carrying_w[v] + world.weight[o] <= CanCarryW[v]
    /\ world' = ObjToChar(ObjFromChar(world, {o}, c), {o}, v)
    /\ UNCHANGED where

-----------------------------------------------------------------------------
(* act.obj2.c.                                                             *)

Equipment(c, p) == world.equipment[c][p]
Wears(c, p) == Equipment(c, p) # None
TwoHanded(o) == world.weight[o] > Wield

\* Mutant: wear forgets the torch when a weapon is wielded.
MayWearMore(c, o, p) ==
    /\ ~Wears(c, p)
    /\ \/ p = "WEAR_LIGHT" /\ o \in Lights /\ ~(Wears(c, "WIELD") /\ Wears(c, "HOLD"))
       \/ p = "WIELD" /\ o \in Blades
       \/ p = "HOLD" /\ o \in Holdable /\ ~(Wears(c, "WEAR_LIGHT") /\ Wears(c, "WIELD"))

\* The tests of wear(), by keyword.
MayWear(c, o, p) ==
    /\ ~Wears(c, p)
    /\ \/ /\ p = "WEAR_LIGHT" /\ o \in Lights
          /\ ~(Wears(c, "WIELD") /\ TwoHanded(Equipment(c, "WIELD")))
          /\ ~(Wears(c, "WIELD") /\ Wears(c, "HOLD"))
       \/ /\ p = "WIELD" /\ o \in Blades
          /\ ~(Wears(c, "WEAR_LIGHT") /\ Wears(c, "HOLD"))
          /\ TwoHanded(o) => /\ world.weight[o] < (3 * Wield) \div 2
                             /\ ~Wears(c, "WEAR_SHIELD")
                             /\ ~Wears(c, "HOLD") /\ ~Wears(c, "WEAR_LIGHT")
       \/ /\ p = "HOLD" /\ o \in Holdable
          /\ ~(Wears(c, "WIELD") /\ TwoHanded(Equipment(c, "WIELD")))
          /\ ~(Wears(c, "WEAR_LIGHT") /\ Wears(c, "WIELD"))
          /\ IF o \in Blades
             THEN ~Wears(c, "WEAR_SHIELD") /\ world.weight[o] <= Wield \div 2
             ELSE Wears(c, "WIELD") => world.weight[o] <= Wield
       \/ /\ p = "WEAR_SHIELD" /\ o \in Shields
          /\ ~(Wears(c, "WIELD") /\ TwoHanded(Equipment(c, "WIELD")))
          /\ ~(Wears(c, "HOLD") /\ Equipment(c, "HOLD") \in Blades)

Wear(c, o, p) ==
    /\ where[c] # None /\ o \in world.carrying[c]
    /\ c \in Humanoid /\ MayWear(c, o, p)
    /\ \E refused \in BOOLEAN :
          world' = EquipChar(ObjFromChar(world, {o}, c), c, o, p, refused)
    /\ UNCHANGED where

\* Magic a barbarian throws away, before any other test of wear().
ThrowAway(c, o) ==
    /\ where[c] # None /\ o \in world.carrying[c]
    /\ world' = ObjToRoom(ObjFromChar(world, {o}, c), {o}, where[c])
    /\ UNCHANGED where

\* do_remove asks for a number that differs from the limit.
DoRemove(c, p) ==
    /\ where[c] # None /\ Wears(c, p)
    /\ world.carrying_n[c] # CanCarryN[c]
    /\ world' = ObjToChar(UnequipChar(world, c, {p}), {Equipment(c, p)}, c)
    /\ UNCHANGED where

\* do_drink: the container becomes lighter, and a small one is thrown away
\* with the last sip.
DoDrink(c, o, amount) ==
    /\ where[c] # None /\ o \in world.carrying[c] \cap Drinks
    /\ LET lighter == WeightChangeObject(world, o, c, -amount) IN
       \/ world' = lighter
       \/ world' = ExtractObj(ObjFromChar(lighter, {o}, c), {o})
    /\ UNCHANGED where

\* do_pour, out or into another container, which may be the same.
DoPour(c, o, into, amount) ==
    /\ where[c] # None
    /\ {o, into} \ {None} \subseteq world.carrying[c] \cap Drinks
    /\ IF into = None
       THEN world' = WeightChangeObject(world, o, c, -amount)
       ELSE /\ world.weight[into] + amount < Capacity
            /\ world' = WeightChangeObject(WeightChangeObject(world, into, c, amount),
                                           o, c, -amount)
    /\ UNCHANGED where

-----------------------------------------------------------------------------
(* Objects end, or change hands without being given.                       *)

\* do_junk, do_eat, quaffing, reciting: a carried object is extracted.
UseUp(c, o) ==
    /\ where[c] # None /\ o \in world.carrying[c]
    /\ world' = ExtractObj(ObjFromChar(world, {o}, c), {o})
    /\ UNCHANGED where

\* do_steal from the inventory, and from a stunned victim's equipment.
Steal(c, v, o) ==
    /\ c # v /\ where[c] # None /\ where[v] = where[c]
    /\ o \in world.carrying[v]
    /\ world.carrying_n[c] + 1 < CanCarryN[c]
    /\ world.carrying_w[c] + world.weight[o] < CanCarryW[c]
    /\ world' = ObjToChar(ObjFromChar(world, {o}, v), {o}, c)
    /\ UNCHANGED where

StealWorn(c, v, p) ==
    /\ c # v /\ where[c] # None /\ where[v] = where[c]
    /\ Wears(v, p)
    /\ world' = ObjToChar(UnequipChar(world, v, {p}), {Equipment(v, p)}, c)
    /\ UNCHANGED where

\* do_disarm, and a missile weapon that misses: the weapon lands in the room.
Disarm(v) ==
    /\ where[v] # None /\ Wears(v, "WIELD")
    /\ world' = ObjToRoom(UnequipChar(world, v, {"WIELD"}), {Equipment(v, "WIELD")}, where[v])
    /\ UNCHANGED where

\* Every object taken out of a container that nobody carries.
Emptied(w, o) ==
    [w EXCEPT !.contains[o] = {}, !.in_obj = SetAll(@, w.contains[o], None)]

\* MakeScrap, of an object that is nowhere: its contents fall to the floor and
\* scraps t stay.
MakeScrap(w, o, t, r) ==
    LET scraps == CheckFallingObj(ObjToRoom(ReadObject(w, t), {t}, r), {t}, r)
    IN ExtractObj(ObjToRoom(Emptied(scraps, o), scraps.contains[o], r), {o})

\* DamageAllStuff and its like destroy something carried or worn.
DestroyCarried(c, o, t) ==
    /\ where[c] # None /\ o \in world.carrying[c]
    /\ t \in Scraps /\ Unused(t)
    /\ world' = MakeScrap(ObjFromChar(world, {o}, c), o, t, where[c])
    /\ UNCHANGED where

DestroyWorn(c, p, t) ==
    /\ where[c] # None /\ Wears(c, p)
    /\ t \in Scraps /\ Unused(t)
    /\ world' = MakeScrap(UnequipChar(world, c, {p}), Equipment(c, p), t, where[c])
    /\ UNCHANGED where

\* ObjFromCorpse, when the timer of a corpse is out: its contents go to what
\* it is in, ...
ContentsToOuter(w, o) ==
    LET inner == w.contains[o]
        outer == w.in_obj[o]
    IN [w EXCEPT !.contains = [x \in Objs |-> IF x = o THEN {}
                                   ELSE IF x = outer THEN @[x] \cup inner ELSE @[x]],
                 !.in_obj = SetAll(@, inner, outer),
                 !.weight[o] = Less(@, WeightOf(w, inner))]

\* ... or to the room it is in, or that of its bearer, who becomes lighter.
ContentsToRoom(w, o, r) ==
    LET inner == w.contains[o]
        gone == WeightOf(w, inner)
        dropped == CheckFallingObj(ObjToRoom(Emptied(w, o), inner, r), inner, r)
        lighter == [dropped EXCEPT !.weight[o] = Less(@, gone)]
    IN IF w.carried_by[o] = None THEN lighter
       ELSE [lighter EXCEPT !.carrying_w[w.carried_by[o]] = Less(@, gone)]

CorpseDecays(o) ==
    /\ o \in Corpses \cap world.object_list
    /\ LET c == world.carried_by[o]
           r == world.in_room[o]
       IN \/ /\ world.in_obj[o] # None
             /\ world' = ExtractFromObj(ContentsToOuter(world, o), o)
          \/ /\ c # None
             /\ world' = ExtractObj(
                    ObjFromChar(ContentsToRoom(world, o, where[c]), {o}, c), {o})
          \/ /\ r # None
             /\ world' = ExtractObj(ObjFromRoom(ContentsToRoom(world, o, r), {o}, r), {o})
    /\ UNCHANGED where

-----------------------------------------------------------------------------
(* Characters come and go.                                                 *)

\* The body alone: what a player brings along is loaded into its hands.
Enter(c, r) ==
    /\ where[c] = None
    /\ where' = [where EXCEPT ![c] = r]
    /\ UNCHANGED world

Move(c, r) ==
    /\ where[c] \notin {None, r}
    /\ where' = [where EXCEPT ![c] = r]
    /\ UNCHANGED world

\* Mutant: the bearer of what was carried is not cleared.
CorpseOfOwned(w, c, o) ==
    LET all == w.carrying[c] \cup Worn(w, c)
        bare == UnequipChar([w EXCEPT !.carrying[c] = {}], c, Pos)
    IN [ReadObject(bare, o) EXCEPT
           !.contains[o] = all,
           !.in_obj = SetAll(@, all, o),
           !.weight[o] = Weight[o] + w.carrying_w[c],
           !.carrying_w[c] = 0, !.carrying_n[c] = 0]

\* make_corpse: the list of what is carried becomes the corpse's, what is worn
\* follows, and both counters are reset.
CorpseOf(w, c, o) ==
    LET all == w.carrying[c] \cup Worn(w, c)
        bare == UnequipChar([w EXCEPT !.carrying[c] = {}], c, Pos)
    IN [ReadObject(bare, o) EXCEPT
           !.contains[o] = all,
           !.in_obj = SetAll(@, all, o),
           !.carried_by = SetAll(@, all, None),
           !.weight[o] = Weight[o] + w.carrying_w[c] + WeightOf(w, Worn(w, c)),
           !.carrying_w[c] = 0,
           !.carrying_n[c] = 0]

MakeCorpse(w, c, o) ==
    CheckFallingObj(ObjToRoom(CorpseOf(w, c, o), {o}, where[c]), {o}, where[c])

\* raw_kill, after which nothing is left for extract_char to move.
RawKill(c, o) ==
    /\ where[c] # None /\ o \in Corpses /\ Unused(o)
    /\ world' = MakeCorpse(world, c, o)
    /\ where' = [where EXCEPT ![c] = None]

\* Mutant: the equipment goes with the body.
ExtractCharDressed(c) ==
    /\ where[c] # None
    /\ world' = ObjToRoom(ObjFromChar(world, world.carrying[c], c), world.carrying[c], where[c])
    /\ where' = [where EXCEPT ![c] = None]

\* extract_char_smarter of a mortal: what is carried falls to the room before
\* the character leaves it, what is worn after.
ExtractChar(c) ==
    /\ where[c] # None
    /\ LET r == where[c]
           carried == world.carrying[c]
           dropped == CheckFallingObj(
               ObjToRoom(ObjFromChar(world, carried, c), carried, r), carried, r)
       IN world' = ObjToRoom(UnequipChar(dropped, c, Pos), Worn(world, c), r)
    /\ where' = [where EXCEPT ![c] = None]

\* ... and of an immortal, who takes everything along, if it carries anything.
ExtractImmortal(c) ==
    /\ where[c] # None
    /\ LET all == world.carrying[c] \cup Worn(world, c)
           stripped == ObjToChar(UnequipChar(world, c, Pos), Worn(world, c), c)
       IN world' = IF world.carrying[c] = {}
                   THEN ObjToRoom(UnequipChar(world, c, Pos), Worn(world, c), where[c])
                   ELSE ExtractObj(ObjFromChar(stripped, all, c), all)
    /\ where' = [where EXCEPT ![c] = None]

-----------------------------------------------------------------------------
(* PCAttacks: who fights with a weapon in each hand fights with one at a   *)
(* time; the other is in a local variable until the blow is struck.        *)

DualWield(c) ==
    /\ where[c] # None /\ c \in Pcs
    /\ Wears(c, "WIELD") /\ Wears(c, "HOLD") /\ Equipment(c, "HOLD") \in Blades

\* The attacks with the first weapon.  The second is put back, unless the
\* fighter dies of the victim's fire shield: then the function returns.
FirstAttack(c) ==
    /\ DualWield(c)
    /\ LET off == Equipment(c, "HOLD")
           w == UnequipChar(world, c, {"HOLD"})
       IN \/ /\ world' = EquipChar(w, c, off, "HOLD", TRUE)
             /\ UNCHANGED where
          \/ \E o \in Corpses :
                /\ Unused(o)
                /\ world' = MakeCorpse(w, c, o)
                /\ where' = [where EXCEPT ![c] = None]

\* The attack with the second weapon, held in the first hand.  The first one
\* is put back only if the second is still there.
SecondAttack(c) ==
    /\ DualWield(c)
    /\ LET main == Equipment(c, "WIELD")
           off == Equipment(c, "HOLD")
           bare == UnequipChar(world, c, {"WIELD", "HOLD"})
           w == EquipChar(bare, c, off, "WIELD", FALSE)
       IN \/ /\ \E r1, r2 \in BOOLEAN :
                  world' = EquipChar(EquipChar(bare, c, off, "HOLD", r1), c, main, "WIELD", r2)
             /\ UNCHANGED where
          \/ \E t \in Scraps :
                /\ Unused(t)
                /\ world' = MakeScrap(UnequipChar(w, c, {"WIELD"}), off, t, where[c])
                /\ UNCHANGED where
          \/ \E o \in Corpses :
                /\ Unused(o)
                /\ world' = MakeCorpse(w, c, o)
                /\ where' = [where EXCEPT ![c] = None]

\* The skill fails: the second weapon falls, and perhaps the first.
Fumble(c) ==
    /\ DualWield(c)
    /\ \E P \in {{"HOLD"}, {"HOLD", "WIELD"}} :
          world' = ObjToRoom(UnequipChar(world, c, P), {Equipment(c, p) : p \in P}, where[c])
    /\ UNCHANGED where

-----------------------------------------------------------------------------
Load == \E o \in Objs : \/ \E r \in Rooms : LoadToRoom(o, r)
                        \/ \E c \in Chars : LoadToChar(o, c)

Commands(c) ==
    \/ \E o \in Objs :
          \/ Get(c, o) \/ DoDrop(c, o) \/ ThrowAway(c, o) \/ UseUp(c, o)
          \/ \E d \in Containers : GetFrom(c, o, d) \/ DoPut(c, o, d)
          \/ \E v \in Chars : DoGive(c, v, o) \/ Steal(c, v, o)
          \/ \E p \in Pos : Wear(c, o, p)
    \/ \E p \in Pos : DoRemove(c, p) \/ \E v \in Chars : StealWorn(c, v, p)
    \/ \E o \in Drinks, amount \in 1..2 :
          \/ DoDrink(c, o, amount)
          \/ \E into \in Drinks \cup {None} : DoPour(c, o, into, amount)

Fights(c) ==
    \/ Disarm(c) \/ FirstAttack(c) \/ SecondAttack(c) \/ Fumble(c)
    \/ \E t \in Scraps : \/ \E o \in Objs : DestroyCarried(c, o, t)
                         \/ \E p \in Pos : DestroyWorn(c, p, t)

ComeAndGo(c) ==
    \/ \E r \in Rooms : Enter(c, r) \/ Move(c, r)
    \/ ExtractChar(c) \/ ExtractImmortal(c)
    \/ \E o \in Corpses : RawKill(c, o)

Next ==
    \/ Load
    \/ \E c \in Chars : Commands(c) \/ Fights(c) \/ ComeAndGo(c)
    \/ \E o \in Corpses : CorpseDecays(o)

Spec == Init /\ [][Next]_vars

-----------------------------------------------------------------------------
(* Correctness.                                                            *)

TypeOK ==
    /\ where \in [Chars -> Rooms \cup {None}]
    /\ world.object_list \subseteq Objs
    /\ world.contents \in [Rooms -> SUBSET Objs]
    /\ world.carrying \in [Chars -> SUBSET Objs]
    /\ world.equipment \in [Chars -> [Pos -> Objs \cup {None}]]
    /\ world.contains \in [Objs -> SUBSET Objs]
    /\ world.in_room \in [Objs -> Rooms \cup {None}]
    /\ world.carried_by \in [Objs -> Chars \cup {None}]
    /\ world.equipped_by \in [Objs -> Chars \cup {None}]
    /\ world.eq_pos \in [Objs -> Pos \cup {None}]
    /\ world.in_obj \in [Objs -> Containers \cup {None}]
    /\ world.weight \in [Objs -> Nat]
    /\ world.carrying_w \in [Chars -> Nat]
    /\ world.carrying_n \in [Chars -> Nat]

\* The lists and the pointers say the same.
ListsAgree(w) ==
    \A o \in Objs :
        /\ \A r \in Rooms : o \in w.contents[r] <=> w.in_room[o] = r
        /\ \A c \in Chars : o \in w.carrying[c] <=> w.carried_by[o] = c
        /\ \A c \in Chars, p \in Pos :
              w.equipment[c][p] = o <=> w.equipped_by[o] = c /\ w.eq_pos[o] = p
        /\ w.equipped_by[o] = None <=> w.eq_pos[o] = None
        /\ \A d \in Objs : o \in w.contains[d] <=> w.in_obj[o] = d

Nowhere(w, o) ==
    /\ w.in_room[o] = None /\ w.carried_by[o] = None
    /\ w.equipped_by[o] = None /\ w.in_obj[o] = None

\* An object is in one place at most; one that has been freed is in none, and
\* nothing is in it.
AtMostOnePlace(w) ==
    \A o \in Objs :
        /\ w.in_room[o] # None =>
              w.carried_by[o] = None /\ w.equipped_by[o] = None /\ w.in_obj[o] = None
        /\ w.carried_by[o] # None => w.equipped_by[o] = None /\ w.in_obj[o] = None
        /\ w.equipped_by[o] # None => w.in_obj[o] = None
        /\ o \notin w.object_list => Nowhere(w, o)
        /\ w.in_obj[o] # None => w.in_obj[o] \in w.object_list

\* No container is in itself, at any depth.
NoCycle(w) ==
    \A S \in (SUBSET Containers) \ {{}} : \E c \in S : w.in_obj[c] \notin S

\* What the asserts of obj_to_char, equip_char, obj_to_room and obj_from_obj
\* are there for: whatever commands and events move objects about, lists and
\* pointers agree, no object is in two places, and no bag is in itself.
PlacesAgree == ListsAgree(world) /\ AtMostOnePlace(world) /\ NoCycle(world)

\* Whoever has left the game has left everything behind: nothing points to a
\* body that extract_char has freed.
NothingKept ==
    \A c \in Chars : where[c] = None => world.carrying[c] = {} /\ Worn(world, c) = {}

\* A container weighs at least what it weighs empty and what is in it: it may
\* be too heavy after something in it decayed, but never too light, so that
\* the tests against zero in obj_from_obj never hide a difference.
ContainerWeight ==
    \A c \in Containers \cap world.object_list :
        world.weight[c] >= Weight[c] + WeightOf(world, world.contains[c])

\* Two hands: "Hai solo due mani".  Over the four commands that fill them in
\* any order, nobody has a light, a weapon and something else, or anything
\* beside a weapon that takes both hands, or two weapons and a shield.
TwoHands ==
    \A c \in Chars :
        /\ ~(Wears(c, "WEAR_LIGHT") /\ Wears(c, "WIELD") /\ Wears(c, "HOLD"))
        /\ Wears(c, "WIELD") /\ TwoHanded(Equipment(c, "WIELD")) =>
              ~Wears(c, "WEAR_LIGHT") /\ ~Wears(c, "HOLD") /\ ~Wears(c, "WEAR_SHIELD")
        /\ ~(Wears(c, "WEAR_SHIELD") /\ Wears(c, "HOLD") /\ Equipment(c, "HOLD") \in Blades)

=============================================================================
