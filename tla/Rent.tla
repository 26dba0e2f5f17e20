-------------------------------- MODULE Rent --------------------------------
(***************************************************************************)
(* A player's possessions and its rent file (reception.c).  Possessions    *)
(* are a forest: what is carried, what is worn, and what containers hold.  *)
(* save_obj writes it as a flat list in which every object has its depth   *)
(* and the position it is worn at, and obj_store_to_char builds the forest *)
(* again from the list when the player returns.  Objects that are junk are *)
(* left out, the file has room for MAX_OBJ_SAVE objects, and the file is   *)
(* written by nearly every command that moves an object (NODUPLICATES), by *)
(* renting, by the forced rent of idle players, by quitting and by death.  *)
(*                                                                         *)
(* Saving a character also takes its equipment off and puts it on again,   *)
(* one position after the other, through equip_char, which may refuse an   *)
(* object: it falls to the floor, and the player is saved once more as it  *)
(* is, half dressed.  The same happens while the objects of the file are   *)
(* put on, when the player was saved in a room.                            *)
(*                                                                         *)
(* One player; the rest of the world is the floor.  An object has an       *)
(* identity, which an object read back from the file keeps.  Storing is a  *)
(* recursion over lists and what their objects contain; it is written here *)
(* as a loop over the calls that are still to be made.                     *)
(***************************************************************************)
EXTENDS Naturals, FiniteSets, Sequences, SequencesExt

CONSTANTS Objs,
          Containers,    \* bags: what do_put puts things into
          Corpses,       \* made by make_corpse: item_number is NOWHERE
          Perishable,    \* objects whose timer can run out
          Fickle,        \* objects equip_char may refuse: their ego, which is
                         \* compared with a random number, their class or
                         \* alignment
          MaxWear,       \* MAX_WEAR
          MaxObjSave,    \* MAX_OBJ_SAVE
          MaxDepth,      \* the 60 of obj_store_to_char
          RefusedRent,   \* whether the forced rent of a player that has
                         \* something may be refused
          Nothing

ASSUME RentAssumption ==
    /\ IsFiniteSet(Objs)
    /\ Containers \cup Corpses \cup Perishable \cup Fickle \subseteq Objs
    /\ Corpses \cap (Containers \cup Fickle) = {}
    /\ MaxWear \in Nat /\ MaxObjSave \in Nat /\ MaxDepth \in Nat
    /\ RefusedRent \in BOOLEAN
    /\ Nothing \notin Objs

WearPos == 1..MaxWear

VARIABLES player,        \* "out" of the game, in it with a "link", or "linkdead"
          load_room,     \* where the player was saved last: in a "room", in none
                         \* ("AUTO_RENT"), or found so at boot ("NOWHERE")
          world,         \* where the objects are
          file,          \* the rent file: what obj_file_u has of each object
          saved          \* where everything was when the file was written

disk     == <<file, saved>>
rentVars == <<player, load_room, world, disk>>

\* carrying and worn (ch->equipment) are the player's, contains is obj->contains
\* of every object, floor has the objects that lie somewhere in the world, and
\* rotten those whose timer went below zero.
RentInit ==
    /\ player = "out" /\ load_room = "NOWHERE"
    /\ world = [carrying |-> <<>>,
                worn     |-> [p \in WearPos |-> Nothing],
                contains |-> [o \in Objs |-> <<>>],
                floor    |-> {},
                rotten   |-> {}]
    /\ file = <<>>
    /\ saved = << >>

-----------------------------------------------------------------------------
(* The forest of a world w.                                                *)

Carried(w) == ToSet(w.carrying)
Worn(w) == {w.worn[p] : p \in WearPos} \ {Nothing}

\* The places an object is in: the floor, the player, or another object.
Places(w, o) ==
    {<<"floor">> : x \in w.floor \cap {o}} \cup {<<"carried">> : x \in Carried(w) \cap {o}}
    \cup {<<"worn", p>> : p \in {q \in WearPos : w.worn[q] = o}}
    \cup {<<"in", c>> : c \in {d \in Objs : o \in ToSet(w.contains[d])}}

\* The objects of S, what they contain, what that contains, and so on: the least
\* set with S in it to which everything belongs that something in it contains.
Within(w, S) ==
    LET closed == {T \in SUBSET Objs :
                     S \subseteq T /\ \A c \in T : ToSet(w.contains[c]) \subseteq T}
    IN {o \in Objs : \A T \in closed : o \in T}

Held(w) == Within(w, Carried(w) \cup Worn(w))

\* Where each object the player has is.
Placement(w) == [o \in Held(w) |-> Places(w, o)]

InWorld(w) == {o \in Objs : Places(w, o) # {}}
Stored == {file[i].obj : i \in DOMAIN file}
Unused(o) == o \notin InWorld(world) \cup Stored

-----------------------------------------------------------------------------
(* Storing.                                                                *)

\* What obj_to_store leaves out: old junk, and what has no number.
Junk(w, o) == o \in w.rotten \/ o \in Corpses

\* What obj_to_store is called with, one after the other: a list at a depth.
Calls(list, depth) == [i \in DOMAIN list |-> [obj |-> list[i], depth |-> depth, wearpos |-> 0]]

\* The equipment by position.
Equipment(w) == [p \in WearPos |-> [obj |-> w.worn[p], depth |-> 0, wearpos |-> p]]

\* put_obj_in_store.  wearpos is what save_obj has put in the next free element.
PutObjInStore(o, depth, st) ==
    IF Len(st.objects) >= MaxObjSave THEN st
    ELSE [st EXCEPT !.objects = Append(@, [obj |-> o, depth |-> depth, wearpos |-> st.wearpos]),
                    !.wearpos = 0]

\* One call of obj_to_store: the object, then what it contains, then the next.
ObjToStore(w, st) ==
    LET c == Head(st.calls)
        called == [calls |-> Calls(w.contains[c.obj], c.depth + 1) \o Tail(st.calls),
                   objects |-> st.objects,
                   wearpos |-> IF c.wearpos > 0 THEN c.wearpos ELSE st.wearpos]
    IN IF st.calls = <<>> THEN st
       ELSE IF c.obj = Nothing THEN [st EXCEPT !.calls = Tail(@)]
       ELSE IF Junk(w, c.obj) THEN called ELSE PutObjInStore(c.obj, c.depth, called)

\* As many turns as there can be calls: one for each position and each object.
StoreTurns == MaxWear + Cardinality(Objs)

Storing(w, calls) ==
    LET st[n \in 0..StoreTurns] ==
            IF n = 0 THEN [calls |-> calls, objects |-> <<>>, wearpos |-> 0]
            ELSE ObjToStore(w, st[n - 1])
    IN st[StoreTurns]

\* Mutant: what is worn does not count as such.
SaveObjNaked(w) ==
    LET naked == [p \in WearPos |-> [Equipment(w)[p] EXCEPT !.wearpos = 0]]
    IN Storing(w, naked \o Calls(w.carrying, 0)).objects

\* save_obj: the equipment, then the inventory.
SaveObj(w) == Storing(w, Equipment(w) \o Calls(w.carrying, 0)).objects

-----------------------------------------------------------------------------
(* Restoring.                                                              *)

\* Mutant: the container is remembered one level too deep.
RestoredDeeper(st, e, R) ==
    LET cur == IF e.depth > st.cur THEN st.cur + 1
               ELSE IF e.depth < st.cur THEN st.cur - 1 ELSE st.cur
        into == IF e.depth > st.cur THEN [st.into EXCEPT ![cur] = st.last] ELSE st.into
        next == [st EXCEPT !.into = into, !.cur = cur, !.last = e.obj]
    IN IF e.wearpos > 0 THEN [next EXCEPT !.worn[e.wearpos] = e.obj]
       ELSE IF cur = 0 THEN [next EXCEPT !.carrying = <<e.obj>> \o @]
       ELSE IF into[cur - 1] # Nothing
            THEN [next EXCEPT !.contains[into[cur - 1]] = <<e.obj>> \o @] ELSE next

\* obj_store_to_char's step for one element of the file: cur is tmp_cur_depth,
\* into is in_obj and last is last_obj.  Of R is what equip_char refuses.
Restored(st, e, R) ==
    LET flat == IF e.depth > MaxDepth THEN 0 ELSE e.depth
        weird == flat > 0 /\ e.wearpos > 0
        depth == IF weird THEN 0 ELSE flat
        wearpos == IF weird THEN 0 ELSE e.wearpos
        into == IF depth > st.cur THEN [st.into EXCEPT ![st.cur] = st.last] ELSE st.into
        cur == IF depth > st.cur THEN st.cur + 1
               ELSE IF depth < st.cur THEN st.cur - 1 ELSE st.cur
        next == [st EXCEPT !.into = into, !.cur = cur, !.last = e.obj]
    IN IF wearpos > 0
       THEN IF st.worn[wearpos] # Nothing THEN next
            ELSE IF e.obj \in R THEN [next EXCEPT !.floor = @ \cup {e.obj}]
            ELSE [next EXCEPT !.worn[wearpos] = e.obj]
       ELSE IF cur = 0 THEN [next EXCEPT !.carrying = <<e.obj>> \o @]
       ELSE IF into[cur - 1] # Nothing
            THEN [next EXCEPT !.contains[into[cur - 1]] = <<e.obj>> \o @] ELSE next

\* The objects of the file are made again, empty, one after the other.
ObjStoreToChar(R) ==
    LET st[i \in 0..Len(file)] ==
            IF i = 0
            THEN [carrying |-> <<>>, worn |-> [p \in WearPos |-> Nothing],
                  contains |-> [o \in Objs |-> IF o \in Stored THEN <<>> ELSE world.contains[o]],
                  floor |-> world.floor, into |-> [d \in 0..MaxDepth |-> Nothing], cur |-> 0, last |-> Nothing]
            ELSE Restored(st[i - 1], file[i], R)
    IN st

\* The world when n of them have been.
Loaded(R, n) ==
    LET st == ObjStoreToChar(R)[n] IN
    [world EXCEPT !.carrying = st.carrying, !.worn = st.worn, !.contains = st.contains,
                  !.floor = st.floor]

-----------------------------------------------------------------------------
(* Saving.                                                                 *)

WriteFile(w) == file' = SaveObj(w) /\ saved' = Placement(w)

\* The world when the worn objects of R have fallen to the floor.
Fallen(w, R) ==
    [w EXCEPT !.worn = [p \in WearPos |-> IF @[p] \in R THEN Nothing ELSE @[p]],
              !.floor = @ \cup R]

\* Only what is worn at the first positions is on again.
Below(w, p) == [w EXCEPT !.worn = [q \in WearPos |-> IF q < p THEN @[q] ELSE Nothing]]

\* save_char writes nothing for who has no link, and takes nothing off.
MayFall(w) == IF player = "link" THEN SUBSET (Fickle \cap Worn(w)) ELSE {{}}

\* Where the last object was refused, after whose fall nothing is written.
Positions(w, R) == {p \in WearPos : w.worn[p] \in R}

\* do_save of a player that has what w says: save_obj, and save_char.  Every
\* object that save_char's equip_char refuses makes for another do_save.
DoSaveOf(w) ==
    /\ load_room' = "AUTO_RENT"
    /\ \E R \in MayFall(w) :
         /\ world' = Fallen(w, R)
         /\ \E p \in IF R = {} THEN {MaxWear + 1} ELSE Positions(w, R) :
              WriteFile(Below(world', p))

-----------------------------------------------------------------------------
(* The world.                                                              *)

\* An object is loaded by a zone reset ...
Load(o) ==
    /\ Unused(o) /\ o \notin Corpses
    /\ world' = [world EXCEPT !.floor = @ \cup {o}, !.contains[o] = <<>>, !.rotten = @ \ {o}]
    /\ UNCHANGED <<player, load_room, disk>>

\* ... or left in the corpse of a mobile that died.
LoadInCorpse(c, o) ==
    /\ c \in Corpses /\ Unused(c)
    /\ o \notin Corpses /\ Unused(o)
    /\ world' = [world EXCEPT !.floor = @ \cup {c},
                              !.contains[c] = <<o>>, !.contains[o] = <<>>,
                              !.rotten = @ \ {c, o}]
    /\ UNCHANGED <<player, load_room, disk>>

Get(o) ==
    /\ player = "link" /\ o \in world.floor
    /\ DoSaveOf([world EXCEPT !.floor = @ \ {o}, !.carrying = <<o>> \o @])
    /\ UNCHANGED player

GetFrom(o, c) ==
    /\ player = "link" /\ c \in Carried(world) \cup world.floor /\ o \in ToSet(world.contains[c])
    /\ DoSaveOf([world EXCEPT !.contains[c] = RemoveFirst(@, o), !.carrying = <<o>> \o @])
    /\ UNCHANGED player

Drop(o) ==
    /\ player = "link" /\ o \in Carried(world)
    /\ DoSaveOf([world EXCEPT !.floor = @ \cup {o}, !.carrying = RemoveFirst(@, o)])
    /\ UNCHANGED player

Put(o, c) ==
    /\ player = "link" /\ o \in Carried(world)
    /\ c \in Containers \cap (Carried(world) \cup world.floor) /\ o # c
    /\ DoSaveOf([world EXCEPT !.carrying = RemoveFirst(@, o), !.contains[c] = <<o>> \o @])
    /\ UNCHANGED player

\* Wearing saves only if the object is refused ...
Wear(o, p) ==
    /\ player = "link" /\ o \in Carried(world) \ Corpses /\ world.worn[p] = Nothing
    /\ LET taken == [world EXCEPT !.carrying = RemoveFirst(@, o)] IN
       \/ /\ world' = [taken EXCEPT !.worn[p] = o]
          /\ UNCHANGED <<load_room, disk>>
       \/ /\ o \in Fickle
          /\ DoSaveOf([taken EXCEPT !.floor = @ \cup {o}])
    /\ UNCHANGED player

\* ... and removing does not save.
TakeOff(p) ==
    /\ player = "link" /\ world.worn[p] # Nothing
    /\ world' = [world EXCEPT !.carrying = <<world.worn[p]>> \o @, !.worn[p] = Nothing]
    /\ UNCHANGED <<player, load_room, disk>>

\* close_socket saves; the player stays in the game.
LoseLink ==
    /\ player = "link"
    /\ player' = "linkdead"
    /\ DoSaveOf(world)

Reconnect ==
    /\ player = "linkdead"
    /\ player' = "link"
    /\ UNCHANGED <<load_room, world, disk>>

\* update_object takes two from the timer of what is worn: 1 becomes -1.
Rot(o) ==
    /\ o \in Perishable \ world.rotten /\ o \in Within(world, Worn(world))
    /\ world' = [world EXCEPT !.rotten = @ \cup {o}]
    /\ UNCHANGED <<player, load_room, disk>>

\* ObjFromCorpse: what was in the corpse stays where the corpse was.
CorpseDecays(c) ==
    /\ c \in Corpses \cap InWorld(world)
    /\ LET list == world.contains[c] IN
       \/ /\ c \in world.floor
          /\ world' = [world EXCEPT !.floor = (@ \ {c}) \cup ToSet(list), !.contains[c] = <<>>]
       \/ /\ c \in Carried(world)
          /\ world' = [world EXCEPT !.floor = @ \cup ToSet(list), !.contains[c] = <<>>,
                                    !.carrying = RemoveFirst(@, c)]
       \/ \E d \in Objs :
            /\ c \in ToSet(world.contains[d])
            /\ world' = [world EXCEPT !.contains[c] = <<>>,
                                      !.contains[d] = Reverse(list) \o RemoveFirst(@, c)]
    /\ UNCHANGED <<player, load_room, disk>>

-----------------------------------------------------------------------------
(* Coming and going.                                                       *)

\* The player has nothing any more, and the file is empty.
Bare(w) == [w EXCEPT !.carrying = <<>>, !.worn = [p \in WearPos |-> Nothing]]

Empty == file' = <<>> /\ saved' = << >>

\* save_obj with bDelete: what is written is gone, and so is the rest.
StoreAll(w) ==
    /\ WriteFile(w)
    /\ LET held == Held(w) IN
         world' = [Bare(w) EXCEPT
                      !.contains = [o \in Objs |-> IF o \in held THEN <<>> ELSE @[o]],
                      !.rotten = @ \ held]

\* What extract_char leaves in the room.
LeaveAll(w) == world' = [Bare(w) EXCEPT !.floor = @ \cup Carried(w) \cup Worn(w)]

\* Mutant: what is in containers is not counted.
RecepOfferTop(w) ==
    /\ Held(w) # {}
    /\ Held(w) \cap Corpses = {}
    /\ Cardinality(Carried(w) \cup Worn(w)) <= MaxObjSave

\* recep_offer's verdict: everything counts, and nothing that has no number.
RecepOffer(w) ==
    LET held == Held(w) IN
    /\ held # {}
    /\ held \cap Corpses = {}
    /\ Cardinality(held) <= MaxObjSave

\* A receptionist takes the player in, and saves it in the room.
RentRoom ==
    /\ player = "link" /\ RecepOffer(world)
    /\ StoreAll(world)
    /\ player' = "out" /\ load_room' = "room"

\* check_idling: close_socket saves who has a link, and what is left then is
\* offered; taken or not, the player goes.
ForceRent ==
    /\ player # "out"
    /\ \E R \in MayFall(world) :
         LET w == Fallen(world, R) IN
         \/ RecepOffer(w) /\ StoreAll(w)
         \/ /\ ~RecepOffer(w)
            /\ RefusedRent \/ (player = "link" /\ Held(w) = {})
            /\ IF player # "link" THEN UNCHANGED disk
               ELSE \E p \in IF R = {} THEN {MaxWear + 1} ELSE Positions(world, R) :
                      WriteFile(Below(w, p))
            /\ LeaveAll(w)
    /\ player' = "out" /\ load_room' = "AUTO_RENT"

Quit ==
    /\ player = "link"
    /\ LeaveAll(world)
    /\ Empty
    /\ player' = "out" /\ load_room' = "AUTO_RENT"

\* The inventory when the equipment is taken off by position.
Undressed(w) ==
    LET list[p \in 0..MaxWear] ==
            IF p = 0 THEN w.carrying
            ELSE IF w.worn[p] = Nothing THEN list[p - 1] ELSE <<w.worn[p]>> \o list[p - 1]
    IN list[MaxWear]

\* make_corpse.
IntoCorpse(c) ==
    world' = [Bare(world) EXCEPT !.contains[c] = Undressed(world), !.floor = @ \cup {c},
                                 !.rotten = @ \ {c}]

\* Mutant: without zero_rent and do_save.
DieUnsaved(c) ==
    /\ player # "out" /\ c \in Corpses /\ Unused(c)
    /\ IntoCorpse(c)
    /\ UNCHANGED disk
    /\ player' = "out" /\ load_room' = "AUTO_RENT"

\* raw_kill: everything goes into the corpse.
Die(c) ==
    /\ player # "out" /\ c \in Corpses /\ Unused(c)
    /\ IntoCorpse(c)
    /\ Empty
    /\ player' = "out" /\ load_room' = "AUTO_RENT"

\* load_char_objs and its save_char.  Only who was saved in a room is in one:
\* with AUTO_RENT a refusal finds no room, which stops the game, and at NOWHERE
\* equip_char does not ask.  Each refusal, while the objects are made or when
\* save_char puts them on again, writes what there is of them then.
Enter(R) ==
    /\ player = "out" /\ (R # {} => load_room = "room")
    /\ player' = "link" /\ load_room' = "AUTO_RENT"
    /\ world' = Loaded(R, Len(file))
    /\ LET refused == {i \in DOMAIN file : file[i].obj \in world'.floor \ world.floor} IN
       IF refused = {} THEN UNCHANGED disk
       ELSE \E n \in DOMAIN file, i \in refused :
              /\ n = Len(file) \/ (n \in refused /\ \A k \in refused : k <= n)
              /\ WriteFile(Below(Loaded(R, n), file[i].wearpos))

\* The rent was more than the player had.
EnterBroke ==
    /\ player = "out"
    /\ player' = "link" /\ load_room' = "AUTO_RENT"
    /\ Empty
    /\ UNCHANGED world

\* do_save, every hour of the game and when the link is lost.
DoSave ==
    /\ player # "out"
    /\ DoSaveOf(world)
    /\ UNCHANGED player

\* save_char alone: a level more or less, coins given away; the bank saves the
\* player in its room.
SaveChar(room) ==
    /\ player = "link"
    /\ \E R \in MayFall(world) :
         /\ world' = Fallen(world, R)
         /\ IF R = {} THEN UNCHANGED disk
            ELSE \E p \in Positions(world, R) : WriteFile(Below(world', p))
    /\ load_room' = room
    /\ UNCHANGED player

\* The game stops and boots.  update_obj_file takes those that were not saved in
\* a room out of it, and empties the files of others if the rent is not paid.
Crash ==
    /\ player' = "out"
    /\ world' = [Bare(world) EXCEPT !.contains = [o \in Objs |-> <<>>], !.floor = {}, !.rotten = {}]
    /\ \/ /\ load_room' = IF load_room = "AUTO_RENT" THEN "NOWHERE" ELSE load_room
          /\ UNCHANGED disk
       \/ /\ load_room # "AUTO_RENT" /\ load_room' = "NOWHERE"
          /\ Empty

Next ==
    \/ \E o \in Objs : Load(o) \/ Get(o) \/ Drop(o) \/ Rot(o)
    \/ \E o, c \in Objs : LoadInCorpse(c, o) \/ GetFrom(o, c) \/ Put(o, c)
    \/ \E o \in Objs, p \in WearPos : Wear(o, p)
    \/ \E p \in WearPos : TakeOff(p)
    \/ \E c \in Corpses : CorpseDecays(c) \/ Die(c)
    \/ \E R \in SUBSET Fickle : Enter(R)
    \/ \E room \in {"AUTO_RENT", "room"} : SaveChar(room)
    \/ LoseLink \/ Reconnect \/ RentRoom \/ ForceRent \/ Quit \/ EnterBroke \/ DoSave \/ Crash

RentSpec == RentInit /\ [][Next]_rentVars

-----------------------------------------------------------------------------
(* Properties.                                                             *)

Worlds == [carrying : Seq(Objs), worn : [WearPos -> Objs \cup {Nothing}],
           contains : [Objs -> Seq(Objs)], floor : SUBSET Objs, rotten : SUBSET Objs]

Elements == [obj : Objs \ Corpses, depth : Nat, wearpos : WearPos \cup {0}]

\* The state of the rent file and of the objects has the shape the code gives it.
RentTypeOK ==
    /\ player \in {"out", "link", "linkdead"}
    /\ load_room \in {"NOWHERE", "AUTO_RENT", "room"}
    /\ world \in Worlds
    /\ file \in Seq(Elements) /\ Len(file) <= MaxObjSave

\* NODUPLICATES: an object is in one place only, and what waits in the rent file
\* of a player that is out of the game is nowhere else, whatever was dropped,
\* saved, restored, rented and lost before.
OneCopy ==
    /\ \A o \in Objs : Cardinality(Places(world, o)) <= 1
    /\ IsInjective(world.carrying) /\ \A c \in Objs : IsInjective(world.contains[c])
    /\ Cardinality(Stored) = Len(file)
    /\ player = "out" => Stored \cap InWorld(world) = {}

\* The depths of a file that obj_store_to_char can read: up by one after a
\* container, down by one at a time, and none that it takes for weird.
Gentle ==
    /\ \A i \in DOMAIN file : file[i].depth <= MaxDepth
    /\ \A i \in 1..(Len(file) - 1) :
         file[i + 1].depth <= file[i].depth + 1 /\ file[i].depth <= file[i + 1].depth + 1

Entering == \E R \in SUBSET Fickle : Enter(R)

\* What lies on the floor in the next state and did not in this one.
NowOnFloor == world'.floor \ world.floor

\* The player finds everything as it was when the file was written, if all of it
\* was written and the depths are gentle; but what it had on and equip_char may
\* refuse can lie at its feet, if it was saved in a room.
RestoredAsSaved ==
    [][Entering /\ DOMAIN saved = Stored /\ Gentle
       => /\ Held(world') \subseteq Stored
          /\ \A o \in Stored :
               \/ Places(world', o) = saved[o]
               \/ /\ load_room = "room" /\ o \in Fickle
                  /\ Places(world', o) = {<<"floor">>}
                  /\ \E p \in WearPos : saved[o] = {<<"worn", p>>}]_rentVars

\* Whatever the file holds ends up somewhere on the player, or in something that
\* equip_char refused and that lies on the floor, unless the first of it was in
\* something that was left out.
NothingLost ==
    [][Entering /\ file # <<>> /\ (file[1].depth = 0 \/ file[1].wearpos > 0)
       => /\ NowOnFloor \subseteq Fickle /\ (NowOnFloor # {} => load_room = "room")
          /\ Stored \subseteq
               Within(world', Carried(world') \cup Worn(world') \cup NowOnFloor)]_rentVars

\* load_char_objs saves "to avoid strange data if crashing": what the player has
\* when it enters the game should be in its rent file.  It is not if something
\* was refused: the do_save from within equip_char has written the file before
\* the rest was made, and save_char at the end does not write it again.
EnteredIsStored ==
    [][Entering => Held(world') \subseteq Stored']_rentVars

\* What the receptionist accepts is in the file: the verdict of recep_offer
\* leaves room for everything obj_to_store writes.
RentedIsStored ==
    [][RentRoom => Held(world) \ world.rotten \subseteq Stored']_rentVars

=============================================================================
