--------------------------- MODULE ObjectsProofs ---------------------------
(***************************************************************************)
(* Every object is in one place at most, and lists and pointers agree, for *)
(* every set of objects, characters and rooms.  One lemma per function of  *)
(* handler.c says that it keeps this when its callers respect its asserts; *)
(* the actions compose them.  The second part proves what hands can hold:  *)
(* there it matters that nothing makes a worn object heavier.  The third   *)
(* proves that no container is too light: the counters of what somebody    *)
(* carries have to be part of the invariant, since a corpse is given them  *)
(* as its weight.                                                          *)
(***************************************************************************)
EXTENDS Objects, FiniteSetTheorems, WellFoundedInduction, TLAPS

Fields == {"object_list", "contents", "carrying", "equipment", "contains",
           "in_room", "carried_by", "equipped_by", "eq_pos", "in_obj",
           "weight", "carrying_w", "carrying_n"}

World(w) ==
    /\ DOMAIN w = Fields
    /\ w.object_list \subseteq Objs
    /\ w.contents \in [Rooms -> SUBSET Objs]
    /\ w.carrying \in [Chars -> SUBSET Objs]
    /\ w.equipment \in [Chars -> [Pos -> Objs \cup {None}]]
    /\ w.contains \in [Objs -> SUBSET Objs]
    /\ w.in_room \in [Objs -> Rooms \cup {None}]
    /\ w.carried_by \in [Objs -> Chars \cup {None}]
    /\ w.equipped_by \in [Objs -> Chars \cup {None}]
    /\ w.eq_pos \in [Objs -> Pos \cup {None}]
    /\ w.in_obj \in [Objs -> Containers \cup {None}]

Sound(w) == World(w) /\ ListsAgree(w) /\ AtMostOnePlace(w) /\ NoCycle(w)

AllNowhere(w, S) == S \subseteq w.object_list /\ \A o \in S : Nowhere(w, o)

LEMMA ObjToCharSound ==
    ASSUME NEW w, Sound(w), NEW S, AllNowhere(w, S), NEW c \in Chars
    PROVE  LET v == ObjToChar(w, S, c)
           IN /\ Sound(v)
              /\ v.object_list = w.object_list
              /\ v.carrying = [w.carrying EXCEPT ![c] = @ \cup S]
              /\ v.equipment = w.equipment
              /\ v.in_obj = w.in_obj
<1> DEFINE v == ObjToChar(w, S, c)
<1>0. S \subseteq Objs /\ None \notin Objs \cup Chars \cup Rooms \cup Pos
  BY ObjectsAssumption DEF Sound, World, AllNowhere
<1>1. /\ DOMAIN v = Fields
      /\ v.object_list = w.object_list
      /\ v.contents = w.contents
      /\ v.carrying = [w.carrying EXCEPT ![c] = @ \cup S]
      /\ v.equipment = w.equipment
      /\ v.contains = w.contains
      /\ v.in_room = SetAll(w.in_room, S, None)
      /\ v.carried_by = SetAll(w.carried_by, S, c)
      /\ v.equipped_by = SetAll(w.equipped_by, S, None)
      /\ v.eq_pos = w.eq_pos
      /\ v.in_obj = SetAll(w.in_obj, S, None)
  BY DEF Sound, World, ObjToChar, Fields
<1> HIDE DEF v
<1>2. World(v)
  BY <1>0, <1>1 DEF Sound, World, SetAll
<1>3. v.in_room = w.in_room /\ v.equipped_by = w.equipped_by /\ v.in_obj = w.in_obj
  BY <1>0, <1>1 DEF Sound, World, SetAll, AllNowhere, Nowhere
<1>4. ListsAgree(v)
  BY <1>0, <1>1, <1>3 DEF Sound, World, SetAll, AllNowhere, Nowhere, ListsAgree
<1>5. AtMostOnePlace(v)
  BY <1>0, <1>1, <1>3 DEF Sound, World, SetAll, AllNowhere, Nowhere, AtMostOnePlace
<1>6. NoCycle(v)
  BY <1>3 DEF Sound, NoCycle
<1> QED
  BY <1>1, <1>2, <1>3, <1>4, <1>5, <1>6 DEF Sound, v

\* Taking objects from the list of what c carries leaves them nowhere.
LEMMA ObjFromCharSound ==
    ASSUME NEW w, Sound(w), NEW c \in Chars, NEW S,
           S \subseteq w.carrying[c]
    PROVE  LET v == ObjFromChar(w, S, c)
           IN /\ Sound(v)
              /\ AllNowhere(v, S)
              /\ v.object_list = w.object_list
              /\ v.contents = w.contents
              /\ v.carrying = [w.carrying EXCEPT ![c] = @ \ S]
              /\ v.equipment = w.equipment
              /\ v.contains = w.contains
              /\ v.in_obj = w.in_obj
              /\ \A x \in Objs \ S : Nowhere(w, x) => Nowhere(v, x)
<1> DEFINE v == ObjFromChar(w, S, c)
<1>1. /\ None \notin Objs \cup Chars \cup Rooms \cup Pos
      /\ Containers \subseteq Objs
  BY ObjectsAssumption
<1>2. /\ DOMAIN v = Fields
      /\ v.object_list = w.object_list
      /\ v.contents = w.contents
      /\ v.carrying = [w.carrying EXCEPT ![c] = @ \ S]
      /\ v.equipment = w.equipment
      /\ v.contains = w.contains
      /\ v.in_room = w.in_room
      /\ v.carried_by = SetAll(w.carried_by, S, None)
      /\ v.equipped_by = SetAll(w.equipped_by, S, None)
      /\ v.eq_pos = w.eq_pos
      /\ v.in_obj = SetAll(w.in_obj, S, None)
  BY DEF Sound, World, ObjFromChar, Fields
<1> HIDE DEF v
<1>3. v.equipped_by = w.equipped_by /\ v.in_obj = w.in_obj
  BY <1>1, <1>2 DEF Sound, World, SetAll, AllNowhere, Nowhere, ListsAgree, AtMostOnePlace
<1>4. World(v)
  BY <1>1, <1>2, <1>3 DEF Sound, World, SetAll, AllNowhere, Nowhere
<1>5. ListsAgree(v)
  BY <1>1, <1>2, <1>3 DEF Sound, World, SetAll, AllNowhere, Nowhere, ListsAgree, AtMostOnePlace
<1>6. AtMostOnePlace(v)
  BY <1>1, <1>2, <1>3 DEF Sound, World, SetAll, AllNowhere, Nowhere, ListsAgree, AtMostOnePlace
<1>7. NoCycle(v)
  BY <1>1, <1>2, <1>3 DEF Sound, World, SetAll, AllNowhere, Nowhere, ListsAgree, AtMostOnePlace, NoCycle
<1>8. AllNowhere(v, S)
  BY <1>1, <1>2, <1>3 DEF Sound, World, SetAll, AllNowhere, Nowhere, ListsAgree, AtMostOnePlace
<1>9. \A x \in Objs \ S : Nowhere(w, x) => Nowhere(v, x)
  BY <1>1, <1>2, <1>3 DEF Sound, World, SetAll, AllNowhere, Nowhere, ListsAgree, AtMostOnePlace
<1> QED
  BY <1>2, <1>3, <1>4, <1>5, <1>6, <1>7, <1>8, <1>9 DEF Sound, v

\* Objects that are nowhere may be put into a room.
LEMMA ObjToRoomSound ==
    ASSUME NEW w, Sound(w), NEW r \in Rooms, NEW S,
           AllNowhere(w, S)
    PROVE  LET v == ObjToRoom(w, S, r)
           IN /\ Sound(v)
              /\ v.object_list = w.object_list
              /\ v.contents = [w.contents EXCEPT ![r] = @ \cup S]
              /\ v.carrying = w.carrying
              /\ v.equipment = w.equipment
              /\ v.contains = w.contains
              /\ v.in_obj = w.in_obj
              /\ \A x \in Objs \ S : Nowhere(w, x) => Nowhere(v, x)
<1> DEFINE v == ObjToRoom(w, S, r)
<1>1. /\ None \notin Objs \cup Chars \cup Rooms \cup Pos
      /\ Containers \subseteq Objs
  BY ObjectsAssumption
<1>2. /\ DOMAIN v = Fields
      /\ v.object_list = w.object_list
      /\ v.contents = [w.contents EXCEPT ![r] = @ \cup S]
      /\ v.carrying = w.carrying
      /\ v.equipment = w.equipment
      /\ v.contains = w.contains
      /\ v.in_room = SetAll(w.in_room, S, r)
      /\ v.carried_by = SetAll(w.carried_by, S, None)
      /\ v.equipped_by = SetAll(w.equipped_by, S, None)
      /\ v.eq_pos = w.eq_pos
      /\ v.in_obj = w.in_obj
  BY DEF Sound, World, ObjToRoom, Fields
<1> HIDE DEF v
<1>3. World(v)
  BY <1>1, <1>2 DEF Sound, World, SetAll, AllNowhere, Nowhere
<1>4. ListsAgree(v)
  BY <1>1, <1>2 DEF Sound, World, SetAll, AllNowhere, Nowhere, ListsAgree, AtMostOnePlace
<1>5. AtMostOnePlace(v)
  BY <1>1, <1>2 DEF Sound, World, SetAll, AllNowhere, Nowhere, ListsAgree, AtMostOnePlace
<1>6. NoCycle(v)
  BY <1>1, <1>2 DEF Sound, World, SetAll, AllNowhere, Nowhere, ListsAgree, AtMostOnePlace, NoCycle
<1>7. \A x \in Objs \ S : Nowhere(w, x) => Nowhere(v, x)
  BY <1>1, <1>2 DEF Sound, World, SetAll, AllNowhere, Nowhere, ListsAgree, AtMostOnePlace
<1> QED
  BY <1>2, <1>3, <1>4, <1>5, <1>6, <1>7 DEF Sound, v

\* What is taken from a room is nowhere.
LEMMA ObjFromRoomSound ==
    ASSUME NEW w, Sound(w), NEW r \in Rooms, NEW S,
           S \subseteq w.contents[r]
    PROVE  LET v == ObjFromRoom(w, S, r)
           IN /\ Sound(v)
              /\ AllNowhere(v, S)
              /\ v.object_list = w.object_list
              /\ v.contents = [w.contents EXCEPT ![r] = @ \ S]
              /\ v.carrying = w.carrying
              /\ v.equipment = w.equipment
              /\ v.contains = w.contains
              /\ v.in_obj = w.in_obj
              /\ \A x \in Objs \ S : Nowhere(w, x) => Nowhere(v, x)
<1> DEFINE v == ObjFromRoom(w, S, r)
<1>1. /\ None \notin Objs \cup Chars \cup Rooms \cup Pos
      /\ Containers \subseteq Objs
  BY ObjectsAssumption
<1>2. /\ DOMAIN v = Fields
      /\ v.object_list = w.object_list
      /\ v.contents = [w.contents EXCEPT ![r] = @ \ S]
      /\ v.carrying = w.carrying
      /\ v.equipment = w.equipment
      /\ v.contains = w.contains
      /\ v.in_room = SetAll(w.in_room, S, None)
      /\ v.carried_by = w.carried_by
      /\ v.equipped_by = w.equipped_by
      /\ v.eq_pos = w.eq_pos
      /\ v.in_obj = w.in_obj
  BY DEF Sound, World, ObjFromRoom, Fields
<1> HIDE DEF v
<1>3. World(v)
  BY <1>1, <1>2 DEF Sound, World, SetAll, AllNowhere, Nowhere
<1>4. ListsAgree(v)
  BY <1>1, <1>2 DEF Sound, World, SetAll, AllNowhere, Nowhere, ListsAgree, AtMostOnePlace
<1>5. AtMostOnePlace(v)
  BY <1>1, <1>2 DEF Sound, World, SetAll, AllNowhere, Nowhere, ListsAgree, AtMostOnePlace
<1>6. NoCycle(v)
  BY <1>1, <1>2 DEF Sound, World, SetAll, AllNowhere, Nowhere, ListsAgree, AtMostOnePlace, NoCycle
<1>7. AllNowhere(v, S)
  BY <1>1, <1>2 DEF Sound, World, SetAll, AllNowhere, Nowhere, ListsAgree, AtMostOnePlace
<1>8. \A x \in Objs \ S : Nowhere(w, x) => Nowhere(v, x)
  BY <1>1, <1>2 DEF Sound, World, SetAll, AllNowhere, Nowhere, ListsAgree, AtMostOnePlace
<1> QED
  BY <1>2, <1>3, <1>4, <1>5, <1>6, <1>7, <1>8 DEF Sound, v

\* What is taken off is nowhere.
LEMMA UnequipCharSound ==
    ASSUME NEW w, Sound(w), NEW c \in Chars, NEW P \in SUBSET Pos
    PROVE  LET v == UnequipChar(w, c, P)
           IN /\ Sound(v)
              /\ AllNowhere(v, {w.equipment[c][p] : p \in P} \ {None})
              /\ v.object_list = w.object_list
              /\ v.contents = w.contents
              /\ v.carrying = w.carrying
              /\ v.equipment = [w.equipment EXCEPT ![c] = SetAll(@, P, None)]
              /\ v.contains = w.contains
              /\ v.in_obj = w.in_obj
              /\ \A x \in Objs : Nowhere(w, x) => Nowhere(v, x)
<1> DEFINE v == UnequipChar(w, c, P)
<1>1. /\ None \notin Objs \cup Chars \cup Rooms \cup Pos
      /\ Containers \subseteq Objs
  BY ObjectsAssumption
<1>2. /\ DOMAIN v = Fields
      /\ v.object_list = w.object_list
      /\ v.contents = w.contents
      /\ v.carrying = w.carrying
      /\ v.equipment = [w.equipment EXCEPT ![c] = SetAll(@, P, None)]
      /\ v.contains = w.contains
      /\ v.in_room = w.in_room
      /\ v.carried_by = w.carried_by
      /\ v.equipped_by = SetAll(w.equipped_by, {w.equipment[c][p] : p \in P}, None)
      /\ v.eq_pos = SetAll(w.eq_pos, {w.equipment[c][p] : p \in P}, None)
      /\ v.in_obj = w.in_obj
  BY DEF Sound, World, UnequipChar, Fields
<1> HIDE DEF v
<1>3. World(v)
  BY <1>1, <1>2 DEF Sound, World, SetAll, AllNowhere, Nowhere
<1>4. ListsAgree(v)
  BY <1>1, <1>2 DEF Sound, World, SetAll, AllNowhere, Nowhere, ListsAgree, AtMostOnePlace
<1>5. AtMostOnePlace(v)
  BY <1>1, <1>2 DEF Sound, World, SetAll, AllNowhere, Nowhere, ListsAgree, AtMostOnePlace
<1>6. NoCycle(v)
  BY <1>1, <1>2 DEF Sound, World, SetAll, AllNowhere, Nowhere, ListsAgree, AtMostOnePlace, NoCycle
<1>7. AllNowhere(v, {w.equipment[c][p] : p \in P} \ {None})
  BY <1>1, <1>2 DEF Sound, World, SetAll, AllNowhere, Nowhere, ListsAgree, AtMostOnePlace
<1>8. \A x \in Objs : Nowhere(w, x) => Nowhere(v, x)
  BY <1>1, <1>2 DEF Sound, World, SetAll, AllNowhere, Nowhere, ListsAgree, AtMostOnePlace
<1> QED
  BY <1>2, <1>3, <1>4, <1>5, <1>6, <1>7, <1>8 DEF Sound, v

\* An object that is nowhere may be worn where nothing is worn.
LEMMA WearSound ==
    ASSUME NEW w, Sound(w), NEW c \in Chars, NEW o \in Objs, NEW p \in Pos,
           AllNowhere(w, {o}), w.equipment[c][p] = None
    PROVE  LET v == PutOn(w, c, o, p)
           IN /\ Sound(v)
              /\ v.object_list = w.object_list
              /\ v.carrying = w.carrying
              /\ v.equipment = [w.equipment EXCEPT ![c][p] = o]
              /\ v.in_obj = w.in_obj
              /\ \A x \in Objs \ {o} : Nowhere(w, x) => Nowhere(v, x)
<1> DEFINE v == PutOn(w, c, o, p)
<1>1. /\ None \notin Objs \cup Chars \cup Rooms \cup Pos
      /\ Containers \subseteq Objs
  BY ObjectsAssumption
<1>2. /\ DOMAIN v = Fields
      /\ v.object_list = w.object_list
      /\ v.contents = w.contents
      /\ v.carrying = w.carrying
      /\ v.equipment = [w.equipment EXCEPT ![c][p] = o]
      /\ v.contains = w.contains
      /\ v.in_room = w.in_room
      /\ v.carried_by = w.carried_by
      /\ v.equipped_by = [w.equipped_by EXCEPT ![o] = c]
      /\ v.eq_pos = [w.eq_pos EXCEPT ![o] = p]
      /\ v.in_obj = w.in_obj
  BY DEF Sound, World, PutOn, Fields
<1> HIDE DEF v
<1>3. World(v)
  BY <1>1, <1>2 DEF Sound, World, SetAll, AllNowhere, Nowhere
<1>4. ListsAgree(v)
  BY <1>1, <1>2 DEF Sound, World, SetAll, AllNowhere, Nowhere, ListsAgree, AtMostOnePlace
<1>5. AtMostOnePlace(v)
  BY <1>1, <1>2 DEF Sound, World, SetAll, AllNowhere, Nowhere, ListsAgree, AtMostOnePlace
<1>6. NoCycle(v)
  BY <1>1, <1>2 DEF Sound, World, SetAll, AllNowhere, Nowhere, ListsAgree, AtMostOnePlace, NoCycle
<1>7. \A x \in Objs \ {o} : Nowhere(w, x) => Nowhere(v, x)
  BY <1>1, <1>2 DEF Sound, World, SetAll, AllNowhere, Nowhere, ListsAgree, AtMostOnePlace
<1> QED
  BY <1>2, <1>3, <1>4, <1>5, <1>6, <1>7 DEF Sound, v

\* An object that is nowhere may be put into a container that is in nothing.
LEMMA ObjToObjSound ==
    ASSUME NEW w, Sound(w), NEW o \in Objs, NEW d \in Containers,
           AllNowhere(w, {o}), d \in w.object_list, w.in_obj[d] = None, d # o
    PROVE  LET v == ObjToObj(w, o, d)
           IN /\ Sound(v)
              /\ v.object_list = w.object_list
              /\ v.carrying = w.carrying
              /\ v.equipment = w.equipment
<1> DEFINE v == ObjToObj(w, o, d)
<1>1. /\ None \notin Objs \cup Chars \cup Rooms \cup Pos
      /\ Containers \subseteq Objs
  BY ObjectsAssumption
<1>2. /\ DOMAIN v = Fields
      /\ v.object_list = w.object_list
      /\ v.contents = w.contents
      /\ v.carrying = w.carrying
      /\ v.equipment = w.equipment
      /\ v.contains = [w.contains EXCEPT ![d] = @ \cup {o}]
      /\ v.in_room = w.in_room
      /\ v.carried_by = [w.carried_by EXCEPT ![o] = None]
      /\ v.equipped_by = [w.equipped_by EXCEPT ![o] = None]
      /\ v.eq_pos = w.eq_pos
      /\ v.in_obj = [w.in_obj EXCEPT ![o] = d]
  BY DEF Sound, World, ObjToObj, Fields
<1> HIDE DEF v
<1>3. World(v)
  BY <1>1, <1>2 DEF Sound, World, SetAll, AllNowhere, Nowhere
<1>4. ListsAgree(v)
  BY <1>1, <1>2 DEF Sound, World, SetAll, AllNowhere, Nowhere, ListsAgree, AtMostOnePlace
<1>5. AtMostOnePlace(v)
  BY <1>1, <1>2 DEF Sound, World, SetAll, AllNowhere, Nowhere, ListsAgree, AtMostOnePlace
<1>6. NoCycle(v)
  BY <1>1, <1>2 DEF Sound, World, SetAll, AllNowhere, Nowhere, ListsAgree, AtMostOnePlace, NoCycle
<1> QED
  BY <1>2, <1>3, <1>4, <1>5, <1>6 DEF Sound, v

\* What is taken out of a container is nowhere.
LEMMA ObjFromObjSound ==
    ASSUME NEW w, Sound(w), NEW o \in Objs,
           w.in_obj[o] # None
    PROVE  LET v == ObjFromObj(w, o)
           IN /\ Sound(v)
              /\ AllNowhere(v, {o})
              /\ v.object_list = w.object_list
              /\ v.carrying = w.carrying
              /\ v.equipment = w.equipment
<1> DEFINE v == ObjFromObj(w, o)
<1>1. /\ None \notin Objs \cup Chars \cup Rooms \cup Pos
      /\ Containers \subseteq Objs
  BY ObjectsAssumption
<1>2. /\ DOMAIN v = Fields
      /\ v.object_list = w.object_list
      /\ v.contents = w.contents
      /\ v.carrying = w.carrying
      /\ v.equipment = w.equipment
      /\ v.contains = [w.contains EXCEPT ![w.in_obj[o]] = @ \ {o}]
      /\ v.in_room = w.in_room
      /\ v.carried_by = w.carried_by
      /\ v.equipped_by = w.equipped_by
      /\ v.eq_pos = w.eq_pos
      /\ v.in_obj = [w.in_obj EXCEPT ![o] = None]
  BY DEF Sound, World, ObjFromObj, Fields
<1> HIDE DEF v
<1>3. World(v)
  BY <1>1, <1>2 DEF Sound, World, SetAll, AllNowhere, Nowhere
<1>4. ListsAgree(v)
  BY <1>1, <1>2 DEF Sound, World, SetAll, AllNowhere, Nowhere, ListsAgree, AtMostOnePlace
<1>5. AtMostOnePlace(v)
  BY <1>1, <1>2 DEF Sound, World, SetAll, AllNowhere, Nowhere, ListsAgree, AtMostOnePlace
<1>6. NoCycle(v)
  BY <1>1, <1>2 DEF Sound, World, SetAll, AllNowhere, Nowhere, ListsAgree, AtMostOnePlace, NoCycle
<1>7. AllNowhere(v, {o})
  BY <1>1, <1>2 DEF Sound, World, SetAll, AllNowhere, Nowhere, ListsAgree, AtMostOnePlace
<1> QED
  BY <1>2, <1>3, <1>4, <1>5, <1>6, <1>7 DEF Sound, v

\* A new object is nowhere.
LEMMA ReadObjectSound ==
    ASSUME NEW w, Sound(w), NEW o \in Objs,
           o \notin w.object_list
    PROVE  LET v == ReadObject(w, o)
           IN /\ Sound(v)
              /\ AllNowhere(v, {o})
              /\ v.object_list = w.object_list \cup {o}
              /\ v.contents = w.contents
              /\ v.carrying = w.carrying
              /\ v.equipment = w.equipment
              /\ v.contains = w.contains
              /\ v.in_obj = w.in_obj
              /\ \A x \in Objs : Nowhere(w, x) => Nowhere(v, x)
<1> DEFINE v == ReadObject(w, o)
<1>1. /\ None \notin Objs \cup Chars \cup Rooms \cup Pos
      /\ Containers \subseteq Objs
  BY ObjectsAssumption
<1>2. /\ DOMAIN v = Fields
      /\ v.object_list = w.object_list \cup {o}
      /\ v.contents = w.contents
      /\ v.carrying = w.carrying
      /\ v.equipment = w.equipment
      /\ v.contains = w.contains
      /\ v.in_room = w.in_room
      /\ v.carried_by = w.carried_by
      /\ v.equipped_by = w.equipped_by
      /\ v.eq_pos = w.eq_pos
      /\ v.in_obj = w.in_obj
  BY DEF Sound, World, ReadObject, Fields
<1> HIDE DEF v
<1>3. World(v)
  BY <1>1, <1>2 DEF Sound, World, SetAll, AllNowhere, Nowhere
<1>4. ListsAgree(v)
  BY <1>1, <1>2 DEF Sound, World, SetAll, AllNowhere, Nowhere, ListsAgree, AtMostOnePlace
<1>5. AtMostOnePlace(v)
  BY <1>1, <1>2 DEF Sound, World, SetAll, AllNowhere, Nowhere, ListsAgree, AtMostOnePlace
<1>6. NoCycle(v)
  BY <1>1, <1>2 DEF Sound, World, SetAll, AllNowhere, Nowhere, ListsAgree, AtMostOnePlace, NoCycle
<1>7. AllNowhere(v, {o})
  BY <1>1, <1>2 DEF Sound, World, SetAll, AllNowhere, Nowhere, ListsAgree, AtMostOnePlace
<1>8. \A x \in Objs : Nowhere(w, x) => Nowhere(v, x)
  BY <1>1, <1>2 DEF Sound, World, SetAll, AllNowhere, Nowhere, ListsAgree, AtMostOnePlace
<1> QED
  BY <1>2, <1>3, <1>4, <1>5, <1>6, <1>7, <1>8 DEF Sound, v

\* What it held is nowhere.
LEMMA EmptiedSound ==
    ASSUME NEW w, Sound(w), NEW o \in Objs
    PROVE  LET v == Emptied(w, o)
           IN /\ Sound(v)
              /\ AllNowhere(v, w.contains[o])
              /\ v.object_list = w.object_list
              /\ v.contents = w.contents
              /\ v.carrying = w.carrying
              /\ v.equipment = w.equipment
              /\ v.in_obj = SetAll(w.in_obj, w.contains[o], None)
              /\ \A x \in Objs : Nowhere(w, x) => Nowhere(v, x)
<1> DEFINE v == Emptied(w, o)
<1>1. /\ None \notin Objs \cup Chars \cup Rooms \cup Pos
      /\ Containers \subseteq Objs
  BY ObjectsAssumption
<1>2. /\ DOMAIN v = Fields
      /\ v.object_list = w.object_list
      /\ v.contents = w.contents
      /\ v.carrying = w.carrying
      /\ v.equipment = w.equipment
      /\ v.contains = [w.contains EXCEPT ![o] = {}]
      /\ v.in_room = w.in_room
      /\ v.carried_by = w.carried_by
      /\ v.equipped_by = w.equipped_by
      /\ v.eq_pos = w.eq_pos
      /\ v.in_obj = SetAll(w.in_obj, w.contains[o], None)
  BY DEF Sound, World, Emptied, Fields
<1> HIDE DEF v
<1>3. World(v)
  BY <1>1, <1>2 DEF Sound, World, SetAll, AllNowhere, Nowhere
<1>4. ListsAgree(v)
  BY <1>1, <1>2 DEF Sound, World, SetAll, AllNowhere, Nowhere, ListsAgree, AtMostOnePlace
<1>5. AtMostOnePlace(v)
  BY <1>1, <1>2 DEF Sound, World, SetAll, AllNowhere, Nowhere, ListsAgree, AtMostOnePlace
<1>6. NoCycle(v)
  <2>1. \A c \in Containers : v.in_obj[c] = w.in_obj[c] \/ v.in_obj[c] = None
    BY <1>1, <1>2 DEF SetAll, Sound, World
  <2> QED
    BY <1>1, <2>1 DEF NoCycle, Sound
<1>7. AllNowhere(v, w.contains[o])
  BY <1>1, <1>2 DEF Sound, World, SetAll, AllNowhere, Nowhere, ListsAgree, AtMostOnePlace
<1>8. \A x \in Objs : Nowhere(w, x) => Nowhere(v, x)
  BY <1>1, <1>2 DEF Sound, World, SetAll, AllNowhere, Nowhere, ListsAgree, AtMostOnePlace
<1> QED
  BY <1>2, <1>3, <1>4, <1>5, <1>6, <1>7, <1>8 DEF Sound, v

\* Weights and counters have no part in it.
LEMMA WeightsAside ==
    ASSUME NEW w, Sound(w), NEW v, DOMAIN v = Fields,
           v.object_list = w.object_list, v.contents = w.contents,
           v.carrying = w.carrying, v.equipment = w.equipment,
           v.contains = w.contains, v.in_room = w.in_room,
           v.carried_by = w.carried_by, v.equipped_by = w.equipped_by,
           v.eq_pos = w.eq_pos, v.in_obj = w.in_obj
    PROVE  Sound(v)
  BY DEF Sound, World, ListsAgree, AtMostOnePlace, NoCycle, Nowhere

\* Inside follows the lists down, and takes nothing that is not below S.
LEMMA InsideClosed ==
    ASSUME NEW w, Sound(w), NEW S, S \subseteq Objs
    PROVE  LET gone == S \cup Inside(w, S)
           IN /\ gone \subseteq Objs
              /\ \A x \in gone : w.contains[x] \subseteq gone
              /\ \A y \in Inside(w, S) : w.in_obj[y] \in gone \cap Objs
<1> DEFINE gone == S \cup Inside(w, S)
<1>1. /\ None \notin Objs \cup Chars \cup Rooms \cup Pos
      /\ Containers \subseteq Objs
  BY ObjectsAssumption
<1>2. gone \subseteq Objs
  BY DEF Inside
<1>3. ASSUME NEW x \in gone, NEW y \in w.contains[x]
      PROVE  y \in Inside(w, S)
  <2>1. x \in Containers /\ y \in Objs
    BY <1>1, <1>2, <1>3 DEF Sound, World, ListsAgree
  <2>2. ASSUME NEW D \in SUBSET Containers,
               S \cap Containers \subseteq D,
               \A c \in D : w.contains[c] \cap Containers \subseteq D
        PROVE  x \in D
    BY <1>3, <2>1, <2>2 DEF Inside
  <2> QED
    BY <1>3, <2>1, <2>2 DEF Inside
<1>4. ASSUME NEW y \in Inside(w, S)
      PROVE  w.in_obj[y] \in gone \cap Objs
  <2> DEFINE D == gone \cap Containers
  <2>1. S \cap Containers \subseteq D /\ D \in SUBSET Containers
    OBVIOUS
  <2>2. \A c \in D : w.contains[c] \cap Containers \subseteq D
    BY <1>3
  <2>3. PICK c \in D : y \in w.contains[c]
    BY <1>4, <2>1, <2>2 DEF Inside
  <2>4. w.in_obj[y] = c
    BY <1>1, <1>4, <2>3 DEF Inside, Sound, ListsAgree
  <2> QED
    BY <1>1, <2>3, <2>4
<1> QED
  BY <1>2, <1>3, <1>4

\* Objects that are nowhere may be freed with all that is in them.
LEMMA ExtractObjSound ==
    ASSUME NEW w, Sound(w), NEW S,
           AllNowhere(w, S)
    PROVE  LET v == ExtractObj(w, S)
           IN /\ Sound(v)
              /\ v.carrying = w.carrying
              /\ v.equipment = w.equipment
<1> DEFINE gone == S \cup Inside(w, S)
<1> DEFINE v == ExtractObj(w, S)
<1>1. /\ None \notin Objs \cup Chars \cup Rooms \cup Pos
      /\ Containers \subseteq Objs
  BY ObjectsAssumption
<1>2. /\ DOMAIN v = Fields
      /\ v.object_list = w.object_list \ gone
      /\ v.contents = w.contents
      /\ v.carrying = w.carrying
      /\ v.equipment = w.equipment
      /\ v.contains = SetAll(w.contains, gone, {})
      /\ v.in_room = w.in_room
      /\ v.carried_by = w.carried_by
      /\ v.equipped_by = w.equipped_by
      /\ v.eq_pos = w.eq_pos
      /\ v.in_obj = SetAll(w.in_obj, gone, None)
  BY DEF Sound, World, ExtractObj, FreeObj, Fields
<1>. S \subseteq Objs
  BY DEF AllNowhere, Sound, World
<1>3. /\ gone \subseteq Objs
      /\ \A x \in gone : w.contains[x] \subseteq gone
      /\ \A y \in gone : w.in_obj[y] = None \/ w.in_obj[y] \in gone \cap Objs
  BY InsideClosed DEF AllNowhere, Nowhere
<1>4. \A y \in gone : /\ w.in_room[y] = None /\ w.carried_by[y] = None
                      /\ w.equipped_by[y] = None
  BY <1>1, <1>3, InsideClosed DEF AllNowhere, Nowhere, Sound, AtMostOnePlace
<1> HIDE DEF v, gone
<1>5. World(v)
  BY <1>1, <1>2, <1>3, <1>4 DEF Sound, World, SetAll, AllNowhere, Nowhere
<1>6. ListsAgree(v)
  BY <1>1, <1>2, <1>3, <1>4 DEF Sound, World, SetAll, AllNowhere, Nowhere, ListsAgree, AtMostOnePlace
<1>7. AtMostOnePlace(v)
  BY <1>1, <1>2, <1>3, <1>4 DEF Sound, World, SetAll, AllNowhere, Nowhere, ListsAgree, AtMostOnePlace
<1>8. NoCycle(v)
  <2>1. \A c \in Containers : v.in_obj[c] = w.in_obj[c] \/ v.in_obj[c] = None
    BY <1>1, <1>2, <1>3, <1>4 DEF SetAll, Sound, World
  <2> QED
    BY <1>1, <2>1 DEF NoCycle, Sound
<1> QED
  BY <1>2, <1>5, <1>6, <1>7, <1>8 DEF Sound, v

\* What is unlinked from a container is nowhere.
LEMMA UnlinkedSound ==
    ASSUME NEW w, Sound(w), NEW o \in Objs,
           w.in_obj[o] # None
    PROVE  LET v == Unlinked(w, o)
           IN /\ Sound(v)
              /\ AllNowhere(v, {o})
              /\ v.object_list = w.object_list
              /\ v.carrying = w.carrying
              /\ v.equipment = w.equipment
<1> DEFINE v == Unlinked(w, o)
<1>1. /\ None \notin Objs \cup Chars \cup Rooms \cup Pos
      /\ Containers \subseteq Objs
  BY ObjectsAssumption
<1>2. /\ DOMAIN v = Fields
      /\ v.object_list = w.object_list
      /\ v.contents = w.contents
      /\ v.carrying = w.carrying
      /\ v.equipment = w.equipment
      /\ v.contains = [w.contains EXCEPT ![w.in_obj[o]] = @ \ {o}]
      /\ v.in_room = w.in_room
      /\ v.carried_by = w.carried_by
      /\ v.equipped_by = w.equipped_by
      /\ v.eq_pos = w.eq_pos
      /\ v.in_obj = [w.in_obj EXCEPT ![o] = None]
  BY DEF Sound, World, Unlinked, Fields
<1> HIDE DEF v
<1>3. World(v)
  BY <1>1, <1>2 DEF Sound, World, SetAll, AllNowhere, Nowhere
<1>4. ListsAgree(v)
  BY <1>1, <1>2 DEF Sound, World, SetAll, AllNowhere, Nowhere, ListsAgree, AtMostOnePlace
<1>5. AtMostOnePlace(v)
  BY <1>1, <1>2 DEF Sound, World, SetAll, AllNowhere, Nowhere, ListsAgree, AtMostOnePlace
<1>6. NoCycle(v)
  BY <1>1, <1>2 DEF Sound, World, SetAll, AllNowhere, Nowhere, ListsAgree, AtMostOnePlace, NoCycle
<1>7. AllNowhere(v, {o})
  BY <1>1, <1>2 DEF Sound, World, SetAll, AllNowhere, Nowhere, ListsAgree, AtMostOnePlace
<1> QED
  BY <1>2, <1>3, <1>4, <1>5, <1>6, <1>7 DEF Sound, v

\* The contents of a container may go to what it is in.
LEMMA ContentsToOuterSound ==
    ASSUME NEW w, Sound(w), NEW o \in Objs,
           w.in_obj[o] # None
    PROVE  LET v == ContentsToOuter(w, o)
           IN /\ Sound(v)
              /\ w.in_obj[o] = v.in_obj[o]
              /\ v.object_list = w.object_list
              /\ v.carrying = w.carrying
              /\ v.equipment = w.equipment
<1> DEFINE v == ContentsToOuter(w, o)
<1>1. /\ None \notin Objs \cup Chars \cup Rooms \cup Pos
      /\ Containers \subseteq Objs
  BY ObjectsAssumption
<1>2. /\ DOMAIN v = Fields
      /\ v.object_list = w.object_list
      /\ v.contents = w.contents
      /\ v.carrying = w.carrying
      /\ v.equipment = w.equipment
      /\ v.contains = [x \in Objs |-> IF x = o THEN {} ELSE IF x = w.in_obj[o]
                         THEN w.contains[x] \cup w.contains[o] ELSE w.contains[x]]
      /\ v.in_room = w.in_room
      /\ v.carried_by = w.carried_by
      /\ v.equipped_by = w.equipped_by
      /\ v.eq_pos = w.eq_pos
      /\ v.in_obj = SetAll(w.in_obj, w.contains[o], w.in_obj[o])
  BY DEF Sound, World, ContentsToOuter, Fields
<1>3. /\ w.in_obj[o] \in Containers /\ w.in_obj[o] # o
      /\ w.contains[o] \subseteq Objs
      /\ \A x \in Objs : x \in w.contains[o] <=> w.in_obj[x] = o
      /\ \A x \in Objs : o \in w.contains[x] <=> w.in_obj[o] = x
  <2>1. w.in_obj[o] \in Containers
    BY DEF Sound, World
  <2>2. w.in_obj[o] # o
    <3>1. SUFFICES ASSUME w.in_obj[o] = o PROVE FALSE
      OBVIOUS
    <3>2. {o} \in (SUBSET Containers) \ {{}}
      BY <2>1, <3>1
    <3> QED
      BY <3>1, <3>2 DEF Sound, NoCycle
  <2> QED
    BY <2>1, <2>2 DEF Sound, World, ListsAgree
<1> HIDE DEF v
<1>4. World(v)
  BY <1>1, <1>2, <1>3 DEF Sound, World, SetAll, AllNowhere, Nowhere
<1>5. ListsAgree(v)
  BY <1>1, <1>2, <1>3 DEF Sound, World, SetAll, AllNowhere, Nowhere, ListsAgree, AtMostOnePlace
<1>6. AtMostOnePlace(v)
  BY <1>1, <1>2, <1>3 DEF Sound, World, SetAll, AllNowhere, Nowhere, ListsAgree, AtMostOnePlace
<1>7. NoCycle(v)
  <2>1. SUFFICES ASSUME NEW S \in (SUBSET Containers) \ {{}},
                        \A x \in S : v.in_obj[x] \in S
                 PROVE  FALSE
    BY DEF NoCycle
  <2>2. \A x \in Containers : v.in_obj[x] = IF w.in_obj[x] = o THEN w.in_obj[o] ELSE w.in_obj[x]
    BY <1>1, <1>2, <1>3 DEF SetAll, Sound, World
  <2>3. CASE \E x \in S : w.in_obj[x] = o
    <3>1. o \in Containers /\ w.in_obj[o] \in S
      BY <1>1, <2>1, <2>2, <2>3 DEF Sound, World
    <3>2. S \cup {o} \in (SUBSET Containers) \ {{}}
      BY <3>1
    <3>3. \A x \in S \cup {o} : w.in_obj[x] \in S \cup {o}
      BY <2>1, <2>2, <3>1
    <3> QED
      BY <3>2, <3>3 DEF Sound, NoCycle
  <2>4. CASE \A x \in S : w.in_obj[x] # o
    BY <2>1, <2>2, <2>4 DEF Sound, NoCycle
  <2> QED
    BY <2>3, <2>4
<1>8. w.in_obj[o] = v.in_obj[o]
  BY <1>1, <1>2, <1>3 DEF Sound, World, SetAll, AllNowhere, Nowhere, ListsAgree, AtMostOnePlace
<1> QED
  BY <1>2, <1>4, <1>5, <1>6, <1>7, <1>8 DEF Sound, v

\* A corpse takes over what its owner carried and wore.
LEMMA CorpseOfSound ==
    ASSUME NEW w, Sound(w), NEW c \in Chars, NEW o \in Corpses,
           o \notin w.object_list
    PROVE  LET v == CorpseOf(w, c, o)
           IN /\ Sound(v)
              /\ AllNowhere(v, {o})
              /\ v.object_list = w.object_list \cup {o}
              /\ v.carrying = [w.carrying EXCEPT ![c] = {}]
              /\ v.equipment = [w.equipment EXCEPT ![c] = SetAll(@, Pos, None)]
<1> DEFINE v == CorpseOf(w, c, o)
<1>1. /\ None \notin Objs \cup Chars \cup Rooms \cup Pos
      /\ Containers \subseteq Objs
  BY ObjectsAssumption
<1>2. /\ DOMAIN v = Fields
      /\ v.object_list = w.object_list \cup {o}
      /\ v.contents = w.contents
      /\ v.carrying = [w.carrying EXCEPT ![c] = {}]
      /\ v.equipment = [w.equipment EXCEPT ![c] = SetAll(@, Pos, None)]
      /\ v.contains = [w.contains EXCEPT ![o] = w.carrying[c] \cup Worn(w, c)]
      /\ v.in_room = w.in_room
      /\ v.carried_by = SetAll(w.carried_by, w.carrying[c] \cup Worn(w, c), None)
      /\ v.equipped_by = SetAll(w.equipped_by, {w.equipment[c][p] : p \in Pos}, None)
      /\ v.eq_pos = SetAll(w.eq_pos, {w.equipment[c][p] : p \in Pos}, None)
      /\ v.in_obj = SetAll(w.in_obj, w.carrying[c] \cup Worn(w, c), o)
  <2> DEFINE all == w.carrying[c] \cup Worn(w, c)
             S == {w.equipment[c][p] : p \in Pos}
             u == [w EXCEPT !.carrying[c] = {}]
             bare == UnequipChar(u, c, Pos)
             r == ReadObject(bare, o)
  <2>1. /\ DOMAIN u = Fields
          /\ u.object_list = w.object_list
          /\ u.contents = w.contents
          /\ u.carrying = [w.carrying EXCEPT ![c] = {}]
          /\ u.equipment = w.equipment
          /\ u.contains = w.contains
          /\ u.in_room = w.in_room
          /\ u.carried_by = w.carried_by
          /\ u.equipped_by = w.equipped_by
          /\ u.eq_pos = w.eq_pos
          /\ u.in_obj = w.in_obj
          /\ u.weight = w.weight
          /\ u.carrying_w = w.carrying_w
          /\ u.carrying_n = w.carrying_n
    BY DEF Sound, World, Fields
  <2> HIDE DEF u
  <2>2. /\ DOMAIN bare = Fields
          /\ bare.object_list = u.object_list
          /\ bare.contents = u.contents
          /\ bare.carrying = u.carrying
          /\ bare.equipment = [u.equipment EXCEPT ![c] = SetAll(@, Pos, None)]
          /\ bare.contains = u.contains
          /\ bare.in_room = u.in_room
          /\ bare.carried_by = u.carried_by
          /\ bare.equipped_by = SetAll(u.equipped_by, S, None)
          /\ bare.eq_pos = SetAll(u.eq_pos, S, None)
          /\ bare.in_obj = u.in_obj
          /\ bare.weight = u.weight
          /\ bare.carrying_w = u.carrying_w
          /\ bare.carrying_n = u.carrying_n
    BY <2>1 DEF UnequipChar, Fields
  <2> HIDE DEF bare
  <2>3. /\ DOMAIN r = Fields
          /\ r.object_list = bare.object_list \cup {o}
          /\ r.contents = bare.contents
          /\ r.carrying = bare.carrying
          /\ r.equipment = bare.equipment
          /\ r.contains = bare.contains
          /\ r.in_room = bare.in_room
          /\ r.carried_by = bare.carried_by
          /\ r.equipped_by = bare.equipped_by
          /\ r.eq_pos = bare.eq_pos
          /\ r.in_obj = bare.in_obj
          /\ r.weight = bare.weight
          /\ r.carrying_w = bare.carrying_w
          /\ r.carrying_n = bare.carrying_n
    BY <2>2 DEF ReadObject, Fields
  <2> HIDE DEF r
  <2>4. v = [r EXCEPT !.contains[o] = all,
                      !.in_obj = SetAll(@, all, o),
                      !.carried_by = SetAll(@, all, None),
                      !.weight[o] = Weight[o] + w.carrying_w[c] + WeightOf(w, Worn(w, c)),
                      !.carrying_w[c] = 0,
                      !.carrying_n[c] = 0]
    BY DEF CorpseOf, r, bare, u
  <2> HIDE DEF v
  <2>5. /\ DOMAIN v = Fields
          /\ v.object_list = r.object_list
          /\ v.contents = r.contents
          /\ v.carrying = r.carrying
          /\ v.equipment = r.equipment
          /\ v.contains = [r.contains EXCEPT ![o] = all]
          /\ v.in_room = r.in_room
          /\ v.carried_by = SetAll(r.carried_by, all, None)
          /\ v.equipped_by = r.equipped_by
          /\ v.eq_pos = r.eq_pos
          /\ v.in_obj = SetAll(r.in_obj, all, o)
    BY <2>3, <2>4 DEF Fields
  <2> QED
    BY <2>1, <2>2, <2>3, <2>5
<1>3. /\ o \in Objs /\ w.carrying[c] \cup Worn(w, c) \subseteq Objs
      /\ Nowhere(w, o) /\ o \notin w.carrying[c] \cup Worn(w, c)
      /\ \A d \in Objs : o \notin w.contains[d]
      /\ \A x \in w.carrying[c] \cup Worn(w, c) :
            x \in w.object_list /\ w.in_obj[x] = None /\ w.in_room[x] = None
      /\ \A x \in Objs : x \in Worn(w, c) <=> w.equipped_by[x] = c
      /\ \A x \in Objs : x \in Worn(w, c) <=> x \in {w.equipment[c][p] : p \in Pos}
      /\ \A x \in Objs : x \in w.carrying[c] <=> w.carried_by[x] = c
      /\ w.contains[o] = {}
      /\ \A d \in Objs : w.in_obj[d] # o
  <2>1. o \in Objs /\ w.carrying[c] \cup Worn(w, c) \subseteq Objs
    BY <1>1 DEF Containers, Worn, Sound, World
  <2>2. Nowhere(w, o)
    BY <2>1 DEF Sound, AtMostOnePlace
  <2>3. \A x \in Objs : x \in Worn(w, c) <=> w.equipped_by[x] = c
    BY <1>1, <2>1 DEF Worn, Sound, World, ListsAgree
  <2>4. \A x \in Objs : x \in w.carrying[c] <=> w.carried_by[x] = c
    BY <2>1 DEF Sound, ListsAgree
  <2>5. w.contains[o] = {} /\ \A d \in Objs : w.in_obj[d] # o
    <3>1. \A d \in Objs : w.in_obj[d] # o
      BY <1>1, <2>1 DEF Sound, World, AtMostOnePlace
    <3> QED
      BY <2>1, <3>1 DEF Sound, World, ListsAgree
  <2>6. \A x \in Objs : x \in Worn(w, c) <=> x \in {w.equipment[c][p] : p \in Pos}
    BY <1>1 DEF Worn
  <2> QED
    BY <1>1, <2>1, <2>2, <2>3, <2>4, <2>5, <2>6 DEF Nowhere, Sound, ListsAgree, AtMostOnePlace
<1> HIDE DEF v
<1>4. World(v)
  BY <1>1, <1>2, <1>3 DEF Sound, World, SetAll, AllNowhere, Nowhere, Worn, Containers
<1>5. ListsAgree(v)
  BY <1>1, <1>2, <1>3 DEF Sound, World, SetAll, AllNowhere, Nowhere, Worn, Containers, ListsAgree, AtMostOnePlace
<1>6. AtMostOnePlace(v)
  BY <1>1, <1>2, <1>3 DEF Sound, World, SetAll, AllNowhere, Nowhere, Worn, Containers, ListsAgree, AtMostOnePlace
<1>7. NoCycle(v)
  <2>1. SUFFICES ASSUME NEW S \in (SUBSET Containers) \ {{}},
                        \A x \in S : v.in_obj[x] \in S
                 PROVE  FALSE
    BY DEF NoCycle
  <2>2. \A x \in Containers : v.in_obj[x] = w.in_obj[x] \/ v.in_obj[x] = o
    BY <1>1, <1>2 DEF SetAll, Sound, World
  <2>3. v.in_obj[o] = None
    BY <1>2, <1>3 DEF SetAll, Nowhere, Sound, World
  <2> QED
    BY <1>1, <2>1, <2>2, <2>3 DEF Sound, NoCycle
<1>8. AllNowhere(v, {o})
  BY <1>1, <1>2, <1>3 DEF Sound, World, SetAll, AllNowhere, Nowhere, Worn, Containers, ListsAgree, AtMostOnePlace
<1> QED
  BY <1>2, <1>4, <1>5, <1>6, <1>7, <1>8 DEF Sound, v

-----------------------------------------------------------------------------
(* What the commands are composed of.                                      *)

\* Whether or not there is ground under them, objects stay in some room.
LEMMA CheckFallingObjSound ==
    ASSUME NEW w, Sound(w), NEW r \in Rooms, NEW S, S \subseteq w.contents[r]
    PROVE  LET v == CheckFallingObj(w, S, r)
           IN /\ Sound(v)
              /\ v.object_list = w.object_list
              /\ v.carrying = w.carrying
              /\ v.equipment = w.equipment
              /\ v.contains = w.contains
              /\ v.in_obj = w.in_obj
              /\ \A x \in Objs \ S : \A q \in Rooms : x \in v.contents[q] <=> x \in w.contents[q]
              /\ \A x \in Objs \ S : Nowhere(w, x) => Nowhere(v, x)
<1> DEFINE d == Below[r]
           u == ObjFromRoom(w, S, r)
           v == ObjToRoom(u, S, d)
<1>1. CASE Below[r] = None
  BY <1>1 DEF CheckFallingObj
<1>2. CASE Below[r] # None
  <2>1. d \in Rooms
    BY <1>2, ObjectsAssumption
  <2>0. Sound(u) /\ AllNowhere(u, S)
    BY ObjFromRoomSound
  <2>2. /\ u.object_list = w.object_list /\ u.carrying = w.carrying
        /\ u.equipment = w.equipment /\ u.in_obj = w.in_obj
        /\ u.contains = w.contains
        /\ u.contents = [w.contents EXCEPT ![r] = @ \ S]
        /\ \A x \in Objs \ S : Nowhere(w, x) => Nowhere(u, x)
    BY ObjFromRoomSound
  <2> HIDE DEF u, d
  <2>3. /\ Sound(v)
        /\ v.object_list = u.object_list /\ v.carrying = u.carrying
        /\ v.equipment = u.equipment /\ v.in_obj = u.in_obj
        /\ v.contains = u.contains
        /\ v.contents = [u.contents EXCEPT ![d] = @ \cup S]
    BY <2>0, <2>1, ObjToRoomSound
  <2>6. \A x \in Objs \ S : Nowhere(u, x) => Nowhere(v, x)
    BY <2>0, <2>1, ObjToRoomSound
  <2> HIDE DEF v
  <2>4. \A x \in Objs \ S : \A q \in Rooms : x \in v.contents[q] <=> x \in w.contents[q]
    BY <2>0, <2>1, <2>2, <2>3 DEF Sound, World
  <2>5. CheckFallingObj(w, S, r) = v
    BY <1>2 DEF CheckFallingObj, u, v, d
  <2> QED
    BY <2>2, <2>3, <2>4, <2>5, <2>6
<1> QED
  BY <1>1, <1>2

\* A drink more or less changes only weights.
LEMMA WeightChangeObjectSound ==
    ASSUME NEW w, Sound(w), NEW c \in Chars, NEW o \in w.carrying[c], NEW change
    PROVE  LET v == WeightChangeObject(w, o, c, change)
           IN /\ Sound(v)
              /\ v.carrying = w.carrying
              /\ v.equipment = w.equipment
<1> DEFINE d == IF w.weight[o] + change < 1 THEN 1 - w.weight[o] ELSE change
           out == ObjFromChar(w, {o}, c)
           u == [out EXCEPT !.weight[o] = @ + d]
           v == ObjToChar(u, {o}, c)
<1>1. /\ Sound(out) /\ AllNowhere(out, {o})
      /\ out.carrying = [w.carrying EXCEPT ![c] = @ \ {o}]
      /\ out.equipment = w.equipment
  BY ObjFromCharSound
<1> HIDE DEF out, d
<1>2. /\ DOMAIN u = Fields
      /\ u.object_list = out.object_list /\ u.contents = out.contents
      /\ u.carrying = out.carrying /\ u.equipment = out.equipment
      /\ u.contains = out.contains /\ u.in_room = out.in_room
      /\ u.carried_by = out.carried_by /\ u.equipped_by = out.equipped_by
      /\ u.eq_pos = out.eq_pos /\ u.in_obj = out.in_obj
  BY <1>1 DEF Sound, World, Fields
<1> HIDE DEF u
<1>3. Sound(u) /\ AllNowhere(u, {o})
  <2>1. Sound(u)
    BY <1>1, <1>2, WeightsAside
  <2> QED
    BY <1>1, <1>2, <2>1 DEF AllNowhere, Nowhere
<1>4. /\ Sound(v) /\ v.carrying = [u.carrying EXCEPT ![c] = @ \cup {o}]
      /\ v.equipment = u.equipment
  BY <1>3, ObjToCharSound
<1> HIDE DEF v
<1>5. v.carrying = w.carrying
  BY <1>1, <1>2, <1>4 DEF Sound, World
<1> QED
  BY <1>1, <1>2, <1>4, <1>5 DEF WeightChangeObject, v, u, out, d

\* Scraps take the place of an object, and what was in it lies on the floor.
LEMMA MakeScrapSound ==
    ASSUME NEW w, Sound(w), NEW o, AllNowhere(w, {o}),
           NEW t \in Objs, t \notin w.object_list, NEW r \in Rooms
    PROVE  LET v == MakeScrap(w, o, t, r)
           IN /\ Sound(v)
              /\ v.carrying = w.carrying
              /\ v.equipment = w.equipment
<1> DEFINE a == ReadObject(w, t)
           b == ObjToRoom(a, {t}, r)
           T == {t}
           k == CheckFallingObj(b, T, r)
           e == Emptied(k, o)
           f == ObjToRoom(e, k.contains[o], r)
           v == ExtractObj(f, {o})
<1>1. o \in Objs /\ o # t /\ Nowhere(w, o)
  BY DEF AllNowhere, Sound, World
<1>2. /\ Sound(a) /\ AllNowhere(a, {t}) /\ Nowhere(a, o)
      /\ a.object_list = w.object_list \cup {t} /\ a.carrying = w.carrying
      /\ a.equipment = w.equipment
  BY <1>1, ReadObjectSound
<1> HIDE DEF a
<1>3. /\ Sound(b) /\ Nowhere(b, o)
      /\ b.object_list = a.object_list /\ b.carrying = a.carrying
      /\ b.equipment = a.equipment
      /\ b.contents = [a.contents EXCEPT ![r] = @ \cup {t}]
  BY <1>1, <1>2, ObjToRoomSound
<1>4. T \subseteq b.contents[r] /\ o \in Objs \ T
  <2>1. a.contents \in [Rooms -> SUBSET Objs]
    BY <1>2 DEF Sound, World
  <2> HIDE DEF b
  <2> QED
    BY <1>1, <1>3, <2>1
<1> HIDE DEF b, T
<1>5. /\ Sound(k) /\ Nowhere(k, o)
      /\ k.object_list = b.object_list /\ k.carrying = b.carrying
      /\ k.equipment = b.equipment
  BY <1>1, <1>3, <1>4, CheckFallingObjSound
<1> HIDE DEF k
<1>6. /\ Sound(e) /\ AllNowhere(e, k.contains[o]) /\ Nowhere(e, o)
      /\ e.object_list = k.object_list /\ e.carrying = k.carrying
      /\ e.equipment = k.equipment
  BY <1>1, <1>5, EmptiedSound
<1>7. o \notin k.contains[o]
  BY <1>1, <1>5, ObjectsAssumption DEF Nowhere, Sound, ListsAgree
<1> HIDE DEF e
<1>8. /\ Sound(f) /\ Nowhere(f, o)
      /\ f.object_list = e.object_list /\ f.carrying = e.carrying
      /\ f.equipment = e.equipment
  BY <1>1, <1>6, <1>7, ObjToRoomSound
<1>9. AllNowhere(f, {o})
  BY <1>2, <1>3, <1>5, <1>6, <1>8 DEF AllNowhere
<1> HIDE DEF f
<1>10. Sound(v) /\ v.carrying = f.carrying /\ v.equipment = f.equipment
  BY <1>8, <1>9, ExtractObjSound
<1> QED
  BY <1>2, <1>3, <1>5, <1>6, <1>8, <1>10 DEF MakeScrap, v, f, e, k, T, b, a

\* The contents of a corpse fall to the floor.
LEMMA ContentsToRoomSound ==
    ASSUME NEW w, Sound(w), NEW o \in Objs, NEW r \in Rooms
    PROVE  LET v == ContentsToRoom(w, o, r)
           IN /\ Sound(v)
              /\ v.carrying = w.carrying
              /\ v.equipment = w.equipment
              /\ o \in w.contents[r] => o \in v.contents[r]
<1> DEFINE inner == w.contains[o]
           gone == WeightOf(w, inner)
           e == Emptied(w, o)
           f == ObjToRoom(e, inner, r)
           k == CheckFallingObj(f, inner, r)
           l == [k EXCEPT !.weight[o] = Less(@, gone)]
           m == [l EXCEPT !.carrying_w[w.carried_by[o]] = Less(@, gone)]
           v == ContentsToRoom(w, o, r)
<1>1. o \notin inner
  <2>1. SUFFICES ASSUME o \in inner PROVE FALSE
    OBVIOUS
  <2>2. w.in_obj[o] = o
    BY <2>1 DEF Sound, ListsAgree
  <2>3. {o} \in (SUBSET Containers) \ {{}}
    BY <2>2, ObjectsAssumption DEF Sound, World
  <2> QED
    BY <2>2, <2>3 DEF Sound, NoCycle
<1>2. /\ Sound(e) /\ AllNowhere(e, inner)
      /\ e.contents = w.contents /\ e.carrying = w.carrying /\ e.equipment = w.equipment
  BY EmptiedSound
<1> HIDE DEF e
<1>3. /\ Sound(f) /\ f.contents = [e.contents EXCEPT ![r] = @ \cup inner]
      /\ f.carrying = e.carrying /\ f.equipment = e.equipment
  BY <1>2, ObjToRoomSound
<1>4. inner \subseteq f.contents[r] /\ (o \in w.contents[r] => o \in f.contents[r])
  BY <1>2, <1>3 DEF Sound, World
<1> HIDE DEF f
<1>5. /\ Sound(k) /\ k.carrying = f.carrying /\ k.equipment = f.equipment
      /\ o \in f.contents[r] => o \in k.contents[r]
  BY <1>1, <1>3, <1>4, CheckFallingObjSound
<1>6. v = l \/ v = m
  BY DEF ContentsToRoom, m, l, k, f, e
<1> HIDE DEF k, gone, v
<1>7. /\ DOMAIN l = Fields
      /\ l.object_list = k.object_list /\ l.contents = k.contents
      /\ l.carrying = k.carrying /\ l.equipment = k.equipment
      /\ l.contains = k.contains /\ l.in_room = k.in_room
      /\ l.carried_by = k.carried_by /\ l.equipped_by = k.equipped_by
      /\ l.eq_pos = k.eq_pos /\ l.in_obj = k.in_obj
  BY <1>5 DEF Sound, World, Fields
<1> HIDE DEF l
<1>8. /\ DOMAIN m = Fields
      /\ m.object_list = l.object_list /\ m.contents = l.contents
      /\ m.carrying = l.carrying /\ m.equipment = l.equipment
      /\ m.contains = l.contains /\ m.in_room = l.in_room
      /\ m.carried_by = l.carried_by /\ m.equipped_by = l.equipped_by
      /\ m.eq_pos = l.eq_pos /\ m.in_obj = l.in_obj
  BY <1>7 DEF Fields
<1> HIDE DEF m
<1>9. Sound(l)
  BY <1>5, <1>7, WeightsAside
<1>10. Sound(m)
  BY <1>8, <1>9, WeightsAside
<1> QED
  BY <1>2, <1>3, <1>4, <1>5, <1>6, <1>7, <1>8, <1>9, <1>10 DEF v

\* Nothing is left on c after its corpse has been made.
LEMMA MakeCorpseSound ==
    ASSUME NEW w, Sound(w), NEW c \in Chars, NEW o \in Corpses, o \notin w.object_list,
           where \in [Chars -> Rooms \cup {None}], where[c] # None
    PROVE  LET v == MakeCorpse(w, c, o)
           IN /\ Sound(v)
              /\ v.carrying = [w.carrying EXCEPT ![c] = {}]
              /\ v.equipment = [w.equipment EXCEPT ![c] = SetAll(@, Pos, None)]
<1> DEFINE r == where[c]
           a == CorpseOf(w, c, o)
           b == ObjToRoom(a, {o}, r)
<1>1. r \in Rooms
  OBVIOUS
<1>2. /\ Sound(a) /\ AllNowhere(a, {o})
      /\ a.carrying = [w.carrying EXCEPT ![c] = {}]
      /\ a.equipment = [w.equipment EXCEPT ![c] = SetAll(@, Pos, None)]
  BY CorpseOfSound
<1> HIDE DEF a, r
<1>3. /\ Sound(b) /\ b.contents = [a.contents EXCEPT ![r] = @ \cup {o}]
      /\ b.carrying = a.carrying /\ b.equipment = a.equipment
  BY <1>1, <1>2, ObjToRoomSound
<1>4. {o} \subseteq b.contents[r]
  <2>1. a.contents \in [Rooms -> SUBSET Objs]
    BY <1>2 DEF Sound, World
  <2> HIDE DEF b
  <2> QED
    BY <1>1, <1>3, <2>1
<1> HIDE DEF b
<1>5. LET v == CheckFallingObj(b, {o}, r)
      IN Sound(v) /\ v.carrying = b.carrying /\ v.equipment = b.equipment
  BY <1>1, <1>3, <1>4, CheckFallingObjSound
<1> QED
  BY <1>2, <1>3, <1>5 DEF MakeCorpse, b, a, r


-----------------------------------------------------------------------------
(* The actions.                                                            *)

Bare(w, c) == w.carrying[c] = {} /\ Worn(w, c) = {}

\* The invariant: NothingKept is needed because what decays in somebody's
\* hands falls to the room its bearer is in.
IInv ==
    /\ Sound(world)
    /\ where \in [Chars -> Rooms \cup {None}]
    /\ NothingKept

Same(w, v, C) == \A x \in C : v.carrying[x] = w.carrying[x] /\ v.equipment[x] = w.equipment[x]

\* An action of characters that are in the game and stay.
LEMMA BothStay ==
    ASSUME IInv, NEW c \in Chars, NEW d \in Chars, where[c] # None, where[d] # None,
           Sound(world'), Same(world, world', Chars \ {c, d}), where' = where
    PROVE  IInv'
  BY DEF IInv, NothingKept, Worn, Same

LEMMA Stays ==
    ASSUME IInv, NEW c \in Chars, where[c] # None,
           Sound(world'), Same(world, world', Chars \ {c}), where' = where
    PROVE  IInv'
  BY DEF IInv, NothingKept, Worn, Same

\* A character leaves the game with empty hands.
LEMMA Leaves ==
    ASSUME IInv, NEW c \in Chars, Sound(world'), Bare(world', c),
           Same(world, world', Chars \ {c}), where' = [where EXCEPT ![c] = None]
    PROVE  IInv'
<1>1. where' \in [Chars -> Rooms \cup {None}]
  BY DEF IInv
<1>2. NothingKept'
  <2>1. SUFFICES ASSUME NEW x \in Chars, where'[x] = None
                 PROVE  world'.carrying[x] = {} /\ Worn(world', x) = {}
    BY DEF NothingKept
  <2>2. CASE x = c
    BY <2>2 DEF Bare
  <2>3. CASE x # c
    <3>1. where[x] = None
      BY <2>1, <2>3 DEF IInv
    <3> QED
      BY <2>3, <3>1 DEF IInv, NothingKept, Worn, Same
  <2> QED
    BY <2>2, <2>3
<1> QED
  BY <1>1, <1>2 DEF IInv

\* Nobody wears two things in one place, and nothing twice.
LEMMA WornOnce ==
    ASSUME NEW w, Sound(w), NEW c \in Chars, NEW p \in Pos, NEW q \in Pos,
           w.equipment[c][p] # None
    PROVE  /\ w.equipment[c][p] \in w.object_list
           /\ p # q => w.equipment[c][p] # w.equipment[c][q]
<1> DEFINE o == w.equipment[c][p]
<1>1. o \in Objs /\ w.equipped_by[o] = c /\ w.eq_pos[o] = p
  BY DEF Sound, World, ListsAgree
<1>2. o \in w.object_list
  BY <1>1, ObjectsAssumption DEF Sound, AtMostOnePlace, Nowhere
<1>3. ASSUME o = w.equipment[c][q] PROVE p = q
  BY <1>1, <1>3 DEF Sound, ListsAgree
<1> QED
  BY <1>2, <1>3

\* Bare of everything worn.
LEMMA Undressed ==
    ASSUME NEW w, Sound(w), NEW v, NEW c \in Chars, v.carrying[c] = {},
           v.equipment = [w.equipment EXCEPT ![c] = SetAll(@, Pos, None)]
    PROVE  Bare(v, c)
<1>1. \A p \in Pos : v.equipment[c][p] = None
  BY DEF Sound, World, SetAll
<1> QED
  BY <1>1 DEF Bare, Worn

LEMMA LoadToRoomStep ==
    ASSUME IInv, NEW o \in Objs, NEW r \in Rooms, LoadToRoom(o, r)
    PROVE  IInv'
<1> DEFINE a == ReadObject(world, o)
           b == ObjToRoom(a, {o}, r)
<1>1. /\ Sound(a) /\ AllNowhere(a, {o})
      /\ a.carrying = world.carrying /\ a.equipment = world.equipment
  BY ReadObjectSound DEF IInv, LoadToRoom, Unused
<1>2. world' = b /\ where' = where
  BY DEF LoadToRoom
<1> HIDE DEF a
<1>3. /\ Sound(b) /\ b.contents = [a.contents EXCEPT ![r] = @ \cup {o}]
      /\ b.carrying = a.carrying /\ b.equipment = a.equipment
  BY <1>1, ObjToRoomSound
<1> HIDE DEF b
<1> QED
  BY <1>1, <1>2, <1>3 DEF IInv, NothingKept, Worn

LEMMA LoadToCharStep ==
    ASSUME IInv, NEW o \in Objs, NEW c \in Chars, LoadToChar(o, c)
    PROVE  IInv'
<1> DEFINE a == ReadObject(world, o)
<1>1. /\ Sound(a) /\ AllNowhere(a, {o})
      /\ a.carrying = world.carrying /\ a.equipment = world.equipment
  BY ReadObjectSound DEF IInv, LoadToChar, Unused
<1>2. world' = ObjToChar(a, {o}, c) /\ where' = where /\ where[c] # None
  BY DEF LoadToChar
<1> HIDE DEF a
<1>3. /\ Sound(world') /\ world'.carrying = [a.carrying EXCEPT ![c] = @ \cup {o}]
      /\ world'.equipment = a.equipment
  BY <1>1, <1>2, ObjToCharSound
<1>4. Same(world, world', Chars \ {c})
  BY <1>1, <1>3 DEF Same, IInv, Sound, World
<1> QED
  BY <1>2, <1>3, <1>4, Stays

LEMMA GetStep ==
    ASSUME IInv, NEW c \in Chars, NEW o \in Objs, Get(c, o)
    PROVE  IInv'
<1> DEFINE r == where[c]
           a == ObjFromRoom(world, {o}, r)
<1>1. r \in Rooms /\ where[c] # None /\ {o} \subseteq world.contents[r] /\ Sound(world)
  BY DEF Get, IInv
<1>3. world' = ObjToChar(a, {o}, c) /\ where' = where
  BY DEF Get
<1> HIDE DEF r
<1>2. /\ Sound(a) /\ AllNowhere(a, {o}) /\ a.contents = [world.contents EXCEPT ![r] = @ \ {o}]
      /\ a.carrying = world.carrying /\ a.equipment = world.equipment
  BY <1>1, ObjFromRoomSound
<1> HIDE DEF a
<1>4. /\ Sound(world') /\ world'.carrying = [a.carrying EXCEPT ![c] = @ \cup {o}]
      /\ world'.equipment = a.equipment
  BY <1>2, <1>3, ObjToCharSound
<1>5. Same(world, world', Chars \ {c})
  BY <1>2, <1>4 DEF Same, IInv, Sound, World
<1> QED
  BY <1>1, <1>3, <1>4, <1>5, Stays

LEMMA GetFromStep ==
    ASSUME IInv, NEW c \in Chars, NEW o \in Objs, NEW d \in Containers, GetFrom(c, o, d)
    PROVE  IInv'
<1> DEFINE a == ObjFromObj(world, o)
<1>1. world.in_obj[o] # None /\ where[c] # None
  <2>1. world.in_obj[o] = d
    BY ObjectsAssumption DEF GetFrom, IInv, Sound, ListsAgree
  <2> QED
    BY <2>1, ObjectsAssumption DEF GetFrom
<1>2. Sound(a) /\ AllNowhere(a, {o}) /\ a.carrying = world.carrying /\ a.equipment = world.equipment
  BY <1>1, ObjFromObjSound DEF IInv
<1>3. world' = ObjToChar(a, {o}, c) /\ where' = where
  BY DEF GetFrom
<1> HIDE DEF a
<1>4. /\ Sound(world') /\ world'.carrying = [a.carrying EXCEPT ![c] = @ \cup {o}]
      /\ world'.equipment = a.equipment
  BY <1>2, <1>3, ObjToCharSound
<1>5. Same(world, world', Chars \ {c})
  BY <1>2, <1>4 DEF Same, IInv, Sound, World
<1> QED
  BY <1>1, <1>3, <1>4, <1>5, Stays

\* What leaves the hands of c.
LEMMA FromHands ==
    ASSUME IInv, NEW c \in Chars, NEW S, S \subseteq world.carrying[c]
    PROVE  LET a == ObjFromChar(world, S, c)
           IN /\ Sound(a) /\ AllNowhere(a, S)
              /\ a.carrying = [world.carrying EXCEPT ![c] = @ \ S]
              /\ Same(world, a, Chars \ {c})
              /\ a.object_list = world.object_list
              /\ a.equipment = world.equipment
              /\ a.contents = world.contents
              /\ a.in_obj = world.in_obj
<1> DEFINE a == ObjFromChar(world, S, c)
<1>1. Sound(a) /\ AllNowhere(a, S) /\ a.object_list = world.object_list
      /\ a.carrying = [world.carrying EXCEPT ![c] = @ \ S]
      /\ a.equipment = world.equipment /\ a.in_obj = world.in_obj
      /\ a.contents = world.contents
  BY ObjFromCharSound DEF IInv
<1> HIDE DEF a
<1>2. Same(world, a, Chars \ {c})
  BY <1>1 DEF Same, IInv, Sound, World
<1> QED
  BY <1>1, <1>2 DEF a

LEMMA DoDropStep ==
    ASSUME IInv, NEW c \in Chars, NEW o \in Objs, DoDrop(c, o)
    PROVE  IInv'
<1> DEFINE r == where[c]
           a == ObjFromChar(world, {o}, c)
           b == ObjToRoom(a, {o}, r)
<1>1. r \in Rooms /\ where[c] # None /\ {o} \subseteq world.carrying[c]
  BY DEF DoDrop, IInv
<1>2. Sound(a) /\ AllNowhere(a, {o}) /\ Same(world, a, Chars \ {c})
  BY <1>1, FromHands
<1>3. world' = CheckFallingObj(b, {o}, r) /\ where' = where
  BY DEF DoDrop
<1> HIDE DEF a, r
<1>4. /\ Sound(b) /\ b.contents = [a.contents EXCEPT ![r] = @ \cup {o}]
      /\ b.carrying = a.carrying /\ b.equipment = a.equipment
  BY <1>1, <1>2, ObjToRoomSound
<1> HIDE DEF b
<1>5. {o} \subseteq b.contents[r]
  <2>1. a.contents \in [Rooms -> SUBSET Objs]
    BY <1>2 DEF Sound, World
  <2> QED
    BY <1>1, <1>4, <2>1
<1>6. Sound(world') /\ world'.carrying = b.carrying /\ world'.equipment = b.equipment
  BY <1>1, <1>3, <1>4, <1>5, CheckFallingObjSound
<1>7. Same(world, world', Chars \ {c})
  BY <1>2, <1>4, <1>6 DEF Same
<1> QED
  BY <1>1, <1>3, <1>6, <1>7, Stays

LEMMA DoPutStep ==
    ASSUME IInv, NEW c \in Chars, NEW o \in Objs, NEW d \in Containers, DoPut(c, o, d)
    PROVE  IInv'
<1> DEFINE a == ObjFromChar(world, {o}, c)
<1>1. where[c] # None /\ where[c] \in Rooms /\ {o} \subseteq world.carrying[c] /\ o # d
      /\ where' = where /\ world' = ObjToObj(a, o, d)
  BY DEF DoPut, IInv
<1>2. d \in world.object_list /\ world.in_obj[d] = None
  <2>1. world.carried_by[d] = c \/ world.in_room[d] = where[c]
    BY ObjectsAssumption DEF DoPut, Accessible, IInv, Sound, ListsAgree
  <2>2. world.carried_by[d] # None \/ world.in_room[d] # None
    BY <2>1, ObjectsAssumption, <1>1
  <2> QED
    BY <2>2, ObjectsAssumption DEF IInv, Sound, AtMostOnePlace, Nowhere
<1>3. Sound(a) /\ AllNowhere(a, {o}) /\ Same(world, a, Chars \ {c})
      /\ a.object_list = world.object_list /\ a.in_obj = world.in_obj
  BY <1>1, FromHands
<1> HIDE DEF a
<1>4. Sound(world') /\ world'.carrying = a.carrying /\ world'.equipment = a.equipment
  BY <1>1, <1>2, <1>3, ObjToObjSound
<1>5. Same(world, world', Chars \ {c})
  BY <1>3, <1>4 DEF Same
<1> QED
  BY <1>1, <1>4, <1>5, Stays

\* do_give and do_steal.
LEMMA HandOver ==
    ASSUME IInv, NEW c \in Chars, NEW v \in Chars, where[c] # None, where[v] # None,
           NEW o \in world.carrying[c],
           world' = ObjToChar(ObjFromChar(world, {o}, c), {o}, v), where' = where
    PROVE  IInv'
<1> DEFINE a == ObjFromChar(world, {o}, c)
<1>1. {o} \subseteq world.carrying[c]
  OBVIOUS
<1>2. Sound(a) /\ AllNowhere(a, {o}) /\ Same(world, a, Chars \ {c})
  BY <1>1, FromHands
<1> HIDE DEF a
<1>3. /\ Sound(world') /\ world'.carrying = [a.carrying EXCEPT ![v] = @ \cup {o}]
      /\ world'.equipment = a.equipment
  BY SMTT(30), <1>2, ObjToCharSound DEF a
<1>4. Same(world, world', Chars \ {c, v})
  BY <1>2, <1>3 DEF Same, Sound, World
<1> QED
  BY <1>3, <1>4, BothStay

LEMMA UseUpStep ==
    ASSUME IInv, NEW c \in Chars, where[c] # None, where' = where,
           NEW w, Sound(w), w.carrying = world.carrying, w.equipment = world.equipment,
           NEW o \in w.carrying[c],
           world' = ExtractObj(ObjFromChar(w, {o}, c), {o})
    PROVE  IInv'
<1> DEFINE a == ObjFromChar(w, {o}, c)
<1>1. /\ Sound(a) /\ AllNowhere(a, {o}) /\ a.equipment = w.equipment
      /\ a.carrying = [w.carrying EXCEPT ![c] = @ \ {o}]
  BY ObjFromCharSound
<1>2. world' = ExtractObj(a, {o})
  OBVIOUS
<1> HIDE DEF a
<1>3. Sound(world') /\ world'.carrying = a.carrying /\ world'.equipment = a.equipment
  BY <1>1, <1>2, ExtractObjSound
<1>4. Same(world, world', Chars \ {c})
  BY ZenonT(60), <1>1, <1>3 DEF Same, Sound, World
<1> QED
  BY <1>3, <1>4, Stays

LEMMA DoDrinkStep ==
    ASSUME IInv, NEW c \in Chars, NEW o \in Drinks, NEW amount, DoDrink(c, o, amount)
    PROVE  IInv'
<1> DEFINE l == WeightChangeObject(world, o, c, -amount)
<1>1. /\ where[c] # None /\ o \in world.carrying[c] /\ where' = where
      /\ world' = l \/ world' = ExtractObj(ObjFromChar(l, {o}, c), {o})
  BY DEF DoDrink
<1>2. Sound(l) /\ l.carrying = world.carrying /\ l.equipment = world.equipment
  BY <1>1, WeightChangeObjectSound DEF IInv
<1> HIDE DEF l
<1>3. CASE world' = l
  BY <1>1, <1>2, <1>3 DEF IInv, NothingKept, Worn
<1>4. CASE world' = ExtractObj(ObjFromChar(l, {o}, c), {o})
  BY <1>1, <1>2, <1>4, UseUpStep
<1> QED
  BY <1>1, <1>3, <1>4

LEMMA DoPourStep ==
    ASSUME IInv, NEW c \in Chars, NEW o \in Drinks, NEW d \in Drinks \cup {None},
           NEW amount, DoPour(c, o, d, amount)
    PROVE  IInv'
<1> DEFINE b == WeightChangeObject(world, d, c, amount)
<1>1. None \notin Drinks
  BY ObjectsAssumption
<1>2. /\ where' = where /\ o \in world.carrying[c]
      /\ d = None => world' = WeightChangeObject(world, o, c, -amount)
      /\ d # None => d \in world.carrying[c] /\ world' = WeightChangeObject(b, o, c, -amount)
  BY <1>1 DEF DoPour
<1>3. Sound(world') /\ world'.carrying = world.carrying /\ world'.equipment = world.equipment
  <2>1. CASE d = None
    BY <1>2, <2>1, WeightChangeObjectSound DEF IInv
  <2>2. CASE d # None
    <3>1. Sound(b) /\ b.carrying = world.carrying /\ b.equipment = world.equipment
      BY <1>2, <2>2, WeightChangeObjectSound DEF IInv
    <3> HIDE DEF b
    <3> QED
      BY <1>2, <2>2, <3>1, WeightChangeObjectSound
  <2> QED
    BY <2>1, <2>2
<1> QED
  BY <1>2, <1>3 DEF IInv, NothingKept, Worn

\* What is taken off the body of c.
LEMMA TakenOff ==
    ASSUME IInv, NEW c \in Chars, NEW P \in SUBSET Pos
    PROVE  LET a == UnequipChar(world, c, P)
           IN /\ Sound(a)
              /\ \A p \in P : world.equipment[c][p] # None =>
                                 AllNowhere(a, {world.equipment[c][p]})
              /\ AllNowhere(a, {world.equipment[c][p] : p \in P} \ {None})
              /\ a.carrying = world.carrying
              /\ a.equipment = [world.equipment EXCEPT ![c] = SetAll(@, P, None)]
              /\ a.object_list = world.object_list
              /\ Same(world, a, Chars \ {c})
<1> DEFINE a == UnequipChar(world, c, P)
<1>1. /\ Sound(a) /\ a.object_list = world.object_list
      /\ AllNowhere(a, {world.equipment[c][p] : p \in P} \ {None})
      /\ a.carrying = world.carrying
      /\ a.equipment = [world.equipment EXCEPT ![c] = SetAll(@, P, None)]
  <2>1. Sound(world)
    BY DEF IInv
  <2> QED
    BY <2>1, UnequipCharSound
<1> HIDE DEF a
<1>2. Same(world, a, Chars \ {c})
  BY <1>1 DEF Same, IInv, Sound, World
<1>3. \A p \in P : world.equipment[c][p] # None => AllNowhere(a, {world.equipment[c][p]})
  BY <1>1 DEF AllNowhere
<1> QED
  BY <1>1, <1>2, <1>3 DEF a

\* ... and one thing, and all of them.
LEMMA TakenOffOne ==
    ASSUME NEW w, Sound(w), NEW c \in Chars, NEW p \in Pos, w.equipment[c][p] # None
    PROVE  LET v == UnequipChar(w, c, {p})
           IN /\ Sound(v) /\ AllNowhere(v, {w.equipment[c][p]})
              /\ v.object_list = w.object_list
              /\ Same(w, v, Chars \ {c})
<1> DEFINE P == {p}
           S == {w.equipment[c][q] : q \in P} \ {None}
           v == UnequipChar(w, c, P)
<1>1. P \in SUBSET Pos /\ S = {w.equipment[c][p]}
  OBVIOUS
<1>2. /\ Sound(v)
      /\ AllNowhere(v, {w.equipment[c][q] : q \in P} \ {None})
      /\ v.object_list = w.object_list
      /\ v.contents = w.contents
      /\ v.carrying = w.carrying
      /\ v.equipment = [w.equipment EXCEPT ![c] = SetAll(@, P, None)]
      /\ v.contains = w.contains
      /\ v.in_obj = w.in_obj
      /\ \A x \in Objs : Nowhere(w, x) => Nowhere(v, x)
  <2>1. P \in SUBSET Pos
    BY <1>1
  <2> HIDE DEF P
  <2> QED
    BY <2>1, UnequipCharSound
<1> HIDE DEF v, S, P
<1>3. Same(w, v, Chars \ {c})
  BY <1>2 DEF Sound, World, Same
<1> QED
  BY <1>1, <1>2, <1>3 DEF v, P, S

LEMMA AllTakenOff ==
    ASSUME NEW w, Sound(w), NEW c \in Chars
    PROVE  LET v == UnequipChar(w, c, Pos)
           IN /\ Sound(v) /\ AllNowhere(v, Worn(w, c)) /\ v.carrying = w.carrying
              /\ v.equipment = [w.equipment EXCEPT ![c] = SetAll(@, Pos, None)]
<1> DEFINE P == Pos
           v == UnequipChar(w, c, P)
<1>1. P \in SUBSET Pos /\ Worn(w, c) = {w.equipment[c][q] : q \in P} \ {None}
  BY DEF Worn
<1> HIDE DEF P
<1>2. /\ Sound(v)
      /\ AllNowhere(v, {w.equipment[c][p] : p \in P} \ {None})
      /\ v.object_list = w.object_list
      /\ v.contents = w.contents
      /\ v.carrying = w.carrying
      /\ v.equipment = [w.equipment EXCEPT ![c] = SetAll(@, P, None)]
      /\ v.contains = w.contains
      /\ v.in_obj = w.in_obj
      /\ \A x \in Objs : Nowhere(w, x) => Nowhere(v, x)
  BY <1>1, UnequipCharSound
<1> HIDE DEF v
<1> QED
  BY <1>1, <1>2 DEF v, P

LEMMA WearStep ==
    ASSUME IInv, NEW c \in Chars, NEW o \in Objs, NEW p \in Pos, Wear(c, o, p)
    PROVE  IInv'
<1> DEFINE r == where[c]
           a == ObjFromChar(world, {o}, c)
           b == ObjToRoom(a, {o}, r)
           d == PutOn(a, c, o, p)
<1>1. r \in Rooms /\ where[c] # None /\ {o} \subseteq world.carrying[c]
  BY DEF Wear, IInv
<1>2. where' = where /\ (world' = b \/ world' = d)
  BY DEF Wear, EquipChar
<1>3. world.equipment[c][p] = None
  BY DEF Wear, MayWear, Wears, Equipment
<1>4. /\ Sound(a) /\ AllNowhere(a, {o}) /\ Same(world, a, Chars \ {c})
      /\ a.equipment = world.equipment
  BY <1>1, FromHands
<1> HIDE DEF a, r
<1>5. /\ Sound(b) /\ b.contents = [a.contents EXCEPT ![r] = @ \cup {o}]
      /\ b.carrying = a.carrying /\ b.equipment = a.equipment
  BY <1>1, <1>4, ObjToRoomSound
<1>6. /\ Sound(d)
      /\ d.object_list = a.object_list
      /\ d.carrying = a.carrying
      /\ d.equipment = [a.equipment EXCEPT ![c][p] = o]
      /\ d.in_obj = a.in_obj
      /\ \A x \in Objs \ {o} : Nowhere(a, x) => Nowhere(d, x)
  BY <1>3, <1>4, WearSound
<1> HIDE DEF b, d
<1>7. Same(world, b, Chars \ {c}) /\ Same(world, d, Chars \ {c})
  BY <1>4, <1>5, <1>6 DEF Same, Sound, World
<1>8. Sound(world') /\ Same(world, world', Chars \ {c})
  BY <1>2, <1>5, <1>6, <1>7
<1> QED
  BY <1>1, <1>2, <1>8, Stays

LEMMA ThrowAwayStep ==
    ASSUME IInv, NEW c \in Chars, NEW o \in Objs, ThrowAway(c, o)
    PROVE  IInv'
<1> DEFINE r == where[c]
           a == ObjFromChar(world, {o}, c)
           b == ObjToRoom(a, {o}, r)
<1>1. r \in Rooms /\ where[c] # None /\ {o} \subseteq world.carrying[c]
  BY DEF ThrowAway, IInv
<1>2. where' = where /\ world' = b
  BY DEF ThrowAway
<1>3. Sound(a) /\ AllNowhere(a, {o}) /\ Same(world, a, Chars \ {c})
  BY <1>1, FromHands
<1> HIDE DEF a, r
<1>4. /\ Sound(b) /\ b.contents = [a.contents EXCEPT ![r] = @ \cup {o}]
      /\ b.carrying = a.carrying /\ b.equipment = a.equipment
  BY <1>1, <1>3, ObjToRoomSound
<1> HIDE DEF b
<1>5. Sound(world') /\ Same(world, world', Chars \ {c})
  BY <1>2, <1>3, <1>4 DEF Same
<1> QED
  BY <1>1, <1>2, <1>5, Stays

\* do_remove, and what is stolen from a sleeper's body.
LEMMA ToHands ==
    ASSUME IInv, NEW c \in Chars, NEW v \in Chars, where[c] # None, where[v] # None,
           NEW p \in Pos, world.equipment[v][p] # None,
           world' = ObjToChar(UnequipChar(world, v, {p}), {world.equipment[v][p]}, c),
           where' = where
    PROVE  IInv'
<1> DEFINE o == world.equipment[v][p]
           a == UnequipChar(world, v, {p})
<1>1. Sound(a) /\ AllNowhere(a, {o}) /\ Same(world, a, Chars \ {v})
  BY TakenOff
<1>2. world' = ObjToChar(a, {o}, c)
  OBVIOUS
<1> HIDE DEF a, o
<1>3. /\ Sound(world') /\ world'.carrying = [a.carrying EXCEPT ![c] = @ \cup {o}]
      /\ world'.equipment = a.equipment
  BY <1>1, <1>2, ObjToCharSound
<1>4. Same(world, world', Chars \ {v, c})
  BY <1>1, <1>3 DEF Same, Sound, World
<1> QED
  BY <1>3, <1>4, BothStay

\* Weapons that fall: do_disarm, and a failed second attack.
LEMMA ToFloor ==
    ASSUME IInv, NEW c \in Chars, where[c] # None, NEW P \in SUBSET Pos,
           \A p \in P : world.equipment[c][p] # None,
           world' = ObjToRoom(UnequipChar(world, c, P),
                              {world.equipment[c][p] : p \in P}, where[c]),
           where' = where
    PROVE  IInv'
<1> DEFINE S == {world.equipment[c][p] : p \in P}
           r == where[c]
           a == UnequipChar(world, c, P)
           b == ObjToRoom(a, S, r)
<1>1. Sound(a) /\ AllNowhere(a, S) /\ Same(world, a, Chars \ {c}) /\ r \in Rooms
  <2>1. S \ {None} = S
    OBVIOUS
  <2>2. AllNowhere(a, S \ {None}) /\ Sound(a) /\ Same(world, a, Chars \ {c})
    BY TakenOff
  <2> QED
    BY <2>1, <2>2 DEF IInv
<1>2. world' = b
  OBVIOUS
<1> HIDE DEF a, r, S
<1>3. /\ Sound(b) /\ b.contents = [a.contents EXCEPT ![r] = @ \cup S]
      /\ b.carrying = a.carrying /\ b.equipment = a.equipment
  BY <1>1, ObjToRoomSound
<1> HIDE DEF b
<1>4. Sound(world') /\ Same(world, world', Chars \ {c})
  BY <1>1, <1>2, <1>3 DEF Same
<1> QED
  BY <1>4, Stays

LEMMA DestroyCarriedStep ==
    ASSUME IInv, NEW c \in Chars, NEW o \in Objs, NEW t \in Scraps, DestroyCarried(c, o, t)
    PROVE  IInv'
<1> DEFINE r == where[c]
           a == ObjFromChar(world, {o}, c)
<1>1. /\ r \in Rooms /\ where[c] # None /\ {o} \subseteq world.carrying[c]
      /\ t \in Objs /\ t \notin world.object_list
      /\ where' = where /\ world' = MakeScrap(a, o, t, r)
  BY ObjectsAssumption DEF DestroyCarried, IInv, Unused
<1>2. /\ Sound(a) /\ AllNowhere(a, {o}) /\ Same(world, a, Chars \ {c})
      /\ a.object_list = world.object_list
  BY <1>1, FromHands
<1> HIDE DEF a, r
<1>3. Sound(world') /\ world'.carrying = a.carrying /\ world'.equipment = a.equipment
  BY <1>1, <1>2, MakeScrapSound
<1>4. Same(world, world', Chars \ {c})
  BY <1>2, <1>3 DEF Same
<1> QED
  BY <1>1, <1>3, <1>4, Stays

LEMMA DestroyWornStep ==
    ASSUME IInv, NEW c \in Chars, NEW p \in Pos, NEW t \in Scraps, DestroyWorn(c, p, t)
    PROVE  IInv'
<1> DEFINE r == where[c]
           o == world.equipment[c][p]
           a == UnequipChar(world, c, {p})
<1>1. /\ r \in Rooms /\ where[c] # None /\ o # None
      /\ t \in Objs /\ t \notin world.object_list
      /\ where' = where /\ world' = MakeScrap(a, o, t, r)
  BY ObjectsAssumption DEF DestroyWorn, IInv, Unused, Wears, Equipment
<1>2. /\ Sound(a) /\ AllNowhere(a, {o}) /\ Same(world, a, Chars \ {c})
      /\ a.object_list = world.object_list
  BY <1>1, TakenOff
<1> HIDE DEF a, r, o
<1>3. Sound(world') /\ world'.carrying = a.carrying /\ world'.equipment = a.equipment
  BY <1>1, <1>2, MakeScrapSound
<1>4. Same(world, world', Chars \ {c})
  BY <1>2, <1>3 DEF Same
<1> QED
  BY <1>1, <1>3, <1>4, Stays

LEMMA CorpseDecaysStep ==
    ASSUME IInv, NEW o \in Corpses, CorpseDecays(o)
    PROVE  IInv'
<1>1. /\ o \in Objs /\ where' = where /\ Sound(world)
      /\ where \in [Chars -> Rooms \cup {None}]
  BY ObjectsAssumption DEF CorpseDecays, IInv, Containers
<1>2. CASE world.in_obj[o] # None /\ world' = ExtractFromObj(ContentsToOuter(world, o), o)
  <2> DEFINE a == ContentsToOuter(world, o)
             b == Unlinked(a, o)
  <2>1. Sound(a) /\ a.in_obj[o] # None /\ a.carrying = world.carrying
        /\ a.equipment = world.equipment
    BY <1>1, <1>2, ContentsToOuterSound
  <2> HIDE DEF a
  <2>2. Sound(b) /\ AllNowhere(b, {o}) /\ b.carrying = a.carrying /\ b.equipment = a.equipment
    BY <1>1, <2>1, UnlinkedSound
  <2>3. world' = ExtractObj(b, {o})
    BY <1>2 DEF ExtractFromObj, a
  <2> HIDE DEF b
  <2>4. Sound(world') /\ world'.carrying = b.carrying /\ world'.equipment = b.equipment
    BY <2>2, <2>3, ExtractObjSound
  <2> QED
    BY <1>1, <2>1, <2>2, <2>4 DEF IInv, NothingKept, Worn
<1>3. ASSUME world.carried_by[o] # None,
             world' = ExtractObj(ObjFromChar(ContentsToRoom(world, o,
                          where[world.carried_by[o]]), {o}, world.carried_by[o]), {o})
      PROVE  IInv'
  <2> DEFINE c == world.carried_by[o]
             r == where[c]
             a == ContentsToRoom(world, o, r)
  <2>1. c \in Chars /\ o \in world.carrying[c]
    BY <1>1, <1>3 DEF Sound, World, ListsAgree
  <2>2. where[c] # None /\ r \in Rooms
    BY <2>1, <1>1 DEF IInv, NothingKept
  <2>3. world' = ExtractObj(ObjFromChar(a, {o}, c), {o})
    BY <1>3
  <2> HIDE DEF r
  <2>4. Sound(a) /\ a.carrying = world.carrying /\ a.equipment = world.equipment
    BY <1>1, <2>2, ContentsToRoomSound
  <2> HIDE DEF a, c
  <2> QED
    BY <1>1, <2>1, <2>2, <2>3, <2>4, UseUpStep
<1>4. ASSUME world.in_room[o] # None,
             world' = ExtractObj(ObjFromRoom(ContentsToRoom(world, o, world.in_room[o]),
                                             {o}, world.in_room[o]), {o})
      PROVE  IInv'
  <2> DEFINE r == world.in_room[o]
             a == ContentsToRoom(world, o, r)
             b == ObjFromRoom(a, {o}, r)
  <2>1. r \in Rooms /\ o \in world.contents[r]
    BY <1>1, <1>4 DEF Sound, World, ListsAgree
  <2>2. world' = ExtractObj(b, {o})
    BY <1>4
  <2> HIDE DEF r
  <2>3. Sound(a) /\ a.carrying = world.carrying /\ a.equipment = world.equipment
        /\ {o} \subseteq a.contents[r]
    BY <1>1, <2>1, ContentsToRoomSound
  <2> HIDE DEF a
  <2>4. /\ Sound(b) /\ AllNowhere(b, {o}) /\ b.contents = [a.contents EXCEPT ![r] = @ \ {o}]
        /\ b.carrying = a.carrying /\ b.equipment = a.equipment
    BY <2>1, <2>3, ObjFromRoomSound
  <2> HIDE DEF b
  <2>5. Sound(world') /\ world'.carrying = b.carrying /\ world'.equipment = b.equipment
    BY <2>2, <2>4, ExtractObjSound
  <2> QED
    BY <1>1, <2>3, <2>4, <2>5 DEF IInv, NothingKept, Worn
<1> QED
  BY <1>2, <1>3, <1>4 DEF CorpseDecays

LEMMA EnterStep ==
    ASSUME IInv, NEW c \in Chars, NEW r \in Rooms, Enter(c, r) \/ Move(c, r)
    PROVE  IInv'
<1>1. world' = world /\ where' = [where EXCEPT ![c] = r] /\ r # None
  BY ObjectsAssumption DEF Enter, Move
<1>2. \A x \in Chars : where'[x] = None => where[x] = None
  BY <1>1 DEF IInv
<1>3. NothingKept'
  BY <1>1, <1>2 DEF IInv, NothingKept, Worn
<1> QED
  BY <1>1, <1>3 DEF IInv

\* Who dies, at home or in the middle of an attack.
LEMMA Dies ==
    ASSUME IInv, NEW c \in Chars, where[c] # None, NEW o \in Corpses,
           NEW w, Sound(w), Same(world, w, Chars \ {c}), o \notin w.object_list,
           world' = MakeCorpse(w, c, o), where' = [where EXCEPT ![c] = None]
    PROVE  IInv'
<1> DEFINE m == MakeCorpse(w, c, o)
<1>1. where \in [Chars -> Rooms \cup {None}] /\ world' = m
  BY DEF IInv
<1>2. /\ Sound(m) /\ m.carrying = [w.carrying EXCEPT ![c] = {}]
      /\ m.equipment = [w.equipment EXCEPT ![c] = SetAll(@, Pos, None)]
  BY <1>1, MakeCorpseSound
<1> HIDE DEF m
<1>3. Same(world, m, Chars \ {c}) /\ m.carrying[c] = {}
  BY <1>2 DEF Same, Sound, World
<1>4. Bare(m, c)
  BY SMTT(30), <1>2, <1>3 DEF Bare, Worn, Sound, World, SetAll
<1>5. Sound(world') /\ Bare(world', c) /\ Same(world, world', Chars \ {c})
  BY <1>1, <1>2, <1>3, <1>4 DEF Bare, Worn, Same
<1> QED
  BY <1>5, Leaves

LEMMA ExtractCharStep ==
    ASSUME IInv, NEW c \in Chars, ExtractChar(c)
    PROVE  IInv'
<1> DEFINE r == where[c]
           S == world.carrying[c]
           W == Worn(world, c)
           a == ObjFromChar(world, S, c)
           b == ObjToRoom(a, S, r)
           d == CheckFallingObj(b, S, r)
           e == UnequipChar(d, c, Pos)
           f == ObjToRoom(e, W, r)
<1>1. r \in Rooms /\ S \subseteq world.carrying[c] /\ Sound(world)
  BY DEF ExtractChar, IInv
<1>2. world' = f /\ where' = [where EXCEPT ![c] = None]
  BY DEF ExtractChar
<1>3. /\ Sound(a) /\ AllNowhere(a, S) /\ a.carrying = [world.carrying EXCEPT ![c] = @ \ S]
      /\ Same(world, a, Chars \ {c}) /\ a.equipment = world.equipment
  BY <1>1, FromHands
<1>4. a.carrying[c] = {}
  BY <1>1, <1>3 DEF Sound, World
<1> HIDE DEF a, r, S
<1>5. /\ Sound(b) /\ b.contents = [a.contents EXCEPT ![r] = @ \cup S]
      /\ b.carrying = a.carrying /\ b.equipment = a.equipment
  BY <1>1, <1>3, ObjToRoomSound
<1> HIDE DEF b
<1>6. S \subseteq b.contents[r]
  <2>1. a.contents \in [Rooms -> SUBSET Objs]
    BY <1>3 DEF Sound, World
  <2> QED
    BY <1>1, <1>5, <2>1
<1>7. Sound(d) /\ d.carrying = b.carrying /\ d.equipment = b.equipment
  BY <1>1, <1>5, <1>6, CheckFallingObjSound
<1>8. W = Worn(d, c)
  BY <1>3, <1>5, <1>7 DEF Worn
<1> HIDE DEF d, W
<1>9. /\ Sound(e) /\ AllNowhere(e, W) /\ e.carrying = d.carrying
      /\ e.equipment = [d.equipment EXCEPT ![c] = SetAll(@, Pos, None)]
  BY <1>7, <1>8, AllTakenOff
<1>10. Bare(e, c) /\ Same(world, e, Chars \ {c})
  <2>1. e.carrying[c] = {}
    BY <1>4, <1>5, <1>7, <1>9
  <2>2. Bare(e, c)
    BY <1>7, <1>9, <2>1, Undressed
  <2>3. Same(world, e, Chars \ {c})
    BY <1>3, <1>5, <1>7, <1>9 DEF Same, Sound, World
  <2> QED
    BY <2>2, <2>3
<1> HIDE DEF e
<1>11. /\ Sound(f) /\ f.contents = [e.contents EXCEPT ![r] = @ \cup W]
       /\ f.carrying = e.carrying /\ f.equipment = e.equipment
  BY <1>1, <1>9, ObjToRoomSound
<1> HIDE DEF f
<1>12. Sound(world') /\ Bare(world', c) /\ Same(world, world', Chars \ {c})
  BY <1>2, <1>10, <1>11 DEF Bare, Worn, Same
<1> QED
  BY <1>2, <1>12, Leaves

LEMMA ExtractImmortalStep ==
    ASSUME IInv, NEW c \in Chars, ExtractImmortal(c)
    PROVE  IInv'
<1> DEFINE r == where[c]
           W == Worn(world, c)
           a == UnequipChar(world, c, Pos)
           floor == ObjToRoom(a, W, r)
           b == ObjToChar(a, W, c)
           all == world.carrying[c] \cup W
           d == ObjFromChar(b, all, c)
           e == ExtractObj(d, all)
<1>1. r \in Rooms /\ Sound(world)
  BY DEF ExtractImmortal, IInv
<1>2. /\ where' = [where EXCEPT ![c] = None]
      /\ world' = IF world.carrying[c] = {} THEN floor ELSE e
  BY DEF ExtractImmortal
<1>4. /\ Sound(a) /\ AllNowhere(a, W) /\ Same(world, a, Chars \ {c})
      /\ a.carrying = world.carrying
      /\ a.equipment = [world.equipment EXCEPT ![c] = SetAll(@, Pos, None)]
  <2>1. Sound(a) /\ AllNowhere(a, W) /\ a.carrying = world.carrying
        /\ a.equipment = [world.equipment EXCEPT ![c] = SetAll(@, Pos, None)]
    BY <1>1, AllTakenOff
  <2> HIDE DEF a
  <2> QED
    BY <1>1, <2>1 DEF Same, Sound, World
<1>5. ASSUME NEW v, v.carrying[c] = {}, v.equipment = a.equipment PROVE Bare(v, c)
  BY <1>1, <1>4, <1>5, Undressed
<1> HIDE DEF a, r, W
<1>6. CASE world.carrying[c] = {}
  <2>1. /\ Sound(floor) /\ floor.contents = [a.contents EXCEPT ![r] = @ \cup W]
        /\ floor.carrying = a.carrying /\ floor.equipment = a.equipment
    BY <1>1, <1>4, ObjToRoomSound
  <2>2. world' = floor
    BY <1>2, <1>6
  <2> HIDE DEF floor
  <2>3. Bare(world', c) /\ Same(world, world', Chars \ {c})
    BY <1>4, <1>5, <1>6, <2>1, <2>2 DEF Same
  <2> QED
    BY <1>2, <2>1, <2>2, <2>3, Leaves
<1>7. CASE world.carrying[c] # {}
  <2>1. /\ Sound(b) /\ b.carrying = [a.carrying EXCEPT ![c] = @ \cup W]
        /\ b.equipment = a.equipment
    BY <1>4, ObjToCharSound
  <2>2. b.carrying[c] = all
    BY <1>4, <2>1 DEF Sound, World
  <2> HIDE DEF b, all
  <2>8. all \subseteq b.carrying[c]
    BY <2>2
  <2>3. /\ Sound(d)
        /\ AllNowhere(d, all)
        /\ d.object_list = b.object_list
        /\ d.contents = b.contents
        /\ d.carrying = [b.carrying EXCEPT ![c] = @ \ all]
        /\ d.equipment = b.equipment
        /\ d.contains = b.contains
        /\ d.in_obj = b.in_obj
        /\ \A x \in Objs \ all : Nowhere(b, x) => Nowhere(d, x)
    BY <2>1, <2>8, ObjFromCharSound
  <2>4. d.carrying[c] = {} /\ Same(world, d, Chars \ {c})
    BY <1>4, <2>1, <2>2, <2>3 DEF Same, Sound, World
  <2> HIDE DEF d
  <2>5. Sound(e) /\ e.carrying = d.carrying /\ e.equipment = d.equipment
    BY <2>3, ExtractObjSound
  <2>6. world' = e
    BY <1>2, <1>7
  <2> HIDE DEF e
  <2>7. Bare(world', c) /\ Same(world, world', Chars \ {c})
    BY <1>5, <2>1, <2>3, <2>4, <2>5, <2>6 DEF Same
  <2> QED
    BY <1>2, <2>5, <2>6, <2>7, Leaves
<1> QED
  BY <1>6, <1>7

LEMMA FirstAttackStep ==
    ASSUME IInv, NEW c \in Chars, FirstAttack(c)
    PROVE  IInv'
<1> DEFINE w == UnequipChar(world, c, {"HOLD"})
           off == world.equipment[c]["HOLD"]
<1>1. where[c] # None /\ off # None /\ "HOLD" \in Pos
  BY DEF FirstAttack, DualWield, Wears, Equipment, Pos
<1>2. /\ Sound(w) /\ w.object_list = world.object_list
      /\ Same(world, w, Chars \ {c})
  BY <1>1, TakenOff
<1>3. CASE where' = where /\ world' = EquipChar(w, c, off, "HOLD", TRUE)
  <2>1. world' = ObjToRoom(w, {world.equipment[c][p] : p \in {"HOLD"}}, where[c])
    BY <1>3 DEF EquipChar
  <2> HIDE DEF w
  <2>2. {"HOLD"} \in SUBSET Pos /\ \A p \in {"HOLD"} : world.equipment[c][p] # None
    BY <1>1
  <2> QED
    BY <1>1, <1>3, <2>1, <2>2, ToFloor DEF w
<1>4. ASSUME NEW o \in Corpses, Unused(o), world' = MakeCorpse(w, c, o),
             where' = [where EXCEPT ![c] = None]
      PROVE  IInv'
  <2>1. o \notin w.object_list
    BY <1>2, <1>4 DEF Unused
  <2> HIDE DEF w
  <2> QED
    BY <1>1, <1>2, <1>4, <2>1, Dies
<1> QED
  BY <1>3, <1>4 DEF FirstAttack, Equipment

LEMMA SecondAttackStep ==
    ASSUME IInv, NEW c \in Chars, SecondAttack(c)
    PROVE  IInv'
<1> DEFINE r == where[c]
           main == world.equipment[c]["WIELD"]
           off == world.equipment[c]["HOLD"]
           P == {"WIELD", "HOLD"}
           bare == UnequipChar(world, c, P)
           w == PutOn(bare, c, off, "WIELD")
<1>1. /\ r \in Rooms /\ where[c] # None /\ off # None /\ main # None
      /\ "HOLD" \in Pos /\ "WIELD" \in Pos /\ P \in SUBSET Pos
  BY DEF SecondAttack, DualWield, Wears, Equipment, Pos, IInv
<1>2. off # main
  BY <1>1, WornOnce DEF IInv
<1>3. /\ Sound(bare) /\ AllNowhere(bare, {off}) /\ AllNowhere(bare, {main})
      /\ bare.equipment = [world.equipment EXCEPT ![c] = SetAll(@, P, None)]
      /\ bare.object_list = world.object_list /\ Same(world, bare, Chars \ {c})
      /\ bare.carrying = world.carrying
  BY <1>1, TakenOff
<1>4. bare.equipment[c]["WIELD"] = None /\ bare.equipment[c]["HOLD"] = None
  BY <1>1, <1>3 DEF IInv, Sound, World, SetAll
<1>5. off \in Objs /\ main \in Objs
  BY <1>1 DEF IInv, Sound, World
<1>6. \/ /\ where' = where
         /\ \E r1, r2 \in BOOLEAN :
               world' = LET a == IF r1 THEN ObjToRoom(bare, {off}, r) ELSE PutOn(bare, c, off, "HOLD")
                        IN IF r2 THEN ObjToRoom(a, {main}, r) ELSE PutOn(a, c, main, "WIELD")
      \/ /\ where' = where
         /\ \E t \in Scraps : Unused(t) /\ world' = MakeScrap(UnequipChar(w, c, {"WIELD"}), off, t, r)
      \/ /\ where' = [where EXCEPT ![c] = None]
         /\ \E o \in Corpses : Unused(o) /\ world' = MakeCorpse(w, c, o)
  BY DEF SecondAttack, Equipment, EquipChar
<1> HIDE DEF bare, off, main, r
<1>7. /\ Sound(w)
      /\ w.object_list = bare.object_list
      /\ w.carrying = bare.carrying
      /\ w.equipment = [bare.equipment EXCEPT ![c]["WIELD"] = off]
      /\ w.in_obj = bare.in_obj
      /\ \A x \in Objs \ {off} : Nowhere(bare, x) => Nowhere(w, x)
  BY <1>1, <1>3, <1>4, <1>5, WearSound
<1> HIDE DEF w
<1>8. Same(world, w, Chars \ {c}) /\ w.equipment[c]["WIELD"] = off
  BY <1>1, <1>3, <1>7 DEF Same, Sound, World
<1>9. ASSUME NEW r1 \in BOOLEAN, NEW r2 \in BOOLEAN, where' = where,
             world' = LET a == IF r1 THEN ObjToRoom(bare, {off}, r) ELSE PutOn(bare, c, off, "HOLD")
                      IN IF r2 THEN ObjToRoom(a, {main}, r) ELSE PutOn(a, c, main, "WIELD")
      PROVE  IInv'
  <2> DEFINE a == IF r1 THEN ObjToRoom(bare, {off}, r) ELSE PutOn(bare, c, off, "HOLD")
             T == {off}
  <2>1. Sound(a) /\ AllNowhere(a, {main}) /\ Same(world, a, Chars \ {c})
        /\ a.equipment[c]["WIELD"] = None
    <3>1. CASE r1
      <4>1. a = ObjToRoom(bare, T, r)
        BY <3>1
      <4>2. main \in Objs \ T
        BY <1>2, <1>5
      <4>4. AllNowhere(bare, T)
        BY <1>3
      <4> HIDE DEF a, T
      <4>3. /\ Sound(a) /\ a.object_list = bare.object_list /\ a.carrying = bare.carrying
            /\ a.contents = [bare.contents EXCEPT ![r] = @ \cup T]
            /\ a.equipment = bare.equipment
            /\ Nowhere(bare, main) => Nowhere(a, main)
        BY <1>1, <1>3, <4>1, <4>2, <4>4, ObjToRoomSound
      <4>5. AllNowhere(a, {main})
        BY <1>3, <4>3 DEF AllNowhere
      <4>6. Same(world, a, Chars \ {c})
        BY <1>3, <4>3 DEF Same
      <4> QED
        BY <1>4, <4>3, <4>5, <4>6
    <3>2. CASE ~r1
      <4> DEFINE e == PutOn(bare, c, off, "HOLD")
      <4>1. a = e
        BY <3>2
      <4>2. main \in Objs \ {off}
        BY <1>2, <1>5
      <4>3. /\ Sound(e)
            /\ e.object_list = bare.object_list
            /\ e.carrying = bare.carrying
            /\ e.equipment = [bare.equipment EXCEPT ![c]["HOLD"] = off]
            /\ e.in_obj = bare.in_obj
            /\ \A x \in Objs \ {off} : Nowhere(bare, x) => Nowhere(e, x)
        BY <1>1, <1>3, <1>4, <1>5, WearSound
      <4> HIDE DEF a, e, T
      <4>4. e.equipment[c]["WIELD"] = None /\ Same(bare, e, Chars \ {c})
        BY <1>1, <1>3, <1>4, <4>3 DEF Sound, World, Same
      <4>5. AllNowhere(e, {main})
        BY <1>3, <4>2, <4>3 DEF AllNowhere
      <4> QED
        BY <1>3, <4>1, <4>3, <4>4, <4>5 DEF Same
    <3> QED
      BY <3>1, <3>2
  <2> HIDE DEF a
  <2>2. Sound(world') /\ Same(world, world', Chars \ {c})
    <3>1. CASE r2
      <4> DEFINE U == {main}
                 b == ObjToRoom(a, U, r)
      <4>1. world' = b
        BY <1>9, <3>1 DEF a
      <4>2. AllNowhere(a, U)
        BY <2>1
      <4> HIDE DEF U
      <4>3. /\ Sound(b) /\ b.contents = [a.contents EXCEPT ![r] = @ \cup U]
            /\ b.carrying = a.carrying /\ b.equipment = a.equipment
        BY <1>1, <2>1, <4>2, ObjToRoomSound
      <4> HIDE DEF b
      <4> QED
        BY <2>1, <4>1, <4>3 DEF Same
    <3>2. CASE ~r2
      <4> DEFINE b == PutOn(a, c, main, "WIELD")
      <4>1. world' = b
        BY <1>9, <3>2 DEF a
      <4>2. /\ Sound(b)
            /\ b.object_list = a.object_list
            /\ b.carrying = a.carrying
            /\ b.equipment = [a.equipment EXCEPT ![c]["WIELD"] = main]
            /\ b.in_obj = a.in_obj
            /\ \A x \in Objs \ {main} : Nowhere(a, x) => Nowhere(b, x)
        BY <1>1, <1>5, <2>1, WearSound
      <4> HIDE DEF b
      <4> QED
        BY <2>1, <4>1, <4>2 DEF Same, Sound, World
    <3> QED
      BY <3>1, <3>2
  <2> QED
    BY <1>1, <1>9, <2>2, Stays
<1>10. ASSUME NEW t \in Scraps, Unused(t), where' = where,
              world' = MakeScrap(UnequipChar(w, c, {"WIELD"}), off, t, r)
       PROVE  IInv'
  <2> DEFINE p == "WIELD"
             a == UnequipChar(w, c, {p})
  <2>5. p \in Pos /\ w.equipment[c][p] = off /\ w.equipment[c][p] # None
    BY <1>1, <1>8
  <2>7. world' = MakeScrap(a, off, t, r)
    BY <1>10
  <2> HIDE DEF p
  <2>6. /\ Sound(a) /\ AllNowhere(a, {w.equipment[c][p]})
        /\ a.object_list = w.object_list
        /\ Same(w, a, Chars \ {c})
    BY <1>1, <1>7, <2>5, TakenOffOne
  <2>1. /\ Sound(a) /\ AllNowhere(a, {off})
        /\ a.object_list = w.object_list
        /\ Same(w, a, Chars \ {c})
    BY <2>5, <2>6
  <2> HIDE DEF a
  <2>2. t \in Objs /\ t \notin a.object_list
    BY <1>3, <1>7, <1>10, <2>1, ObjectsAssumption DEF Unused
  <2>3. Sound(world') /\ world'.carrying = a.carrying /\ world'.equipment = a.equipment
    BY <1>1, <2>1, <2>2, <2>7, MakeScrapSound
  <2>4. Same(world, world', Chars \ {c})
    BY <1>8, <2>1, <2>3 DEF Same
  <2> QED
    BY <1>1, <1>10, <2>3, <2>4, Stays
<1>11. ASSUME NEW o \in Corpses, Unused(o), world' = MakeCorpse(w, c, o),
              where' = [where EXCEPT ![c] = None]
       PROVE  IInv'
  <2>1. o \notin w.object_list
    BY <1>3, <1>7, <1>11 DEF Unused
  <2> QED
    BY <1>1, <1>7, <1>8, <1>11, <2>1, Dies
<1> QED
  BY <1>6, <1>9, <1>10, <1>11

LEMMA CommandsStep ==
    ASSUME IInv, NEW c \in Chars, Commands(c)
    PROVE  IInv'
<1>1. ASSUME NEW o \in Objs,
             Get(c, o) \/ DoDrop(c, o) \/ ThrowAway(c, o) \/ UseUp(c, o)
      PROVE  IInv'
  <2>1. CASE UseUp(c, o)
    BY <2>1, UseUpStep DEF UseUp, IInv
  <2> QED
    BY <1>1, <2>1, GetStep, DoDropStep, ThrowAwayStep
<1>2. ASSUME NEW o \in Objs, NEW d \in Containers, GetFrom(c, o, d) \/ DoPut(c, o, d)
      PROVE  IInv'
  BY <1>2, GetFromStep, DoPutStep
<1>3. ASSUME NEW o \in Objs, NEW v \in Chars, DoGive(c, v, o) \/ Steal(c, v, o)
      PROVE  IInv'
  <2>1. CASE DoGive(c, v, o)
    BY <2>1, HandOver DEF DoGive
  <2>2. CASE Steal(c, v, o)
    BY <2>2, HandOver DEF Steal
  <2> QED
    BY <1>3, <2>1, <2>2
<1>4. ASSUME NEW o \in Objs, NEW p \in Pos, Wear(c, o, p)
      PROVE  IInv'
  BY <1>4, WearStep
<1>5. ASSUME NEW p \in Pos, DoRemove(c, p)
      PROVE  IInv'
  BY <1>5, ToHands DEF DoRemove, Wears, Equipment
<1>6. ASSUME NEW p \in Pos, NEW v \in Chars, StealWorn(c, v, p)
      PROVE  IInv'
  BY <1>6, ToHands DEF StealWorn, Wears, Equipment
<1>7. ASSUME NEW o \in Drinks, NEW amount \in 1..2,
             DoDrink(c, o, amount) \/ \E d \in Drinks \cup {None} : DoPour(c, o, d, amount)
      PROVE  IInv'
  BY <1>7, DoDrinkStep, DoPourStep
<1> QED
  BY <1>1, <1>2, <1>3, <1>4, <1>5, <1>6, <1>7 DEF Commands

LEMMA FightsStep ==
    ASSUME IInv, NEW c \in Chars, Fights(c)
    PROVE  IInv'
<1>1. CASE Disarm(c)
  <2>1. {Equipment(c, "WIELD")} = {world.equipment[c][p] : p \in {"WIELD"}}
        /\ {"WIELD"} \in SUBSET Pos
    BY DEF Equipment, Pos
  <2>2. /\ where[c] # None /\ where' = where
        /\ \A p \in {"WIELD"} : world.equipment[c][p] # None
        /\ world' = ObjToRoom(UnequipChar(world, c, {"WIELD"}),
                              {world.equipment[c][p] : p \in {"WIELD"}}, where[c])
    BY <1>1, <2>1 DEF Disarm, Wears, Equipment
  <2> QED
    BY <2>1, <2>2, ToFloor
<1>2. CASE Fumble(c)
  <2>1. PICK P \in {{"HOLD"}, {"HOLD", "WIELD"}} :
            world' = ObjToRoom(UnequipChar(world, c, P), {Equipment(c, p) : p \in P}, where[c])
    BY <1>2 DEF Fumble
  <2>2. P \in SUBSET Pos
    BY DEF Pos
  <2>3. /\ where[c] # None /\ where' = where
        /\ \A p \in P : world.equipment[c][p] # None
    BY <1>2, <2>1 DEF Fumble, DualWield, Wears, Equipment
  <2>4. world' = ObjToRoom(UnequipChar(world, c, P), {world.equipment[c][p] : p \in P}, where[c])
    BY <2>1 DEF Equipment
  <2> QED
    BY <2>2, <2>3, <2>4, ToFloor
<1> QED
  BY <1>1, <1>2, FirstAttackStep, SecondAttackStep, DestroyCarriedStep, DestroyWornStep
     DEF Fights

LEMMA ComeAndGoStep ==
    ASSUME IInv, NEW c \in Chars, ComeAndGo(c)
    PROVE  IInv'
<1>1. ASSUME NEW o \in Corpses, RawKill(c, o)
      PROVE  IInv'
  <2>1. Sound(world) /\ Same(world, world, Chars \ {c})
    BY DEF IInv, Same
  <2> QED
    BY <1>1, <2>1, Dies DEF RawKill, Unused
<1> QED
  BY <1>1, EnterStep, ExtractCharStep, ExtractImmortalStep DEF ComeAndGo

LEMMA NextStep ==
    ASSUME IInv, [Next]_vars
    PROVE  IInv'
<1>1. CASE Next
  BY <1>1, LoadToRoomStep, LoadToCharStep, CommandsStep, FightsStep, ComeAndGoStep,
     CorpseDecaysStep DEF Next, Load
<1>2. CASE UNCHANGED vars
  BY <1>2 DEF vars, IInv, NothingKept, Worn
<1> QED
  BY <1>1, <1>2

LEMMA InitSound ==
    ASSUME Init
    PROVE  IInv
<1>1. /\ None \notin Objs \cup Chars \cup Rooms \cup Pos
      /\ Containers \subseteq Objs
  BY ObjectsAssumption
<1>2. World(world)
  BY DEF Init, World, Fields
<1>3. ListsAgree(world) /\ AtMostOnePlace(world)
  BY <1>1 DEF Init, ListsAgree, AtMostOnePlace, Nowhere
<1>4. NoCycle(world)
  <2>1. \A c \in Containers : world.in_obj[c] = None
    BY <1>1 DEF Init
  <2> QED
    BY <1>1, <2>1 DEF NoCycle
<1>5. where \in [Chars -> Rooms \cup {None}] /\ NothingKept
  BY DEF Init, NothingKept, Worn
<1> QED
  BY <1>2, <1>3, <1>4, <1>5 DEF IInv, Sound

\* Whatever is in the world and whatever happens to it, lists and pointers
\* agree, no object is in two places, and no container in itself.
THEOREM PlacesAlwaysAgree == Spec => []PlacesAgree
<1>1. IInv => PlacesAgree
  BY DEF IInv, Sound, PlacesAgree
<1> QED
  BY <1>1, InitSound, NextStep, PTL DEF Spec

\* Whoever leaves the game, alive, dead or in the middle of an attack, has
\* nothing on the body that is freed.
THEOREM NothingEverKept == Spec => []NothingKept
<1>1. IInv => NothingKept
  BY DEF IInv
<1> QED
  BY <1>1, InitSound, NextStep, PTL DEF Spec

-----------------------------------------------------------------------------
(* Hands.  An action other than wear leaves on every body what was there,  *)
(* as heavy as it was, or takes it off.                                    *)

Unworn(w, x) == \A c \in Chars, p \in Pos : w.equipment[c][p] # x

Dressed(w) ==
    /\ DOMAIN w = Fields
    /\ w.equipment \in [Chars -> [Pos -> Objs \cup {None}]]
    /\ DOMAIN w.weight = Objs

Kept(w, v) ==
    /\ Dressed(v)
    /\ \A c \in Chars, p \in Pos : v.equipment[c][p] \in {w.equipment[c][p], None}
    /\ \A x \in Objs : v.weight[x] = w.weight[x] \/ Unworn(v, x)

\* Moving an object from one place to another, but for the body.
LEMMA KeptMoved ==
    ASSUME NEW w, NEW u, Kept(w, u), NEW S, NEW c, NEW r
    PROVE  /\ Kept(w, ObjToChar(u, S, c)) /\ Kept(w, ObjFromChar(u, S, c))
           /\ Kept(w, ObjToRoom(u, S, r)) /\ Kept(w, ObjFromRoom(u, S, r))
           /\ Kept(w, CheckFallingObj(u, S, r)) /\ Kept(w, ReadObject(u, c))
           /\ Kept(w, Emptied(u, c)) /\ Kept(w, Unlinked(u, c))
<1> DEFINE Plain(a, v) == DOMAIN v = Fields /\ v.equipment = a.equipment /\ v.weight = a.weight
<1>1. ASSUME NEW a, NEW v, Kept(w, a), Plain(a, v)
      PROVE  Kept(w, v)
  BY <1>1 DEF Kept, Dressed, Unworn
<1>2. ASSUME NEW a, DOMAIN a = Fields
      PROVE  /\ Plain(a, ObjToChar(a, S, c)) /\ Plain(a, ObjFromChar(a, S, c))
             /\ Plain(a, ReadObject(a, c)) /\ Plain(a, Emptied(a, c)) /\ Plain(a, Unlinked(a, c))
  BY <1>2 DEF Fields, ObjToChar, ObjFromChar, ReadObject, Emptied, Unlinked
<1>3. ASSUME NEW a, DOMAIN a = Fields, NEW k
      PROVE  Plain(a, ObjToRoom(a, S, k)) /\ Plain(a, ObjFromRoom(a, S, k))
  BY <1>3 DEF Fields, ObjToRoom, ObjFromRoom
<1>4. DOMAIN u = Fields
  BY DEF Kept, Dressed
<1>5. Plain(u, CheckFallingObj(u, S, r))
  <2> DEFINE v == ObjFromRoom(u, S, r)
  <2>1. Plain(u, v)
    BY <1>3, <1>4
  <2> HIDE DEF v
  <2>2. Plain(v, ObjToRoom(v, S, Below[r]))
    BY <1>3, <2>1
  <2> QED
    BY <1>4, <2>1, <2>2 DEF CheckFallingObj, v
<1> HIDE DEF Plain
<1> QED
  BY <1>1, <1>2, <1>3, <1>4, <1>5

\* Taking things off.
LEMMA KeptOff ==
    ASSUME NEW w, NEW u, Kept(w, u), NEW c \in Chars, NEW P
    PROVE  Kept(w, UnequipChar(u, c, P))
<1> DEFINE v == UnequipChar(u, c, P)
<1>1. DOMAIN v = Fields /\ v.equipment = [u.equipment EXCEPT ![c] = SetAll(@, P, None)]
      /\ v.weight = u.weight
  BY DEF Kept, Dressed, Fields, UnequipChar
<1> HIDE DEF v
<1>2. \A d \in Chars, p \in Pos : v.equipment[d][p] \in {u.equipment[d][p], None}
  BY <1>1 DEF Kept, Dressed, SetAll
<1>3. v.equipment \in [Chars -> [Pos -> Objs \cup {None}]]
  BY <1>1 DEF Kept, Dressed, SetAll
<1>4. \A x \in Objs : Unworn(u, x) => Unworn(v, x)
  BY <1>1, <1>2, ObjectsAssumption DEF Unworn
<1>5. \A d \in Chars, p \in Pos : v.equipment[d][p] \in {w.equipment[d][p], None}
  BY <1>2 DEF Kept
<1> QED
  BY <1>1, <1>3, <1>4, <1>5 DEF Kept, Dressed, v

\* A change of the weight of what nobody wears.
LEMMA KeptHeavier ==
    ASSUME NEW w, NEW u, Kept(w, u), NEW v, DOMAIN v = Fields, v.equipment = u.equipment,
           DOMAIN v.weight = Objs,
           \A x \in Objs : v.weight[x] = u.weight[x] \/ Unworn(u, x)
    PROVE  Kept(w, v)
  BY DEF Kept, Dressed, Unworn

\* What is somewhere else is not worn, and what is not in the world neither.
LEMMA NotWorn ==
    ASSUME NEW w, Sound(w), NEW x \in Objs,
           \/ x \notin w.object_list \/ w.in_room[x] # None
           \/ w.carried_by[x] # None \/ w.in_obj[x] # None
    PROVE  Unworn(w, x)
  BY ObjectsAssumption DEF Sound, World, ListsAgree, AtMostOnePlace, Nowhere, Unworn

\* What was not worn is not worn after something is taken off.
LEMMA StillUnworn ==
    ASSUME NEW w, NEW v, Kept(w, v), NEW x \in Objs, Unworn(w, x)
    PROVE  Unworn(v, x)
  BY ObjectsAssumption DEF Kept, Unworn

\* What is extracted is not worn, since it is nowhere afterwards.
LEMMA KeptExtracted ==
    ASSUME NEW w, NEW u, Kept(w, u), NEW S, Sound(ExtractObj(u, S))
    PROVE  Kept(w, ExtractObj(u, S))
<1> DEFINE v == ExtractObj(u, S)
           T == S \cup Inside(u, S)
<1>1. /\ DOMAIN v = Fields /\ v.equipment = u.equipment
      /\ v.object_list = u.object_list \ T
      /\ v.weight = [o \in Objs |-> IF o \in T THEN Weight[o] ELSE u.weight[o]]
  BY DEF ExtractObj, FreeObj, Kept, Dressed, Fields
<1> HIDE DEF v, T
<1>2. \A x \in Objs : v.weight[x] = u.weight[x] \/ x \notin v.object_list
  BY <1>1
<1>3. \A x \in Objs : x \notin v.object_list => Unworn(v, x)
  BY NotWorn DEF v
<1>4. \A x \in Objs : Unworn(v, x) => Unworn(u, x)
  BY <1>1 DEF Unworn
<1>5. DOMAIN v.weight = Objs
  BY <1>1
<1> QED
  BY <1>1, <1>2, <1>3, <1>4, <1>5, KeptHeavier DEF v

LEMMA KeptSelf ==
    ASSUME NEW w, Dressed(w)
    PROVE  Kept(w, w)
  BY DEF Kept, Dressed

\* What the invariant says of the actions' starting point.
HandsInv == IInv /\ DOMAIN world.weight = Objs /\ TwoHands

LEMMA KeptHands ==
    ASSUME HandsInv, Kept(world, world')
    PROVE  DOMAIN world'.weight = Objs /\ TwoHands'
<1>1. ASSUME NEW c \in Chars
      PROVE  /\ \A p \in Pos : Wears(c, p)' => Wears(c, p) /\ Equipment(c, p)' = Equipment(c, p)
             /\ Wears(c, "WIELD")' => TwoHanded(Equipment(c, "WIELD"))' = TwoHanded(Equipment(c, "WIELD"))
  <2>1. \A p \in Pos : Wears(c, p)' => Wears(c, p) /\ Equipment(c, p)' = Equipment(c, p)
    BY <1>1 DEF Kept, Wears, Equipment
  <2>2. ASSUME Wears(c, "WIELD")'
        PROVE  world'.weight[Equipment(c, "WIELD")'] = world.weight[Equipment(c, "WIELD")]
    <3>1. world'.equipment[c]["WIELD"] \in Objs /\ "WIELD" \in Pos
      BY <1>1, <2>2 DEF Kept, Dressed, Wears, Equipment, Pos
    <3>2. ~Unworn(world', world'.equipment[c]["WIELD"])
      BY <1>1, <3>1 DEF Unworn
    <3> QED
      BY <2>1, <2>2, <3>1, <3>2 DEF Kept, Equipment
  <2> QED
    BY <2>1, <2>2 DEF TwoHanded
<1>2. {"WEAR_LIGHT", "WEAR_SHIELD", "WIELD", "HOLD"} = Pos
  BY DEF Pos
<1>3. TwoHands'
  BY <1>1, <1>2 DEF HandsInv, TwoHands
<1> QED
  BY <1>3 DEF Kept, Dressed

LEMMA Start ==
    ASSUME HandsInv
    PROVE  Kept(world, world) /\ Sound(world) /\ None \notin Objs \cup Chars \cup Rooms \cup Pos
  BY KeptSelf, ObjectsAssumption DEF HandsInv, IInv, Sound, World, Dressed

LEMMA LoadKept ==
    ASSUME HandsInv, NEW o \in Objs, NEW r, LoadToRoom(o, r) \/ LoadToChar(o, r)
    PROVE  Kept(world, world')
<1> DEFINE a == ReadObject(world, o)
<1>1. Kept(world, a)
  BY Start, KeptMoved
<1>2. world' = ObjToRoom(a, {o}, r) \/ world' = ObjToChar(a, {o}, r)
  BY DEF LoadToRoom, LoadToChar
<1> HIDE DEF a
<1> QED
  BY <1>1, <1>2, KeptMoved

LEMMA HandsKept ==
    ASSUME HandsInv, NEW c \in Chars, NEW v \in Chars, NEW o \in Objs,
           \/ Get(c, o) \/ DoDrop(c, o) \/ ThrowAway(c, o)
           \/ DoGive(c, v, o) \/ Steal(c, v, o)
    PROVE  Kept(world, world')
<1> DEFINE r == where[c]
           a == ObjFromRoom(world, {o}, r)
           b == ObjFromChar(world, {o}, c)
           d == ObjFromChar(world, {o}, v)
           e == ObjToRoom(b, {o}, r)
<1>1. Kept(world, a) /\ Kept(world, b) /\ Kept(world, d)
  BY Start, KeptMoved
<1>2. \/ world' = ObjToChar(a, {o}, c) \/ world' = CheckFallingObj(e, {o}, r)
      \/ world' = e \/ world' = ObjToChar(b, {o}, v) \/ world' = ObjToChar(d, {o}, c)
  BY DEF Get, DoDrop, ThrowAway, DoGive, Steal
<1>3. Kept(world, e)
  <2> HIDE DEF b
  <2> QED
    BY <1>1, KeptMoved
<1> HIDE DEF a, b, d, e, r
<1> QED
  BY <1>1, <1>2, <1>3, KeptMoved

\* Nothing is around a container that lies in a room or in somebody's hands.
LEMMA OneAround ==
    ASSUME NEW v, NEW o, NEW d \in Containers, v.in_obj \in [Objs -> Containers \cup {None}],
           \A x, y \in Objs : x \in v.contains[y] <=> v.in_obj[x] = y,
           o \in Objs, v.in_obj[o] = d, v.in_obj[d] = None
    PROVE  Around(v, o) \subseteq {d}
<1>0. Containers \subseteq Objs /\ None \notin Objs
  BY ObjectsAssumption
<1>1. SUFFICES ASSUME NEW c \in Containers, c # d, o \in Inside(v, {c})
               PROVE  FALSE
  BY DEF Around
<1> DEFINE D == Containers \ {d}
<1>2. {c} \cap Containers \subseteq D /\ \A e \in D : v.contains[e] \cap Containers \subseteq D
  BY <1>0, <1>1
<1>3. D \in SUBSET Containers
  OBVIOUS
<1>4. PICK e \in D : o \in v.contains[e]
  BY <1>1, <1>2, <1>3 DEF Inside
<1> QED
  BY <1>0, <1>4

LEMMA GetFromKept ==
    ASSUME HandsInv, NEW c \in Chars, NEW o \in Objs, NEW d \in Containers, GetFrom(c, o, d)
    PROVE  Kept(world, world')
<1> DEFINE a == ObjFromObj(world, o)
<1>0. Containers \subseteq Objs
  BY ObjectsAssumption
<1>1. world.in_obj[o] = d /\ Unworn(world, d) /\ world.in_obj[d] = None
  <2>1. world.carried_by[d] = c \/ world.in_room[d] = where[c]
    BY Start, <1>0 DEF GetFrom, Accessible, HandsInv, IInv, Sound, ListsAgree
  <2>2. world.carried_by[d] # None \/ world.in_room[d] # None
    BY <2>1, Start DEF GetFrom
  <2>3. Unworn(world, d) /\ world.in_obj[d] = None
    BY <1>0, <2>2, Start, NotWorn DEF Sound, AtMostOnePlace
  <2> QED
    BY <1>0, <2>3, Start DEF GetFrom, Sound, ListsAgree
<1>2. Around(world, o) \subseteq {d}
  BY <1>1, Start, OneAround DEF Sound, World, ListsAgree
<1>3. /\ DOMAIN a = Fields /\ a.equipment = world.equipment
      /\ a.weight = [x \in Objs |-> IF x \in Around(world, o) THEN Less(world.weight[x], world.weight[o])
                                    ELSE world.weight[x]]
  BY Start DEF ObjFromObj, Kept, Dressed, Fields
<1>4. world' = ObjToChar(a, {o}, c)
  BY DEF GetFrom
<1> HIDE DEF a
<1>5. DOMAIN a.weight = Objs /\ \A x \in Objs : a.weight[x] = world.weight[x] \/ Unworn(world, x)
  BY <1>1, <1>2, <1>3
<1>6. Kept(world, a)
  BY <1>3, <1>5, Start, KeptHeavier
<1> QED
  BY <1>4, <1>6, KeptMoved

LEMMA DoPutKept ==
    ASSUME HandsInv, NEW c \in Chars, NEW o \in Objs, NEW d \in Containers, DoPut(c, o, d)
    PROVE  Kept(world, world')
<1> DEFINE a == ObjFromChar(world, {o}, c)
           v == [a EXCEPT !.contains[d] = @ \cup {o}, !.in_obj[o] = d,
                          !.carried_by[o] = None, !.equipped_by[o] = None]
<1>0. Containers \subseteq Objs
  BY ObjectsAssumption
<1>1. /\ {o} \subseteq world.carrying[c] /\ o # d /\ world' = ObjToObj(a, o, d)
      /\ where[c] # None
  BY DEF DoPut
<1>2. Unworn(world, d) /\ world.in_obj[d] = None
  <2>1. world.carried_by[d] = c \/ world.in_room[d] = where[c]
    BY Start, <1>0 DEF DoPut, Accessible, HandsInv, IInv, Sound, ListsAgree
  <2>2. world.carried_by[d] # None \/ world.in_room[d] # None
    BY <1>1, <2>1, Start
  <2> QED
    BY <1>0, <2>2, Start, NotWorn DEF Sound, AtMostOnePlace
<1>3. /\ Sound(a) /\ AllNowhere(a, {o}) /\ a.in_obj = world.in_obj /\ a.contains = world.contains
  BY ZenonT(60), <1>1, Start, ObjFromCharSound
<1>4. Kept(world, a)
  BY Start, KeptMoved
<1>5. Unworn(a, d)
  BY <1>0, <1>2, <1>4, StillUnworn
<1> HIDE DEF a
<1>6. DOMAIN a = Fields /\ a.contains \in [Objs -> SUBSET Objs]
      /\ a.in_obj \in [Objs -> Containers \cup {None}] /\ a.in_obj[o] = None
  BY <1>3 DEF Sound, World, AllNowhere, Nowhere
<1>7. /\ v.contains = [a.contains EXCEPT ![d] = @ \cup {o}]
      /\ v.in_obj = [a.in_obj EXCEPT ![o] = d]
      /\ v.equipment = a.equipment /\ v.weight = a.weight /\ DOMAIN v = Fields
  BY <1>6 DEF Fields
<1>8. /\ world'.equipment = v.equipment /\ DOMAIN world' = Fields
      /\ world'.weight = [x \in Objs |-> IF x \in Around(v, o) THEN v.weight[x] + a.weight[o]
                                         ELSE v.weight[x]]
  BY <1>1, <1>7 DEF ObjToObj, Fields
<1> HIDE DEF v
<1>9. Around(v, o) \subseteq {d}
  <2>1. v.in_obj \in [Objs -> Containers \cup {None}] /\ v.in_obj[o] = d /\ v.in_obj[d] = None
    BY <1>0, <1>1, <1>2, <1>3, <1>6, <1>7
  <2>2. \A x, y \in Objs : x \in v.contains[y] <=> v.in_obj[x] = y
    <3>1. \A x, y \in Objs : x \in a.contains[y] <=> a.in_obj[x] = y
      BY <1>3 DEF Sound, ListsAgree
    <3> QED
      BY <1>0, <1>6, <1>7, <3>1, Start
  <2> QED
    BY <2>1, <2>2, OneAround
<1>10. DOMAIN world'.weight = Objs
       /\ \A x \in Objs : world'.weight[x] = a.weight[x] \/ Unworn(a, x)
  BY <1>5, <1>7, <1>8, <1>9
<1> QED
  BY <1>4, <1>7, <1>8, <1>10, KeptHeavier

\* Taking a sip or pouring makes what is carried lighter or heavier.
LEMMA WeightChangeKept ==
    ASSUME NEW w, NEW u, Kept(w, u), NEW o, NEW c, Unworn(u, o), NEW change
    PROVE  LET v == WeightChangeObject(u, o, c, change)
           IN Kept(w, v) /\ v.equipment = u.equipment
<1> DEFINE out == ObjFromChar(u, {o}, c)
<1>1. Kept(w, out) /\ out.equipment = u.equipment /\ DOMAIN out = Fields
  <2>1. Kept(w, out)
    BY KeptMoved
  <2> QED
    BY <2>1 DEF ObjFromChar, Kept, Dressed, Fields
<1> HIDE DEF out
<1>2. ASSUME NEW d
      PROVE  LET h == [out EXCEPT !.weight[o] = @ + d]
             IN Kept(w, ObjToChar(h, {o}, c)) /\ ObjToChar(h, {o}, c).equipment = u.equipment
  <2> DEFINE h == [out EXCEPT !.weight[o] = @ + d]
  <2>1. DOMAIN h = Fields /\ h.equipment = out.equipment
        /\ h.weight = [out.weight EXCEPT ![o] = @ + d]
    BY <1>1 DEF Fields
  <2> HIDE DEF h
  <2>2. DOMAIN h.weight = Objs /\ \A x \in Objs : h.weight[x] = out.weight[x] \/ Unworn(out, x)
    BY <1>1, <2>1 DEF Kept, Dressed, Unworn
  <2>3. Kept(w, h)
    BY <1>1, <2>1, <2>2, KeptHeavier
  <2>4. Kept(w, ObjToChar(h, {o}, c))
    BY <2>3, KeptMoved
  <2>5. ObjToChar(h, {o}, c).equipment = h.equipment
    BY <2>1 DEF ObjToChar, Fields
  <2> QED
    BY <1>1, <2>1, <2>4, <2>5 DEF h
<1> QED
  BY <1>2 DEF WeightChangeObject, out

LEMMA DrinkKept ==
    ASSUME HandsInv, IInv', NEW c \in Chars, NEW o \in Drinks, NEW d \in Drinks \cup {None}, NEW amount,
           DoDrink(c, o, amount) \/ DoPour(c, o, d, amount)
    PROVE  Kept(world, world')
<1>0. None \notin Drinks /\ Drinks \subseteq Objs
  BY ObjectsAssumption
<1>1. \A x \in Objs : x \in world.carrying[c] => Unworn(world, x)
  <2>1. \A x \in Objs : x \in world.carrying[c] => world.carried_by[x] # None
    BY Start DEF Sound, ListsAgree
  <2> QED
    BY <2>1, Start, NotWorn
<1>2. CASE DoDrink(c, o, amount)
  <2> DEFINE l == WeightChangeObject(world, o, c, -amount)
             e == ObjFromChar(l, {o}, c)
  <2>1. world' = l \/ world' = ExtractObj(e, {o})
    BY <1>2 DEF DoDrink
  <2>2. Kept(world, l)
    <3>1. Unworn(world, o)
      BY <1>0, <1>1, <1>2 DEF DoDrink
    <3> QED
      BY <3>1, Start, WeightChangeKept
  <2> HIDE DEF l
  <2>3. Kept(world, e)
    BY <2>2, KeptMoved
  <2> HIDE DEF e
  <2>4. world' = ExtractObj(e, {o}) => Kept(world, ExtractObj(e, {o}))
    BY <2>3, KeptExtracted DEF IInv
  <2> QED
    BY <2>1, <2>2, <2>4
<1>3. CASE DoPour(c, o, d, amount)
  <2>1. Unworn(world, o) /\ (d # None => Unworn(world, d))
    BY <1>0, <1>1, <1>3 DEF DoPour
  <2>2. CASE d = None
    BY <1>3, <2>1, <2>2, Start, WeightChangeKept DEF DoPour
  <2>3. CASE d # None
    <3> DEFINE b == WeightChangeObject(world, d, c, amount)
    <3>1. Kept(world, b) /\ b.equipment = world.equipment
      BY <2>1, <2>3, Start, WeightChangeKept
    <3>2. world' = WeightChangeObject(b, o, c, -amount)
      BY <1>3, <2>3 DEF DoPour
    <3> HIDE DEF b
    <3>3. Unworn(b, o)
      BY <2>1, <3>1 DEF Unworn
    <3> QED
      BY <3>1, <3>2, <3>3, WeightChangeKept
  <2> QED
    BY <2>2, <2>3
<1> QED
  BY <1>2, <1>3

LEMMA UseUpKept ==
    ASSUME HandsInv, IInv', NEW c \in Chars, NEW o, UseUp(c, o)
    PROVE  Kept(world, world')
<1>1. world' = ExtractObj(ObjFromChar(world, {o}, c), {o})
  BY DEF UseUp
<1>2. Kept(world, ObjFromChar(world, {o}, c))
  BY Start, KeptMoved
<1> QED
  BY <1>1, <1>2, KeptExtracted DEF IInv

\* What is taken off goes into somebody's hands or to the floor.
LEMMA TakenOffKept ==
    ASSUME HandsInv, NEW c \in Chars, NEW v \in Chars, NEW p,
           DoRemove(c, p) \/ StealWorn(c, v, p) \/ Disarm(c) \/ Fumble(c)
    PROVE  Kept(world, world')
<1>1. \A d \in Chars : \A P : Kept(world, UnequipChar(world, d, P))
  BY Start, KeptOff
<1>2. \A d \in Chars : \A P, S, x :
        /\ Kept(world, ObjToChar(UnequipChar(world, d, P), S, x))
        /\ Kept(world, ObjToRoom(UnequipChar(world, d, P), S, x))
  BY <1>1, KeptMoved
<1> QED
  BY <1>2 DEF DoRemove, StealWorn, Disarm, Fumble

LEMMA MakeScrapKept ==
    ASSUME NEW w, NEW u, Kept(w, u), NEW o, NEW t, NEW r, Sound(MakeScrap(u, o, t, r))
    PROVE  Kept(w, MakeScrap(u, o, t, r))
<1> DEFINE a == ReadObject(u, t)
           b == ObjToRoom(a, {t}, r)
           d == CheckFallingObj(b, {t}, r)
           e == Emptied(d, o)
           f == ObjToRoom(e, d.contains[o], r)
<1>1. Kept(w, a)
  BY KeptMoved
<1> HIDE DEF a
<1>2. Kept(w, b)
  BY <1>1, KeptMoved
<1> HIDE DEF b
<1>3. Kept(w, d)
  BY <1>2, KeptMoved
<1> HIDE DEF d
<1>4. Kept(w, e)
  BY <1>3, KeptMoved
<1> HIDE DEF e
<1>5. Kept(w, f)
  BY <1>4, KeptMoved
<1> HIDE DEF f
<1>6. MakeScrap(u, o, t, r) = ExtractObj(f, {o})
  BY DEF MakeScrap, f, e, d, b, a
<1> QED
  BY <1>5, <1>6, KeptExtracted

LEMMA DestroyKept ==
    ASSUME HandsInv, IInv', NEW c \in Chars, NEW o, NEW p, NEW t,
           DestroyCarried(c, o, t) \/ DestroyWorn(c, p, t)
    PROVE  Kept(world, world')
<1>1. Kept(world, ObjFromChar(world, {o}, c)) /\ Kept(world, UnequipChar(world, c, {p}))
  BY Start, KeptMoved, KeptOff
<1>2. \/ world' = MakeScrap(ObjFromChar(world, {o}, c), o, t, where[c])
      \/ world' = MakeScrap(UnequipChar(world, c, {p}), Equipment(c, p), t, where[c])
  BY DEF DestroyCarried, DestroyWorn
<1>3. Sound(world')
  BY DEF IInv
<1> QED
  BY <1>1, <1>2, <1>3, MakeScrapKept

\* A corpse is not worn while it decays.
LEMMA CorpseDecaysKept ==
    ASSUME HandsInv, IInv', NEW o \in Corpses, CorpseDecays(o)
    PROVE  Kept(world, world')
<1> DEFINE c == world.carried_by[o]
           r == world.in_room[o]
           a == ContentsToOuter(world, o)
<1>0. o \in Objs
  BY ObjectsAssumption DEF Containers
<1>1. Sound(world')
  BY DEF IInv
<1>2. ASSUME NEW u, DOMAIN u = Fields, u.equipment = world.equipment,
             DOMAIN u.weight = Objs, \A x \in Objs : x # o => u.weight[x] = world.weight[x],
             \/ world.in_obj[o] # None \/ world.carried_by[o] # None \/ world.in_room[o] # None
      PROVE  Kept(world, u)
  <2>1. Unworn(world, o)
    BY <1>0, <1>2, Start, NotWorn
  <2>2. \A x \in Objs : u.weight[x] = world.weight[x] \/ Unworn(world, x)
    BY <1>2, <2>1
  <2> QED
    BY <1>2, <2>2, Start, KeptHeavier
<1>3. CASE world.in_obj[o] # None /\ world' = ExtractFromObj(a, o)
  <2>1. /\ DOMAIN a = Fields /\ a.equipment = world.equipment
        /\ a.weight = [world.weight EXCEPT ![o] = Less(@, WeightOf(world, world.contains[o]))]
    BY Start DEF ContentsToOuter, Kept, Dressed, Fields
  <2> HIDE DEF a
  <2>2. Kept(world, a)
    <3>1. DOMAIN a.weight = Objs /\ \A x \in Objs : x # o => a.weight[x] = world.weight[x]
      BY <2>1 DEF HandsInv
    <3> QED
      BY <1>2, <1>3, <2>1, <3>1
  <2>3. Kept(world, Unlinked(a, o))
    BY <2>2, KeptMoved
  <2> QED
    BY <1>1, <1>3, <2>3, KeptExtracted DEF ExtractFromObj
<1>4. ASSUME NEW k, c # None \/ r # None
      PROVE  Kept(world, ContentsToRoom(world, o, k))
  <2> DEFINE e == Emptied(world, o)
             f == ObjToRoom(e, world.contains[o], k)
             d == CheckFallingObj(f, world.contains[o], k)
             l == [d EXCEPT !.weight[o] = Less(@, WeightOf(world, world.contains[o]))]
             v == ContentsToRoom(world, o, k)
  <2>1. Kept(world, e)
    BY Start, KeptMoved
  <2> HIDE DEF e
  <2>2. Kept(world, f)
    BY <2>1, KeptMoved
  <2> HIDE DEF f
  <2>3. Kept(world, d)
    BY <2>2, KeptMoved
  <2>4. v = l \/ v = [l EXCEPT !.carrying_w[c] = Less(@, WeightOf(world, world.contains[o]))]
    BY DEF ContentsToRoom, d, f, e
  <2> HIDE DEF d, v
  <2>5. DOMAIN v = Fields /\ v.equipment = d.equipment
        /\ v.weight = [d.weight EXCEPT ![o] = Less(@, WeightOf(world, world.contains[o]))]
    BY <2>3, <2>4 DEF Kept, Dressed, Fields
  <2>6. Unworn(d, o)
    <3>1. Unworn(world, o)
      BY <1>0, <1>4, Start, NotWorn
    <3> QED
      BY <1>0, <2>3, <3>1, StillUnworn
  <2>7. DOMAIN v.weight = Objs /\ \A x \in Objs : v.weight[x] = d.weight[x] \/ Unworn(d, x)
    BY <2>3, <2>5, <2>6 DEF Kept, Dressed
  <2>8. Kept(world, v)
    BY <2>3, <2>5, <2>7, KeptHeavier
  <2> QED
    BY <2>8 DEF v
<1>5. CASE c # None /\ world' = ExtractObj(
                ObjFromChar(ContentsToRoom(world, o, where[c]), {o}, c), {o})
  <2>1. Kept(world, ObjFromChar(ContentsToRoom(world, o, where[c]), {o}, c))
    BY <1>4, <1>5, KeptMoved
  <2> QED
    BY <1>1, <1>5, <2>1, KeptExtracted
<1>6. CASE r # None /\ world' = ExtractObj(ObjFromRoom(ContentsToRoom(world, o, r), {o}, r), {o})
  <2>1. Kept(world, ObjFromRoom(ContentsToRoom(world, o, r), {o}, r))
    BY <1>4, <1>6, KeptMoved
  <2> QED
    BY <1>1, <1>6, <2>1, KeptExtracted
<1> QED
  BY <1>3, <1>5, <1>6 DEF CorpseDecays

\* make_corpse undresses its victim, and the corpse is not worn.
LEMMA MakeCorpseKept ==
    ASSUME HandsInv, NEW c \in Chars, NEW o \in Corpses, Unused(o), NEW r,
           NEW u, Dressed(u), u.weight = world.weight,
           \A d \in Chars \ {c} : u.equipment[d] = world.equipment[d]
    PROVE  Kept(world, CheckFallingObj(ObjToRoom(CorpseOf(u, c, o), {o}, r), {o}, r))
<1> DEFINE b == UnequipChar([u EXCEPT !.carrying[c] = {}], c, Pos)
           k == CorpseOf(u, c, o)
<1>0. o \in Objs
  BY ObjectsAssumption DEF Containers
<1>1. DOMAIN b = Fields /\ b.weight = u.weight
      /\ b.equipment = [u.equipment EXCEPT ![c] = SetAll(@, Pos, None)]
  BY DEF UnequipChar, Dressed, Fields
<1>2. PICK n : k.weight = [b.weight EXCEPT ![o] = n] /\ DOMAIN k = Fields /\ k.equipment = b.equipment
  <2> HIDE DEF b
  <2> QED
    BY <1>1 DEF CorpseOf, ReadObject, Fields, b
<1> HIDE DEF b, k
<1>3. k.equipment \in [Chars -> [Pos -> Objs \cup {None}]]
  BY <1>1, <1>2 DEF Dressed, SetAll
<1>4. \A d \in Chars, p \in Pos : k.equipment[d][p] \in {world.equipment[d][p], None}
  BY <1>1, <1>2 DEF Dressed, SetAll
<1>5. Unworn(k, o)
  BY <1>0, <1>4, Start, NotWorn DEF Unused, Unworn
<1>6. DOMAIN k.weight = Objs /\ \A x \in Objs : x # o => k.weight[x] = world.weight[x]
  BY <1>1, <1>2 DEF Dressed
<1>7. Kept(world, k)
  BY <1>2, <1>3, <1>4, <1>5, <1>6 DEF Kept, Dressed
<1>8. Kept(world, ObjToRoom(k, {o}, r))
  BY <1>7, KeptMoved
<1> QED
  BY <1>8, KeptMoved DEF k

LEMMA ComeAndGoKept ==
    ASSUME HandsInv, IInv', NEW c \in Chars, ComeAndGo(c)
    PROVE  Kept(world, world')
<1>1. ASSUME NEW r \in Rooms, Enter(c, r) \/ Move(c, r)
      PROVE  Kept(world, world')
  BY <1>1, Start DEF Enter, Move
<1>2. ASSUME NEW o \in Corpses, RawKill(c, o)
      PROVE  Kept(world, world')
  <2>1. Dressed(world)
    BY Start DEF Kept
  <2> QED
    BY <1>2, <2>1, MakeCorpseKept DEF RawKill, MakeCorpse
<1>3. CASE ExtractChar(c)
  <2> DEFINE S == world.carrying[c]
             r == where[c]
             a == ObjFromChar(world, S, c)
             b == ObjToRoom(a, S, r)
             d == CheckFallingObj(b, S, r)
             e == UnequipChar(d, c, Pos)
  <2>1. Kept(world, a)
    BY Start, KeptMoved
  <2> HIDE DEF a
  <2>2. Kept(world, b)
    BY <2>1, KeptMoved
  <2> HIDE DEF b
  <2>3. Kept(world, d)
    BY <2>2, KeptMoved
  <2> HIDE DEF d
  <2>4. Kept(world, e)
    BY <2>3, KeptOff
  <2> HIDE DEF e
  <2>5. world' = ObjToRoom(e, Worn(world, c), r)
    BY <1>3 DEF ExtractChar, e, d, b, a
  <2> QED
    BY <2>4, <2>5, KeptMoved
<1>4. CASE ExtractImmortal(c)
  <2> DEFINE all == world.carrying[c] \cup Worn(world, c)
             a == UnequipChar(world, c, Pos)
             b == ObjToChar(a, Worn(world, c), c)
             d == ObjFromChar(b, all, c)
  <2>1. Kept(world, a)
    BY Start, KeptOff
  <2>2. world' = ObjToRoom(a, Worn(world, c), where[c]) \/ world' = ExtractObj(d, all)
    BY <1>4 DEF ExtractImmortal
  <2> HIDE DEF a
  <2>3. Kept(world, b)
    BY <2>1, KeptMoved
  <2> HIDE DEF b
  <2>4. Kept(world, d)
    BY <2>3, KeptMoved
  <2> HIDE DEF d
  <2>5. CASE world' = ObjToRoom(a, Worn(world, c), where[c])
    BY <2>1, <2>5, KeptMoved
  <2>6. CASE world' = ExtractObj(d, all)
    BY <2>4, <2>6, KeptExtracted DEF IInv
  <2> QED
    BY <2>2, <2>5, <2>6
<1> QED
  BY <1>1, <1>2, <1>3, <1>4 DEF ComeAndGo

\* Between the two attacks of somebody who fights with both hands one weapon is
\* nowhere; it comes back to the hand it was in, or not at all.
LEMMA AttacksKept ==
    ASSUME HandsInv, IInv', NEW c \in Chars, FirstAttack(c) \/ SecondAttack(c)
    PROVE  Kept(world, world')
<1> DEFINE main == Equipment(c, "WIELD")
           off == Equipment(c, "HOLD")
           w == UnequipChar(world, c, {"HOLD"})
           bare == UnequipChar(world, c, {"WIELD", "HOLD"})
           x == PutOn(bare, c, off, "WIELD")
<1>1. Kept(world, w) /\ Kept(world, bare)
  BY Start, KeptOff
<1>2. /\ main = world.equipment[c]["WIELD"] /\ off = world.equipment[c]["HOLD"]
      /\ main \in Objs /\ off \in Objs /\ "WIELD" \in Pos /\ "HOLD" \in Pos
  <2>1. main = world.equipment[c]["WIELD"] /\ off = world.equipment[c]["HOLD"]
    BY DEF Equipment
  <2>2. DualWield(c) /\ "WIELD" \in Pos /\ "HOLD" \in Pos
    BY DEF FirstAttack, SecondAttack, Pos
  <2>3. main # None /\ off # None
    BY <2>2 DEF DualWield, Wears
  <2>4. world.equipment[c]["WIELD"] \in Objs \cup {None} /\ world.equipment[c]["HOLD"] \in Objs \cup {None}
    BY <2>2, Start DEF Kept, Dressed
  <2> QED
    BY <2>1, <2>2, <2>3, <2>4
<1>3. /\ w.weight = world.weight /\ bare.weight = world.weight
      /\ DOMAIN bare = Fields
      /\ w.equipment = [world.equipment EXCEPT ![c] = SetAll(@, {"HOLD"}, None)]
      /\ bare.equipment = [world.equipment EXCEPT ![c] = SetAll(@, {"WIELD", "HOLD"}, None)]
  BY Start DEF UnequipChar, Kept, Dressed, Fields
<1> HIDE DEF main, off, w, bare
<1>4. ASSUME NEW u, Kept(world, u), u.weight = world.weight, NEW p \in Pos
      PROVE  /\ Kept(world, PutOn(u, c, world.equipment[c][p], p))
             /\ PutOn(u, c, world.equipment[c][p], p).weight = world.weight
  <2> DEFINE v == PutOn(u, c, world.equipment[c][p], p)
  <2>1. /\ DOMAIN v = Fields /\ v.weight = u.weight
        /\ v.equipment = [u.equipment EXCEPT ![c][p] = world.equipment[c][p]]
    BY <1>4 DEF PutOn, Kept, Dressed, Fields
  <2> HIDE DEF v
  <2>2. v.equipment \in [Chars -> [Pos -> Objs \cup {None}]]
    BY <1>4, <2>1, Start DEF Kept, Dressed
  <2>3. \A d \in Chars, q \in Pos : v.equipment[d][q] \in {world.equipment[d][q], None}
    BY <1>4, <2>1 DEF Kept, Dressed
  <2>4. DOMAIN v.weight = Objs
    BY <1>4, <2>1 DEF Kept, Dressed
  <2> QED
    BY <1>4, <2>1, <2>2, <2>3, <2>4 DEF Kept, Dressed, v
<1>5. ASSUME NEW u, Kept(world, u), u.weight = world.weight, DOMAIN u = Fields,
             NEW p \in Pos, NEW refused
      PROVE  LET v == EquipChar(u, c, world.equipment[c][p], p, refused)
             IN Kept(world, v) /\ v.weight = world.weight
  <2>1. CASE refused
    <3>1. Kept(world, ObjToRoom(u, {world.equipment[c][p]}, where[c]))
      BY <1>5, KeptMoved
    <3>2. ObjToRoom(u, {world.equipment[c][p]}, where[c]).weight = world.weight
      BY <1>5 DEF ObjToRoom, Fields
    <3> QED
      BY <2>1, <3>1, <3>2 DEF EquipChar
  <2>2. CASE ~refused
    BY <1>4, <1>5, <2>2 DEF EquipChar
  <2> QED
    BY <2>1, <2>2
<1>6. DOMAIN w = Fields
  BY <1>1 DEF Kept, Dressed
<1>7. CASE FirstAttack(c)
  <2>1. CASE world' = EquipChar(w, c, off, "HOLD", TRUE)
    BY <1>1, <1>2, <1>3, <1>5, <1>6, <2>1
  <2>2. ASSUME NEW o \in Corpses, Unused(o), world' = MakeCorpse(w, c, o)
        PROVE  Kept(world, world')
    <3>1. Dressed(w) /\ \A d \in Chars \ {c} : w.equipment[d] = world.equipment[d]
      BY <1>1, <1>3, Start DEF Kept, Dressed
    <3> QED
      BY <1>3, <2>2, <3>1, MakeCorpseKept DEF MakeCorpse
  <2> QED
    BY <1>7, <2>1, <2>2 DEF FirstAttack, w, off
<1>8. CASE SecondAttack(c)
  <2>1. ASSUME NEW r1 \in BOOLEAN, NEW r2 \in BOOLEAN,
               world' = EquipChar(EquipChar(bare, c, off, "HOLD", r1), c, main, "WIELD", r2)
        PROVE  Kept(world, world')
    <3> DEFINE y == EquipChar(bare, c, off, "HOLD", r1)
    <3>1. Kept(world, y) /\ y.weight = world.weight
      BY <1>1, <1>2, <1>3, <1>5
    <3>2. world' = EquipChar(y, c, main, "WIELD", r2)
      BY <2>1
    <3> HIDE DEF y
    <3>3. DOMAIN y = Fields
      BY <3>1 DEF Kept, Dressed
    <3> QED
      BY <1>2, <1>5, <3>1, <3>2, <3>3
  <2>2. /\ DOMAIN x = Fields /\ x.weight = world.weight
        /\ x.equipment = [bare.equipment EXCEPT ![c]["WIELD"] = off]
    BY <1>3 DEF PutOn, Fields
  <2>3. Dressed(x) /\ \A d \in Chars \ {c} : x.equipment[d] = world.equipment[d]
    <3>1. x.equipment \in [Chars -> [Pos -> Objs \cup {None}]]
      <4>1. bare.equipment \in [Chars -> [Pos -> Objs \cup {None}]]
        BY <1>1 DEF Kept, Dressed
      <4>2. "WIELD" \in Pos /\ off \in Objs \cup {None}
        BY <1>2
      <4> QED
        BY <2>2, <4>1, <4>2
    <3>2. \A d \in Chars \ {c} : x.equipment[d] = world.equipment[d]
      BY <1>1, <1>3, <2>2, Start DEF Kept, Dressed
    <3> QED
      BY <2>2, <3>1, <3>2, Start DEF Dressed, Kept
  <2> HIDE DEF x
  <2>4. ASSUME NEW t, world' = MakeScrap(UnequipChar(x, c, {"WIELD"}), off, t, where[c])
        PROVE  Kept(world, world')
    <3> DEFINE z == UnequipChar(x, c, {"WIELD"})
    <3>1. /\ DOMAIN z = Fields /\ z.weight = world.weight
          /\ z.equipment = [x.equipment EXCEPT ![c] = SetAll(@, {"WIELD"}, None)]
      BY <2>2 DEF UnequipChar, Fields
    <3>2. world' = MakeScrap(z, off, t, where[c])
      BY <2>4
    <3> HIDE DEF z
    <3>3. z.equipment \in [Chars -> [Pos -> Objs \cup {None}]]
      BY <2>3, <3>1 DEF Dressed, SetAll
    <3>4. \A d \in Chars, q \in Pos : z.equipment[d][q] \in {world.equipment[d][q], None}
      <4>1. \A q \in Pos : q # "WIELD" => x.equipment[c][q] = bare.equipment[c][q]
        BY <1>1, <2>2 DEF Kept, Dressed
      <4>2. \A q \in Pos : z.equipment[c][q] \in {bare.equipment[c][q], None}
        BY <2>3, <3>1, <4>1 DEF Dressed, SetAll
      <4>3. \A q \in Pos : z.equipment[c][q] \in {world.equipment[c][q], None}
        BY <1>1, <4>2 DEF Kept
      <4>4. \A d \in Chars \ {c} : z.equipment[d] = world.equipment[d]
        BY <2>3, <3>1 DEF Dressed
      <4> QED
        BY <4>3, <4>4
    <3>5. Kept(world, z)
      BY <3>1, <3>3, <3>4, Start DEF Kept, Dressed
    <3> QED
      BY <3>2, <3>5, MakeScrapKept DEF IInv
  <2>5. ASSUME NEW o \in Corpses, Unused(o), world' = MakeCorpse(x, c, o)
        PROVE  Kept(world, world')
    BY <2>2, <2>3, <2>5, MakeCorpseKept DEF MakeCorpse
  <2>6. x = EquipChar(bare, c, off, "WIELD", FALSE)
    BY DEF x, EquipChar
  <2> QED
    BY <1>8, <2>1, <2>4, <2>5, <2>6 DEF SecondAttack, main, off, bare
<1> QED
  BY <1>7, <1>8

\* wear is the only command that fills a hand.
LEMMA WearHands ==
    ASSUME HandsInv, IInv', NEW c \in Chars, NEW o \in Objs, NEW p \in Pos, Wear(c, o, p)
    PROVE  HandsInv'
<1> DEFINE a == ObjFromChar(world, {o}, c)
<1>1. Kept(world, a)
  BY Start, KeptMoved
<1>2. /\ DOMAIN a = Fields /\ a.equipment = world.equipment /\ a.weight = world.weight
  BY Start DEF ObjFromChar, Kept, Dressed, Fields
<1>3. PICK refused \in BOOLEAN : world' = EquipChar(a, c, o, p, refused)
  BY DEF Wear
<1> HIDE DEF a
<1>4. CASE refused
  <2>1. Kept(world, world')
    BY <1>1, <1>3, <1>4, KeptMoved DEF EquipChar
  <2> QED
    BY <2>1, KeptHands DEF HandsInv
<1>5. CASE ~refused
  <2>1. /\ world'.weight = world.weight
        /\ world'.equipment = [world.equipment EXCEPT ![c][p] = o]
    BY <1>2, <1>3, <1>5 DEF EquipChar, PutOn, Fields
  <2>2. world.equipment \in [Chars -> [Pos -> Objs \cup {None}]] /\ None \notin Objs
    BY Start DEF Kept, Dressed
  <2>3. MayWear(c, o, p)
    BY DEF Wear
  <2>4. \A d \in Chars, q \in Pos :
           Equipment(d, q)' = IF d = c /\ q = p THEN o ELSE Equipment(d, q)
    BY <2>1, <2>2 DEF Equipment
  <2>5. \A d \in Chars, q \in Pos : Wears(d, q)' = ((d = c /\ q = p) \/ Wears(d, q))
    BY <2>2, <2>4 DEF Wears
  <2>6. \A y : TwoHanded(y)' = TwoHanded(y)
    BY <2>1 DEF TwoHanded
  <2>7. Pos = {"WEAR_LIGHT", "WEAR_SHIELD", "WIELD", "HOLD"}
    BY DEF Pos
  <2>8. TwoHands'
    <3>1. SUFFICES ASSUME NEW d \in Chars
                   PROVE  (/\ ~(Wears(d, "WEAR_LIGHT") /\ Wears(d, "WIELD") /\ Wears(d, "HOLD"))
                           /\ Wears(d, "WIELD") /\ TwoHanded(Equipment(d, "WIELD")) =>
                                 ~Wears(d, "WEAR_LIGHT") /\ ~Wears(d, "HOLD") /\ ~Wears(d, "WEAR_SHIELD")
                           /\ ~(Wears(d, "WEAR_SHIELD") /\ Wears(d, "HOLD") /\ Equipment(d, "HOLD") \in Blades))'
      BY DEF TwoHands
    <3>2. CASE d # c
      BY <2>4, <2>5, <2>6, <2>7, <3>2 DEF HandsInv, TwoHands
    <3>3. CASE d = c
      <4>1. CASE p = "WEAR_LIGHT"
        BY <2>3, <2>4, <2>5, <2>6, <2>7, <3>3, <4>1 DEF HandsInv, TwoHands, MayWear
      <4>2. CASE p = "WEAR_SHIELD"
        BY <2>3, <2>4, <2>5, <2>6, <2>7, <3>3, <4>2 DEF HandsInv, TwoHands, MayWear
      <4>3. CASE p = "WIELD"
        <5>1. TwoHanded(o) => ~Wears(c, "WEAR_SHIELD") /\ ~Wears(c, "HOLD") /\ ~Wears(c, "WEAR_LIGHT")
          BY <2>3, <4>3 DEF MayWear
        <5>2. ~(Wears(c, "WEAR_LIGHT") /\ Wears(c, "HOLD"))
          BY <2>3, <4>3 DEF MayWear
        <5> QED
          BY <2>4, <2>5, <2>6, <2>7, <3>3, <4>3, <5>1, <5>2 DEF HandsInv, TwoHands
      <4>4. CASE p = "HOLD"
        <5>1. o \in Blades => ~Wears(c, "WEAR_SHIELD")
          BY <2>3, <4>4 DEF MayWear
        <5>2. /\ ~(Wears(c, "WIELD") /\ TwoHanded(Equipment(c, "WIELD")))
              /\ ~(Wears(c, "WEAR_LIGHT") /\ Wears(c, "WIELD"))
          BY <2>3, <4>4 DEF MayWear
        <5> QED
          BY <2>4, <2>5, <2>6, <2>7, <3>3, <4>4, <5>1, <5>2 DEF HandsInv, TwoHands
      <4> QED
        BY <2>7, <4>1, <4>2, <4>3, <4>4
    <3> QED
      BY <3>2, <3>3
  <2> QED
    BY <2>1, <2>8 DEF HandsInv
<1> QED
  BY <1>4, <1>5

LEMMA HandsStep ==
    ASSUME HandsInv, [Next]_vars
    PROVE  HandsInv'
<1>1. IInv'
  BY NextStep DEF HandsInv
<1>2. ASSUME Kept(world, world')
      PROVE  HandsInv'
  BY <1>1, <1>2, KeptHands DEF HandsInv
<1>3. CASE UNCHANGED vars
  BY <1>2, <1>3, Start DEF vars
<1>4. CASE Load
  BY <1>2, <1>4, LoadKept DEF Load
<1>5. ASSUME NEW o \in Corpses, CorpseDecays(o)
      PROVE  HandsInv'
  BY <1>1, <1>2, <1>5, CorpseDecaysKept
<1>6. ASSUME NEW c \in Chars, ComeAndGo(c)
      PROVE  HandsInv'
  BY <1>1, <1>2, <1>6, ComeAndGoKept
<1>7. ASSUME NEW c \in Chars, Fights(c)
      PROVE  HandsInv'
  BY <1>1, <1>2, <1>7, TakenOffKept, AttacksKept, DestroyKept DEF Fights
<1>8. ASSUME NEW c \in Chars, Commands(c)
      PROVE  HandsInv'
  <2>1. ASSUME NEW o \in Objs, NEW v \in Chars,
               \/ Get(c, o) \/ DoDrop(c, o) \/ ThrowAway(c, o)
               \/ DoGive(c, v, o) \/ Steal(c, v, o)
        PROVE  HandsInv'
    BY <1>2, <2>1, HandsKept
  <2>2. ASSUME NEW o \in Objs, UseUp(c, o)
        PROVE  HandsInv'
    BY <1>1, <1>2, <2>2, UseUpKept
  <2>3. ASSUME NEW o \in Objs, NEW d \in Containers, GetFrom(c, o, d) \/ DoPut(c, o, d)
        PROVE  HandsInv'
    BY <1>2, <2>3, GetFromKept, DoPutKept
  <2>4. ASSUME NEW o \in Objs, NEW p \in Pos, Wear(c, o, p)
        PROVE  HandsInv'
    BY <1>1, <2>4, WearHands
  <2>5. ASSUME NEW p \in Pos, NEW v \in Chars, DoRemove(c, p) \/ StealWorn(c, v, p)
        PROVE  HandsInv'
    BY <1>2, <2>5, TakenOffKept
  <2>6. ASSUME NEW o \in Drinks, NEW amount \in 1..2, NEW d \in Drinks \cup {None},
               DoDrink(c, o, amount) \/ DoPour(c, o, d, amount)
        PROVE  HandsInv'
    BY <1>1, <1>2, <2>6, DrinkKept
  <2> QED
    BY <1>8, <2>1, <2>2, <2>3, <2>4, <2>5, <2>6 DEF Commands
<1> QED
  BY <1>3, <1>4, <1>5, <1>6, <1>7, <1>8 DEF Next

LEMMA InitHands ==
    ASSUME Init
    PROVE  HandsInv
  BY InitSound, ObjectsAssumption DEF Init, HandsInv, TwoHands, Wears, Equipment, Pos

\* "Hai solo due mani": whatever order the four commands come in, and whatever
\* disarms, steals, burns or dual attacks come between them, the hands hold no
\* more than two things, and a two-handed weapon takes both.
THEOREM OnlyTwoHands == Spec => []TwoHands
<1>1. HandsInv => TwoHands
  BY DEF HandsInv
<1> QED
  BY <1>1, InitHands, HandsStep, PTL DEF Spec

-----------------------------------------------------------------------------
(* Sums.  MapThenSumSet of the community modules (WeightOf) is a recursive *)
(* function that takes any element of the set first.  That there is such a *)
(* function, that it does not matter which element comes first, and what   *)
(* follows from that, are proved by induction on the subsets of a finite   *)
(* set.                                                                    *)

Some(s) == CHOOSE x \in s : TRUE

Adds(g, S, f) ==
    g = [s \in SUBSET S |-> IF s = {} THEN 0 ELSE f[Some(s)] + g[s \ {Some(s)}]]

\* The sum of a function over a set.
Total(f, S) == (CHOOSE g : Adds(g, S, f))[S]

\* Induction over the subsets of a finite set.
LEMMA SubsetInduction ==
    ASSUME NEW S, IsFiniteSet(S), NEW Q,
           \A T \in SUBSET S : (\A U \in SUBSET T : U # T => U \in Q) => T \in Q
    PROVE  \A T \in SUBSET S : T \in Q
<1> DEFINE B == (SUBSET S) \ Q
<1>1. SUFFICES ASSUME B # {} PROVE FALSE
  OBVIOUS
<1>2. IsWellFoundedOn(StrictSubsetOrdering(S), FiniteSubsetsOf(S))
  BY FS_StrictSubsetOrderingWellFounded
<1>3. FiniteSubsetsOf(S) = SUBSET S
  BY FS_FiniteSubsetsOfFinite
<1>4. PICK T \in B : \A U \in B : ~ (<<U, T>> \in StrictSubsetOrdering(S))
  <2>1. B \subseteq FiniteSubsetsOf(S)
    BY <1>3
  <2> HIDE DEF B
  <2>2. \E T \in B : \A U \in B : ~ (<<U, T>> \in StrictSubsetOrdering(S))
    BY <1>1, <1>2, <2>1, WFMin
  <2> QED
    BY <2>2
<1>5. \A U \in SUBSET T : U # T => U \in Q
  BY <1>4 DEF StrictSubsetOrdering
<1> QED
  BY <1>4, <1>5

\* A sum over the subsets of T exists, and there is only one.
SumOn(g, T, f) ==
    /\ DOMAIN g = SUBSET T
    /\ \A s \in SUBSET T : g[s] = IF s = {} THEN 0 ELSE f[Some(s)] + g[s \ {Some(s)}]

\* An element of a set that has one.
LEMMA AnyIn ==
    ASSUME NEW s, s # {}
    PROVE  Some(s) \in s
  BY DEF Some

\* Two sums agree where both are defined.
LEMMA SumsAgree ==
    ASSUME NEW f, NEW A, IsFiniteSet(A), NEW T, NEW U, A \subseteq T, A \subseteq U,
           NEW g, SumOn(g, T, f), NEW h, SumOn(h, U, f)
    PROVE  g[A] = h[A]
<1> DEFINE Q == {s \in SUBSET A : g[s] = h[s]}
<1>1. ASSUME NEW s \in SUBSET A, \A u \in SUBSET s : u # s => u \in Q
      PROVE  s \in Q
  <2>1. CASE s = {}
    BY <1>1, <2>1 DEF SumOn
  <2>2. CASE s # {}
    <3>1. s \ {Some(s)} \in SUBSET s /\ s \ {Some(s)} # s
      BY <2>2, AnyIn
    <3>2. g[s \ {Some(s)}] = h[s \ {Some(s)}]
      BY <1>1, <3>1
    <3>3. s \in SUBSET T /\ s \in SUBSET U
      BY <1>1
    <3>4. g[s] = f[Some(s)] + g[s \ {Some(s)}] /\ h[s] = f[Some(s)] + h[s \ {Some(s)}]
      BY <2>2, <3>3 DEF SumOn
    <3> QED
      BY <1>1, <3>2, <3>4
  <2> QED
    BY <2>1, <2>2
<1> HIDE DEF Q
<1>2. \A s \in SUBSET A : s \in Q
  BY <1>1, SubsetInduction
<1> QED
  BY <1>2 DEF Q

\* There is a sum over any finite set.
LEMMA SumExists ==
    ASSUME NEW f, NEW S, IsFiniteSet(S)
    PROVE  \E g : SumOn(g, S, f)
<1> DEFINE Q == {s \in SUBSET S : \E g : SumOn(g, s, f)}
           V(s) == (CHOOSE g : SumOn(g, s, f))[s]
<1>1. ASSUME NEW T \in SUBSET S, \A u \in SUBSET T : u # T => u \in Q
      PROVE  T \in Q
  <2> DEFINE Up(s) == IF s = {} THEN 0 ELSE f[Some(s)] + V(s \ {Some(s)})
             g == [s \in SUBSET T |-> Up(s)]
  <2>0. \A u \in SUBSET T : u # T => SumOn(CHOOSE h : SumOn(h, u, f), u, f)
    BY <1>1
  <2>1. ASSUME NEW u \in SUBSET T, u # T
        PROVE  V(u) = Up(u)
    <3> DEFINE h == CHOOSE k : SumOn(k, u, f)
    <3>1. SumOn(h, u, f)
      BY <2>0, <2>1
    <3>2. CASE u = {}
      BY <3>1, <3>2 DEF SumOn
    <3>3. CASE u # {}
      <4> DEFINE d == u \ {Some(u)}
      <4>1. d \in SUBSET T /\ d # T /\ d \subseteq u /\ IsFiniteSet(d)
        <5>1. d \subseteq S /\ d \in SUBSET T /\ d # T
          BY <2>1, <3>3, AnyIn
        <5> QED
          BY <5>1, FS_Subset
      <4>2. SumOn(CHOOSE k : SumOn(k, d, f), d, f)
        BY <2>0, <4>1
      <4>3. h[d] = V(d)
        <5> HIDE DEF d, h
        <5> QED
          BY <3>1, <4>1, <4>2, SumsAgree
      <4>4. h[u] = f[Some(u)] + h[d]
        BY <3>1, <3>3 DEF SumOn
      <4> QED
        BY <3>3, <4>3, <4>4
    <3> QED
      BY <3>2, <3>3
  <2>2. ASSUME NEW s \in SUBSET T, s # {}
        PROVE  g[s \ {Some(s)}] = V(s \ {Some(s)})
    <3>1. s \ {Some(s)} \in SUBSET T /\ s \ {Some(s)} # T
      BY <2>2, AnyIn
    <3> QED
      BY <2>1, <3>1
  <2>3. ASSUME NEW s \in SUBSET T
        PROVE  g[s] = IF s = {} THEN 0 ELSE f[Some(s)] + g[s \ {Some(s)}]
    <3>1. g[s] = Up(s)
      OBVIOUS
    <3> HIDE DEF g
    <3>2. CASE s = {}
      BY <3>1, <3>2
    <3>3. CASE s # {}
      <4>1. g[s \ {Some(s)}] = V(s \ {Some(s)})
        BY <2>2, <3>3
      <4>2. Up(s) = f[Some(s)] + V(s \ {Some(s)})
        BY <3>3
      <4> HIDE DEF V, Up
      <4> QED
        BY <3>1, <3>3, <4>1, <4>2
    <3> QED
      BY <3>2, <3>3
  <2> HIDE DEF g
  <2>4. SumOn(g, T, f)
    BY <2>3 DEF SumOn, g
  <2> QED
    BY <2>4
<1> HIDE DEF Q
<1>2. \A s \in SUBSET S : s \in Q
  BY <1>1, SubsetInduction
<1> QED
  BY <1>2 DEF Q

\* Total is one.
LEMMA TotalAdds ==
    ASSUME NEW f, NEW S, IsFiniteSet(S)
    PROVE  \E g : SumOn(g, S, f) /\ Total(f, S) = g[S]
<1>1. PICK g : SumOn(g, S, f)
  BY SumExists
<1>2. ASSUME NEW h
      PROVE  Adds(h, S, f) => SumOn(h, S, f)
  BY DEF Adds, SumOn
<1>3. \E h : Adds(h, S, f)
  <2> DEFINE h == [s \in SUBSET S |-> g[s]]
  <2>1. \A s \in SUBSET S : h[s] = IF s = {} THEN 0 ELSE f[Some(s)] + h[s \ {Some(s)}]
    BY <1>1 DEF SumOn
  <2>2. h = [s \in SUBSET S |-> IF s = {} THEN 0 ELSE f[Some(s)] + h[s \ {Some(s)}]]
    BY <2>1
  <2> HIDE DEF h
  <2> QED
    BY <2>2 DEF Adds
<1>4. Adds(CHOOSE h : Adds(h, S, f), S, f)
  BY <1>3
<1> QED
  BY <1>2, <1>4 DEF Total

\* The sum over the empty set, and what an element adds, whichever comes first.
LEMMA TotalStep ==
    ASSUME NEW f, NEW S, IsFiniteSet(S)
    PROVE  /\ S = {} => Total(f, S) = 0
           /\ S # {} => Total(f, S) = f[Some(S)] + Total(f, S \ {Some(S)})
<1>1. PICK g : SumOn(g, S, f) /\ Total(f, S) = g[S]
  BY TotalAdds
<1>2. S = {} => Total(f, S) = 0
  BY <1>1 DEF SumOn
<1>3. ASSUME S # {}
      PROVE  Total(f, S) = f[Some(S)] + Total(f, S \ {Some(S)})
  <2> DEFINE d == S \ {Some(S)}
  <2>1. d \subseteq S /\ IsFiniteSet(d)
    BY FS_Subset
  <2>2. g[S] = f[Some(S)] + g[d]
    BY <1>1, <1>3 DEF SumOn
  <2> HIDE DEF d
  <2>3. PICK h : SumOn(h, d, f) /\ Total(f, d) = h[d]
    BY <2>1, TotalAdds
  <2>4. g[d] = h[d]
    BY <1>1, <2>1, <2>3, SumsAgree
  <2> QED
    BY <1>1, <2>2, <2>3, <2>4 DEF d
<1> QED
  BY <1>2, <1>3

\* The sum of integers is an integer.
LEMMA TotalType ==
    ASSUME NEW S, IsFiniteSet(S), NEW f, \A x \in S : f[x] \in Int
    PROVE  Total(f, S) \in Int
<1> DEFINE Typed(s) == Total(f, s) \in Int
           Q == {s \in SUBSET S : Typed(s)}
<1>1. ASSUME NEW T \in SUBSET S, \A u \in SUBSET T : u # T => Typed(u)
      PROVE  Typed(T)
  <2>1. IsFiniteSet(T)
    BY FS_Subset
  <2>2. CASE T = {}
    <3>1. Total(f, T) = 0
      <4>1. T = {} => Total(f, T) = 0
        BY <2>1, TotalStep
      <4> QED
        BY <2>2, <4>1
    <3> QED
      BY <3>1
  <2>3. CASE T # {}
    <3>1. Some(T) \in T
      BY <2>3, AnyIn
    <3>2. Total(f, T \ {Some(T)}) \in Int /\ f[Some(T)] \in Int
      BY <1>1, <3>1
    <3>3. Total(f, T) = f[Some(T)] + Total(f, T \ {Some(T)})
      BY <2>1, <2>3, TotalStep
    <3> QED
      BY <3>2, <3>3
  <2> QED
    BY <2>2, <2>3
<1> HIDE DEF Typed
<1>2. \A T \in SUBSET S : (\A u \in SUBSET T : u # T => u \in Q) => T \in Q
  BY <1>1
<1> HIDE DEF Q
<1>3. \A s \in SUBSET S : s \in Q
  BY <1>2, SubsetInduction
<1> QED
  BY <1>3 DEF Q, Typed

\* Any element may be taken first.
LEMMA TotalSplit ==
    ASSUME NEW S, IsFiniteSet(S), NEW f, \A x \in S : f[x] \in Int, NEW a \in S
    PROVE  Total(f, S) = f[a] + Total(f, S \ {a})
<1> DEFINE Q == {s \in SUBSET S : \A x \in s : Total(f, s) = f[x] + Total(f, s \ {x})}
<1>1. ASSUME NEW T \in SUBSET S, \A u \in SUBSET T : u # T => u \in Q
      PROVE  T \in Q
  <2>1. SUFFICES ASSUME NEW x \in T
                 PROVE  Total(f, T) = f[x] + Total(f, T \ {x})
    OBVIOUS
  <2>2. IsFiniteSet(T) /\ IsFiniteSet(T \ {x})
    BY FS_Subset
  <2> DEFINE p == Some(T)
  <2>3. p \in T /\ Total(f, T) = f[p] + Total(f, T \ {p})
    BY <2>1, <2>2, AnyIn, TotalStep
  <2> HIDE DEF p
  <2>4. CASE x = p
    BY <2>3, <2>4
  <2>5. CASE x # p
    <3> DEFINE d == (T \ {p}) \ {x}
    <3>1. T \ {p} \in Q /\ T \ {x} \in Q
      BY <1>1, <2>1, <2>3
    <3>2. Total(f, T \ {p}) = f[x] + Total(f, d)
      BY <2>1, <2>5, <3>1
    <3>3. (T \ {x}) \ {p} = d
      OBVIOUS
    <3>4. Total(f, T \ {x}) = f[p] + Total(f, d)
      BY <2>3, <2>5, <3>1, <3>3
    <3>5. Total(f, d) \in Int /\ f[p] \in Int /\ f[x] \in Int
      <4>1. IsFiniteSet(d) /\ \A y \in d : f[y] \in Int
        BY FS_Subset
      <4> HIDE DEF d
      <4> QED
        BY <2>3, <4>1, TotalType
    <3> HIDE DEF d
    <3> QED
      BY <2>3, <3>2, <3>4, <3>5
  <2> QED
    BY <2>4, <2>5
<1> HIDE DEF Q
<1>2. \A s \in SUBSET S : s \in Q
  BY <1>1, SubsetInduction
<1>3. S \in Q
  BY <1>2
<1> QED
  BY <1>3 DEF Q

\* Nothing adds up to 0.
LEMMA TotalEmpty ==
    ASSUME NEW f
    PROVE  Total(f, {}) = 0
<1>1. ASSUME NEW S, S = {}
      PROVE  Total(f, S) = 0
  <2>1. IsFiniteSet(S)
    BY <1>1, FS_EmptySet
  <2> QED
    BY <1>1, <2>1, TotalStep
<1> QED
  BY <1>1

\* The sum grows with its terms.
LEMMA TotalMonotone ==
    ASSUME NEW S, IsFiniteSet(S), NEW f, NEW g,
           \A x \in S : f[x] \in Int /\ g[x] \in Int /\ f[x] <= g[x]
    PROVE  Total(f, S) <= Total(g, S)
<1> DEFINE NoMore(s) == Total(f, s) <= Total(g, s)
           Q == {s \in SUBSET S : NoMore(s)}
<1>1. ASSUME NEW T \in SUBSET S, \A u \in SUBSET T : u # T => NoMore(u)
      PROVE  NoMore(T)
  <2>1. IsFiniteSet(T)
    BY FS_Subset
  <2>2. CASE T = {}
    BY <2>2, TotalEmpty
  <2>3. CASE T # {}
    <3> DEFINE a == Some(T)
               d == T \ {a}
    <3>1. a \in T
      BY <2>3, AnyIn
    <3>2. f[a] \in Int /\ g[a] \in Int /\ f[a] <= g[a]
      BY <3>1
    <3>3. IsFiniteSet(d)
      BY <2>1, FS_Subset
    <3>4. Total(f, T) = f[a] + Total(f, d) /\ Total(g, T) = g[a] + Total(g, d)
      BY <2>1, <2>3, TotalStep
    <3>5. Total(f, d) <= Total(g, d)
      BY <1>1, <3>1
    <3>6. Total(f, d) \in Int /\ Total(g, d) \in Int
      <4>1. \A x \in d : f[x] \in Int /\ g[x] \in Int
        OBVIOUS
      <4> HIDE DEF d
      <4> QED
        BY <3>3, <4>1, TotalType
    <3> HIDE DEF a, d
    <3> QED
      BY <3>2, <3>4, <3>5, <3>6
  <2> QED
    BY <2>2, <2>3
<1> HIDE DEF NoMore
<1>2. \A T \in SUBSET S : (\A u \in SUBSET T : u # T => u \in Q) => T \in Q
  BY <1>1
<1> HIDE DEF Q
<1>3. \A s \in SUBSET S : s \in Q
  BY <1>2, SubsetInduction
<1> QED
  BY <1>3 DEF Q, NoMore

\* It depends on its terms only.
LEMMA TotalSame ==
    ASSUME NEW S, IsFiniteSet(S), NEW f, NEW g,
           \A x \in S : f[x] \in Int /\ f[x] = g[x]
    PROVE  Total(f, S) = Total(g, S)
<1>1. \A x \in S : f[x] \in Int /\ g[x] \in Int /\ f[x] <= g[x] /\ g[x] <= f[x]
  OBVIOUS
<1>2. Total(f, S) \in Int /\ Total(g, S) \in Int
  BY <1>1, TotalType
<1>3. Total(f, S) <= Total(g, S)
  BY <1>1, TotalMonotone
<1>4. Total(g, S) <= Total(f, S)
  BY <1>1, TotalMonotone
<1> QED
  BY <1>2, <1>3, <1>4

\* One term changes.
LEMMA TotalChange ==
    ASSUME NEW S, IsFiniteSet(S), NEW f, NEW g, NEW a \in S,
           \A x \in S : f[x] \in Int /\ g[x] \in Int,
           \A x \in S \ {a} : f[x] = g[x]
    PROVE  Total(g, S) = Total(f, S) - f[a] + g[a]
<1> DEFINE d == S \ {a}
<1>1. IsFiniteSet(d) /\ \A x \in d : f[x] \in Int /\ f[x] = g[x]
  BY FS_Subset
<1>2. Total(f, S) = f[a] + Total(f, d) /\ Total(g, S) = g[a] + Total(g, d)
  BY TotalSplit
<1> HIDE DEF d
<1>3. Total(f, d) = Total(g, d) /\ Total(f, d) \in Int
  BY <1>1, TotalSame, TotalType
<1>4. f[a] \in Int /\ g[a] \in Int
  OBVIOUS
<1> QED
  BY <1>2, <1>3, <1>4

\* Every term is the same.
LEMMA TotalConstant ==
    ASSUME NEW S, IsFiniteSet(S), NEW n \in Int, NEW f, \A x \in S : f[x] = n
    PROVE  Total(f, S) = Cardinality(S) * n
<1> DEFINE Good(s) == Total(f, s) = Cardinality(s) * n
           Q == {s \in SUBSET S : Good(s)}
<1>1. ASSUME NEW T \in SUBSET S, \A u \in SUBSET T : u # T => Good(u)
      PROVE  Good(T)
  <2>1. IsFiniteSet(T)
    BY FS_Subset
  <2>2. CASE T = {}
    <3>1. Total(f, T) = 0 /\ Cardinality(T) = 0
      BY <2>2, TotalEmpty, FS_EmptySet
    <3> QED
      BY <3>1
  <2>3. CASE T # {}
    <3> DEFINE a == Some(T)
               d == T \ {a}
    <3>1. a \in T /\ f[a] = n
      BY <2>3, AnyIn
    <3>2. Total(f, T) = n + Total(f, d)
      BY <2>1, <2>3, <3>1, TotalStep
    <3>3. Total(f, d) = Cardinality(d) * n
      BY <1>1, <3>1
    <3>4. Cardinality(d) = Cardinality(T) - 1 /\ Cardinality(T) \in Nat
      BY <2>1, <3>1, FS_RemoveElement, FS_CardinalityType
    <3> HIDE DEF a, d
    <3>5. \A k \in Int : n + (k - 1) * n = k * n
      OBVIOUS
    <3> QED
      BY <3>2, <3>3, <3>4, <3>5
  <2> QED
    BY <2>2, <2>3
<1> HIDE DEF Good
<1>2. \A T \in SUBSET S : (\A u \in SUBSET T : u # T => u \in Q) => T \in Q
  BY <1>1
<1> HIDE DEF Q
<1>3. \A s \in SUBSET S : s \in Q
  BY <1>2, SubsetInduction
<1> QED
  BY <1>3 DEF Q, Good

\* The sum over a set is that over two parts of it.
LEMMA TotalParts ==
    ASSUME NEW S, IsFiniteSet(S), NEW f, \A x \in S : f[x] \in Int, NEW A \in SUBSET S
    PROVE  Total(f, S) = Total(f, A) + Total(f, S \ A)
<1> DEFINE Good(s) == Total(f, S) = Total(f, s) + Total(f, S \ s)
           Q == {s \in SUBSET S : Good(s)}
<1>1. ASSUME NEW T \in SUBSET S, \A u \in SUBSET T : u # T => Good(u)
      PROVE  Good(T)
  <2>1. CASE T = {}
    <3>1. T = {} => Total(f, T) = 0
      BY TotalEmpty
    <3>2. S \ T = S /\ Total(f, S) \in Int
      BY <2>1, TotalType
    <3> QED
      BY <2>1, <3>1, <3>2
  <2>2. CASE T # {}
    <3> DEFINE a == Some(T)
               d == T \ {a}
               r == S \ d
    <3>1. a \in T /\ a \in r
      BY <2>2, AnyIn
    <3>2. /\ IsFiniteSet(T) /\ \A x \in T : f[x] \in Int
      BY FS_Subset
    <3>3. /\ IsFiniteSet(r) /\ \A x \in r : f[x] \in Int
      BY FS_Subset
    <3>4. Total(f, T) = f[a] + Total(f, d)
      <4> HIDE DEF a
      <4> QED
        BY <3>1, <3>2, TotalSplit
    <3>5. Total(f, r) = f[a] + Total(f, r \ {a})
      <4> HIDE DEF a, r
      <4> QED
        BY <3>1, <3>3, TotalSplit
    <3>6. Total(f, S) = Total(f, d) + Total(f, r)
      BY <1>1, <3>1
    <3>7. r \ {a} = S \ T /\ IsFiniteSet(S \ T) /\ IsFiniteSet(d)
      BY <3>1, FS_Subset
    <3>8. Total(f, d) \in Int /\ Total(f, S \ T) \in Int /\ f[a] \in Int
      <4>1. /\ \A x \in S \ T : f[x] \in Int
            /\ \A x \in d : f[x] \in Int
        OBVIOUS
      <4>2. Total(f, S \ T) \in Int
        BY <3>7, <4>1, TotalType
      <4>3. Total(f, d) \in Int
        <5> HIDE DEF d
        <5> QED
          BY <3>7, <4>1, TotalType
      <4> QED
        BY <3>1, <4>2, <4>3
    <3> HIDE DEF a, d, r
    <3>9. Total(f, r) = f[a] + Total(f, S \ T)
      BY <3>5, <3>7
    <3>10. Total(f, S) = Total(f, T) + Total(f, S \ T)
      BY <3>4, <3>6, <3>8, <3>9
    <3> QED
      BY <3>10
  <2> QED
    BY <2>1, <2>2
<1> HIDE DEF Good
<1>2. \A T \in SUBSET S : (\A u \in SUBSET T : u # T => u \in Q) => T \in Q
  BY <1>1
<1> HIDE DEF Q
<1>3. A \in Q
  BY <1>2, SubsetInduction
<1> QED
  BY <1>3 DEF Q, Good

\* Sums of numbers that are not negative.
LEMMA TotalNatural ==
    ASSUME NEW S, IsFiniteSet(S), NEW f, \A x \in S : f[x] \in Nat
    PROVE  Total(f, S) \in Nat
<1>1. \A x \in S : f[x] \in Int
  OBVIOUS
<1>2. PICK z : z = [x \in S |-> 0]
  OBVIOUS
<1>3. Total(z, S) = 0
  <2>1. \A x \in S : z[x] = 0
    BY <1>2
  <2>2. Total(z, S) = Cardinality(S) * 0
    BY <2>1, TotalConstant
  <2>3. Cardinality(S) \in Nat
    BY FS_CardinalityType
  <2> QED
    BY <2>2, <2>3
<1>4. \A x \in S : z[x] \in Int /\ f[x] \in Int /\ z[x] <= f[x]
  BY <1>2
<1>5. Total(z, S) <= Total(f, S)
  BY <1>4, TotalMonotone
<1>6. Total(f, S) \in Int
  BY <1>1, TotalType
<1> QED
  BY <1>3, <1>5, <1>6

LEMMA TotalPart ==
    ASSUME NEW S, IsFiniteSet(S), NEW f, \A x \in S : f[x] \in Nat, NEW A \in SUBSET S
    PROVE  Total(f, A) <= Total(f, S) /\ Total(f, A) \in Nat /\ Total(f, S) \in Nat
<1>1. Total(f, S) = Total(f, A) + Total(f, S \ A)
  <2>1. \A x \in S : f[x] \in Int
    OBVIOUS
  <2> QED
    BY <2>1, TotalParts
<1>2. IsFiniteSet(A) /\ IsFiniteSet(S \ A)
  BY FS_Subset
<1>3. Total(f, A) \in Nat /\ Total(f, S \ A) \in Nat
  <2>1. /\ \A x \in A : f[x] \in Nat
        /\ \A x \in S \ A : f[x] \in Nat
    OBVIOUS
  <2> QED
    BY <1>2, <2>1, TotalNatural
<1> QED
  BY <1>1, <1>3

LEMMA TotalUnion ==
    ASSUME NEW A, IsFiniteSet(A), NEW B, IsFiniteSet(B), NEW f, \A x \in A \cup B : f[x] \in Nat
    PROVE  Total(f, A \cup B) <= Total(f, A) + Total(f, B)
<1> DEFINE S == A \cup B
           d == S \ A
<1>1. IsFiniteSet(S)
  BY FS_Union
<1>2. A \in SUBSET S /\ d \in SUBSET B
  OBVIOUS
<1>3. /\ \A x \in S : f[x] \in Int
      /\ \A x \in A : f[x] \in Nat
      /\ \A x \in B : f[x] \in Nat
  OBVIOUS
<1> HIDE DEF S
<1>4. Total(f, S) = Total(f, A) + Total(f, d)
  BY <1>1, <1>2, <1>3, TotalParts
<1> HIDE DEF d
<1>5. Total(f, d) <= Total(f, B) /\ Total(f, d) \in Nat /\ Total(f, B) \in Nat
  BY <1>2, <1>3, TotalPart
<1>6. Total(f, A) \in Nat
  BY <1>3, TotalNatural
<1> QED
  BY <1>4, <1>5, <1>6 DEF S

-----------------------------------------------------------------------------
(* Weights.  What a character carries, in weight and number, is counted at *)
(* least, and a container weighs at least what it weighs empty and what is *)
(* in it.  Both are needed, since a corpse is as heavy as was carried.     *)

Weighed(w) ==
    /\ DOMAIN w = Fields
    /\ w.carrying \in [Chars -> SUBSET Objs]
    /\ w.contains \in [Objs -> SUBSET Objs]
    /\ w.weight \in [Objs -> Nat]
    /\ w.carrying_w \in [Chars -> Nat]
    /\ w.carrying_n \in [Chars -> Nat]
    /\ \A c \in Chars : /\ Total(w.weight, w.carrying[c]) <= w.carrying_w[c]
                        /\ Cardinality(w.carrying[c]) <= w.carrying_n[c]
    /\ \A d \in Containers : Weight[d] + Total(w.weight, w.contains[d]) <= w.weight[d]

LEMMA WeightOfTotal ==
    ASSUME NEW w, NEW S
    PROVE  WeightOf(w, S) = Total(w.weight, S)
  BY DEF WeightOf, MapThenSumSet, MapThenFoldSet, Total, Adds, Some

\* Sets of objects and their weights.
LEMMA Pile ==
    ASSUME NEW f \in [Objs -> Nat], NEW A \in SUBSET Objs, NEW B \in SUBSET Objs
    PROVE  /\ IsFiniteSet(A) /\ Cardinality(A) \in Nat /\ Total(f, A) \in Nat
           /\ B \subseteq A => /\ Total(f, B) <= Total(f, A)
                               /\ Total(f, A \ B) = Total(f, A) - Total(f, B)
                               /\ Cardinality(A \ B) = Cardinality(A) - Cardinality(B)
           /\ Total(f, A \cup B) <= Total(f, A) + Total(f, B)
           /\ Cardinality(A \cup B) <= Cardinality(A) + Cardinality(B)
<1>1. /\ IsFiniteSet(A) /\ IsFiniteSet(B)
      /\ \A x \in A : f[x] \in Nat /\ f[x] \in Int
      /\ \A x \in A \cup B : f[x] \in Nat
  BY ObjectsAssumption, FS_Subset
<1>2. Cardinality(A) \in Nat /\ Cardinality(B) \in Nat
  BY <1>1, FS_CardinalityType
<1>3. Total(f, A) \in Nat
  BY <1>1, TotalNatural
<1>4. ASSUME B \subseteq A
      PROVE  /\ Total(f, B) <= Total(f, A)
             /\ Total(f, A \ B) = Total(f, A) - Total(f, B)
             /\ Cardinality(A \ B) = Cardinality(A) - Cardinality(B)
  <2>1. B \in SUBSET A /\ B \cap A = B /\ A \cap B = B
    BY <1>4
  <2>2. Total(f, B) <= Total(f, A) /\ Total(f, B) \in Nat
    BY <1>1, <2>1, TotalPart
  <2>3. Total(f, A) = Total(f, B) + Total(f, A \ B)
    BY <1>1, <2>1, TotalParts
  <2>4. Total(f, A \ B) \in Nat
    <3>1. IsFiniteSet(A \ B) /\ \A x \in A \ B : f[x] \in Nat
      BY <1>1, FS_Subset
    <3> QED
      BY <3>1, TotalNatural
  <2>5. Cardinality(A \ B) = Cardinality(A) - Cardinality(A \cap B)
    BY <1>1, FS_Difference
  <2>6. Cardinality(A \ B) = Cardinality(A) - Cardinality(B)
    BY <2>1, <2>5
  <2>7. Total(f, A \ B) = Total(f, A) - Total(f, B)
    BY <2>2, <2>3, <2>4
  <2> QED
    BY <2>2, <2>6, <2>7
<1>5. Total(f, A \cup B) <= Total(f, A) + Total(f, B)
  BY <1>1, TotalUnion
<1>6. Cardinality(A \cup B) <= Cardinality(A) + Cardinality(B)
  <2>1. Cardinality(A \cup B) = Cardinality(A) + Cardinality(B) - Cardinality(A \cap B)
    BY <1>1, FS_Union
  <2>2. Cardinality(A \cap B) \in Nat
    <3>1. IsFiniteSet(A \cap B)
      BY <1>1, FS_Subset
    <3> QED
      BY <3>1, FS_CardinalityType
  <2> QED
    BY <1>2, <2>1, <2>2
<1> QED
  BY <1>1, <1>2, <1>3, <1>4, <1>5, <1>6

\* Equal weights have equal sums.
LEMMA SamePile ==
    ASSUME NEW f \in [Objs -> Nat], NEW g \in [Objs -> Nat], NEW A \in SUBSET Objs,
           \A x \in A : f[x] = g[x]
    PROVE  Total(f, A) = Total(g, A)
<1>1. IsFiniteSet(A) /\ \A x \in A : f[x] \in Int /\ f[x] = g[x]
  BY ObjectsAssumption, FS_Subset
<1> QED
  BY <1>1, TotalSame

\* Functions that touch neither the lists of characters nor those of
\* containers, nor any weight.
LEMMA WeighedSame ==
    ASSUME NEW w, Weighed(w), NEW v, DOMAIN v = Fields, v.carrying = w.carrying,
           v.contains = w.contains, v.weight = w.weight, v.carrying_w = w.carrying_w,
           v.carrying_n = w.carrying_n
    PROVE  Weighed(v)
  BY DEF Weighed

LEMMA WeighedMoves ==
    ASSUME NEW w, Weighed(w), NEW S, NEW c, NEW r, NEW P, NEW o, NEW p, NEW refused
    PROVE  /\ Weighed(ObjToRoom(w, S, r)) /\ Weighed(ObjFromRoom(w, S, r))
           /\ Weighed(CheckFallingObj(w, S, r)) /\ Weighed(ReadObject(w, o))
           /\ Weighed(UnequipChar(w, c, P)) /\ Weighed(PutOn(w, c, o, p))
           /\ Weighed(EquipChar(w, c, o, p, refused))
<1>1. ASSUME NEW u, Weighed(u), NEW s
      PROVE  Weighed(ObjToRoom(u, S, s)) /\ Weighed(ObjFromRoom(u, S, s))
             /\ Weighed(ObjToRoom(u, {o}, s))
  <2> DEFINE a == ObjToRoom(u, S, s)
             b == ObjFromRoom(u, S, s)
             d == ObjToRoom(u, {o}, s)
             Plain(v) == DOMAIN v = Fields /\ v.carrying = u.carrying /\ v.contains = u.contains
                         /\ v.weight = u.weight /\ v.carrying_w = u.carrying_w
                         /\ v.carrying_n = u.carrying_n
  <2>1. Plain(a) /\ Plain(b) /\ Plain(d)
    BY <1>1 DEF Weighed, Fields, ObjToRoom, ObjFromRoom
  <2> HIDE DEF a, b, d
  <2>2. Weighed(a) /\ Weighed(b) /\ Weighed(d)
    BY <1>1, <2>1, WeighedSame
  <2> QED
    BY <2>2 DEF a, b, d
<1>2. Weighed(CheckFallingObj(w, S, r))
  <2>1. PICK b : b = ObjFromRoom(w, S, r)
    OBVIOUS
  <2>2. Weighed(b) 
    BY <1>1, <2>1
  <2>3. Weighed(ObjToRoom(b, S, Below[r]))
    BY <1>1, <2>2
  <2> QED
    BY <2>1, <2>3 DEF CheckFallingObj
<1>3. Weighed(ReadObject(w, o)) /\ Weighed(UnequipChar(w, c, P)) /\ Weighed(PutOn(w, c, o, p))
  <2> DEFINE a == ReadObject(w, o)
             b == UnequipChar(w, c, P)
             d == PutOn(w, c, o, p)
             Plain(v) == DOMAIN v = Fields /\ v.carrying = w.carrying /\ v.contains = w.contains
                         /\ v.weight = w.weight /\ v.carrying_w = w.carrying_w
                         /\ v.carrying_n = w.carrying_n
  <2>1. Plain(a) /\ Plain(b) /\ Plain(d)
    BY DEF Weighed, Fields, ReadObject, UnequipChar, PutOn
  <2> HIDE DEF a, b, d
  <2>2. Weighed(a) /\ Weighed(b) /\ Weighed(d)
    BY <2>1, WeighedSame
  <2> QED
    BY <2>2 DEF a, b, d
<1> QED
  BY <1>1, <1>2, <1>3 DEF EquipChar

LEMMA WeighedToChar ==
    ASSUME NEW w, Weighed(w), NEW S \in SUBSET Objs, NEW c \in Chars
    PROVE  Weighed(ObjToChar(w, S, c))
<1> DEFINE v == ObjToChar(w, S, c)
<1>1. /\ DOMAIN v = Fields
      /\ v.carrying = [w.carrying EXCEPT ![c] = @ \cup S]
      /\ v.contains = w.contains /\ v.weight = w.weight
      /\ v.carrying_w = [w.carrying_w EXCEPT ![c] = @ + WeightOf(w, S)]
      /\ v.carrying_n = [w.carrying_n EXCEPT ![c] = @ + Cardinality(S)]
  BY DEF Weighed, Fields, ObjToChar
<1> HIDE DEF v
<1>2. WeightOf(w, S) = Total(w.weight, S)
  BY WeightOfTotal
<1>3. PICK A \in SUBSET Objs : A = w.carrying[c]
  BY DEF Weighed
<1>4. PICK f \in [Objs -> Nat] : f = w.weight
  BY DEF Weighed
<1>5. /\ Total(f, A) \in Nat /\ Total(f, S) \in Nat
      /\ Cardinality(A) \in Nat /\ Cardinality(S) \in Nat
      /\ Total(f, A \cup S) \in Nat /\ Cardinality(A \cup S) \in Nat
      /\ Total(f, A \cup S) <= Total(f, A) + Total(f, S)
      /\ Cardinality(A \cup S) <= Cardinality(A) + Cardinality(S)
  BY <1>3, <1>4, Pile
<1>6. Total(f, A) <= w.carrying_w[c] /\ Cardinality(A) <= w.carrying_n[c]
      /\ w.carrying_w[c] \in Nat /\ w.carrying_n[c] \in Nat
  BY <1>3, <1>4 DEF Weighed
<1>7. /\ Total(f, A \cup S) <= w.carrying_w[c] + Total(f, S)
      /\ Cardinality(A \cup S) <= w.carrying_n[c] + Cardinality(S)
      /\ w.carrying_w[c] + Total(f, S) \in Nat
      /\ w.carrying_n[c] + Cardinality(S) \in Nat
  BY <1>5, <1>6
<1>8. /\ v.carrying \in [Chars -> SUBSET Objs] /\ v.contains \in [Objs -> SUBSET Objs]
      /\ v.weight \in [Objs -> Nat]
      /\ v.carrying_w \in [Chars -> Nat] /\ v.carrying_n \in [Chars -> Nat]
  BY <1>1, <1>2, <1>4, <1>7 DEF Weighed
<1>9. \A d \in Chars : /\ Total(v.weight, v.carrying[d]) <= v.carrying_w[d]
                       /\ Cardinality(v.carrying[d]) <= v.carrying_n[d]
  BY <1>1, <1>2, <1>3, <1>4, <1>7 DEF Weighed
<1>10. \A d \in Containers : Weight[d] + Total(v.weight, v.contains[d]) <= v.weight[d]
  BY <1>1 DEF Weighed
<1> QED
  BY <1>1, <1>8, <1>9, <1>10 DEF Weighed, v

LEMMA WeighedFromChar ==
    ASSUME NEW w, Weighed(w), NEW c \in Chars, NEW S, S \subseteq w.carrying[c]
    PROVE  Weighed(ObjFromChar(w, S, c))
<1> DEFINE v == ObjFromChar(w, S, c)
<1>1. /\ DOMAIN v = Fields
      /\ v.carrying = [w.carrying EXCEPT ![c] = @ \ S]
      /\ v.contains = w.contains /\ v.weight = w.weight
      /\ v.carrying_w = [w.carrying_w EXCEPT ![c] = @ - WeightOf(w, S)]
      /\ v.carrying_n = [w.carrying_n EXCEPT ![c] = @ - Cardinality(S)]
  BY DEF Weighed, Fields, ObjFromChar
<1> HIDE DEF v
<1>2. WeightOf(w, S) = Total(w.weight, S)
  BY WeightOfTotal
<1>3. PICK A \in SUBSET Objs : A = w.carrying[c]
  BY DEF Weighed
<1>4. PICK f \in [Objs -> Nat] : f = w.weight
  BY DEF Weighed
<1>5. S \in SUBSET Objs /\ S \subseteq A
  BY <1>3
<1>6. /\ Total(f, A) \in Nat /\ Total(f, S) \in Nat
      /\ Cardinality(A) \in Nat /\ Cardinality(S) \in Nat
      /\ Total(f, A \ S) = Total(f, A) - Total(f, S)
      /\ Cardinality(A \ S) = Cardinality(A) - Cardinality(S)
      /\ Total(f, A \ S) \in Nat /\ Cardinality(A \ S) \in Nat
  <2>1. A \ S \in SUBSET Objs
    BY <1>3
  <2> QED
    BY <1>3, <1>4, <1>5, <2>1, Pile
<1>7. Total(f, A) <= w.carrying_w[c] /\ Cardinality(A) <= w.carrying_n[c]
      /\ w.carrying_w[c] \in Nat /\ w.carrying_n[c] \in Nat
  BY <1>3, <1>4 DEF Weighed
<1>8. /\ Total(f, A \ S) <= w.carrying_w[c] - Total(f, S)
      /\ Cardinality(A \ S) <= w.carrying_n[c] - Cardinality(S)
      /\ w.carrying_w[c] - Total(f, S) \in Nat
      /\ w.carrying_n[c] - Cardinality(S) \in Nat
  BY <1>6, <1>7
<1>9. /\ v.carrying \in [Chars -> SUBSET Objs] /\ v.contains \in [Objs -> SUBSET Objs]
      /\ v.weight \in [Objs -> Nat]
      /\ v.carrying_w \in [Chars -> Nat] /\ v.carrying_n \in [Chars -> Nat]
  BY <1>1, <1>2, <1>4, <1>8 DEF Weighed
<1>10. \A d \in Chars : /\ Total(v.weight, v.carrying[d]) <= v.carrying_w[d]
                        /\ Cardinality(v.carrying[d]) <= v.carrying_n[d]
  BY <1>1, <1>2, <1>3, <1>4, <1>8 DEF Weighed
<1>11. \A d \in Containers : Weight[d] + Total(v.weight, v.contains[d]) <= v.weight[d]
  BY <1>1 DEF Weighed
<1> QED
  BY <1>1, <1>9, <1>10, <1>11 DEF Weighed, v

\* Less in a container.
LEMMA WeighedLess ==
    ASSUME NEW w, Weighed(w), NEW v, DOMAIN v = Fields, v.carrying = w.carrying,
           v.weight = w.weight, v.carrying_w = w.carrying_w, v.carrying_n = w.carrying_n,
           v.contains \in [Objs -> SUBSET Objs],
           \A d \in Containers : v.contains[d] \subseteq w.contains[d]
    PROVE  Weighed(v)
<1>1. ASSUME NEW d \in Containers
      PROVE  Weight[d] + Total(v.weight, v.contains[d]) <= v.weight[d]
  <2>1. PICK A \in SUBSET Objs : A = w.contains[d]
    BY ObjectsAssumption DEF Weighed
  <2>2. PICK B \in SUBSET Objs : B = v.contains[d]
    BY ObjectsAssumption
  <2>3. PICK f \in [Objs -> Nat] : f = w.weight
    BY DEF Weighed
  <2>4. Total(f, B) <= Total(f, A) /\ Total(f, B) \in Nat /\ Total(f, A) \in Nat
    BY <2>1, <2>2, <2>3, Pile
  <2>5. Weight[d] + Total(f, A) <= f[d] /\ Weight[d] \in Nat /\ f[d] \in Nat
    BY <2>1, <2>3, ObjectsAssumption DEF Weighed
  <2>6. Weight[d] + Total(f, B) <= f[d]
    BY <2>4, <2>5
  <2> QED
    BY <2>2, <2>3, <2>6
<1> QED
  BY <1>1 DEF Weighed

LEMMA WeighedEmptied ==
    ASSUME NEW w, Weighed(w), NEW o
    PROVE  Weighed(Emptied(w, o)) /\ Weighed(Unlinked(w, o))
<1> DEFINE a == Emptied(w, o)
           b == Unlinked(w, o)
           Plain(v) == DOMAIN v = Fields /\ v.carrying = w.carrying
                       /\ v.weight = w.weight /\ v.carrying_w = w.carrying_w
                       /\ v.carrying_n = w.carrying_n
<1>1. Plain(a) /\ a.contains = [w.contains EXCEPT ![o] = {}]
  BY DEF Weighed, Fields, Emptied
<1>2. Plain(b) /\ b.contains = [w.contains EXCEPT ![w.in_obj[o]] = @ \ {o}]
  BY DEF Weighed, Fields, Unlinked
<1>3. Containers \subseteq Objs /\ w.contains \in [Objs -> SUBSET Objs]
  BY ObjectsAssumption DEF Weighed
<1> HIDE DEF a, b
<1>4. /\ a.contains \in [Objs -> SUBSET Objs]
      /\ \A d \in Containers : a.contains[d] \subseteq w.contains[d]
  BY <1>1, <1>3
<1>5. /\ b.contains \in [Objs -> SUBSET Objs]
      /\ \A d \in Containers : b.contains[d] \subseteq w.contains[d]
  <2>1. PICK d : d = w.in_obj[o]
    OBVIOUS
  <2>2. b.contains = [w.contains EXCEPT ![d] = @ \ {o}]
    BY <1>2, <2>1
  <2> QED
    BY <1>3, <2>2
<1>6. Weighed(a)
  BY <1>1, <1>4, WeighedLess
<1>7. Weighed(b)
  BY <1>2, <1>5, WeighedLess
<1> QED
  BY <1>6, <1>7 DEF a, b

\* What is freed weighs again what it weighs empty, and is in no list.
LEMMA WeighedExtracted ==
    ASSUME NEW w, Weighed(w), NEW S, Sound(ExtractObj(w, S))
    PROVE  Weighed(ExtractObj(w, S))
<1> DEFINE v == ExtractObj(w, S)
           T == S \cup Inside(w, S)
<1>1. /\ DOMAIN v = Fields
      /\ v.object_list = w.object_list \ T
      /\ v.carrying = w.carrying /\ v.carrying_w = w.carrying_w /\ v.carrying_n = w.carrying_n
      /\ v.contains = SetAll(w.contains, T, {})
      /\ v.weight = [o \in Objs |-> IF o \in T THEN Weight[o] ELSE w.weight[o]]
  BY DEF ExtractObj, FreeObj, Weighed, Fields
<1> HIDE DEF v, T
<1>2. \A x \in Objs : x \in T => Nowhere(v, x)
  BY <1>1 DEF Sound, AtMostOnePlace, v
<1>3. Containers \subseteq Objs /\ None \notin Objs \cup Chars
  BY ObjectsAssumption
<1>4. \A x \in Objs : x \in T => /\ \A c \in Chars : x \notin v.carrying[c]
                                 /\ \A d \in Objs : x \notin v.contains[d]
  BY <1>2, <1>3 DEF Sound, ListsAgree, Nowhere, v
<1>5. PICK f \in [Objs -> Nat] : f = w.weight
  BY DEF Weighed
<1>6. PICK g \in [Objs -> Nat] : g = v.weight
  BY <1>1, <1>5, ObjectsAssumption
<1>7. \A x \in Objs : x \notin T => f[x] = g[x]
  BY <1>1, <1>5, <1>6
<1>8. ASSUME NEW c \in Chars
      PROVE  Total(g, v.carrying[c]) = Total(f, w.carrying[c])
  <2>1. v.carrying[c] = w.carrying[c] /\ w.carrying[c] \in SUBSET Objs
    BY <1>1 DEF Weighed
  <2>2. \A x \in w.carrying[c] : f[x] = g[x]
    BY <1>4, <1>7, <2>1
  <2> QED
    BY <2>1, <2>2, SamePile
<1>9. ASSUME NEW d \in Containers
      PROVE  Weight[d] + Total(g, v.contains[d]) <= g[d]
  <2>1. CASE d \in T
    <3>1. v.contains[d] = {} /\ g[d] = Weight[d]
      BY <1>1, <1>3, <1>6, <2>1 DEF SetAll, Weighed
    <3>2. Weight[d] \in Nat
      BY <1>3, ObjectsAssumption
    <3> QED
      BY <3>1, <3>2, TotalEmpty
  <2>2. CASE d \notin T
    <3>1. v.contains[d] = w.contains[d] /\ w.contains[d] \in SUBSET Objs /\ g[d] = f[d]
      BY <1>1, <1>3, <1>7, <2>2 DEF SetAll, Weighed
    <3>2. \A x \in w.contains[d] : f[x] = g[x]
      BY <1>3, <1>4, <1>7, <3>1
    <3>3. Total(g, v.contains[d]) = Total(f, w.contains[d])
      BY <3>1, <3>2, SamePile
    <3> QED
      BY <1>5, <3>1, <3>3 DEF Weighed
  <2> QED
    BY <2>1, <2>2
<1>10. /\ v.carrying \in [Chars -> SUBSET Objs] /\ v.contains \in [Objs -> SUBSET Objs]
       /\ v.carrying_w \in [Chars -> Nat] /\ v.carrying_n \in [Chars -> Nat]
  BY <1>1 DEF Weighed, SetAll
<1>11. \A c \in Chars : /\ Total(v.weight, v.carrying[c]) <= v.carrying_w[c]
                        /\ Cardinality(v.carrying[c]) <= v.carrying_n[c]
  BY <1>1, <1>5, <1>6, <1>8 DEF Weighed
<1> QED
  BY <1>1, <1>6, <1>9, <1>10, <1>11 DEF Weighed, v

\* One object x that is in no container changes its weight to n, and its
\* contents with it.
LEMMA Reweighed ==
    ASSUME NEW w, Weighed(w), NEW x \in Objs, NEW n \in Nat, NEW v,
           DOMAIN v = Fields, v.carrying = w.carrying, v.carrying_n = w.carrying_n,
           v.weight = [w.weight EXCEPT ![x] = n],
           v.contains \in [Objs -> SUBSET Objs],
           \A e \in Containers : x \notin v.contains[e],
           \A e \in Containers : e # x => v.contains[e] = w.contains[e],
           x \in Containers => Weight[x] + Total(w.weight, v.contains[x]) <= n,
           v.carrying_w \in [Chars -> Nat],
           \A c \in Chars : IF x \in w.carrying[c]
                            THEN w.carrying_w[c] - w.weight[x] + n <= v.carrying_w[c]
                            ELSE w.carrying_w[c] <= v.carrying_w[c]
    PROVE  Weighed(v)
<1>1. PICK f \in [Objs -> Nat] : f = w.weight
  BY DEF Weighed
<1>2. PICK g \in [Objs -> Nat] : g = v.weight
  BY <1>1
<1>3. g[x] = n /\ \A y \in Objs : y # x => g[y] = f[y]
  BY <1>1, <1>2
<1>4. Containers \subseteq Objs
  BY ObjectsAssumption
<1>5. ASSUME NEW c \in Chars
      PROVE  Total(g, v.carrying[c]) <= v.carrying_w[c]
  <2>1. PICK A \in SUBSET Objs : A = w.carrying[c]
    BY DEF Weighed
  <2>2. Total(f, A) <= w.carrying_w[c] /\ Total(f, A) \in Nat /\ Total(g, A) \in Nat
        /\ w.carrying_w[c] \in Nat /\ v.carrying_w[c] \in Nat /\ f[x] \in Nat
    <3>1. Total(f, A) \in Nat
      BY Pile
    <3>2. Total(g, A) \in Nat
      BY Pile
    <3> QED
      BY <1>1, <2>1, <3>1, <3>2 DEF Weighed
  <2>3. CASE x \in A
    <3>1. IsFiniteSet(A) /\ \A y \in A : f[y] \in Int /\ g[y] \in Int
      BY ObjectsAssumption, FS_Subset
    <3>2. \A y \in A \ {x} : f[y] = g[y]
      BY <1>3
    <3>3. Total(g, A) = Total(f, A) - f[x] + g[x]
      BY <2>3, <3>1, <3>2, TotalChange
    <3>4. w.carrying_w[c] - f[x] + n <= v.carrying_w[c]
      BY <1>1, <2>1, <2>3
    <3>5. Total(g, A) <= v.carrying_w[c]
      BY <1>3, <2>2, <3>3, <3>4
    <3> QED
      BY <2>1, <3>5
  <2>4. CASE x \notin A
    <3>1. Total(f, A) = Total(g, A)
      <4>1. \A y \in A : f[y] = g[y]
        BY <1>3, <2>4
      <4> QED
        BY <4>1, SamePile
    <3>2. w.carrying_w[c] <= v.carrying_w[c]
      BY <2>1, <2>4
    <3>3. Total(g, A) <= v.carrying_w[c]
      BY <2>2, <3>1, <3>2
    <3> QED
      BY <2>1, <3>3
  <2> QED
    BY <2>3, <2>4
<1>6. ASSUME NEW e \in Containers
      PROVE  Weight[e] + Total(g, v.contains[e]) <= g[e]
  <2>1. PICK A \in SUBSET Objs : A = v.contains[e]
    BY <1>4
  <2>2. Total(f, A) = Total(g, A)
    <3>1. \A y \in A : f[y] = g[y]
      BY <1>3, <2>1
    <3> QED
      BY <3>1, SamePile
  <2>3. CASE e = x
    BY <1>1, <1>3, <2>1, <2>2, <2>3
  <2>4. CASE e # x
    <3>1. A = w.contains[e] /\ g[e] = f[e]
      BY <1>3, <1>4, <2>1, <2>4
    <3>2. Weight[e] + Total(f, A) <= f[e]
      BY <1>1, <3>1 DEF Weighed
    <3> QED
      BY <2>1, <2>2, <3>1, <3>2
  <2> QED
    BY <2>3, <2>4
<1>7. v.weight \in [Objs -> Nat] /\ v.carrying \in [Chars -> SUBSET Objs]
      /\ v.carrying_n \in [Chars -> Nat]
  BY <1>2 DEF Weighed
<1>8. \A c \in Chars : Cardinality(v.carrying[c]) <= v.carrying_n[c]
  BY DEF Weighed
<1> QED
  BY <1>2, <1>5, <1>6, <1>7, <1>8 DEF Weighed

\* Drinking and pouring.
LEMMA WeighedSip ==
    ASSUME NEW w, Weighed(w), Sound(w), NEW c \in Chars, NEW o \in Drinks,
           o \in w.carrying[c], NEW change \in Int
    PROVE  Weighed(WeightChangeObject(w, o, c, change))
<1>0. /\ o \in Objs /\ o \notin Containers /\ Containers \subseteq Objs
      /\ None \notin Objs \cup Chars
  BY ObjectsAssumption
<1>1. PICK k \in Int : /\ w.weight[o] + k \in Nat
                       /\ k = IF w.weight[o] + change < 1 THEN 1 - w.weight[o] ELSE change
  <2>1. w.weight[o] \in Nat
    BY <1>0 DEF Weighed
  <2> QED
    BY <2>1
<1> DEFINE u == ObjFromChar(w, {o}, c)
           h == [u EXCEPT !.weight[o] = @ + k]
<1>2. Weighed(u)
  BY WeighedFromChar
<1>3. Sound(u) /\ AllNowhere(u, {o})
  BY ObjFromCharSound
<1>4. u.weight = w.weight
  BY DEF ObjFromChar, Weighed, Fields
<1>5. WeightChangeObject(w, o, c, change) = ObjToChar(h, {o}, c)
  BY <1>1 DEF WeightChangeObject
<1> HIDE DEF u
<1>6. /\ \A d \in Chars : o \notin u.carrying[d]
      /\ \A e \in Containers : o \notin u.contains[e]
  BY <1>0, <1>3 DEF Sound, ListsAgree, AllNowhere, Nowhere
<1>7. /\ DOMAIN h = Fields /\ h.carrying = u.carrying /\ h.carrying_n = u.carrying_n
      /\ h.carrying_w = u.carrying_w /\ h.contains = u.contains
      /\ h.weight = [u.weight EXCEPT ![o] = u.weight[o] + k]
  BY <1>2 DEF Weighed, Fields
<1> HIDE DEF h
<1>8. Weighed(h)
  <2>1. PICK n \in Nat : n = u.weight[o] + k
    BY <1>1, <1>4
  <2>2. /\ h.contains \in [Objs -> SUBSET Objs] /\ h.carrying_w \in [Chars -> Nat]
        /\ \A d \in Chars : u.carrying_w[d] <= h.carrying_w[d]
    BY <1>2, <1>7 DEF Weighed
  <2>3. \A d \in Chars : IF o \in u.carrying[d]
                         THEN u.carrying_w[d] - u.weight[o] + n <= h.carrying_w[d]
                         ELSE u.carrying_w[d] <= h.carrying_w[d]
    BY <1>6, <2>2
  <2> QED
    BY <1>0, <1>2, <1>6, <1>7, <2>1, <2>2, <2>3, Reweighed
<1>9. Weighed(ObjToChar(h, {o}, c))
  BY <1>0, <1>8, WeighedToChar
<1> QED
  BY <1>5, <1>9

\* A container that lies in a room or in somebody's hands is the only one
\* around what is in it.
LEMMA AroundIs ==
    ASSUME NEW v, NEW o \in Objs, NEW d \in Containers,
           v.in_obj \in [Objs -> Containers \cup {None}],
           \A x, y \in Objs : x \in v.contains[y] <=> v.in_obj[x] = y,
           v.in_obj[o] = d, v.in_obj[d] = None
    PROVE  Around(v, o) = {d} /\ Outermost(v, o) = d
<1>1. Around(v, o) \subseteq {d}
  BY OneAround
<1>2. o \in v.contains[d] /\ d \in Objs
  BY ObjectsAssumption
<1>3. o \in Inside(v, {d})
  BY <1>2 DEF Inside
<1>4. Around(v, o) = {d}
  BY <1>1, <1>3 DEF Around
<1> QED
  BY <1>4 DEF Outermost

LEMMA LessIs ==
    ASSUME NEW a \in Nat, NEW b \in Nat
    PROVE  Less(a, b) \in Nat /\ a - b <= Less(a, b) /\ (b <= a => Less(a, b) = a - b)
  BY DEF Less

\* Out of a container that is in none.
LEMMA WeighedFromObj ==
    ASSUME NEW w, Weighed(w), Sound(w), NEW o \in Objs, NEW d \in Containers,
           w.in_obj[o] = d, w.in_obj[d] = None
    PROVE  Weighed(ObjFromObj(w, o))
<1>0. Containers \subseteq Objs /\ None \notin Objs \cup Chars
  BY ObjectsAssumption
<1>1. /\ \A x, y \in Objs : x \in w.contains[y] <=> w.in_obj[x] = y
      /\ \A x \in Objs : \A c \in Chars : x \in w.carrying[c] <=> w.carried_by[x] = c
      /\ w.in_obj \in [Objs -> Containers \cup {None}]
      /\ w.carried_by \in [Objs -> Chars \cup {None}]
  BY DEF Sound, World, ListsAgree
<1>2. Around(w, o) = {d} /\ Outermost(w, o) = d
  BY <1>1, AroundIs
<1> DEFINE v == ObjFromObj(w, o)
           q == w.carried_by[d]
<1>3. /\ DOMAIN v = Fields
      /\ v.carrying = w.carrying /\ v.carrying_n = w.carrying_n
      /\ v.contains = [w.contains EXCEPT ![d] = @ \ {o}]
      /\ v.weight = [x \in Objs |-> IF x \in {d} THEN Less(w.weight[x], w.weight[o])
                                    ELSE w.weight[x]]
      /\ v.carrying_w = IF q = None THEN w.carrying_w
                        ELSE [w.carrying_w EXCEPT ![q] = Less(@, w.weight[o])]
  BY <1>2 DEF ObjFromObj, Weighed, Fields
<1> HIDE DEF v
<1>4. PICK A \in SUBSET Objs : A = w.contains[d]
  BY <1>0 DEF Weighed
<1>5. PICK f \in [Objs -> Nat] : f = w.weight
  BY DEF Weighed
<1>6. /\ Total(f, A) = f[o] + Total(f, A \ {o}) /\ Total(f, A \ {o}) \in Nat
      /\ Weight[d] + Total(f, A) <= f[d] /\ f[o] \in Nat /\ f[d] \in Nat /\ Weight[d] \in Nat
  <2>1. o \in A
    BY <1>0, <1>1, <1>4
  <2>2. IsFiniteSet(A) /\ \A y \in A : f[y] \in Int
    BY ObjectsAssumption, FS_Subset
  <2>3. Total(f, A) = f[o] + Total(f, A \ {o})
    BY <2>1, <2>2, TotalSplit
  <2>4. Total(f, A \ {o}) \in Nat
    <3>1. A \ {o} \in SUBSET Objs
      OBVIOUS
    <3> QED
      BY <3>1, Pile
  <2> QED
    BY <1>0, <1>4, <1>5, <2>3, <2>4, ObjectsAssumption DEF Weighed
<1>7. PICK n \in Nat : n = f[d] - f[o] /\ n = Less(f[d], f[o])
                       /\ Weight[d] + Total(f, A \ {o}) <= n
  <2>1. \A t, u, a, b, k \in Nat : t = b + u /\ k + t <= a => b <= a /\ a - b \in Nat /\ k + u <= a - b
    OBVIOUS
  <2>2. Total(f, A) \in Nat
    BY Pile
  <2>3. f[o] <= f[d] /\ f[d] - f[o] \in Nat /\ Weight[d] + Total(f, A \ {o}) <= f[d] - f[o]
    BY <1>6, <2>1, <2>2
  <2>4. Less(f[d], f[o]) = f[d] - f[o]
    BY <1>6, <2>3, LessIs
  <2> QED
    BY <2>3, <2>4
<1>8. v.weight = [w.weight EXCEPT ![d] = n]
  BY <1>0, <1>3, <1>5, <1>7
<1>9. /\ v.contains \in [Objs -> SUBSET Objs]
      /\ v.contains[d] = A \ {o}
      /\ \A e \in Containers : e # d => v.contains[e] = w.contains[e]
      /\ \A e \in Containers : d \notin v.contains[e]
  BY <1>0, <1>1, <1>3, <1>4 DEF Weighed
<1>10. v.carrying_w \in [Chars -> Nat]
       /\ \A c \in Chars : IF d \in w.carrying[c]
                           THEN w.carrying_w[c] - w.weight[d] + n <= v.carrying_w[c]
                           ELSE w.carrying_w[c] <= v.carrying_w[c]
  <2>1. w.carrying_w \in [Chars -> Nat]
    BY DEF Weighed
  <2>2. \A c \in Chars : d \in w.carrying[c] <=> q = c
    BY <1>0, <1>1
  <2>3. \A c \in Chars : Less(w.carrying_w[c], f[o]) \in Nat
                         /\ w.carrying_w[c] - f[o] <= Less(w.carrying_w[c], f[o])
    BY <1>6, <2>1, LessIs
  <2>4. \A c \in Chars : w.carrying_w[c] - f[d] + n = w.carrying_w[c] - f[o]
    BY <1>6, <1>7, <2>1
  <2>5. q \in Chars \cup {None}
    BY <1>0, <1>1
  <2> HIDE DEF q
  <2>6. CASE q = None
    BY <1>0, <1>3, <2>1, <2>2, <2>6
  <2>7. CASE q # None
    <3>1. v.carrying_w = [w.carrying_w EXCEPT ![q] = Less(@, f[o])]
      BY <1>3, <1>5, <2>7
    <3>2. v.carrying_w \in [Chars -> Nat]
      <4>1. PICK l \in Nat : l = Less(w.carrying_w[q], f[o])
        BY <2>3, <2>5, <2>7
      <4>2. v.carrying_w = [w.carrying_w EXCEPT ![q] = l]
        BY <3>1, <4>1
      <4> QED
        BY <2>1, <4>2
    <3>3. ASSUME NEW c \in Chars
          PROVE  IF d \in w.carrying[c]
                 THEN w.carrying_w[c] - w.weight[d] + n <= v.carrying_w[c]
                 ELSE w.carrying_w[c] <= v.carrying_w[c]
      <4>1. CASE q = c
        <5>1. v.carrying_w[c] = Less(w.carrying_w[c], f[o])
          BY <2>1, <3>1, <4>1
        <5> QED
          BY <1>5, <2>2, <2>3, <2>4, <4>1, <5>1
      <4>2. CASE q # c
        <5>1. v.carrying_w[c] = w.carrying_w[c] /\ w.carrying_w[c] \in Nat
          BY <2>1, <3>1, <4>2
        <5> QED
          BY <2>2, <4>2, <5>1
      <4> QED
        BY <4>1, <4>2
    <3> QED
      BY <3>2, <3>3
  <2> QED
    BY <2>6, <2>7
<1>11. d \in Containers => Weight[d] + Total(w.weight, v.contains[d]) <= n
  BY <1>5, <1>7, <1>9
<1>12. Weighed(v)
  BY <1>0, <1>3, <1>8, <1>9, <1>10, <1>11, Reweighed
<1> QED
  BY <1>12 DEF v

\* Into a container that is in none.
LEMMA WeighedToObj ==
    ASSUME NEW w, Weighed(w), Sound(w), NEW o \in Objs, NEW d \in Containers,
           Nowhere(w, o), o # d, w.in_obj[d] = None
    PROVE  Weighed(ObjToObj(w, o, d))
<1>0. Containers \subseteq Objs /\ None \notin Objs \cup Chars
  BY ObjectsAssumption
<1> DEFINE u == [w EXCEPT !.contains[d] = @ \cup {o}, !.in_obj[o] = d,
                          !.carried_by[o] = None, !.equipped_by[o] = None]
           q == w.carried_by[d]
<1>1. /\ DOMAIN u = Fields
      /\ u.contains = [w.contains EXCEPT ![d] = @ \cup {o}]
      /\ u.in_obj = [w.in_obj EXCEPT ![o] = d]
      /\ u.carrying = w.carrying /\ u.carrying_n = w.carrying_n
      /\ u.carrying_w = w.carrying_w /\ u.weight = w.weight
  BY DEF Weighed, Fields
<1>2. /\ \A x, y \in Objs : x \in w.contains[y] <=> w.in_obj[x] = y
      /\ \A x \in Objs : \A c \in Chars : x \in w.carrying[c] <=> w.carried_by[x] = c
      /\ w.in_obj \in [Objs -> Containers \cup {None}]
      /\ w.contains \in [Objs -> SUBSET Objs]
      /\ w.carried_by \in [Objs -> Chars \cup {None}]
  BY DEF Sound, World, ListsAgree
<1> DEFINE v == ObjToObj(w, o, d)
<1>3. v = IF w.carried_by[Outermost(u, o)] = None
          THEN [u EXCEPT !.weight = [x \in Objs |->
                   IF x \in Around(u, o) THEN @[x] + w.weight[o] ELSE @[x]]]
          ELSE [[u EXCEPT !.weight = [x \in Objs |->
                   IF x \in Around(u, o) THEN @[x] + w.weight[o] ELSE @[x]]]
                  EXCEPT !.carrying_w[w.carried_by[Outermost(u, o)]] = @ + w.weight[o]]
  BY DEF ObjToObj
<1> HIDE DEF u, v
<1>4. /\ u.in_obj \in [Objs -> Containers \cup {None}] /\ u.in_obj[o] = d /\ u.in_obj[d] = None
      /\ \A x, y \in Objs : x \in u.contains[y] <=> u.in_obj[x] = y
  <2>1. w.in_obj[o] = None
    BY DEF Nowhere
  <2> QED
    BY <1>0, <1>1, <1>2, <2>1
<1>5. Around(u, o) = {d} /\ Outermost(u, o) = d
  BY <1>4, AroundIs
<1>6. /\ DOMAIN v = Fields
      /\ v.carrying = w.carrying /\ v.carrying_n = w.carrying_n
      /\ v.contains = [w.contains EXCEPT ![d] = @ \cup {o}]
      /\ v.weight = [x \in Objs |-> IF x \in {d} THEN w.weight[x] + w.weight[o] ELSE w.weight[x]]
      /\ v.carrying_w = IF q = None THEN w.carrying_w
                        ELSE [w.carrying_w EXCEPT ![q] = @ + w.weight[o]]
  <2>1. CASE q = None
    BY <1>1, <1>3, <1>5, <2>1 DEF Fields
  <2>2. CASE q # None
    BY <1>1, <1>3, <1>5, <2>2 DEF Fields
  <2> QED
    BY <2>1, <2>2
<1>7. PICK A \in SUBSET Objs : A = w.contains[d]
  BY <1>0 DEF Weighed
<1>8. PICK f \in [Objs -> Nat] : f = w.weight
  BY DEF Weighed
<1>9. PICK n \in Nat : n = f[d] + f[o]
  BY <1>0
<1>10. Weight[d] + Total(f, A \cup {o}) <= n
  <2>1. /\ Total(f, A \cup {o}) = f[o] + Total(f, A) /\ Total(f, A) \in Nat /\ f[o] \in Nat
    <3>1. o \notin A
      BY <1>0, <1>2, <1>7 DEF Nowhere
    <3> DEFINE B == A \cup {o}
    <3>2. IsFiniteSet(B) /\ \A y \in B : f[y] \in Int
      BY ObjectsAssumption, FS_Subset
    <3>3. o \in B /\ B \ {o} = A
      BY <3>1
    <3> HIDE DEF B
    <3>4. Total(f, B) = f[o] + Total(f, A)
      <4>1. Total(f, B) = f[o] + Total(f, B \ {o})
        BY <3>2, <3>3, TotalSplit
      <4> QED
        BY <3>3, <4>1
    <3> QED
      BY <3>4, Pile DEF B
  <2>2. Weight[d] + Total(f, A) <= f[d] /\ f[d] \in Nat /\ Weight[d] \in Nat
    BY <1>0, <1>7, <1>8, ObjectsAssumption DEF Weighed
  <2> QED
    BY <1>9, <2>1, <2>2
<1>11. v.weight = [w.weight EXCEPT ![d] = n]
  BY <1>0, <1>6, <1>8, <1>9
<1>12. /\ v.contains \in [Objs -> SUBSET Objs]
       /\ v.contains[d] = A \cup {o}
       /\ \A e \in Containers : e # d => v.contains[e] = w.contains[e]
       /\ \A e \in Containers : d \notin v.contains[e]
  <2>1. v.contains \in [Objs -> SUBSET Objs]
    <3>1. w.contains \in [Objs -> SUBSET Objs] /\ d \in Objs /\ o \in Objs
      BY <1>0 DEF Weighed
    <3> QED
      BY <1>6, <3>1
  <2> QED
    BY <1>0, <1>2, <1>6, <1>7, <2>1
<1>13. v.carrying_w \in [Chars -> Nat]
       /\ \A c \in Chars : IF d \in w.carrying[c]
                           THEN w.carrying_w[c] - w.weight[d] + n <= v.carrying_w[c]
                           ELSE w.carrying_w[c] <= v.carrying_w[c]
  <2>1. w.carrying_w \in [Chars -> Nat] /\ f[o] \in Nat /\ f[d] \in Nat
    BY <1>0 DEF Weighed
  <2>2. \A c \in Chars : d \in w.carrying[c] <=> q = c
    BY <1>0, <1>2
  <2>3. q \in Chars \cup {None}
    BY <1>0, <1>2
  <2> HIDE DEF q
  <2>4. CASE q = None
    BY <1>0, <1>6, <2>1, <2>2, <2>4
  <2>5. CASE q # None
    <3>1. v.carrying_w = [w.carrying_w EXCEPT ![q] = @ + f[o]]
      BY <1>6, <1>8, <2>5
    <3> QED
      BY <1>8, <1>9, <2>1, <2>2, <2>3, <2>5, <3>1
  <2> QED
    BY <2>4, <2>5
<1>14. d \in Containers => Weight[d] + Total(w.weight, v.contains[d]) <= n
  BY <1>8, <1>10, <1>12
<1>15. Weighed(v)
  BY <1>0, <1>6, <1>11, <1>12, <1>13, <1>14, Reweighed
<1> QED
  BY <1>15 DEF v

\* The contents of a corpse go to the container it is in, which stays as heavy
\* as it was.
LEMMA WeighedToOuter ==
    ASSUME NEW w, Weighed(w), Sound(w), NEW o \in Containers, w.in_obj[o] # None
    PROVE  Weighed(ContentsToOuter(w, o))
<1>0. Containers \subseteq Objs /\ None \notin Objs \cup Chars /\ o \in Objs
  BY ObjectsAssumption
<1> DEFINE v == ContentsToOuter(w, o)
           outer == w.in_obj[o]
           inner == w.contains[o]
<1>1. /\ \A x, y \in Objs : x \in w.contains[y] <=> w.in_obj[x] = y
      /\ \A x \in Objs : \A c \in Chars : x \in w.carrying[c] <=> w.carried_by[x] = c
      /\ w.in_obj \in [Objs -> Containers \cup {None}]
      /\ w.contains \in [Objs -> SUBSET Objs]
      /\ w.carried_by[o] = None
  BY <1>0 DEF Sound, World, ListsAgree, AtMostOnePlace
<1>2. outer \in Containers /\ outer # o /\ o \notin inner /\ inner \in SUBSET Objs
  <2>1. outer \in Containers
    BY <1>0, <1>1
  <2>2. outer # o
    <3>1. {o} \in (SUBSET Containers) \ {{}}
      OBVIOUS
    <3>2. \E c \in {o} : w.in_obj[c] \notin {o}
      BY <3>1 DEF Sound, NoCycle
    <3> QED
      BY <3>2
  <2> QED
    BY <1>0, <1>1, <2>1, <2>2
<1>3. /\ DOMAIN v = Fields
      /\ v.carrying = w.carrying /\ v.carrying_n = w.carrying_n /\ v.carrying_w = w.carrying_w
      /\ v.contains = [x \in Objs |-> IF x = o THEN {}
                           ELSE IF x = outer THEN w.contains[x] \cup inner ELSE w.contains[x]]
      /\ v.weight = [w.weight EXCEPT ![o] = Less(@, WeightOf(w, inner))]
  BY DEF ContentsToOuter, Weighed, Fields
<1> HIDE DEF v, outer, inner
<1>4. PICK f \in [Objs -> Nat] : f = w.weight
  BY DEF Weighed
<1>5. PICK s \in Nat : s = Total(f, inner) /\ s = WeightOf(w, inner)
  BY <1>2, <1>4, Pile, WeightOfTotal
<1>6. PICK n \in Nat : n = f[o] - s /\ n = Less(f[o], s) /\ Weight[o] <= n
  <2>1. Weight[o] + s <= f[o] /\ Weight[o] \in Nat /\ f[o] \in Nat
    BY <1>0, <1>4, <1>5, ObjectsAssumption DEF Weighed, inner
  <2>2. s <= f[o] /\ f[o] - s \in Nat /\ Weight[o] <= f[o] - s
    BY <2>1
  <2> QED
    BY <2>1, <2>2, LessIs
<1>7. v.weight = [f EXCEPT ![o] = n]
  BY <1>0, <1>3, <1>4, <1>5, <1>6
<1>8. PICK g \in [Objs -> Nat] : g = v.weight
  BY <1>7
<1>9. g[o] = n /\ \A x \in Objs : x # o => g[x] = f[x]
  BY <1>0, <1>7, <1>8
<1>10. ASSUME NEW c \in Chars
       PROVE  Total(g, v.carrying[c]) <= v.carrying_w[c]
  <2>1. PICK A \in SUBSET Objs : A = w.carrying[c]
    BY DEF Weighed
  <2>2. \A x \in A : f[x] = g[x]
    BY <1>0, <1>1, <1>9, <2>1
  <2>3. Total(f, A) = Total(g, A)
    BY <2>2, SamePile
  <2> QED
    BY <1>3, <1>4, <2>1, <2>3 DEF Weighed
<1>11. ASSUME NEW e \in Containers
       PROVE  Weight[e] + Total(g, v.contains[e]) <= g[e]
  <2>1. PICK A \in SUBSET Objs : A = w.contains[e]
    BY <1>0, <1>1
  <2>2. Weight[e] + Total(f, A) <= f[e] /\ Weight[e] \in Nat /\ f[e] \in Nat
    BY <1>0, <1>4, <2>1, ObjectsAssumption DEF Weighed
  <2>3. CASE e = o
    <3>1. v.contains[e] = {}
      BY <1>0, <1>3, <2>3
    <3>2. Weight[e] <= g[e] /\ Weight[e] \in Nat
      BY <1>6, <1>9, <2>2, <2>3
    <3>3. Total(g, {}) = 0
      BY TotalEmpty
    <3> QED
      BY <3>1, <3>2, <3>3
  <2>4. CASE e = outer
    <3>1. v.contains[e] = A \cup inner /\ g[e] = f[e] /\ o \in A
      BY <1>0, <1>1, <1>2, <1>3, <1>9, <2>1, <2>4 DEF outer
    <3>2. /\ Total(g, A \cup inner) <= Total(g, A) + Total(g, inner)
          /\ Total(g, A \cup inner) \in Nat /\ Total(g, A) \in Nat
          /\ Total(f, A) \in Nat
      BY <1>2, Pile
    <3>3. Total(g, inner) = s
      <4>1. \A x \in inner : f[x] = g[x]
        BY <1>2, <1>9
      <4>2. Total(f, inner) = Total(g, inner)
        BY <1>2, <4>1, SamePile
      <4> QED
        BY <1>5, <4>2
    <3>4. Total(g, A) = Total(f, A) - f[o] + g[o]
      <4>1. IsFiniteSet(A) /\ \A x \in A : f[x] \in Int /\ g[x] \in Int
        BY ObjectsAssumption, FS_Subset
      <4>2. \A x \in A \ {o} : f[x] = g[x]
        BY <1>9
      <4> QED
        BY <3>1, <4>1, <4>2, TotalChange
    <3>5. f[o] \in Nat
      BY <1>0
    <3>6. Total(g, A) + Total(g, inner) = Total(f, A)
      BY <1>6, <1>9, <3>2, <3>3, <3>4, <3>5
    <3>7. Total(g, A \cup inner) <= Total(f, A)
      BY <3>2, <3>6
    <3>8. Weight[e] + Total(g, A \cup inner) <= f[e]
      BY <2>2, <3>2, <3>7
    <3> QED
      BY <3>1, <3>8
  <2>5. CASE e # o /\ e # outer
    <3>1. v.contains[e] = A /\ g[e] = f[e]
      BY <1>0, <1>3, <1>9, <2>1, <2>5
    <3>2. \A x \in A : f[x] = g[x]
      BY <1>0, <1>1, <1>9, <2>1, <2>5 DEF outer
    <3>3. Total(f, A) = Total(g, A)
      BY <3>2, SamePile
    <3> QED
      BY <2>2, <3>1, <3>3
  <2> QED
    BY <2>3, <2>4, <2>5
<1>12. /\ v.carrying \in [Chars -> SUBSET Objs] /\ v.contains \in [Objs -> SUBSET Objs]
       /\ v.carrying_w \in [Chars -> Nat] /\ v.carrying_n \in [Chars -> Nat]
       /\ \A c \in Chars : Cardinality(v.carrying[c]) <= v.carrying_n[c]
  BY <1>1, <1>2, <1>3 DEF Weighed
<1> QED
  BY <1>3, <1>8, <1>10, <1>11, <1>12 DEF Weighed, v

\* The contents of a corpse fall to the floor; the corpse and who carries it
\* become lighter.
LEMMA WeighedToRoom ==
    ASSUME NEW w, Weighed(w), Sound(w), NEW o \in Containers, w.in_obj[o] = None, NEW r
    PROVE  Weighed(ContentsToRoom(w, o, r))
<1>0. Containers \subseteq Objs /\ None \notin Objs \cup Chars /\ o \in Objs
  BY ObjectsAssumption
<1> DEFINE v == ContentsToRoom(w, o, r)
           inner == w.contains[o]
           gone == WeightOf(w, inner)
           q == w.carried_by[o]
           a == Emptied(w, o)
           b == ObjToRoom(a, inner, r)
           d == CheckFallingObj(b, inner, r)
           Plain(u) == DOMAIN u = Fields /\ u.carrying = w.carrying
                       /\ u.weight = w.weight /\ u.carrying_w = w.carrying_w
                       /\ u.carrying_n = w.carrying_n
                       /\ u.contains = [w.contains EXCEPT ![o] = {}]
<1>1. Plain(a)
  BY DEF Emptied, Weighed, Fields
<1>2. ASSUME NEW u, Plain(u), NEW k
      PROVE  Plain(ObjToRoom(u, inner, k)) /\ Plain(ObjFromRoom(u, inner, k))
  BY <1>2 DEF ObjToRoom, ObjFromRoom, Fields
<1>3. Plain(b)
  <2> HIDE DEF a
  <2> QED
    BY <1>1, <1>2
<1>4. Plain(d)
  <2> HIDE DEF b
  <2>1. PICK e : e = ObjFromRoom(b, inner, r)
    OBVIOUS
  <2>2. Plain(e)
    BY <1>2, <1>3, <2>1
  <2>3. Plain(ObjToRoom(e, inner, Below[r]))
    BY <1>2, <2>2
  <2> QED
    BY <1>3, <2>1, <2>3 DEF CheckFallingObj
<1>5. v = IF q = None THEN [d EXCEPT !.weight[o] = Less(@, gone)]
          ELSE [[d EXCEPT !.weight[o] = Less(@, gone)] EXCEPT !.carrying_w[q] = Less(@, gone)]
  BY DEF ContentsToRoom
<1> HIDE DEF v, d, gone, inner
<1>6. /\ \A x, y \in Objs : x \in w.contains[y] <=> w.in_obj[x] = y
      /\ \A x \in Objs : \A c \in Chars : x \in w.carrying[c] <=> w.carried_by[x] = c
      /\ w.contains \in [Objs -> SUBSET Objs]
      /\ q \in Chars \cup {None} /\ inner \in SUBSET Objs
  BY <1>0 DEF Sound, World, ListsAgree, inner
<1> HIDE DEF q
<1>7. /\ DOMAIN v = Fields
      /\ v.carrying = w.carrying /\ v.carrying_n = w.carrying_n
      /\ v.contains = [w.contains EXCEPT ![o] = {}]
      /\ v.weight = [w.weight EXCEPT ![o] = Less(@, gone)]
      /\ v.carrying_w = IF q = None THEN w.carrying_w
                        ELSE [w.carrying_w EXCEPT ![q] = Less(@, gone)]
  <2>1. CASE q = None
    BY <1>4, <1>5, <2>1 DEF Fields
  <2>2. CASE q # None
    BY <1>4, <1>5, <2>2 DEF Fields
  <2> QED
    BY <2>1, <2>2
<1>8. PICK f \in [Objs -> Nat] : f = w.weight
  BY DEF Weighed
<1>9. PICK s \in Nat : s = Total(f, inner) /\ s = gone
  BY <1>6, <1>8, Pile, WeightOfTotal DEF gone
<1>10. PICK n \in Nat : n = f[o] - s /\ n = Less(f[o], s) /\ Weight[o] <= n
  <2>1. Weight[o] + s <= f[o] /\ Weight[o] \in Nat /\ f[o] \in Nat
    BY <1>0, <1>8, <1>9, ObjectsAssumption DEF Weighed, inner
  <2>2. s <= f[o] /\ f[o] - s \in Nat /\ Weight[o] <= f[o] - s
    BY <2>1
  <2> QED
    BY <2>1, <2>2, LessIs
<1>11. v.weight = [w.weight EXCEPT ![o] = n]
  BY <1>0, <1>7, <1>8, <1>9, <1>10
<1>12. Weight[o] + Total(w.weight, v.contains[o]) <= n
  <2>1. v.contains[o] = {} /\ Weight[o] \in Nat
    BY <1>0, <1>6, <1>7, ObjectsAssumption
  <2> QED
    BY <1>10, <2>1, TotalEmpty
<1>13. /\ v.contains \in [Objs -> SUBSET Objs]
       /\ \A e \in Containers : e # o => v.contains[e] = w.contains[e]
       /\ \A e \in Containers : o \notin v.contains[e]
  BY <1>0, <1>6, <1>7
<1>14. v.carrying_w \in [Chars -> Nat]
       /\ \A c \in Chars : IF o \in w.carrying[c]
                           THEN w.carrying_w[c] - w.weight[o] + n <= v.carrying_w[c]
                           ELSE w.carrying_w[c] <= v.carrying_w[c]
  <2>1. w.carrying_w \in [Chars -> Nat]
    BY DEF Weighed
  <2>2. \A c \in Chars : o \in w.carrying[c] <=> q = c
    BY <1>0, <1>6 DEF q
  <2>3. CASE q = None
    BY <1>0, <1>7, <2>1, <2>2, <2>3
  <2>4. CASE q # None
    <3>1. PICK l \in Nat : l = Less(w.carrying_w[q], s) /\ w.carrying_w[q] - s <= l
      BY <1>6, <2>1, <2>4, LessIs
    <3>2. v.carrying_w = [w.carrying_w EXCEPT ![q] = l]
      BY <1>7, <1>9, <2>4, <3>1
    <3>3. w.carrying_w[q] - f[o] + n = w.carrying_w[q] - s
      <4>1. w.carrying_w[q] \in Nat /\ f[o] \in Nat
        BY <1>0, <1>6, <2>1, <2>4
      <4> QED
        BY <1>10, <4>1
    <3>4. v.carrying_w \in [Chars -> Nat]
      BY <2>1, <3>2
    <3>5. ASSUME NEW c \in Chars
          PROVE  IF o \in w.carrying[c]
                 THEN w.carrying_w[c] - w.weight[o] + n <= v.carrying_w[c]
                 ELSE w.carrying_w[c] <= v.carrying_w[c]
      <4>1. CASE q = c
        BY <1>8, <2>1, <2>2, <3>1, <3>2, <3>3, <4>1
      <4>2. CASE q # c
        BY <2>1, <2>2, <3>2, <4>2
      <4> QED
        BY <4>1, <4>2
    <3> QED
      BY <3>4, <3>5
  <2> QED
    BY <2>3, <2>4
<1>15. Weighed(v)
  BY <1>0, <1>7, <1>11, <1>12, <1>13, <1>14, Reweighed
<1> QED
  BY <1>15 DEF v

\* A corpse is as heavy as its bones, what was carried and what was worn.
LEMMA WeighedCorpse ==
    ASSUME NEW w, Weighed(w), w.equipment \in [Chars -> [Pos -> Objs \cup {None}]],
           NEW c \in Chars, NEW o \in Containers,
           o \notin Worn(w, c), \A d \in Chars : o \notin w.carrying[d],
           \A e \in Containers : o \notin w.contains[e]
    PROVE  Weighed(CorpseOf(w, c, o))
<1>0. Containers \subseteq Objs /\ o \in Objs
  BY ObjectsAssumption
<1> DEFINE all == w.carrying[c] \cup Worn(w, c)
           bare == UnequipChar([w EXCEPT !.carrying[c] = {}], c, Pos)
           u == [w EXCEPT !.carrying[c] = {}, !.carrying_w[c] = 0, !.carrying_n[c] = 0]
           v == CorpseOf(w, c, o)
           heavy == Weight[o] + w.carrying_w[c] + WeightOf(w, Worn(w, c))
<1>1. /\ DOMAIN u = Fields /\ u.contains = w.contains /\ u.weight = w.weight
      /\ u.carrying = [w.carrying EXCEPT ![c] = {}]
      /\ u.carrying_w = [w.carrying_w EXCEPT ![c] = 0]
      /\ u.carrying_n = [w.carrying_n EXCEPT ![c] = 0]
  BY DEF Weighed, Fields
<1> HIDE DEF u
<1>2. Weighed(u)
  <2>1. Total(w.weight, {}) = 0 /\ Cardinality({}) = 0
    BY TotalEmpty, FS_EmptySet
  <2>2. ASSUME NEW d \in Chars
        PROVE  /\ Total(u.weight, u.carrying[d]) <= u.carrying_w[d]
               /\ Cardinality(u.carrying[d]) <= u.carrying_n[d]
    <3>1. CASE d = c
      <4>1. u.carrying[d] = {} /\ u.carrying_w[d] = 0 /\ u.carrying_n[d] = 0
        BY <1>1, <3>1 DEF Weighed
      <4>2. Total(u.weight, u.carrying[d]) = 0 /\ Cardinality(u.carrying[d]) = 0
        BY <1>1, <2>1, <4>1
      <4> QED
        BY <4>1, <4>2
    <3>2. CASE d # c
      BY <1>1, <3>2 DEF Weighed
    <3> QED
      BY <3>1, <3>2
  <2> QED
    BY <1>1, <2>2 DEF Weighed
<1>3. /\ DOMAIN bare = Fields /\ bare.contains = w.contains /\ bare.weight = w.weight
      /\ bare.carrying = [w.carrying EXCEPT ![c] = {}]
      /\ bare.carrying_w = w.carrying_w /\ bare.carrying_n = w.carrying_n
  BY DEF Weighed, Fields, UnequipChar
<1>4. /\ DOMAIN v = Fields /\ v.carrying = u.carrying /\ v.carrying_n = u.carrying_n
      /\ v.carrying_w = u.carrying_w
      /\ v.contains = [u.contains EXCEPT ![o] = all]
      /\ v.weight = [u.weight EXCEPT ![o] = heavy]
  <2> HIDE DEF bare, heavy, all
  <2>1. v = [ReadObject(bare, o) EXCEPT
                !.contains[o] = all, !.in_obj = SetAll(@, all, o),
                !.carried_by = SetAll(@, all, None), !.weight[o] = heavy,
                !.carrying_w[c] = 0, !.carrying_n[c] = 0]
    BY DEF CorpseOf, bare, heavy, all
  <2> HIDE DEF v
  <2> QED
    BY <1>1, <1>3, <2>1 DEF ReadObject, Fields
<1> HIDE DEF bare, v, heavy, all
<1>5. PICK A \in SUBSET Objs : A = w.carrying[c]
  BY DEF Weighed
<1>6. PICK B \in SUBSET Objs : B = Worn(w, c)
  BY DEF Worn
<1>7. PICK f \in [Objs -> Nat] : f = w.weight
  BY DEF Weighed
<1>8. /\ Total(f, A \cup B) <= Total(f, A) + Total(f, B)
      /\ Total(f, A) \in Nat /\ Total(f, B) \in Nat /\ Total(f, A \cup B) \in Nat
  BY Pile
<1>9. Total(f, A) <= w.carrying_w[c] /\ w.carrying_w[c] \in Nat /\ Weight[o] \in Nat
  BY <1>0, <1>5, <1>7, ObjectsAssumption DEF Weighed
<1>10. heavy = Weight[o] + w.carrying_w[c] + Total(f, B)
  BY <1>6, <1>7, WeightOfTotal DEF heavy
<1>11. heavy \in Nat /\ Weight[o] + Total(f, A \cup B) <= heavy
  BY <1>8, <1>9, <1>10
<1>12. /\ v.contains \in [Objs -> SUBSET Objs] /\ v.contains[o] = A \cup B
       /\ \A e \in Containers : o \notin v.contains[e]
       /\ \A e \in Containers : e # o => v.contains[e] = u.contains[e]
  BY <1>0, <1>1, <1>4, <1>5, <1>6 DEF Weighed, all
<1>13. v.carrying_w \in [Chars -> Nat]
       /\ \A d \in Chars : IF o \in u.carrying[d]
                           THEN u.carrying_w[d] - u.weight[o] + heavy <= v.carrying_w[d]
                           ELSE u.carrying_w[d] <= v.carrying_w[d]
  <2>1. \A d \in Chars : o \notin u.carrying[d]
    BY <1>1 DEF Weighed
  <2> QED
    BY <1>2, <1>4, <2>1 DEF Weighed
<1>14. Weight[o] + Total(u.weight, v.contains[o]) <= heavy
  BY <1>1, <1>7, <1>11, <1>12
<1>15. Weighed(v)
  BY <1>0, <1>2, <1>4, <1>11, <1>12, <1>13, <1>14, Reweighed
<1> QED
  BY <1>15 DEF v

-----------------------------------------------------------------------------
(* The actions.                                                            *)

WeightInv == IInv /\ Weighed(world)

LEMMA WeighedNow ==
    ASSUME WeightInv
    PROVE  /\ Weighed(world) /\ Sound(world) /\ Containers \subseteq Objs
           /\ None \notin Objs \cup Chars \cup Rooms \cup Pos
  BY ObjectsAssumption DEF WeightInv, IInv

LEMMA WeighedLoad ==
    ASSUME WeightInv, NEW o \in Objs, NEW r,
           LoadToRoom(o, r) \/ (r \in Chars /\ LoadToChar(o, r))
    PROVE  Weighed(world')
<1> DEFINE a == ReadObject(world, o)
<1>1. Weighed(a)
  BY WeighedNow, WeighedMoves
<1>2. world' = ObjToRoom(a, {o}, r) \/ (r \in Chars /\ world' = ObjToChar(a, {o}, r))
  BY DEF LoadToRoom, LoadToChar
<1> HIDE DEF a
<1>3. {o} \in SUBSET Objs
  OBVIOUS
<1>4. Weighed(ObjToRoom(a, {o}, r)) /\ (r \in Chars => Weighed(ObjToChar(a, {o}, r)))
  BY <1>1, <1>3, WeighedMoves, WeighedToChar
<1> QED
  BY <1>2, <1>4

LEMMA WeighedHands ==
    ASSUME WeightInv, NEW c \in Chars, NEW v \in Chars, NEW o \in Objs,
           \/ Get(c, o) \/ DoDrop(c, o) \/ ThrowAway(c, o)
           \/ DoGive(c, v, o) \/ Steal(c, v, o)
    PROVE  Weighed(world')
<1> DEFINE r == where[c]
           a == ObjFromRoom(world, {o}, r)
           b == ObjFromChar(world, {o}, c)
           d == ObjFromChar(world, {o}, v)
           e == ObjToRoom(b, {o}, r)
<1>0. {o} \in SUBSET Objs
  OBVIOUS
<1>1. /\ Weighed(a)
      /\ o \in world.carrying[c] => Weighed(b)
      /\ o \in world.carrying[v] => Weighed(d)
  BY WeighedNow, WeighedMoves, WeighedFromChar
<1>2. \/ world' = ObjToChar(a, {o}, c)
      \/ o \in world.carrying[c] /\ (\/ world' = CheckFallingObj(e, {o}, r)
                                     \/ world' = e \/ world' = ObjToChar(b, {o}, v))
      \/ o \in world.carrying[v] /\ world' = ObjToChar(d, {o}, c)
  BY DEF Get, DoDrop, ThrowAway, DoGive, Steal
<1>3. o \in world.carrying[c] => Weighed(e)
  <2> HIDE DEF b
  <2> QED
    BY <1>1, WeighedMoves
<1> HIDE DEF a, b, d, e, r
<1>4. /\ Weighed(ObjToChar(a, {o}, c))
      /\ o \in world.carrying[c] => /\ Weighed(CheckFallingObj(e, {o}, r))
                                    /\ Weighed(ObjToChar(b, {o}, v))
      /\ o \in world.carrying[v] => Weighed(ObjToChar(d, {o}, c))
  BY <1>0, <1>1, <1>3, WeighedMoves, WeighedToChar
<1> QED
  BY <1>2, <1>3, <1>4

\* What is within reach is in no container.
LEMMA Reachable ==
    ASSUME WeightInv, NEW c \in Chars, where[c] # None, NEW d \in Containers, d \in Accessible(c)
    PROVE  world.in_obj[d] = None
<1>1. world.carried_by[d] = c \/ world.in_room[d] = where[c]
  BY WeighedNow DEF Accessible, WeightInv, IInv, Sound, ListsAgree
<1>2. world.carried_by[d] # None \/ world.in_room[d] # None
  BY <1>1, WeighedNow
<1> QED
  BY <1>2, WeighedNow DEF Sound, AtMostOnePlace

LEMMA WeighedGetFrom ==
    ASSUME WeightInv, NEW c \in Chars, NEW o \in Objs, NEW d \in Containers, GetFrom(c, o, d)
    PROVE  Weighed(world')
<1> DEFINE a == ObjFromObj(world, o)
<1>1. world.in_obj[d] = None
  BY Reachable DEF GetFrom
<1>2. world.in_obj[o] = d
  BY WeighedNow DEF GetFrom, Sound, ListsAgree
<1>3. Weighed(a)
  BY <1>1, <1>2, WeighedNow, WeighedFromObj
<1>4. world' = ObjToChar(a, {o}, c) /\ {o} \in SUBSET Objs
  BY DEF GetFrom
<1> HIDE DEF a
<1> QED
  BY <1>3, <1>4, WeighedToChar

LEMMA WeighedPut ==
    ASSUME WeightInv, NEW c \in Chars, NEW o \in Objs, NEW d \in Containers, DoPut(c, o, d)
    PROVE  Weighed(world')
<1> DEFINE a == ObjFromChar(world, {o}, c)
<1>1. {o} \subseteq world.carrying[c] /\ o # d /\ world' = ObjToObj(a, o, d)
  BY DEF DoPut
<1>2. world.in_obj[d] = None
  BY Reachable DEF DoPut
<1>3. Sound(a) /\ AllNowhere(a, {o}) /\ a.in_obj = world.in_obj
  BY <1>1, WeighedNow, ObjFromCharSound
<1>4. Weighed(a)
  BY <1>1, WeighedNow, WeighedFromChar
<1> HIDE DEF a
<1>5. Nowhere(a, o) /\ a.in_obj[d] = None
  BY <1>2, <1>3 DEF AllNowhere
<1> QED
  BY <1>1, <1>3, <1>4, <1>5, WeighedToObj

LEMMA WeighedDrink ==
    ASSUME WeightInv, IInv', NEW c \in Chars, NEW o \in Drinks, NEW d \in Drinks \cup {None},
           NEW amount \in Int, DoDrink(c, o, amount) \/ DoPour(c, o, d, amount)
    PROVE  Weighed(world')
<1>0. None \notin Drinks /\ Drinks \subseteq Objs
  BY ObjectsAssumption
<1>1. PICK less \in Int : less = -amount
  OBVIOUS
<1>2. CASE DoDrink(c, o, amount)
  <2> DEFINE l == WeightChangeObject(world, o, c, less)
             e == ObjFromChar(l, {o}, c)
  <2>1. (world' = l \/ world' = ExtractObj(e, {o})) /\ o \in world.carrying[c]
    BY <1>1, <1>2 DEF DoDrink
  <2>2. Weighed(l)
    BY <2>1, WeighedNow, WeighedSip
  <2>3. l.carrying = world.carrying
    BY <2>1, WeighedNow, WeightChangeObjectSound
  <2> HIDE DEF l
  <2>4. Weighed(e)
    BY <2>1, <2>2, <2>3, WeighedFromChar
  <2> HIDE DEF e
  <2>5. world' = ExtractObj(e, {o}) => Weighed(ExtractObj(e, {o}))
    BY <2>4, WeighedExtracted DEF IInv
  <2> QED
    BY <2>1, <2>2, <2>5
<1>3. CASE DoPour(c, o, d, amount)
  <2>1. o \in world.carrying[c] /\ (d # None => d \in world.carrying[c])
    BY <1>0, <1>3 DEF DoPour
  <2>2. CASE d = None
    <3>1. world' = WeightChangeObject(world, o, c, less)
      BY <1>1, <1>3, <2>2 DEF DoPour
    <3> QED
      BY <2>1, <3>1, WeighedNow, WeighedSip
  <2>3. CASE d # None
    <3> DEFINE b == WeightChangeObject(world, d, c, amount)
    <3>1. Weighed(b)
      BY <2>1, <2>3, WeighedNow, WeighedSip
    <3>2. Sound(b) /\ b.carrying = world.carrying
      BY <2>1, <2>3, WeighedNow, WeightChangeObjectSound
    <3>3. world' = WeightChangeObject(b, o, c, less)
      BY <1>1, <1>3, <2>3 DEF DoPour
    <3> HIDE DEF b
    <3> QED
      BY <2>1, <3>1, <3>2, <3>3, WeighedSip
  <2> QED
    BY <2>2, <2>3
<1> QED
  BY <1>2, <1>3

LEMMA WeighedUseUp ==
    ASSUME WeightInv, IInv', NEW c \in Chars, NEW o, UseUp(c, o)
    PROVE  Weighed(world')
<1>1. world' = ExtractObj(ObjFromChar(world, {o}, c), {o}) /\ o \in world.carrying[c]
  BY DEF UseUp
<1>2. Weighed(ObjFromChar(world, {o}, c))
  BY <1>1, WeighedNow, WeighedFromChar
<1> QED
  BY <1>1, <1>2, WeighedExtracted DEF IInv

LEMMA WeighedWear ==
    ASSUME WeightInv, NEW c \in Chars, NEW o \in Objs, NEW p, Wear(c, o, p)
    PROVE  Weighed(world')
<1> DEFINE a == ObjFromChar(world, {o}, c)
<1>1. PICK refused \in BOOLEAN : world' = EquipChar(a, c, o, p, refused)
  BY DEF Wear
<1>2. Weighed(a)
  BY WeighedNow, WeighedFromChar DEF Wear
<1> HIDE DEF a
<1> QED
  BY <1>1, <1>2, WeighedMoves

LEMMA WeighedTakenOff ==
    ASSUME WeightInv, NEW c \in Chars, NEW v \in Chars, NEW p \in Pos,
           DoRemove(c, p) \/ StealWorn(c, v, p) \/ Disarm(c) \/ Fumble(c)
    PROVE  Weighed(world')
<1>1. \A d, P, S, r : /\ Weighed(UnequipChar(world, d, P))
                      /\ Weighed(ObjToRoom(UnequipChar(world, d, P), S, r))
  BY WeighedNow, WeighedMoves
<1>2. \A d \in Chars : Wears(d, p) => {Equipment(d, p)} \in SUBSET Objs
  BY WeighedNow DEF Wears, Equipment, Sound, World
<1>3. CASE DoRemove(c, p)
  BY <1>1, <1>2, <1>3, WeighedToChar DEF DoRemove
<1>4. CASE StealWorn(c, v, p)
  BY <1>1, <1>2, <1>4, WeighedToChar DEF StealWorn
<1> QED
  BY <1>1, <1>3, <1>4 DEF Disarm, Fumble

LEMMA WeighedScrap ==
    ASSUME NEW u, Weighed(u), NEW o, NEW t, NEW r, Sound(MakeScrap(u, o, t, r))
    PROVE  Weighed(MakeScrap(u, o, t, r))
<1> DEFINE a == ReadObject(u, t)
           b == ObjToRoom(a, {t}, r)
           d == CheckFallingObj(b, {t}, r)
           e == Emptied(d, o)
           f == ObjToRoom(e, d.contains[o], r)
<1>1. Weighed(a)
  BY WeighedMoves
<1> HIDE DEF a
<1>2. Weighed(b)
  BY <1>1, WeighedMoves
<1> HIDE DEF b
<1>3. Weighed(d)
  BY <1>2, WeighedMoves
<1> HIDE DEF d
<1>4. Weighed(e)
  BY <1>3, WeighedEmptied
<1> HIDE DEF e
<1>5. Weighed(f)
  BY <1>4, WeighedMoves
<1> HIDE DEF f
<1>6. MakeScrap(u, o, t, r) = ExtractObj(f, {o})
  BY DEF MakeScrap, f, e, d, b, a
<1> QED
  BY <1>5, <1>6, WeighedExtracted

LEMMA WeighedDestroyed ==
    ASSUME WeightInv, IInv', NEW c \in Chars, NEW o, NEW p, NEW t,
           DestroyCarried(c, o, t) \/ DestroyWorn(c, p, t)
    PROVE  Weighed(world')
<1>1. Sound(world')
  BY DEF IInv
<1>2. CASE DestroyCarried(c, o, t)
  <2>1. world' = MakeScrap(ObjFromChar(world, {o}, c), o, t, where[c]) /\ o \in world.carrying[c]
    BY <1>2 DEF DestroyCarried
  <2>2. Weighed(ObjFromChar(world, {o}, c))
    BY <2>1, WeighedNow, WeighedFromChar
  <2> QED
    BY <1>1, <2>1, <2>2, WeighedScrap
<1>3. CASE DestroyWorn(c, p, t)
  <2>1. world' = MakeScrap(UnequipChar(world, c, {p}), Equipment(c, p), t, where[c])
    BY <1>3 DEF DestroyWorn
  <2>2. Weighed(UnequipChar(world, c, {p}))
    BY WeighedNow, WeighedMoves
  <2> QED
    BY <1>1, <2>1, <2>2, WeighedScrap
<1> QED
  BY <1>2, <1>3

\* A corpse that decays hands its contents on before it goes.
LEMMA WeighedDecay ==
    ASSUME WeightInv, IInv', NEW o \in Corpses, CorpseDecays(o)
    PROVE  Weighed(world')
<1>0. o \in Containers /\ o \in Objs
  BY WeighedNow DEF Containers
<1>1. Sound(world')
  BY DEF IInv
<1>2. CASE world.in_obj[o] # None /\ world' = ExtractFromObj(ContentsToOuter(world, o), o)
  <2> DEFINE a == ContentsToOuter(world, o)
             b == Unlinked(a, o)
  <2>1. Weighed(a)
    BY <1>0, <1>2, WeighedNow, WeighedToOuter
  <2>2. world' = ExtractObj(b, {o})
    BY <1>2 DEF ExtractFromObj
  <2> HIDE DEF a
  <2>3. Weighed(b)
    BY <2>1, WeighedEmptied
  <2> HIDE DEF b
  <2> QED
    BY <1>1, <2>2, <2>3, WeighedExtracted
<1>3. ASSUME NEW r, NEW c \in Chars, world.carried_by[o] = c, r \in Rooms,
             world' = ExtractObj(ObjFromChar(ContentsToRoom(world, o, r), {o}, c), {o})
      PROVE  Weighed(world')
  <2> DEFINE a == ContentsToRoom(world, o, r)
             b == ObjFromChar(a, {o}, c)
  <2>1. world.in_obj[o] = None /\ o \in world.carrying[c]
    BY <1>0, <1>3, WeighedNow DEF Sound, AtMostOnePlace, ListsAgree
  <2>2. Weighed(a)
    BY <1>0, <2>1, WeighedNow, WeighedToRoom
  <2>3. a.carrying = world.carrying
    BY <1>0, <1>3, WeighedNow, ContentsToRoomSound
  <2> HIDE DEF a
  <2>4. Weighed(b)
    BY <2>1, <2>2, <2>3, WeighedFromChar
  <2>5. world' = ExtractObj(b, {o})
    BY <1>3 DEF a
  <2> HIDE DEF b
  <2> QED
    BY <1>1, <2>4, <2>5, WeighedExtracted
<1>4. ASSUME NEW r, world.in_room[o] = r, r # None,
             world' = ExtractObj(ObjFromRoom(ContentsToRoom(world, o, r), {o}, r), {o})
      PROVE  Weighed(world')
  <2> DEFINE a == ContentsToRoom(world, o, r)
             b == ObjFromRoom(a, {o}, r)
  <2>1. world.in_obj[o] = None
    BY <1>0, <1>4, WeighedNow DEF Sound, AtMostOnePlace
  <2>2. Weighed(a)
    BY <1>0, <2>1, WeighedNow, WeighedToRoom
  <2> HIDE DEF a
  <2>3. Weighed(b)
    BY <2>2, WeighedMoves
  <2>4. world' = ExtractObj(b, {o})
    BY <1>4 DEF a
  <2> HIDE DEF b
  <2> QED
    BY <1>1, <2>3, <2>4, WeighedExtracted
<1>5. world.carried_by[o] # None =>
         world.carried_by[o] \in Chars /\ where[world.carried_by[o]] \in Rooms
  <2>1. ASSUME world.carried_by[o] # None
        PROVE  world.carried_by[o] \in Chars
    BY <1>0, <2>1, WeighedNow DEF Sound, World
  <2>2. ASSUME NEW c \in Chars, world.carried_by[o] = c
        PROVE  where[c] \in Rooms
    <3>1. o \in world.carrying[c]
      BY <1>0, <2>2, WeighedNow DEF Sound, ListsAgree
    <3> QED
      BY <3>1 DEF WeightInv, IInv, NothingKept
  <2> QED
    BY <2>1, <2>2
<1> QED
  BY <1>2, <1>3, <1>4, <1>5 DEF CorpseDecays

\* A body falls, with nothing or with everything in its hands.
LEMMA WeighedDead ==
    ASSUME NEW w, Weighed(w), Sound(w), NEW c \in Chars, NEW o \in Corpses, o \notin w.object_list
    PROVE  Weighed(MakeCorpse(w, c, o))
<1> DEFINE a == CorpseOf(w, c, o)
           b == ObjToRoom(a, {o}, where[c])
<1>1. /\ o \in Objs /\ o \in Containers /\ None \notin Objs \cup Chars \cup Rooms \cup Pos
      /\ Containers \subseteq Objs
  BY ObjectsAssumption DEF Containers
<1>2. Nowhere(w, o)
  BY <1>1 DEF Sound, AtMostOnePlace
<1>3. /\ \A d \in Chars : o \notin w.carrying[d]
      /\ \A e \in Containers : o \notin w.contains[e]
      /\ \A p \in Pos : w.equipment[c][p] # o
  BY <1>1, <1>2 DEF Nowhere, Sound, ListsAgree
<1>4. o \notin Worn(w, c)
  BY <1>3 DEF Worn
<1>5. Weighed(a)
  BY <1>1, <1>3, <1>4, WeighedCorpse DEF Sound, World
<1> HIDE DEF a
<1>6. Weighed(b)
  BY <1>5, WeighedMoves
<1> HIDE DEF b
<1>7. Weighed(CheckFallingObj(b, {o}, where[c]))
  BY <1>6, WeighedMoves
<1> QED
  BY <1>7 DEF MakeCorpse, b, a

LEMMA WeighedComeAndGo ==
    ASSUME WeightInv, IInv', NEW c \in Chars, ComeAndGo(c)
    PROVE  Weighed(world')
<1>1. ASSUME NEW r \in Rooms, Enter(c, r) \/ Move(c, r)
      PROVE  Weighed(world')
  BY <1>1, WeighedNow DEF Enter, Move
<1>2. ASSUME NEW o \in Corpses, RawKill(c, o)
      PROVE  Weighed(world')
  BY <1>2, WeighedNow, WeighedDead DEF RawKill, Unused
<1>3. Worn(world, c) \in SUBSET Objs /\ world.carrying[c] \in SUBSET Objs
  BY WeighedNow DEF Worn, Sound, World
<1>4. CASE ExtractChar(c)
  <2> DEFINE S == world.carrying[c]
             r == where[c]
             a == ObjFromChar(world, S, c)
             b == ObjToRoom(a, S, r)
             d == CheckFallingObj(b, S, r)
             e == UnequipChar(d, c, Pos)
  <2>1. Weighed(a)
    BY WeighedNow, WeighedFromChar
  <2> HIDE DEF a
  <2>2. Weighed(b)
    BY <2>1, WeighedMoves
  <2> HIDE DEF b
  <2>3. Weighed(d)
    BY <2>2, WeighedMoves
  <2> HIDE DEF d
  <2>4. Weighed(e)
    BY <2>3, WeighedMoves
  <2> HIDE DEF e
  <2>5. world' = ObjToRoom(e, Worn(world, c), r)
    BY <1>4 DEF ExtractChar, e, d, b, a
  <2> QED
    BY <2>4, <2>5, WeighedMoves
<1>5. CASE ExtractImmortal(c)
  <2> DEFINE all == world.carrying[c] \cup Worn(world, c)
             a == UnequipChar(world, c, Pos)
             b == ObjToChar(a, Worn(world, c), c)
             d == ObjFromChar(b, all, c)
  <2>1. Weighed(a)
    BY WeighedNow, WeighedMoves
  <2>2. world' = ObjToRoom(a, Worn(world, c), where[c]) \/ world' = ExtractObj(d, all)
    BY <1>5 DEF ExtractImmortal
  <2>3. a.carrying = world.carrying /\ DOMAIN a = Fields
    BY WeighedNow DEF UnequipChar, Sound, World, Fields
  <2> HIDE DEF a
  <2>4. Weighed(b)
    BY <1>3, <2>1, WeighedToChar
  <2>5. b.carrying[c] = all
    BY <2>3, WeighedNow DEF ObjToChar, Sound, World, Fields
  <2> HIDE DEF b, all
  <2>6. Weighed(d)
    BY <2>4, <2>5, WeighedFromChar
  <2> HIDE DEF d
  <2>7. CASE world' = ObjToRoom(a, Worn(world, c), where[c])
    BY <2>1, <2>7, WeighedMoves
  <2>8. CASE world' = ExtractObj(d, all)
    BY <2>6, <2>8, WeighedExtracted DEF IInv
  <2> QED
    BY <2>2, <2>7, <2>8
<1> QED
  BY <1>1, <1>2, <1>4, <1>5 DEF ComeAndGo

\* The weapon that is put aside between two attacks is in no list.
LEMMA WeighedAttacks ==
    ASSUME WeightInv, IInv', NEW c \in Chars, FirstAttack(c) \/ SecondAttack(c)
    PROVE  Weighed(world')
<1> DEFINE main == Equipment(c, "WIELD")
           off == Equipment(c, "HOLD")
           w == UnequipChar(world, c, {"HOLD"})
           P == {"WIELD", "HOLD"}
           bare == UnequipChar(world, c, P)
           x == PutOn(bare, c, off, "WIELD")
<1>1. /\ "HOLD" \in Pos /\ "WIELD" \in Pos /\ P \in SUBSET Pos
      /\ off = world.equipment[c]["HOLD"] /\ off # None
  BY DEF FirstAttack, SecondAttack, DualWield, Wears, Equipment, Pos
<1>2. Weighed(w) /\ Weighed(bare)
  BY WeighedNow, WeighedMoves
<1>3. Sound(w) /\ w.object_list = world.object_list
  <2>1. {"HOLD"} \in SUBSET Pos
    BY <1>1
  <2> QED
    BY <2>1, WeighedNow, UnequipCharSound
<1>4. /\ Sound(bare) /\ AllNowhere(bare, {off})
      /\ bare.equipment = [world.equipment EXCEPT ![c] = SetAll(@, P, None)]
      /\ bare.object_list = world.object_list
  <2>1. /\ Sound(bare) /\ bare.object_list = world.object_list
        /\ AllNowhere(bare, {world.equipment[c][p] : p \in P} \ {None})
        /\ bare.equipment = [world.equipment EXCEPT ![c] = SetAll(@, P, None)]
    BY <1>1, WeighedNow, UnequipCharSound
  <2>2. off \in {world.equipment[c][p] : p \in P} \ {None}
    BY <1>1
  <2> HIDE DEF bare, off
  <2> QED
    BY <2>1, <2>2 DEF AllNowhere
<1>5. bare.equipment[c]["WIELD"] = None
  BY <1>1, <1>4, WeighedNow DEF Sound, World, SetAll
<1> HIDE DEF main, off, w, bare
<1>6. Weighed(x)
  BY <1>2, WeighedMoves
<1>7. Sound(x) /\ x.object_list = bare.object_list
  <2>1. Sound(bare) /\ AllNowhere(bare, {off}) /\ bare.equipment[c]["WIELD"] = None /\ "WIELD" \in Pos
    BY <1>1, <1>4, <1>5
  <2>2. off \in Objs
    BY <1>1, WeighedNow DEF Sound, World
  <2>3. LET y == PutOn(bare, c, off, "WIELD")
        IN /\ Sound(y)
           /\ y.object_list = bare.object_list
           /\ y.carrying = bare.carrying
           /\ y.equipment = [bare.equipment EXCEPT ![c]["WIELD"] = off]
           /\ y.in_obj = bare.in_obj
           /\ \A z \in Objs \ {off} : Nowhere(bare, z) => Nowhere(y, z)
    BY <2>1, <2>2, WearSound
  <2> QED
    BY <2>3
<1>8. CASE FirstAttack(c)
  <2>1. Weighed(EquipChar(w, c, off, "HOLD", TRUE))
    BY <1>2, WeighedMoves
  <2>2. ASSUME NEW o \in Corpses, Unused(o)
        PROVE  Weighed(MakeCorpse(w, c, o))
    BY <1>2, <1>3, <2>2, WeighedDead DEF Unused
  <2> QED
    BY <1>8, <2>1, <2>2 DEF FirstAttack, w, off
<1>9. CASE SecondAttack(c)
  <2>1. ASSUME NEW r1 \in BOOLEAN, NEW r2 \in BOOLEAN
        PROVE  Weighed(EquipChar(EquipChar(bare, c, off, "HOLD", r1), c, main, "WIELD", r2))
    <3> DEFINE y == EquipChar(bare, c, off, "HOLD", r1)
    <3>1. Weighed(y)
      BY <1>2, WeighedMoves
    <3> HIDE DEF y
    <3>2. Weighed(EquipChar(y, c, main, "WIELD", r2))
      BY <3>1, WeighedMoves
    <3> QED
      BY <3>2 DEF y
  <2> HIDE DEF x
  <2>2. ASSUME NEW t, world' = MakeScrap(UnequipChar(x, c, {"WIELD"}), off, t, where[c])
        PROVE  Weighed(world')
    <3>1. Weighed(UnequipChar(x, c, {"WIELD"}))
      BY <1>6, WeighedMoves
    <3> QED
      BY <2>2, <3>1, WeighedScrap DEF IInv
  <2>3. ASSUME NEW o \in Corpses, Unused(o)
        PROVE  Weighed(MakeCorpse(x, c, o))
    BY <1>4, <1>6, <1>7, <2>3, WeighedDead DEF Unused
  <2>4. x = EquipChar(bare, c, off, "WIELD", FALSE)
    BY DEF x, EquipChar
  <2> QED
    BY <1>9, <2>1, <2>2, <2>3, <2>4 DEF SecondAttack, main, off, bare
<1> QED
  BY <1>8, <1>9

LEMMA WeightStep ==
    ASSUME WeightInv, [Next]_vars
    PROVE  WeightInv'
<1>1. IInv'
  BY NextStep DEF WeightInv
<1>2. SUFFICES Weighed(world')
  BY <1>1 DEF WeightInv
<1>3. CASE UNCHANGED vars
  BY <1>3, WeighedNow DEF vars
<1>4. CASE Load
  BY <1>4, WeighedLoad DEF Load
<1>5. ASSUME NEW o \in Corpses, CorpseDecays(o)
      PROVE  Weighed(world')
  BY <1>1, <1>5, WeighedDecay
<1>6. ASSUME NEW c \in Chars, ComeAndGo(c)
      PROVE  Weighed(world')
  BY <1>1, <1>6, WeighedComeAndGo
<1>7. ASSUME NEW c \in Chars, Fights(c)
      PROVE  Weighed(world')
  <2>1. Pos # {}
    BY DEF Pos
  <2> QED
    BY <1>1, <1>7, <2>1, WeighedTakenOff, WeighedAttacks, WeighedDestroyed DEF Fights
<1>8. ASSUME NEW c \in Chars, Commands(c)
      PROVE  Weighed(world')
  <2>1. ASSUME NEW o \in Objs, NEW v \in Chars,
               \/ Get(c, o) \/ DoDrop(c, o) \/ ThrowAway(c, o)
               \/ DoGive(c, v, o) \/ Steal(c, v, o)
        PROVE  Weighed(world')
    BY <2>1, WeighedHands
  <2>2. ASSUME NEW o \in Objs, UseUp(c, o)
        PROVE  Weighed(world')
    BY <1>1, <2>2, WeighedUseUp
  <2>3. ASSUME NEW o \in Objs, NEW d \in Containers, GetFrom(c, o, d) \/ DoPut(c, o, d)
        PROVE  Weighed(world')
    BY <2>3, WeighedGetFrom, WeighedPut
  <2>4. ASSUME NEW o \in Objs, NEW p \in Pos, Wear(c, o, p)
        PROVE  Weighed(world')
    BY <2>4, WeighedWear
  <2>5. ASSUME NEW p \in Pos, NEW v \in Chars, DoRemove(c, p) \/ StealWorn(c, v, p)
        PROVE  Weighed(world')
    BY <2>5, WeighedTakenOff
  <2>6. ASSUME NEW o \in Drinks, NEW amount \in 1..2, NEW d \in Drinks \cup {None},
               DoDrink(c, o, amount) \/ DoPour(c, o, d, amount)
        PROVE  Weighed(world')
    <3>1. amount \in Int
      OBVIOUS
    <3> QED
      BY <1>1, <2>6, <3>1, WeighedDrink
  <2> QED
    BY <1>8, <2>1, <2>2, <2>3, <2>4, <2>5, <2>6 DEF Commands
<1> QED
  BY <1>3, <1>4, <1>5, <1>6, <1>7, <1>8 DEF Next

LEMMA InitWeighed ==
    ASSUME Init
    PROVE  WeightInv
<1>1. \A f : Total(f, {}) = 0
  BY TotalEmpty
<1>2. Cardinality({}) = 0
  BY FS_EmptySet
<1>3. Weight \in [Objs -> Nat] /\ Containers \subseteq Objs
  BY ObjectsAssumption
<1>4. Weighed(world)
  <2>1. /\ DOMAIN world = Fields
        /\ world.carrying = [c \in Chars |-> {}] /\ world.contains = [o \in Objs |-> {}]
        /\ world.weight = Weight
        /\ world.carrying_w = [c \in Chars |-> 0] /\ world.carrying_n = [c \in Chars |-> 0]
    BY DEF Init, Fields
  <2> QED
    BY <1>1, <1>2, <1>3, <2>1 DEF Weighed
<1> QED
  BY <1>4, InitSound DEF WeightInv

\* A container is never lighter than it is empty with what is in it, and so
\* the tests against zero of obj_from_obj never hide a difference: not after
\* corpses have decayed in bags, or drinks have been poured.
THEOREM ContainersWeighEnough == Spec => []ContainerWeight
<1>1. WeightInv => ContainerWeight
  <2> SUFFICES ASSUME WeightInv, NEW c \in Containers \cap world.object_list
               PROVE  world.weight[c] >= Weight[c] + WeightOf(world, world.contains[c])
    BY DEF ContainerWeight
  <2>1. Weight[c] + Total(world.weight, world.contains[c]) <= world.weight[c]
    BY DEF WeightInv, Weighed
  <2>2. WeightOf(world, world.contains[c]) = Total(world.weight, world.contains[c])
    BY WeightOfTotal
  <2>3. /\ world.weight[c] \in Nat /\ Weight[c] \in Nat
        /\ Total(world.weight, world.contains[c]) \in Nat
    <3>1. c \in Objs /\ world.weight \in [Objs -> Nat] /\ world.contains[c] \in SUBSET Objs
      BY ObjectsAssumption DEF WeightInv, Weighed
    <3>2. Total(world.weight, world.contains[c]) \in Nat
      BY <3>1, Pile
    <3> QED
      BY <3>1, <3>2, ObjectsAssumption
  <2> QED
    BY <2>1, <2>2, <2>3
<1> QED
  BY <1>1, InitWeighed, WeightStep, PTL DEF Spec

\* The counters of what is carried, and every weight, are natural numbers:
\* no sequence of calls takes more from them than was put there.
THEOREM ObjectsTyped == Spec => []TypeOK
<1>1. WeightInv => TypeOK
  BY DEF WeightInv, IInv, Weighed, Sound, World, TypeOK
<1> QED
  BY <1>1, InitWeighed, WeightStep, PTL DEF Spec

=============================================================================
