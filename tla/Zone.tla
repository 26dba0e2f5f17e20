-------------------------------- MODULE Zone --------------------------------
(***************************************************************************)
(* Zones (db.c): when they are reset, what a reset puts into the world,    *)
(* and what keeps it from putting too much there.  A zone has a table of   *)
(* commands; each counts what already exists before it adds to it, and     *)
(* may depend on the command before it.  Rare objects are also counted     *)
(* while they lie in the rent files of players that are away.  The doors   *)
(* are here because a reset sets them side by side, while players          *)
(* (act.move.c) move both sides of a door at once.                         *)
(*                                                                         *)
(* A reset is one step, as in the code.  Mobiles and objects are members   *)
(* of finite pools of each kind.  An object on the floor, in a corpse or   *)
(* in a container that lies there is in its room; what matters of          *)
(* object_list is the order of the containers, newest first.  Zones are    *)
(* those that are not reset at boot.                                       *)
(***************************************************************************)
EXTENDS Integers, FiniteSets, Sequences, FiniteSetsExt, SequencesExt

CONSTANTS Zones,         \* 1..n, the indices of zone_table
          Rooms, ZoneOf,
          Table,         \* the reset commands of each zone
          Lifespan,
          Mode,          \* "never", "empty" or "always"
          Players,
          Mobs, Objs,    \* bound: the pools
          KindOf,
          Containers,    \* the objects that hold others
          Rare,          \* kinds with a rent of LIM_ITEM_COST_MIN or more
          Sides,         \* doors, as seen from either room
          Special,       \* those that a command of their own opens
          Keyed,         \* those that have a key
          ReloadQueued,  \* whether a zone that waits to be reset may be loaded
          Breakable,     \* whether things break in the hands of players
          None

ZO_DEAD == 999

Back(s) == <<s[2], s[1]>>
MobKinds == {KindOf[m] : m \in Mobs}
ObjKinds == {KindOf[o] : o \in Objs}
Kinds == MobKinds \cup ObjKinds

\* A command of a table, as renum_zone_table leaves it.  (Its fields: see
\* reset_zone below.)
CommandOK(c) ==
    /\ c.if_flag \in BOOLEAN /\ c.max \in Nat /\ c.each \in Nat
    /\ \/ c.letter = "M" /\ c.kind \in MobKinds /\ c.room \in Rooms
       \/ c.letter = "O" /\ c.kind \in ObjKinds /\ c.room \in Rooms
       \/ c.letter \in {"P", "G", "E"} /\ c.kind \in ObjKinds
       \/ c.letter = "D" /\ c.kind \in {"open", "closed", "locked"} /\ c.room \in Sides

ASSUME ZoneAssumption ==
    /\ IsFiniteSet(Zones) /\ Zones = 1..Cardinality(Zones)
    /\ IsFiniteSet(Players) /\ IsFiniteSet(Mobs) /\ IsFiniteSet(Objs)
    /\ DOMAIN KindOf = Mobs \cup Objs /\ MobKinds \cap ObjKinds = {}
    /\ Rare \subseteq ObjKinds
    /\ \A z \in Zones : Table[z] \in Seq({c \in ToSet(Table[z]) : CommandOK(c)})
    /\ ZoneOf \in [Rooms -> Zones]
    /\ Lifespan \in [Zones -> 0..(ZO_DEAD - 1)]
    /\ Mode \in [Zones -> {"never", "empty", "always"}]
    /\ Containers \subseteq Objs
    /\ Sides \subseteq Rooms \X Rooms
    /\ \A s \in Sides : Back(s) \in Sides
    /\ Special \cup Keyed \subseteq Sides
    /\ {ReloadQueued, Breakable} \subseteq BOOLEAN
    /\ None \notin Rooms \cup Players \cup Mobs \cup Objs
    /\ Players \cap (Rooms \cup Mobs \cup Objs) = {} /\ Rooms \cap (Mobs \cup Objs) = {}
    /\ Mobs \cap Objs = {}

VARIABLES age, start,    \* of each zone: start says whether it was ever reset
          queue,         \* gReset_q
          world,         \* mobiles, objects, doors: see Init
          spot,          \* the room a player is in
          playing,       \* the players whose connection is in CON_PLYNG
          stored         \* how many of each kind a player's rent file has

vars == <<age, start, queue, world, spot, playing, stored>>

Init ==
    /\ age = [z \in Zones |-> 0]
    /\ start = [z \in Zones |-> FALSE]
    /\ queue = <<>>
    /\ \E closed \in SUBSET Sides :
        /\ \A s \in closed : Back(s) \in closed
        /\ world = [room   |-> [m \in Mobs |-> None],
                    place  |-> [o \in Objs |-> None],
                    listed |-> <<>>,                    \* containers, newest first
                    number |-> [k \in Kinds |-> 0],     \* mob_index, obj_index
                    shut   |-> closed,                  \* EX_CLOSED
                    locked |-> {},                      \* EX_LOCKED
                    last   |-> TRUE,                    \* nLastCmd
                    mob    |-> None]                    \* pLastMob
    /\ spot = [p \in Players |-> None]
    /\ playing = {}
    /\ stored = [p \in Players |-> [k \in Kinds |-> 0]]

TypeOK ==
    /\ age \in [Zones -> 0..ZO_DEAD]
    /\ start \in [Zones -> BOOLEAN]
    /\ queue \in Seq(Zones)
    /\ world.room \in [Mobs -> Rooms \cup {None}]
    /\ world.place \in [Objs -> Rooms \cup Players \cup Mobs \cup Objs \cup {None}]
    /\ ToSet(world.listed) = {o \in Containers : world.place[o] # None}
    /\ world.number \in [Kinds -> Int]
    /\ world.shut \subseteq Sides /\ world.locked \subseteq Sides
    /\ world.last = TRUE /\ world.mob = None
    /\ spot \in [Players -> Rooms \cup {None}]
    /\ playing \subseteq Players
    /\ stored \in [Players -> [Kinds -> Nat]]

-----------------------------------------------------------------------------
(* Mobiles and objects come into being and cease.                          *)

Put(f, x, y) == [z \in DOMAIN f |-> IF z = x THEN y ELSE f[z]]

\* What of a list is in S.
Kept(s, S) ==
    LET kept[i \in 0..Len(s)] ==
            IF i = 0 THEN <<>>
            ELSE IF s[i] \in S THEN Append(kept[i - 1], s[i]) ELSE kept[i - 1]
    IN  kept[Len(s)]

\* How many of kind k the rent files of the players S hold (update_obj_file
\* goes through them one by one).
InFiles(S, k) == Cardinality(UNION {{p} \X (1 .. stored[p][k]) : p \in S})

Of(k, S) == {x \in S : KindOf[x] = k}
Less(n, S) == [k \in Kinds |-> n[k] - Cardinality(Of(k, S))]
More(n, S) == [k \in Kinds |-> n[k] + Cardinality(Of(k, S))]

\* read_mobile and read_object take one that is free, if the pool has one.
FreeMobs(w, k) == {m \in Of(k, Mobs) : w.room[m] = None}
FreeObjs(w, k) == {o \in Of(k, Objs) : w.place[o] = None}
NewMob(w, k) == CHOOSE m \in FreeMobs(w, k) : TRUE
NewObj(w, k) == CHOOSE o \in FreeObjs(w, k) : TRUE

Inside(w, o) == {x \in Objs : w.place[x] = o}
Held(w, x) == {o \in Objs : w.place[o] = x \/ \E c \in Containers : w.place[c] = x /\ w.place[o] = c}

Made(w, o, at) ==
    [w EXCEPT !.place = Put(@, o, at),
              !.listed = IF o \in Containers THEN <<o>> \o @ ELSE @,
              !.number = More(@, {o})]

Moved(w, S, at) == [w EXCEPT !.place = [o \in Objs |-> IF o \in S THEN at ELSE w.place[o]]]

\* extract_obj, with all that is in it.
Extract(w, S) ==
    [w EXCEPT !.place = [o \in Objs |-> IF o \in S THEN None ELSE w.place[o]],
              !.listed = Kept(@, Objs \ S),
              !.number = Less(@, S)]

\* extract_char of mobiles: what they had stays in the room.
ExtractMobs(w, S) ==
    [w EXCEPT !.room = [m \in Mobs |-> IF m \in S THEN None ELSE w.room[m]],
              !.place = [o \in Objs |-> IF w.place[o] \in S THEN w.room[w.place[o]]
                                        ELSE w.place[o]],
              !.number = Less(@, S)]

-----------------------------------------------------------------------------
(* reset_zone: one operator for each letter of the table.  arg2 is max,    *)
(* the number of the kind that may exist; 0 means any number.              *)

\* Mutant: one more than the table says.
BelowOrAt(w, c) == c.max = 0 \/ w.number[c.kind] <= c.max

Below(w, c) == c.max = 0 \/ w.number[c.kind] < c.max

ReadMob(w, c) ==
    LET m == NewMob(w, c.kind)
    IN  [w EXCEPT !.room = Put(@, m, c.room), !.number = More(@, {m}),
                  !.mob = m, !.last = TRUE]

LoadMob(w, c, fights) ==
    IF Below(w, c) /\ c.room \notin fights /\ FreeMobs(w, c.kind) # {} THEN ReadMob(w, c)
    ELSE [w EXCEPT !.mob = None, !.last = FALSE]

LoadObj(w, c) ==
    IF /\ Below(w, c)
       /\ \/ c.each = 0
          \/ Cardinality({o \in Of(c.kind, Objs) : w.place[o] = c.room}) < c.each
       /\ FreeObjs(w, c.kind) # {}
    THEN [Made(w, NewObj(w, c.kind), c.room) EXCEPT !.last = TRUE]
    ELSE [w EXCEPT !.last = FALSE]

\* get_obj_num finds the newest object of a kind, wherever it is.
Newest(w, k) == Kept(w.listed, Of(k, Objs))

PutObj(w, c) ==
    LET found == Newest(w, c.room)
    IN  IF Below(w, c) /\ found # <<>> /\ FreeObjs(w, c.kind) # {}
        THEN [Made(w, NewObj(w, c.kind), Head(found)) EXCEPT !.last = TRUE]
        ELSE [w EXCEPT !.last = FALSE]

\* G and E leave nLastCmd as it is, whether they do something or not.
\* A table gives a mobile one object for each position.
GiveObj(w, c) ==
    IF Below(w, c) /\ w.mob # None /\ FreeObjs(w, c.kind) # {}
    THEN Made(w, NewObj(w, c.kind), w.mob)
    ELSE w

SetDoor(w, c) ==
    [w EXCEPT !.shut = IF c.kind = "open" THEN @ \ {c.room} ELSE @ \cup {c.room},
              !.locked = IF c.kind = "locked" THEN @ \cup {c.room} ELSE @ \ {c.room}]

Do(w, c, fights) == CASE c.letter = "M" -> LoadMob(w, c, fights)
                      [] c.letter = "O" -> LoadObj(w, c)
                      [] c.letter = "P" -> PutObj(w, c)
                      [] c.letter \in {"G", "E"} -> GiveObj(w, c)
                      [] c.letter = "D" -> SetDoor(w, c)

\* Mutant: a command that depends on one that failed is done all the same.
ExecuteAlways(w, c, fights) == Do(w, c, fights)

Execute(w, c, fights) ==
    IF w.last \/ ~c.if_flag THEN Do(w, c, fights) ELSE [w EXCEPT !.last = FALSE]

ResetZone(w, z, fights) ==
    [FoldLeft(LAMBDA x, c : Execute(x, c, fights), w, Table[z])
        EXCEPT !.last = TRUE, !.mob = None]

-----------------------------------------------------------------------------
(* zone_update: zones grow old, wait in the queue, and are reset when      *)
(* their mode allows it.                                                   *)

Young(z) == start[z] /\ Mode[z] # "never" /\ age[z] < Lifespan[z]
Old(z) == start[z] /\ Mode[z] # "never" /\ age[z] >= Lifespan[z] /\ age[z] < ZO_DEAD

Enqueued == queue \o Kept([i \in Zones |-> i], {z \in Zones : Old(z)})

IsEmpty(z) == \A p \in playing : ZoneOf[spot[p]] # z

\* Mutant: a zone is passed over while somebody is in any zone.
DueAlone(z) == \/ Mode[z] = "always"
               \/ Mode[z] = "empty" /\ playing = {}

Due(z) == \/ Mode[z] = "always"
          \/ Mode[z] = "empty" /\ IsEmpty(z)

\* Where two are together they may fight (fighting_in_room).
Shared == {r \in Rooms : Cardinality({m \in Mobs : world.room[m] = r})
                         + Cardinality({p \in Players : spot[p] = r}) > 1}

\* The zones of a list, one after the other.
ResetAll(w, due, fights) == FoldLeft(LAMBDA x, z : ResetZone(x, z, fights), w, due)

ZoneUpdate ==
    \E due \in {Kept(Enqueued, {z \in Zones : Due(z)})} :
    /\ UNCHANGED <<start, spot, playing, stored>>
    /\ queue' = Kept(Enqueued, {z \in Zones : ~Due(z)})
    /\ age' = [z \in Zones |-> IF z \in ToSet(due) THEN 0
                               ELSE IF Young(z) THEN age[z] + 1
                               ELSE IF Old(z) THEN ZO_DEAD ELSE age[z]]
    /\ \E fights \in SUBSET Shared :
           world' = ResetAll(world, due, fights)

\* char_to_room: the first player in a zone starts it.
Arrives(w, r, fights) == IF start[ZoneOf[r]] THEN w ELSE ResetZone(w, ZoneOf[r], fights)

Started(r) ==
    /\ start' = Put(start, ZoneOf[r], TRUE)
    /\ age' = IF start[ZoneOf[r]] THEN age ELSE Put(age, ZoneOf[r], 0)

\* do_zload, by a god: the zone is cleaned and reset, and is started anew.
CleanZone(w, z) ==
    LET u == ExtractMobs(w, {m \in Mobs : w.room[m] # None /\ ZoneOf[w.room[m]] = z})
    IN  Extract(u, UNION {Held(u, r) : r \in {q \in Rooms : ZoneOf[q] = z}})

DoZload(z) ==
    /\ ReloadQueued \/ z \notin ToSet(queue)
    /\ world' = ResetZone(CleanZone(world, z), z, {})
    /\ age' = Put(age, z, 0)
    /\ start' = Put(start, z, TRUE)
    /\ UNCHANGED <<queue, spot, playing, stored>>

-----------------------------------------------------------------------------
(* Players come and go.                                                    *)

Had(p) == [k \in Kinds |-> Cardinality(Of(k, Held(world, p)))]
Nothing == [k \in Kinds |-> 0]

\* Mutant: nothing is counted when it is loaded.
LoadedUncounted(w, p, S) ==
    [w EXCEPT !.place = [o \in Objs |-> IF o \in S THEN p ELSE w.place[o]],
              !.listed = SetToSeq(S \cap Containers) \o @]

\* obj_store_to_char: what is rare has been counted all the time.
Loaded(w, p, S) ==
    [w EXCEPT !.place = [o \in Objs |-> IF o \in S THEN p ELSE w.place[o]],
              !.listed = SetToSeq(S \cap Containers) \o @,
              !.number = More(@, {o \in S : KindOf[o] \notin Rare})]

\* As many objects of each kind as a file has.
FromFile(w, n) == UNION {CHOOSE T \in kSubset(n[k], FreeObjs(w, k)) : TRUE : k \in Kinds}

\* load_char_objs, then char_to_room.
Enter(p, r) ==
    /\ spot[p] = None
    /\ \A k \in Kinds : stored[p][k] <= Cardinality(FreeObjs(world, k))
    /\ world' = Arrives(Loaded(world, p, FromFile(world, stored[p])), r, {})
    /\ Started(r)
    /\ spot' = Put(spot, p, r)
    /\ playing' = playing \cup {p}
    /\ UNCHANGED <<queue, stored>>

\* The same for a player that cannot pay the rent: the file is emptied, but
\* what was rare in it stays counted.
EnterBroke(p, r) ==
    /\ spot[p] = None
    /\ world' = Arrives(world, r, {})
    /\ Started(r)
    /\ spot' = Put(spot, p, r)
    /\ playing' = playing \cup {p}
    /\ stored' = Put(stored, p, Nothing)
    /\ UNCHANGED queue

\* receptionist, or check_idling's forced rent: obj_to_store leaves what is
\* rare counted.
Rent(p) ==
    /\ spot[p] # None
    /\ LET S == Held(world, p)
       IN  world' = [Extract(world, S) EXCEPT
                        !.number = More(@, {o \in S : KindOf[o] \in Rare})]
    /\ stored' = Put(stored, p, Had(p))
    /\ spot' = Put(spot, p, None)
    /\ playing' = playing \ {p}
    /\ UNCHANGED <<age, start, queue>>

\* do_quit and raw_kill: all is left in the room, and the file is emptied.
Leave(p) ==
    /\ spot[p] # None
    /\ world' = Moved(world, {o \in Objs : world.place[o] = p}, spot[p])
    /\ stored' = Put(stored, p, Nothing)
    /\ spot' = Put(spot, p, None)
    /\ playing' = playing \ {p}
    /\ UNCHANGED <<age, start, queue>>

LinkChanges(p) ==
    /\ spot[p] # None
    /\ playing' = IF p \in playing THEN playing \ {p} ELSE playing \cup {p}
    /\ UNCHANGED <<age, start, queue, world, spot, stored>>

\* ValidMove looks at the side of the door that the player sees.
Walk(p, r) ==
    /\ p \in playing
    /\ r # spot[p] /\ <<spot[p], r>> \notin world.shut
    /\ world' = Arrives(world, r, {})
    /\ Started(r)
    /\ spot' = Put(spot, p, r)
    /\ UNCHANGED <<queue, playing, stored>>

-----------------------------------------------------------------------------
(* What players do to objects and mobiles; NODUPLICATES writes the file    *)
(* with every object that changes hands.                                   *)

Keeps(p) == /\ UNCHANGED <<age, start, queue, spot, playing>>
            /\ stored' = Put(stored, p, [k \in Kinds |-> Cardinality(Of(k, Held(world', p)))])

DoGet(p, o) ==
    /\ p \in playing
    /\ o \in Held(world, spot[p]) \/ \E c \in Inside(world, p) : world.place[o] = c
    /\ world' = Moved(world, {o}, p)
    /\ Keeps(p)

DoDrop(p, o) ==
    /\ p \in playing
    /\ world.place[o] = p
    /\ world' = Moved(world, {o}, spot[p])
    /\ Keeps(p)

\* Bound: a container is not put into another.
DoPut(p, o, c) ==
    /\ p \in playing
    /\ world.place[o] = p /\ o \notin Containers
    /\ world.place[c] \in {p, spot[p]}
    /\ world' = Moved(world, {o}, c)
    /\ Keeps(p)

\* An object is eaten, read, quaffed.
UseUp(p, o) ==
    /\ p \in playing
    /\ world.place[o] = p
    /\ world' = Extract(world, {o} \cup Inside(world, o))
    /\ Keeps(p)

\* An object is burnt or purged, decays, or breaks in a fight (MakeScrap):
\* no file is written.
Vanish(o) ==
    /\ world.place[o] # None
    /\ Breakable \/ \A p \in Players : o \notin Held(world, p)
    /\ world' = Extract(world, {o} \cup Inside(world, o))
    /\ UNCHANGED <<age, start, queue, spot, playing, stored>>

MobDies(m) ==
    /\ world.room[m] # None
    /\ world' = ExtractMobs(world, {m})
    /\ UNCHANGED <<age, start, queue, spot, playing, stored>>

\* mobile_activity: a mobile wanders.
Wander(m, r) ==
    /\ world.room[m] \notin {None, r}
    /\ <<world.room[m], r>> \notin world.shut
    /\ world' = [world EXCEPT !.room = Put(@, m, r)]
    /\ UNCHANGED <<age, start, queue, spot, playing, stored>>

-----------------------------------------------------------------------------
(* Doors.  Every command changes the other side, too.                      *)

Both(s) == {s, Back(s)}
DoorOnly == UNCHANGED <<age, start, queue, spot, playing, stored>>

Near(s) == \/ \E p \in playing : spot[p] = s[1]
           \/ \E m \in Mobs : world.room[m] = s[1]

\* do_open, and go_direction of a mobile.
OpenDoor(s) ==
    /\ Near(s)
    /\ s \in world.shut /\ s \notin world.locked /\ s \notin Special
    /\ world' = [world EXCEPT !.shut = @ \ Both(s)]
    /\ DoorOnly

DoClose(s) ==
    /\ Near(s)
    /\ s \notin world.shut /\ s \notin Special
    /\ world' = [world EXCEPT !.shut = @ \cup Both(s)]
    /\ DoorOnly

\* do_open_exit: pulling, pushing, ... opens what is closed and closes what is
\* open.  Nobody asks for a lock.
DoOpenExit(s) ==
    /\ Near(s)
    /\ s \in Special
    /\ world' = [world EXCEPT !.shut = IF s \in @ THEN @ \ Both(s) ELSE @ \cup Both(s)]
    /\ DoorOnly

DoLock(s) ==
    /\ Near(s)
    /\ s \in world.shut /\ s \notin world.locked /\ s \in Keyed
    /\ world' = [world EXCEPT !.locked = @ \cup Both(s)]
    /\ DoorOnly

\* do_unlock, do_pick, and the spell knock.
Unlock(s) ==
    /\ Near(s)
    /\ s \in world.shut /\ s \in world.locked /\ s \in Keyed
    /\ world' = [world EXCEPT !.locked = @ \ Both(s)]
    /\ DoorOnly

\* Mutant: the lock is left as it is.
DoorbashUnlocks(s) ==
    /\ Near(s)
    /\ s \in world.shut
    /\ world' = [world EXCEPT !.shut = @ \ Both(s)]
    /\ DoorOnly

DoDoorbash(s) ==
    /\ Near(s)
    /\ s \in world.shut
    /\ world' = [world EXCEPT !.shut = @ \ Both(s), !.locked = @ \ Both(s)]
    /\ DoorOnly

-----------------------------------------------------------------------------
\* The server stops and starts again: the files remain, and
\* CountLimitedItems counts what is rare in them.
Restart ==
    /\ age' = [z \in Zones |-> 0]
    /\ start' = [z \in Zones |-> FALSE]
    /\ queue' = <<>>
    /\ world' = [world EXCEPT
                    !.room = [m \in Mobs |-> None],
                    !.place = [o \in Objs |-> None],
                    !.listed = <<>>,
                    !.number = [k \in Kinds |->
                        IF k \in Rare THEN InFiles(Players, k) ELSE 0]]
    /\ spot' = [p \in Players |-> None]
    /\ playing' = {}
    /\ UNCHANGED stored

Next ==
    \/ ZoneUpdate
    \/ \E z \in Zones : DoZload(z)
    \/ \E p \in Players :
        \/ \E r \in Rooms : Enter(p, r) \/ EnterBroke(p, r) \/ Walk(p, r)
        \/ Rent(p) \/ Leave(p) \/ LinkChanges(p)
        \/ \E o \in Objs : \/ DoGet(p, o) \/ DoDrop(p, o) \/ UseUp(p, o)
                           \/ \E c \in Containers : DoPut(p, o, c)
    \/ \E o \in Objs : Vanish(o)
    \/ \E m \in Mobs : MobDies(m) \/ \E r \in Rooms : Wander(m, r)
    \/ \E s \in Sides : \/ OpenDoor(s) \/ DoClose(s) \/ DoOpenExit(s)
                        \/ DoLock(s) \/ Unlock(s) \/ DoDoorbash(s)
    \/ Restart

Spec == Init /\ [][Next]_vars

\* The pulse of the game loop comes again and again.
FairSpec == Spec /\ WF_vars(ZoneUpdate)

-----------------------------------------------------------------------------
(* Properties.                                                             *)

Exist(k) == Cardinality({m \in Of(k, Mobs) : world.room[m] # None})
            + Cardinality({o \in Of(k, Objs) : world.place[o] # None})
Rented(k) == IF k \notin Rare THEN 0
             ELSE InFiles({p \in Players : spot[p] = None}, k)

\* The counters that hold the tables back never count less than there is, in
\* the world and (of rare kinds) in the files of players that are away.
CountersSuffice == \A k \in Kinds : world.number[k] >= Exist(k) + Rented(k)

\* So there are never more mobiles or rare objects than the tables allow.
Commands(k) == {c \in UNION {ToSet(Table[z]) : z \in Zones} : c.letter # "D" /\ c.kind = k}
Limit(k) == Max({0} \cup {c.max : c \in Commands(k)})
RareStaysRare ==
    \A k \in Rare \cup MobKinds :
        (\A c \in Commands(k) : c.max # 0) => Exist(k) + Rented(k) <= Limit(k)

\* The two sides of a door agree, and a locked door is closed: nobody walks
\* through a lock, whatever players, mobiles and resets do to either side.
DoorsAgree ==
    /\ \A s \in world.shut : Back(s) \in world.shut
    /\ \A s \in world.locked : Back(s) \in world.locked
    /\ world.locked \subseteq world.shut

\* It takes tables that set both sides of a door, one right after the other,
\* and lock nothing that opens without a key.
Mates(c, d) ==
    /\ c.letter = "D" /\ d.letter = "D" /\ ~c.if_flag /\ ~d.if_flag
    /\ d.kind = c.kind /\ d.room = Back(c.room)
DoorsPaired ==
    /\ Special \cap Keyed = {} /\ \A s \in Special : Back(s) \in Special
    /\ \A z \in Zones : \E first \in SUBSET DOMAIN Table[z] :
        /\ \A i \in DOMAIN Table[z] : Table[z][i].letter = "D" => i \in first \/ i - 1 \in first
        /\ \A i \in first :
            /\ i - 1 \notin first /\ i + 1 \in DOMAIN Table[z]
            /\ Mates(Table[z][i], Table[z][i + 1])
            /\ Table[z][i].kind = "locked" => Table[z][i].room \notin Special

\* "exe only if preceding exe'd" (src/src/db.h:41): what a reset puts into a
\* container goes into one that the reset has made, so nothing new ever
\* appears among the things of a player that is in the game.
ResetsKeepOff ==
    [][\A p \in Players : \A o \in Held(world', p) :
          spot[p] # None => world.place[o] # None]_vars

\* It takes tables that put things only into what the command before has
\* brought, or has put something into.
PutsFollow ==
    \A z \in Zones : \A i \in DOMAIN Table[z] :
        Table[z][i].letter = "P" =>
            /\ Table[z][i].if_flag /\ Table[z][i].kind # Table[z][i].room
            /\ Of(Table[z][i].room, Objs) \subseteq Containers
            /\ i - 1 \in DOMAIN Table[z]
            /\ \/ Table[z][i - 1].letter = "O" /\ Table[z][i - 1].kind = Table[z][i].room
               \/ Table[z][i - 1].letter = "P" /\ Table[z][i - 1].room = Table[z][i].room

\* A zone that has been started is reset again and again, unless somebody is
\* always there or comes back in time.
EmptyZonesReset ==
    \A z \in Zones :
        (Mode[z] # "never" /\ <>[](start[z] /\ (Mode[z] = "empty" => IsEmpty(z))))
            => []<><<age[z] > 0 /\ age'[z] = 0>>_age
=============================================================================
