---------------------------- MODULE CombatProofs ----------------------------
(***************************************************************************)
(* What the commands, the events and the rounds of Combat keep, for any    *)
(* number of characters, rooms and limits: the list of fights, the counts  *)
(* of attackers, companies and rides agree, and nobody dead stays.         *)
(*                                                                         *)
(* The operators of Fights are total functions of a world, so the lemmas   *)
(* are about any world w in which everything agrees: what stop_fighting,   *)
(* damage, hit... make of it agrees again.  They go up the call graph of   *)
(* fight.c, from the assignments to hit(); the actions follow from them.   *)
(***************************************************************************)
EXTENDS Combat, FiniteSetTheorems, TLAPS

Sound(w) == w \in Worlds /\ Fight(w) /\ Bonds(w)

\* Who is in the game with a body that is, or will be seen to be, dead.
Mortal(w) == {c \in InGame(w) : w.pos[c] = "dead" \/ w.hp[c] = "dead"}

\* x agrees, does not put anyone in front of the round, and nobody but those
\* in S may have got a deadly wound.
Leads(w, x, S) == Sound(x) /\ x.ahead \subseteq w.ahead /\ Mortal(x) \subseteq Mortal(w) \cup S

\* The same without a change of who is in the game.
Stays(w, x, S) == Leads(w, x, S) /\ InGame(x) = InGame(w)

NoFlames == \A c, v \in Chars : ~ Burns(c, v)

\* What a whole command, event or turn does.
After(w, x) ==
    /\ Sound(x) /\ x.ahead \subseteq w.ahead
    /\ NoFlames /\ Mortal(w) = {} => Mortal(x) = {}

-----------------------------------------------------------------------------
(* Frames.                                                                 *)

\* The same fights and bonds among the same characters.
SameTies(w, x) ==
    /\ x.where = w.where /\ x.fighting = w.fighting /\ x.attackers = w.attackers
    /\ x.combat_list = w.combat_list /\ x.ahead \subseteq w.ahead
    /\ x.master = w.master /\ x.followers = w.followers
    /\ x.mount = w.mount /\ x.rider = w.rider /\ x.charmed = w.charmed

LEMMA TiesFrame ==
    ASSUME NEW w, NEW x, Sound(w), x \in Worlds, SameTies(w, x)
    PROVE  Sound(x) /\ x.ahead \subseteq w.ahead /\ InGame(x) = InGame(w)
<1>1. Fight(x)
  BY DEF Sound, Fight, SameTies
<1>2. Bonds(x)
  BY DEF Sound, Bonds, SameTies
<1>. QED
  BY <1>1, <1>2 DEF Sound, InGame, SameTies

LEMMA UpdatePosOnly ==
    ASSUME NEW w, Sound(w), NEW c \in Chars
    PROVE  /\ Stays(w, UpdatePos(w, c), {})
           /\ UpdatePos(w, c).hp = w.hp
           /\ w.hp[c] = "dead" => UpdatePos(w, c).pos[c] = "dead"
           /\ \A d \in Chars \ {c} : UpdatePos(w, c).pos[d] = w.pos[d]
<1>. DEFINE x == UpdatePos(w, c)
<1>1. PICK p : /\ p \in Positions /\ x = [w EXCEPT !.pos = Put(@, c, p)]
               /\ w.hp[c] = "dead" => p = "dead"
               /\ p = "dead" => w.hp[c] = "dead"
  <2>. DEFINE p == CASE w.hp[c] = "dead" -> "dead"
                    [] w.hp[c] = "hurt" -> "stunned"
                    [] w.hp[c] = "fit" /\ Awake(w, c) -> w.pos[c]
                    [] OTHER -> IF "paralysis" \in w.under[c] THEN "stunned" ELSE OnFeet(w, c)
  <2>1. w.hp[c] \in Hits /\ w.pos[c] \in Positions /\ OnFeet(w, c) \in Positions \ {"dead"}
    BY DEF Sound, Worlds, OnFeet, Positions, Down
  <2>2. CASE w.hp[c] = "dead"
    <3>1. p = "dead"  BY <2>2
    <3>. QED  BY <3>1, <2>2 DEF UpdatePos, Positions, Down
  <2>3. CASE w.hp[c] = "hurt"
    <3>1. p = "stunned"  BY <2>3
    <3>. QED  BY <3>1, <2>3 DEF UpdatePos, Positions, Down
  <2>4. CASE w.hp[c] = "fit"
    <3>1. p \in Positions \ {"dead"}  BY <2>4, <2>1 DEF Awake, Positions, Down
    <3>. QED  BY <3>1, <2>4 DEF UpdatePos
  <2>. QED  BY <2>1, <2>2, <2>3, <2>4 DEF Hits
<1>. HIDE DEF x
<1>2. x.hp = w.hp /\ x.pos = Put(w.pos, c, p) /\ x \in Worlds /\ SameTies(w, x)
  BY <1>1 DEF Sound, Worlds, Put, SameTies
<1>3. Sound(x) /\ x.ahead \subseteq w.ahead /\ InGame(x) = InGame(w)
  BY <1>2, TiesFrame
<1>4. Mortal(x) \subseteq Mortal(w) \cup {}
  BY <1>1, <1>2, <1>3 DEF Mortal, Put, InGame
<1>5. /\ w.hp[c] = "dead" => x.pos[c] = "dead"
      /\ \A d \in Chars \ {c} : x.pos[d] = w.pos[d]
  BY <1>1, <1>2 DEF Put
<1>6. Stays(w, x, {}) /\ x.hp = w.hp
  BY <1>2, <1>3, <1>4 DEF Stays, Leads
<1>. QED
  BY <1>5, <1>6 DEF x

LEMMA PlacedOnly ==
    ASSUME NEW w, Sound(w), NEW c \in Chars, NEW p \in Positions \ {"dead"}
    PROVE  Stays(w, Placed(w, c, p), {})
<1>. DEFINE x == Placed(w, c, p)
<1>1. x.hp = w.hp /\ x.pos = Put(w.pos, c, p) /\ x \in Worlds /\ SameTies(w, x)
  BY DEF Placed, Sound, Worlds, Put, SameTies
<1>2. Sound(x) /\ x.ahead \subseteq w.ahead /\ InGame(x) = InGame(w)
  BY <1>1, TiesFrame
<1>. HIDE DEF x
<1>3. Mortal(x) \subseteq Mortal(w)
  BY <1>1, <1>2 DEF Mortal, Put, InGame
<1>4. Stays(w, x, {})
  BY <1>2, <1>3 DEF Stays, Leads
<1>. QED  BY <1>4 DEF x

\* Only the wounded can die of the wound.
LEMMA WoundedOnly ==
    ASSUME NEW w, Sound(w), NEW c \in Chars, NEW h \in Hits
    PROVE  /\ Stays(w, Wounded(w, c, h), {c})
           /\ h # "dead" => Stays(w, Wounded(w, c, h), {})
           /\ Wounded(w, c, h).pos = w.pos /\ Wounded(w, c, h).hp[c] = h
<1>. DEFINE x == Wounded(w, c, h)
<1>1. x.pos = w.pos /\ x.hp = Put(w.hp, c, h) /\ x \in Worlds /\ SameTies(w, x)
  BY DEF Wounded, Sound, Worlds, Put, SameTies
<1>2. Sound(x) /\ x.ahead \subseteq w.ahead /\ InGame(x) = InGame(w)
  BY <1>1, TiesFrame
<1>. HIDE DEF x
<1>3. Mortal(x) \subseteq Mortal(w) \cup {c} /\ (h # "dead" => Mortal(x) \subseteq Mortal(w))
  BY <1>1, <1>2 DEF Mortal, Put, InGame
<1>4. Stays(w, x, {c}) /\ (h # "dead" => Stays(w, x, {}))
  BY <1>2, <1>3 DEF Stays, Leads
<1>5. x.hp[c] = h
  BY <1>1 DEF Put
<1>. QED  BY <1>1, <1>4, <1>5 DEF x

\* A rider gets off, or is thrown off, its mount.
LEMMA DismountOnly ==
    ASSUME NEW w, Sound(w), NEW c \in Chars, NEW h \in Chars, w.mount[c] = h,
           NEW p \in Positions \ {"dead"}
    PROVE  /\ Stays(w, Dismount(w, c, h, p), {})
           /\ Dismount(w, c, h, p).hp = w.hp
           /\ Dismount(w, c, h, p).where = w.where
           /\ Dismount(w, c, h, p).fighting = w.fighting
           /\ Dismount(w, c, h, p).master = w.master
           /\ Dismount(w, c, h, p).followers = w.followers
           /\ Dismount(w, c, h, p).mount = Put(w.mount, c, None)
           /\ Dismount(w, c, h, p).rider = Put(w.rider, h, None)
<1>. DEFINE x == Dismount(w, c, h, p)
<1>1. /\ x.hp = w.hp /\ x.pos = Put(w.pos, c, p)
      /\ x.mount = Put(w.mount, c, None) /\ x.rider = Put(w.rider, h, None)
      /\ x.where = w.where /\ x.fighting = w.fighting /\ x.attackers = w.attackers
      /\ x.combat_list = w.combat_list /\ x.ahead = w.ahead
      /\ x.master = w.master /\ x.followers = w.followers /\ x.charmed = w.charmed
  BY DEF Dismount, Sound, Worlds
<1>2. x \in Worlds
  BY DEF Dismount, Sound, Worlds, Put
<1>. HIDE DEF x
<1>3. Fight(x)
  BY <1>1 DEF Sound, Fight
<1>4. Bonds(x)
  <2>1. Bonds(w) /\ w.rider[h] = c /\ None \notin Chars
    BY CombatAssumption DEF Sound, Bonds
  <2>2. \A a, b \in Chars : x.mount[a] = b <=> x.rider[b] = a
    BY <1>1, <2>1 DEF Bonds, Put
  <2>3. \A a \in Chars : x.where[a] = None => x.mount[a] = None /\ x.rider[a] = None
    BY <1>1, <2>1 DEF Bonds, Put
  <2>. QED  BY <1>1, <2>1, <2>2, <2>3 DEF Bonds
<1>5. InGame(x) = InGame(w) /\ Mortal(x) \subseteq Mortal(w)
  BY <1>1 DEF InGame, Mortal, Put
<1>6. Stays(w, x, {})
  BY <1>1, <1>2, <1>3, <1>4, <1>5 DEF Stays, Leads, Sound
<1>. QED  BY <1>1, <1>6 DEF x

LEMMA StaysSame ==
    ASSUME NEW w, Sound(w)
    PROVE  Stays(w, w, {})
BY DEF Stays, Leads

LEMMA StaysTransitive ==
    ASSUME NEW w, NEW x, NEW y, NEW S, NEW T, Stays(w, x, S), Stays(x, y, T)
    PROVE  Stays(w, y, S \cup T)
BY DEF Stays, Leads

LEMMA TumblesOnly ==
    ASSUME NEW w, Sound(w), NEW v \in Chars, NEW x \in Tumbles(w, v)
    PROVE  Stays(w, x, {}) /\ x.hp = w.hp
<1>0. /\ "sitting" \in Positions \ {"dead"}
      /\ \A c \in Chars : w.mount[c] \in Chars \cup {None} /\ w.rider[c] \in Chars \cup {None}
      /\ \A c, h \in Chars : w.rider[h] = c => w.mount[c] = h
  BY DEF Positions, Down, Sound, Worlds, Bonds
<1>1. CASE x = w
  BY <1>1, StaysSame
<1>2. CASE w.mount[v] # None /\ x = Dismount(w, v, w.mount[v], "sitting")
  <2>. DEFINE h == w.mount[v]
  <2>1. h \in Chars /\ w.mount[v] = h
    BY <1>0, <1>2
  <2>. HIDE DEF h
  <2>2. Stays(w, Dismount(w, v, h, "sitting"), {}) /\ Dismount(w, v, h, "sitting").hp = w.hp
    BY <1>0, <2>1, DismountOnly
  <2>. QED  BY <2>2, <1>2 DEF h
<1>3. CASE w.rider[v] # None /\ x = Dismount(w, w.rider[v], v, "sitting")
  <2>. DEFINE r == w.rider[v]
  <2>1. r \in Chars /\ w.mount[r] = v
    BY <1>0, <1>3
  <2>. HIDE DEF r
  <2>2. Stays(w, Dismount(w, r, v, "sitting"), {}) /\ Dismount(w, r, v, "sitting").hp = w.hp
    BY <1>0, <2>1, DismountOnly
  <2>. QED  BY <2>2, <1>3 DEF r
<1>. QED
  BY <1>1, <1>2, <1>3 DEF Tumbles

-----------------------------------------------------------------------------
(* Companies.                                                              *)

\* What the bonds ask of master and followers alone, but for the circles.
Companies(w) ==
    /\ \A c, d \in Chars : c \in w.followers[d] <=> w.master[c] = d
    /\ \A c \in Chars : w.where[c] = None => w.master[c] = None /\ w.followers[c] = {}
    /\ \A c \in w.charmed : w.master[c] # None

\* With the rest of the world as it was, a change of masters and followers keeps
\* the bonds when they agree and no circle of masters arises.
LEMMA CompanyFrame ==
    ASSUME NEW w, NEW x, Sound(w), x \in Worlds, Companies(x),
           \A S \in SUBSET Chars : S # {} => \E c \in S : x.master[c] \notin S,
           x.where = w.where, x.fighting = w.fighting, x.attackers = w.attackers,
           x.combat_list = w.combat_list, x.ahead = w.ahead,
           x.mount = w.mount, x.rider = w.rider, x.hp = w.hp, x.pos = w.pos
    PROVE  Stays(w, x, {})
<1>1. Fight(x)
  BY DEF Sound, Fight
<1>2. Bonds(x)
  BY DEF Sound, Bonds, Companies
<1>3. InGame(x) = InGame(w) /\ Mortal(x) \subseteq Mortal(w)
  BY DEF InGame, Mortal
<1>. QED  BY <1>1, <1>2, <1>3 DEF Stays, Leads, Sound

LEMMA StopFollowerOnly ==
    ASSUME NEW w, Sound(w), NEW c \in Chars
    PROVE  /\ Stays(w, StopFollower(w, c), {})
           /\ StopFollower(w, c).hp = w.hp
           /\ StopFollower(w, c).where = w.where
           /\ StopFollower(w, c).master = Put(w.master, c, None)
<1>1. CASE w.master[c] = None
  BY <1>1, StaysSame DEF StopFollower, Put, Sound, Worlds
<1>2. CASE w.master[c] # None
  <2>. DEFINE x == StopFollower(w, c)
              m == w.master[c]
  <2>1. m \in Chars /\ None \notin Chars /\ Bonds(w)
    BY <1>2, CombatAssumption DEF Sound, Worlds
  <2>2. /\ x.where = w.where /\ x.fighting = w.fighting /\ x.attackers = w.attackers
        /\ x.combat_list = w.combat_list /\ x.ahead = w.ahead
        /\ x.mount = w.mount /\ x.rider = w.rider /\ x.hp = w.hp /\ x.pos = w.pos
        /\ x.followers = Put(w.followers, m, w.followers[m] \ {c})
        /\ x.master = Put(w.master, c, None)
        /\ x.charmed = w.charmed \ {c}
    BY <1>2 DEF StopFollower, Sound, Worlds
  <2>3. x \in Worlds
    BY <1>2, <2>1 DEF StopFollower, Sound, Worlds, Put
  <2>. HIDE DEF x
  <2>4. Companies(x)
    <3>1. \A a, b \in Chars : a \in x.followers[b] <=> x.master[a] = b
      BY <2>1, <2>2 DEF Bonds, Put, Sound, Worlds
    <3>2. \A a \in Chars : x.where[a] = None => x.master[a] = None /\ x.followers[a] = {}
      BY <2>1, <2>2 DEF Bonds, Put
    <3>3. \A a \in x.charmed : x.master[a] # None
      BY <2>1, <2>2 DEF Bonds, Put, Sound, Worlds
    <3>. QED  BY <3>1, <3>2, <3>3 DEF Companies
  <2>5. \A S \in SUBSET Chars : S # {} => \E d \in S : x.master[d] \notin S
    BY <2>1, <2>2 DEF Bonds, Put
  <2>6. Stays(w, x, {})
    BY <2>2, <2>3, <2>4, <2>5, CompanyFrame
  <2>. QED  BY <2>2, <2>6 DEF x
<1>. QED  BY <1>1, <1>2

LEMMA DieFollowerOnly ==
    ASSUME NEW w, Sound(w), NEW c \in Chars
    PROVE  /\ Stays(w, DieFollower(w, c), {})
           /\ DieFollower(w, c).master[c] = None
           /\ DieFollower(w, c).followers[c] = {}
           /\ DieFollower(w, c).where = w.where
<1>. DEFINE x == DieFollower(w, c)
            gone == w.followers[c] \cup {c}
<1>1. None \notin Chars /\ Bonds(w) /\ gone \subseteq Chars
  BY CombatAssumption DEF Sound, Worlds
<1>2. /\ x.where = w.where /\ x.fighting = w.fighting /\ x.attackers = w.attackers
      /\ x.combat_list = w.combat_list /\ x.ahead = w.ahead
      /\ x.mount = w.mount /\ x.rider = w.rider /\ x.hp = w.hp /\ x.pos = w.pos
      /\ x.followers = [d \in Chars |-> IF d = c THEN {} ELSE w.followers[d] \ {c}]
      /\ x.master = [d \in Chars |-> IF d \in gone THEN None ELSE w.master[d]]
      /\ x.charmed = w.charmed \ gone
  BY DEF DieFollower, Sound, Worlds
<1>3. x \in Worlds
  BY <1>1 DEF DieFollower, Sound, Worlds
<1>. HIDE DEF x
<1>4. Companies(x)
  <2>1. \A a, b \in Chars : a \in x.followers[b] <=> x.master[a] = b
    BY <1>1, <1>2 DEF Bonds, Sound, Worlds
  <2>2. \A a \in Chars : x.where[a] = None => x.master[a] = None /\ x.followers[a] = {}
    BY <1>1, <1>2 DEF Bonds
  <2>3. \A a \in x.charmed : x.master[a] # None
    BY <1>1, <1>2 DEF Bonds, Sound, Worlds
  <2>. QED  BY <2>1, <2>2, <2>3 DEF Companies
<1>5. \A S \in SUBSET Chars : S # {} => \E d \in S : x.master[d] \notin S
  BY <1>1, <1>2 DEF Bonds
<1>6. Stays(w, x, {})
  BY <1>2, <1>3, <1>4, <1>5, CompanyFrame
<1>7. x.master[c] = None /\ x.followers[c] = {}
  BY <1>2
<1>. QED  BY <1>2, <1>6, <1>7 DEF x

\* A new follower, when the chain of masters from the leader on does not come
\* to it, makes no circle.
LEMMA AddFollowerOnly ==
    ASSUME NEW w, Sound(w), NEW c \in Chars, NEW leader \in Chars,
           w.where[c] # None, w.where[leader] # None,
           NEW S \in SUBSET Chars, leader \in S, c \notin S,
           \A k \in S : w.master[k] \in S \cup {None}
    PROVE  /\ Stays(w, AddFollower(w, c, leader), {})
           /\ AddFollower(w, c, leader).master[c] # None
<1>1. CASE w.master[c] # None
  BY <1>1, StaysSame DEF AddFollower
<1>2. CASE w.master[c] = None
  <2>. DEFINE x == AddFollower(w, c, leader)
  <2>1. None \notin Chars /\ Bonds(w)
    BY CombatAssumption DEF Sound, Worlds
  <2>2. /\ x.where = w.where /\ x.fighting = w.fighting /\ x.attackers = w.attackers
        /\ x.combat_list = w.combat_list /\ x.ahead = w.ahead
        /\ x.mount = w.mount /\ x.rider = w.rider /\ x.hp = w.hp /\ x.pos = w.pos
        /\ x.followers = Put(w.followers, leader, w.followers[leader] \cup {c})
        /\ x.master = Put(w.master, c, leader)
        /\ x.charmed = w.charmed
    BY <1>2 DEF AddFollower, Sound, Worlds
  <2>3. x \in Worlds
    BY ZenonT(60), <1>2, <2>1 DEF AddFollower, Sound, Worlds, Put
  <2>. HIDE DEF x
  <2>4. Companies(x)
    <3>1. \A a, b \in Chars : a \in x.followers[b] <=> x.master[a] = b
      BY <1>2, <2>1, <2>2 DEF Bonds, Put, Sound, Worlds
    <3>2. \A a \in Chars : x.where[a] = None => x.master[a] = None /\ x.followers[a] = {}
      BY <2>1, <2>2 DEF Bonds, Put
    <3>3. \A a \in x.charmed : x.master[a] # None
      BY <2>1, <2>2 DEF Bonds, Put, Sound, Worlds
    <3>. QED  BY <3>1, <3>2, <3>3 DEF Companies
  <2>5. ASSUME NEW T \in SUBSET Chars, T # {}, \A d \in T : x.master[d] \in T
        PROVE  FALSE
    <3>1. CASE c \notin T
      <4>1. \A d \in T : w.master[d] \in T
        BY <2>2, <2>5, <3>1 DEF Put
      <4>. QED  BY <4>1, <2>1, <2>5 DEF Bonds
    <3>2. CASE c \in T
      <4>1. leader \in T
        BY <2>2, <2>5, <3>2 DEF Put
      <4>2. \A d \in T \cap S : w.master[d] \in T \cap S
        BY <2>1, <2>2, <2>5 DEF Put
      <4>. QED  BY <4>1, <4>2, <2>1 DEF Bonds
    <3>. QED  BY <3>1, <3>2
  <2>6. \A T \in SUBSET Chars : T # {} => \E d \in T : x.master[d] \notin T
    BY <2>5
  <2>7. Stays(w, x, {})
    BY <2>2, <2>3, <2>4, <2>6, CompanyFrame
  <2>8. x.master[c] # None
    BY <2>1, <2>2 DEF Put
  <2>. QED  BY <2>7, <2>8 DEF x
<1>. QED  BY <1>1, <1>2

-----------------------------------------------------------------------------
(* The list of fights.                                                     *)

Foes(fighting, v) == {c \in Chars : fighting[c] = v}

LEMMA FoesFinite ==
    ASSUME NEW f, NEW v
    PROVE  IsFiniteSet(Foes(f, v)) /\ Cardinality(Foes(f, v)) \in Nat
<1>1. IsFiniteSet(Foes(f, v))
  BY CombatAssumption, FS_Subset DEF Foes
<1>. QED  BY <1>1, FS_CardinalityType

\* With the bonds and the wounds as they were, the fights may change.
LEMMA FightsFrame ==
    ASSUME NEW w, NEW x, Sound(w), x \in Worlds, Fight(x), x.ahead \subseteq w.ahead,
           x.where = w.where, x.master = w.master, x.followers = w.followers,
           x.mount = w.mount, x.rider = w.rider, x.charmed = w.charmed,
           \A c \in Chars : x.pos[c] = "dead" => w.pos[c] = "dead" \/ w.hp[c] = "dead",
           x.hp = w.hp
    PROVE  Stays(w, x, {})
<1>1. Bonds(x)
  BY DEF Sound, Bonds
<1>2. InGame(x) = InGame(w) /\ Mortal(x) \subseteq Mortal(w)
  BY DEF InGame, Mortal
<1>. QED  BY <1>1, <1>2 DEF Stays, Leads, Sound

LEMMA StopFightingOnly ==
    ASSUME NEW w, Sound(w), NEW c \in Chars
    PROVE  /\ Stays(w, StopFighting(w, c), {})
           /\ StopFighting(w, c).fighting = Put(w.fighting, c, None)
           /\ StopFighting(w, c).hp = w.hp
           /\ StopFighting(w, c).where = w.where
           /\ StopFighting(w, c).master = w.master
           /\ StopFighting(w, c).followers = w.followers
<1>1. CASE w.fighting[c] = None
  BY <1>1, StaysSame DEF StopFighting, Put, Sound, Worlds
<1>2. CASE w.fighting[c] # None
  <2>. DEFINE v == w.fighting[c]
              x == [w EXCEPT !.attackers = Put(w.attackers, v, Fewer(w.attackers[v])),
                             !.combat_list = w.combat_list \ {c}, !.ahead = w.ahead \ {c},
                             !.fighting = Put(w.fighting, c, None),
                             !.pos = Put(w.pos, c, OnFeet(w, c))]
  <2>1. /\ v \in Chars /\ None \notin Chars /\ Fight(w)
        /\ w.attackers \in [Chars -> 0 .. Crowd] /\ Crowd \in Nat
        /\ OnFeet(w, c) \in Positions \ {"dead"}
    BY <1>2, CombatAssumption DEF Sound, Worlds, OnFeet, Positions, Down
  <2>2. Fewer(w.attackers[v]) \in 0 .. Crowd
    <3>1. w.attackers[v] \in 0 .. Crowd  BY <2>1
    <3>. QED  BY <3>1, <2>1 DEF Fewer
  <2>. HIDE DEF v
  <2>3. /\ x.where = w.where /\ x.master = w.master /\ x.followers = w.followers
        /\ x.mount = w.mount /\ x.rider = w.rider /\ x.charmed = w.charmed /\ x.hp = w.hp
        /\ x.pos = Put(w.pos, c, OnFeet(w, c)) /\ x.fighting = Put(w.fighting, c, None)
        /\ x.combat_list = w.combat_list \ {c} /\ x.ahead = w.ahead \ {c}
        /\ x.attackers = Put(w.attackers, v, Fewer(w.attackers[v]))
    BY DEF Sound, Worlds
  <2>4. x \in Worlds
    BY <2>1, <2>2 DEF Sound, Worlds, Put
  <2>5. StopFighting(w, c) = UpdatePos(x, c)
    BY <1>2 DEF StopFighting, v
  <2>. HIDE DEF x
  <2>6. Fight(x)
    <3>1. /\ x.combat_list = {d \in Chars : x.fighting[d] # None}
          /\ x.ahead \subseteq x.combat_list
          /\ \A d \in x.combat_list : x.where[d] # None /\ x.where[x.fighting[d]] # None
      BY <2>1, <2>3 DEF Fight, Put
    <3>2. ASSUME NEW u \in Chars
          PROVE  x.attackers[u] <= Cardinality(Foes(x.fighting, u))
      <4>1. w.attackers[u] <= Cardinality(Foes(w.fighting, u)) /\ w.attackers[u] \in Nat
        BY <2>1 DEF Fight, Foes
      <4>2. CASE u = v
        <5>1. /\ Foes(x.fighting, u) = Foes(w.fighting, u) \ {c}
              /\ c \in Foes(w.fighting, u)
          BY <2>1, <2>3, <4>2 DEF Foes, Put, v
        <5>2. Cardinality(Foes(w.fighting, u) \ {c}) = Cardinality(Foes(w.fighting, u)) - 1
          BY <5>1, FoesFinite, FS_RemoveElement
        <5>3. x.attackers[u] = Fewer(w.attackers[u])
          BY <2>3, <4>2 DEF Put
        <5>. QED  BY <4>1, <5>1, <5>2, <5>3, FoesFinite DEF Fewer
      <4>3. CASE u # v
        <5>1. Foes(x.fighting, u) = Foes(w.fighting, u) /\ x.attackers[u] = w.attackers[u]
          BY <2>1, <2>3, <4>3 DEF Foes, Put, v
        <5>. QED  BY <4>1, <5>1
      <4>. QED  BY <4>2, <4>3
    <3>. QED  BY <3>1, <3>2 DEF Fight, Foes
  <2>7. Stays(w, x, {})
    <3>1. \A d \in Chars : x.pos[d] = "dead" => w.pos[d] = "dead"
      BY <2>1, <2>3 DEF Put
    <3>2. x.ahead \subseteq w.ahead
      BY <2>3
    <3>. QED  BY <2>3, <2>4, <2>6, <3>1, <3>2, FightsFrame
  <2>8. Sound(x)
    BY <2>7 DEF Stays, Leads
  <2>9. Stays(x, UpdatePos(x, c), {}) /\ UpdatePos(x, c).hp = x.hp
    BY <2>8, UpdatePosOnly
  <2>10. /\ UpdatePos(x, c).fighting = x.fighting /\ UpdatePos(x, c).where = x.where
         /\ UpdatePos(x, c).master = x.master /\ UpdatePos(x, c).followers = x.followers
    BY <2>4 DEF UpdatePos, Worlds
  <2>11. Stays(w, UpdatePos(x, c), {} \cup {})
    BY <2>7, <2>9, StaysTransitive
  <2>. QED  BY <2>3, <2>5, <2>9, <2>10, <2>11
<1>. QED  BY <1>1, <1>2

LEMMA StopAllOnly ==
    ASSUME NEW w, Sound(w), NEW F \in SUBSET Chars
    PROVE  /\ Stays(w, StopAll(w, F), {})
           /\ StopAll(w, F).fighting = [c \in Chars |-> IF c \in F THEN None ELSE w.fighting[c]]
           /\ StopAll(w, F).hp = w.hp
           /\ StopAll(w, F).where = w.where
           /\ StopAll(w, F).master = w.master
           /\ StopAll(w, F).followers = w.followers
<1>. DEFINE x == StopAll(w, F)
            out == {c \in F : w.fighting[c] # None}
            by(v) == Cardinality({c \in out : w.fighting[c] = v})
            up(c) == CASE w.hp[c] = "dead" -> "dead"
                       [] w.hp[c] = "hurt" -> "stunned"
                       [] OTHER -> OnFeet(w, c)
            att == [v \in Chars |-> IF w.attackers[v] > by(v) THEN w.attackers[v] - by(v) ELSE 0]
            pos == [c \in Chars |-> IF c \in out THEN up(c) ELSE w.pos[c]]
<1>1. /\ None \notin Chars /\ Fight(w)
      /\ w.attackers \in [Chars -> 0 .. Crowd] /\ Crowd \in Nat
      /\ w.fighting \in [Chars -> Chars \cup {None}] /\ w.pos \in [Chars -> Positions]
      /\ w.hp \in [Chars -> Hits]
  BY CombatAssumption DEF Sound, Worlds
<1>2. /\ x.where = w.where /\ x.master = w.master /\ x.followers = w.followers
      /\ x.mount = w.mount /\ x.rider = w.rider /\ x.charmed = w.charmed /\ x.hp = w.hp
      /\ x.pos = pos /\ x.attackers = att
      /\ x.fighting = [c \in Chars |-> IF c \in out THEN None ELSE w.fighting[c]]
      /\ x.combat_list = w.combat_list \ out /\ x.ahead = w.ahead \ out
      /\ x.under = w.under /\ x.linkdead = w.linkdead
  BY DEF StopAll, Sound, Worlds
<1>3. ASSUME NEW c \in Chars
      PROVE  up(c) \in Positions /\ (up(c) = "dead" => w.hp[c] = "dead")
  <2>1. w.hp[c] \in Hits /\ OnFeet(w, c) \in Positions \ {"dead"}
    BY <1>1 DEF OnFeet, Positions, Down
  <2>2. CASE w.hp[c] = "dead"
    <3>1. up(c) = "dead"  BY <2>2
    <3>. QED  BY <3>1, <2>2 DEF Positions, Down
  <2>3. CASE w.hp[c] = "hurt"
    <3>1. up(c) = "stunned"  BY <2>3
    <3>. QED  BY <3>1 DEF Positions, Down
  <2>4. CASE w.hp[c] = "fit"
    <3>1. up(c) = OnFeet(w, c)  BY <2>4
    <3>. QED  BY <2>1, <3>1
  <2>. QED  BY <2>1, <2>2, <2>3, <2>4 DEF Hits
<1>. HIDE DEF up
<1>4. pos \in [Chars -> Positions] /\ \A c \in Chars : pos[c] = "dead" => w.pos[c] = "dead" \/ w.hp[c] = "dead"
  BY <1>1, <1>3
<1>5. ASSUME NEW v \in Chars
      PROVE  /\ by(v) \in Nat
             /\ Foes(x.fighting, v) = Foes(w.fighting, v) \ {c \in out : w.fighting[c] = v}
             /\ Cardinality(Foes(x.fighting, v)) = Cardinality(Foes(w.fighting, v)) - by(v)
  <2>. DEFINE B == {c \in out : w.fighting[c] = v}
  <2>1. B \subseteq Foes(w.fighting, v)
    BY DEF Foes
  <2>2. IsFiniteSet(B) /\ IsFiniteSet(Foes(w.fighting, v))
    BY <2>1, FoesFinite, FS_Subset
  <2>3. Foes(x.fighting, v) = Foes(w.fighting, v) \ B
    BY <1>1, <1>2 DEF Foes
  <2>. HIDE DEF B
  <2>4. Foes(w.fighting, v) \cap B = B
    BY <2>1
  <2>5. Cardinality(Foes(w.fighting, v) \ B)
          = Cardinality(Foes(w.fighting, v)) - Cardinality(Foes(w.fighting, v) \cap B)
    BY <2>2, FS_Difference
  <2>6. Cardinality(B) \in Nat
    BY <2>2, FS_CardinalityType
  <2>. QED  BY <2>3, <2>4, <2>5, <2>6 DEF B
<1>6. ASSUME NEW v \in Chars
      PROVE  att[v] \in 0 .. Crowd /\ att[v] <= Cardinality(Foes(x.fighting, v))
  <2>1. w.attackers[v] <= Cardinality(Foes(w.fighting, v)) /\ w.attackers[v] \in 0 .. Crowd
    BY <1>1 DEF Fight, Foes
  <2>2. Cardinality(Foes(x.fighting, v)) = Cardinality(Foes(w.fighting, v)) - by(v) /\ by(v) \in Nat
    BY <1>5
  <2>3. att[v] = IF w.attackers[v] > by(v) THEN w.attackers[v] - by(v) ELSE 0
    OBVIOUS
  <2>4. Cardinality(Foes(x.fighting, v)) \in Nat /\ Cardinality(Foes(w.fighting, v)) \in Nat
    BY FoesFinite
  <2>. HIDE DEF att, by
  <2>. QED  BY <1>1, <2>1, <2>2, <2>3, <2>4
<1>7. x \in Worlds
  <2>1. att \in [Chars -> 0 .. Crowd]
    BY <1>6
  <2>. HIDE DEF att, pos
  <2>. QED  BY <1>1, <1>2, <1>4, <2>1 DEF Worlds, Sound, StopAll
<1>8. Fight(x)
  <2>. HIDE DEF att, pos, x
  <2>1. /\ x.combat_list = {d \in Chars : x.fighting[d] # None}
        /\ x.ahead \subseteq x.combat_list
        /\ \A d \in x.combat_list : x.where[d] # None /\ x.where[x.fighting[d]] # None
    BY <1>1, <1>2 DEF Fight
  <2>2. \A v \in Chars : x.attackers[v] <= Cardinality(Foes(x.fighting, v))
    BY <1>2, <1>6
  <2>. QED  BY <2>1, <2>2 DEF Fight, Foes
<1>9. Stays(w, x, {})
  <2>. HIDE DEF att, pos, x
  <2>1. \A c \in Chars : x.pos[c] = "dead" => w.pos[c] = "dead" \/ w.hp[c] = "dead"
    BY <1>2, <1>4
  <2>2. x.ahead \subseteq w.ahead
    BY <1>2
  <2>. QED  BY <1>2, <1>7, <1>8, <2>1, <2>2, FightsFrame
<1>10. x.fighting = [c \in Chars |-> IF c \in F THEN None ELSE w.fighting[c]]
  BY <1>1, <1>2
<1>. QED  BY <1>2, <1>9, <1>10

LEMMA BeginsOnly ==
    ASSUME NEW w, Sound(w), NEW c \in Chars, NEW v \in Chars, w.fighting[c] = None,
           w.where[c] # None, w.where[v] # None
    PROVE  Stays(w, Begins(w, c, v), {})
<1>. DEFINE x == Begins(w, c, v)
<1>1. /\ None \notin Chars /\ Fight(w)
      /\ w.attackers \in [Chars -> 0 .. Crowd] /\ Crowd \in Nat
  BY CombatAssumption DEF Sound, Worlds
<1>2. /\ x.where = w.where /\ x.master = w.master /\ x.followers = w.followers
      /\ x.mount = w.mount /\ x.rider = w.rider /\ x.charmed = w.charmed /\ x.hp = w.hp
      /\ x.pos = Put(w.pos, c, "fighting") /\ x.fighting = Put(w.fighting, c, v)
      /\ x.combat_list = w.combat_list \cup {c} /\ x.ahead = w.ahead
      /\ x.attackers = Put(w.attackers, v, More(w.attackers[v]))
  BY DEF Begins, Sound, Worlds
<1>3. More(w.attackers[v]) \in 0 .. Crowd
  BY <1>1 DEF More
<1>4. x \in Worlds
  BY ZenonT(60), <1>3 DEF Begins, Sound, Worlds, Put, Positions
<1>. HIDE DEF x
<1>5. Fight(x)
  <2>1. /\ x.combat_list = {d \in Chars : x.fighting[d] # None}
        /\ x.ahead \subseteq x.combat_list
        /\ \A d \in x.combat_list : x.where[d] # None /\ x.where[x.fighting[d]] # None
    BY <1>1, <1>2 DEF Fight, Put
  <2>2. ASSUME NEW u \in Chars
        PROVE  x.attackers[u] <= Cardinality(Foes(x.fighting, u))
    <3>1. w.attackers[u] <= Cardinality(Foes(w.fighting, u)) /\ w.attackers[u] \in Nat
      BY <1>1 DEF Fight, Foes
    <3>2. CASE u = v
      <4>1. /\ Foes(x.fighting, u) = Foes(w.fighting, u) \cup {c}
            /\ c \notin Foes(w.fighting, u)
        BY <1>1, <1>2, <3>2 DEF Foes, Put
      <4>2. Cardinality(Foes(w.fighting, u) \cup {c}) = Cardinality(Foes(w.fighting, u)) + 1
        BY <4>1, FoesFinite, FS_AddElement
      <4>3. x.attackers[u] = More(w.attackers[u])
        BY <1>2, <3>2 DEF Put
      <4>. QED  BY <3>1, <4>1, <4>2, <4>3, <1>1, FoesFinite DEF More
    <3>3. CASE u # v
      <4>1. Foes(x.fighting, u) = Foes(w.fighting, u) /\ x.attackers[u] = w.attackers[u]
        BY <1>1, <1>2, <3>3 DEF Foes, Put
      <4>. QED  BY <3>1, <4>1
    <3>. QED  BY <3>2, <3>3
  <2>. QED  BY <2>1, <2>2 DEF Fight, Foes
<1>6. \A d \in Chars : x.pos[d] = "dead" => w.pos[d] = "dead"
  BY <1>2 DEF Put
<1>7. x.ahead \subseteq w.ahead
  BY <1>2
<1>8. Stays(w, x, {})
  BY <1>2, <1>4, <1>5, <1>6, <1>7, FightsFrame
<1>. QED  BY <1>8 DEF x

-----------------------------------------------------------------------------
(* The end of a character.                                                 *)

\* Nobody is left that fights, follows or rides who is not in the game.
Alone(w, c) ==
    /\ w.fighting[c] = None /\ \A d \in Chars : w.fighting[d] # c
    /\ w.master[c] = None /\ w.followers[c] = {}
    /\ w.mount[c] = None /\ w.rider[c] = None

LEMMA TakenOut ==
    ASSUME NEW w, Sound(w), NEW c \in Chars, Alone(w, c),
           NEW x, x = [w EXCEPT !.where = Put(@, c, None), !.linkdead = @ \ {c},
                                !.hp = Put(@, c, "fit"), !.pos = Put(@, c, "dead")]
    PROVE  /\ Leads(w, x, {})
           /\ InGame(x) = InGame(w) \ {c}
           /\ x.where[c] = None
<1>1. None \notin Chars /\ Fight(w) /\ Bonds(w)
  BY CombatAssumption DEF Sound
<1>2. /\ x.where = Put(w.where, c, None) /\ x.hp = Put(w.hp, c, "fit") /\ x.pos = Put(w.pos, c, "dead")
      /\ x.fighting = w.fighting /\ x.attackers = w.attackers
      /\ x.combat_list = w.combat_list /\ x.ahead = w.ahead
      /\ x.master = w.master /\ x.followers = w.followers /\ x.charmed = w.charmed
      /\ x.mount = w.mount /\ x.rider = w.rider
  BY DEF Sound, Worlds
<1>3. x \in Worlds
  BY DEF Sound, Worlds, Put, Hits, Positions, Down
<1>4. Fight(x)
  <2>1. ASSUME NEW d \in x.combat_list
        PROVE  x.where[d] # None /\ x.where[x.fighting[d]] # None
    <3>1. d \in Chars /\ w.fighting[d] \in Chars /\ d # c /\ w.fighting[d] # c
      BY <1>1, <1>2, <2>1 DEF Fight, Alone, Sound, Worlds
    <3>2. w.where[d] # None /\ w.where[w.fighting[d]] # None
      BY <1>1, <1>2, <2>1 DEF Fight
    <3>. QED  BY <3>1, <3>2, <1>2 DEF Put
  <2>2. /\ x.combat_list = {d \in Chars : x.fighting[d] # None}
        /\ x.ahead \subseteq x.combat_list
        /\ \A v \in Chars : x.attackers[v] <= Cardinality({d \in Chars : x.fighting[d] = v})
    BY <1>1, <1>2 DEF Fight
  <2>. QED  BY <2>1, <2>2 DEF Fight
<1>5. Bonds(x)
  <2>1. ASSUME NEW d \in Chars, x.where[d] = None
        PROVE  /\ x.master[d] = None /\ x.followers[d] = {}
               /\ x.mount[d] = None /\ x.rider[d] = None
    BY <1>1, <1>2, <2>1 DEF Bonds, Alone, Put
  <2>2. /\ \A a, b \in Chars : a \in x.followers[b] <=> x.master[a] = b
        /\ \A a, b \in Chars : x.mount[a] = b <=> x.rider[b] = a
        /\ \A S \in SUBSET Chars : S # {} => \E a \in S : x.master[a] \notin S
        /\ \A a \in x.charmed : x.master[a] # None
    BY <1>1, <1>2 DEF Bonds
  <2>. QED  BY <2>1, <2>2 DEF Bonds
<1>6. InGame(x) = InGame(w) \ {c} /\ Mortal(x) \subseteq Mortal(w) /\ x.where[c] = None
  BY <1>2 DEF InGame, Mortal, Put
<1>7. x.ahead \subseteq w.ahead
  BY <1>2
<1>. QED  BY <1>3, <1>4, <1>5, <1>6, <1>7 DEF Leads, Sound

LEMMA ExtractLeads ==
    ASSUME NEW w, Sound(w), NEW c \in Chars
    PROVE  /\ Leads(w, Extract(w, c), {})
           /\ InGame(Extract(w, c)) = InGame(w) \ {c}
           /\ Extract(w, c).where[c] = None
<1>. DEFINE a == DieFollower(w, c)
            b == StopFighting(a, c)
            F == {d \in Chars : b.fighting[d] = c}
            x == StopAll(b, F)
            y == IF x.mount[c] = None THEN x ELSE Dismount(x, c, x.mount[c], "standing")
            z == IF y.rider[c] = None THEN y ELSE Dismount(y, y.rider[c], c, "standing")
            e == [z EXCEPT !.where = Put(@, c, None), !.linkdead = @ \ {c},
                           !.hp = Put(@, c, "fit"), !.pos = Put(@, c, "dead")]
<1>0. None \notin Chars /\ "standing" \in Positions \ {"dead"}
  BY CombatAssumption DEF Positions, Down
<1>1. Stays(w, a, {}) /\ a.master[c] = None /\ a.followers[c] = {}
  BY DieFollowerOnly
<1>. HIDE DEF a
<1>2. Sound(a)
  BY <1>1 DEF Stays, Leads
<1>3. /\ Stays(a, b, {}) /\ b.fighting = Put(a.fighting, c, None)
      /\ b.master = a.master /\ b.followers = a.followers
  BY <1>2, StopFightingOnly
<1>. HIDE DEF b
<1>4. Sound(b)
  BY <1>3 DEF Stays, Leads
<1>5. /\ Stays(b, x, {})
      /\ x.fighting = [d \in Chars |-> IF d \in F THEN None ELSE b.fighting[d]]
      /\ x.master = b.master /\ x.followers = b.followers
  BY <1>4, StopAllOnly
<1>. HIDE DEF x
<1>6. Sound(x)
  BY <1>5 DEF Stays, Leads
<1>7. /\ x.fighting[c] = None /\ \A d \in Chars : x.fighting[d] # c
      /\ x.master[c] = None /\ x.followers[c] = {}
  BY <1>0, <1>1, <1>3, <1>5 DEF Put
<1>8. /\ Stays(x, y, {}) /\ y.mount[c] = None /\ y.fighting = x.fighting
      /\ y.master = x.master /\ y.followers = x.followers
  <2>1. CASE x.mount[c] = None
    BY <1>6, <2>1, StaysSame
  <2>2. CASE x.mount[c] # None
    <3>. DEFINE h == x.mount[c]
                f == Dismount(x, c, h, "standing")
    <3>1. h \in Chars /\ x.mount[c] = h
      BY <2>2, <1>6 DEF Sound, Worlds
    <3>2. y = f
      BY <2>2
    <3>. HIDE DEF h
    <3>3. /\ Stays(x, Dismount(x, c, h, "standing"), {})
          /\ Dismount(x, c, h, "standing").fighting = x.fighting
          /\ Dismount(x, c, h, "standing").master = x.master
          /\ Dismount(x, c, h, "standing").followers = x.followers
          /\ Dismount(x, c, h, "standing").mount = Put(x.mount, c, None)
      BY <1>0, <1>6, <3>1, DismountOnly
    <3>. QED  BY <3>2, <3>3 DEF Put
  <2>. QED  BY <2>1, <2>2
<1>. HIDE DEF y
<1>9. Sound(y)
  BY <1>8 DEF Stays, Leads
<1>10. /\ Stays(y, z, {}) /\ z.mount[c] = None /\ z.rider[c] = None /\ z.fighting = y.fighting
       /\ z.master = y.master /\ z.followers = y.followers
  <2>1. CASE y.rider[c] = None
    BY <1>8, <1>9, <2>1, StaysSame
  <2>2. CASE y.rider[c] # None
    <3>. DEFINE r == y.rider[c]
                f == Dismount(y, r, c, "standing")
    <3>1. r \in Chars /\ y.mount[r] = c
      BY <2>2, <1>9 DEF Sound, Worlds, Bonds
    <3>2. z = f
      BY <2>2
    <3>. HIDE DEF r
    <3>3. /\ Stays(y, Dismount(y, r, c, "standing"), {})
          /\ Dismount(y, r, c, "standing").fighting = y.fighting
          /\ Dismount(y, r, c, "standing").master = y.master
          /\ Dismount(y, r, c, "standing").followers = y.followers
          /\ Dismount(y, r, c, "standing").mount = Put(y.mount, r, None)
          /\ Dismount(y, r, c, "standing").rider = Put(y.rider, c, None)
      BY <1>0, <1>9, <3>1, DismountOnly
    <3>. QED  BY <1>8, <3>2, <3>3 DEF Put
  <2>. QED  BY <2>1, <2>2
<1>. HIDE DEF z
<1>11. Sound(z) /\ Alone(z, c)
  BY <1>7, <1>8, <1>10 DEF Stays, Leads, Alone
<1>12. Leads(z, e, {}) /\ InGame(e) = InGame(z) \ {c} /\ e.where[c] = None
  BY <1>11, TakenOut
<1>13. e = Extract(w, c)
  BY DEF Extract, StopAllFightingWith, a, b, x, y, z
<1>. HIDE DEF e
<1>14. Leads(w, e, {}) /\ InGame(e) = InGame(w) \ {c}
  BY <1>1, <1>3, <1>5, <1>8, <1>10, <1>12 DEF Stays, Leads
<1>. QED  BY <1>12, <1>13, <1>14

LEMMA DieLeads ==
    ASSUME NEW w, Sound(w), NEW c \in Chars
    PROVE  Leads(w, Die(w, c), {}) /\ InGame(Die(w, c)) = InGame(w) \ {c}
<1>. DEFINE x == StopFighting(w, c)
<1>1. Stays(w, x, {})
  BY StopFightingOnly
<1>. HIDE DEF x
<1>2. Sound(x)
  BY <1>1 DEF Stays, Leads
<1>3. Leads(x, Extract(x, c), {}) /\ InGame(Extract(x, c)) = InGame(x) \ {c}
  BY <1>2, ExtractLeads
<1>4. Die(w, c) = Extract(x, c)
  BY DEF Die, x
<1>. QED  BY <1>1, <1>3, <1>4 DEF Stays, Leads

-----------------------------------------------------------------------------
(* Movement and flight.                                                    *)

LEMMA ReadiedOnly ==
    ASSUME NEW w, Sound(w), NEW c \in Chars
    PROVE  Stays(w, Readied(w, c), {})
<1>1. CASE w.mount[c] = None \/ Together(w, c, w.mount[c])
  BY <1>1, StaysSame DEF Readied
<1>2. CASE ~ (w.mount[c] = None \/ Together(w, c, w.mount[c]))
  <2>. DEFINE h == w.mount[c]
  <2>1. h \in Chars /\ w.mount[c] = h /\ "standing" \in Positions \ {"dead"}
    BY <1>2 DEF Sound, Worlds, Positions, Down
  <2>2. Readied(w, c) = Dismount(w, c, h, "standing")
    BY <1>2 DEF Readied
  <2>. HIDE DEF h
  <2>3. Stays(w, Dismount(w, c, h, "standing"), {})
    BY <2>1, DismountOnly
  <2>. QED  BY <2>2, <2>3
<1>. QED  BY <1>1, <1>2

\* Who goes, and what they ride, are in the game and stay in it.
LEMMA MovedOnly ==
    ASSUME NEW w, Sound(w), NEW S \in SUBSET InGame(w), NEW r \in Rooms
    PROVE  Stays(w, Moved(w, S, r), {})
<1>. DEFINE left == {c \in S : w.mount[c] # None /\ ~ Together(w, c, w.mount[c])}
            mount == [c \in Chars |-> IF c \in left THEN None ELSE w.mount[c]]
            rider == [h \in Chars |-> IF w.rider[h] \in left THEN None ELSE w.rider[h]]
            pos == [c \in Chars |-> IF c \in left THEN "standing" ELSE w.pos[c]]
            go == S \cup {mount[c] : c \in S}
            x == Moved(w, S, r)
<1>1. None \notin Chars /\ None \notin Rooms /\ Fight(w) /\ Bonds(w) /\ S \subseteq Chars
  BY CombatAssumption DEF Sound, InGame
<1>2. /\ x.where = [c \in Chars |-> IF c \in go THEN r ELSE w.where[c]]
      /\ x.mount = mount /\ x.rider = rider /\ x.pos = pos /\ x.hp = w.hp
      /\ x.fighting = w.fighting /\ x.attackers = w.attackers
      /\ x.combat_list = w.combat_list /\ x.ahead = w.ahead
      /\ x.master = w.master /\ x.followers = w.followers /\ x.charmed = w.charmed
      /\ x.under = w.under /\ x.linkdead = w.linkdead
  <2>1. DEFINE d == [w EXCEPT !.mount = mount, !.rider = rider, !.pos = pos]
  <2>2. d.mount = mount /\ d.rider = rider /\ d.pos = pos
    BY DEF Sound, Worlds
  <2>3. x = [d EXCEPT !.where = [c \in Chars |-> IF c \in go THEN r ELSE d.where[c]]]
    BY <2>2 DEF Moved
  <2>. QED  BY <2>2, <2>3 DEF Sound, Worlds
<1>3. x \in Worlds
  <2>1. /\ mount \in [Chars -> Chars \cup {None}] /\ rider \in [Chars -> Chars \cup {None}]
        /\ pos \in [Chars -> Positions]
        /\ [c \in Chars |-> IF c \in go THEN r ELSE w.where[c]] \in [Chars -> Rooms \cup {None}]
    BY DEF Sound, Worlds, Positions
  <2>. HIDE DEF mount, rider, pos, go
  <2>. QED  BY <1>2, <2>1 DEF Moved, Sound, Worlds
<1>4. ASSUME NEW c \in go, c \in Chars
      PROVE  w.where[c] # None
  <2>1. CASE c \in S
    BY <2>1 DEF InGame
  <2>2. CASE c \notin S
    <3>1. PICK d \in S : c = mount[d]
      BY <2>2
    <3>2. d \in Chars /\ w.mount[d] = c
      BY <1>1, <1>4, <3>1
    <3>3. w.rider[c] = d
      BY <1>1, <1>4, <3>2 DEF Bonds
    <3>. QED  BY <1>1, <1>4, <3>2, <3>3 DEF Bonds
  <2>. QED  BY <2>1, <2>2
<1>5. \A c \in Chars : (x.where[c] = None <=> w.where[c] = None)
  BY <1>1, <1>2, <1>4
<1>. HIDE DEF go
<1>6. Fight(x)
  <2>1. \A d \in x.combat_list : x.where[d] # None /\ x.where[x.fighting[d]] # None
    BY <1>1, <1>2, <1>5 DEF Fight, Sound, Worlds
  <2>. HIDE DEF x, mount, rider, pos, left
  <2>. QED  BY <1>1, <1>2, <2>1 DEF Fight
<1>7. Bonds(x)
  <2>. HIDE DEF x
  <2>1. \A a, b \in Chars : x.mount[a] = b <=> x.rider[b] = a
    BY <1>1, <1>2 DEF Bonds
  <2>2. ASSUME NEW c \in Chars, x.where[c] = None
        PROVE  /\ x.master[c] = None /\ x.followers[c] = {}
               /\ x.mount[c] = None /\ x.rider[c] = None
    <3>1. w.where[c] = None
      BY <1>5, <2>2
    <3>. QED  BY <1>1, <1>2, <3>1 DEF Bonds
  <2>3. /\ \A a, b \in Chars : a \in x.followers[b] <=> x.master[a] = b
        /\ \A T \in SUBSET Chars : T # {} => \E c \in T : x.master[c] \notin T
        /\ \A c \in x.charmed : x.master[c] # None
    BY <1>1, <1>2 DEF Bonds
  <2>. QED  BY <2>1, <2>2, <2>3 DEF Bonds
<1>8. InGame(x) = InGame(w)
  BY <1>5 DEF InGame
<1>9. Mortal(x) \subseteq Mortal(w)
  <2>1. \A c \in Chars : pos[c] = "dead" => w.pos[c] = "dead"
    OBVIOUS
  <2>. HIDE DEF x, pos
  <2>. QED  BY <1>2, <1>8, <2>1 DEF Mortal, InGame
<1>10. x.ahead \subseteq w.ahead
  BY <1>2
<1>. QED  BY <1>3, <1>6, <1>7, <1>8, <1>9, <1>10 DEF Stays, Leads, Sound

LEMMA FleeOnly ==
    ASSUME NEW w, Sound(w), NEW c \in Chars, NEW x \in Flee(w, c)
    PROVE  Stays(w, x, {})
<1>. DEFINE goes == IF w.rider[c] # None THEN w.rider[c] ELSE c
            away == {Moved(w, {goes}, r) : r \in Rooms \ (DeathTraps \cup {w.where[goes]})}
<1>1. CASE x = w
  BY <1>1, StaysSame
<1>2. CASE x = Placed(w, c, "standing")
  <2>1. "standing" \in Positions \ {"dead"}
    BY DEF Positions, Down
  <2>2. Stays(w, Placed(w, c, "standing"), {})
    BY <2>1, PlacedOnly
  <2>. QED  BY <1>2, <2>2
<1>3. CASE /\ MayMove(w, goes)
           /\ x \in away \cup {StopFighting(StopAllFightingWith(y, c), c) : y \in away}
  <2>. HIDE DEF goes
  <2>1. goes \in Chars /\ {goes} \in SUBSET InGame(w)
    BY <1>3 DEF MayMove, InGame, Sound, Worlds, goes
  <2>2. PICK r \in Rooms : \/ x = Moved(w, {goes}, r)
                           \/ x = StopFighting(StopAllFightingWith(Moved(w, {goes}, r), c), c)
    BY <1>3
  <2>. DEFINE y == Moved(w, {goes}, r)
  <2>3. Stays(w, y, {})
    BY <2>1, MovedOnly
  <2>4. CASE x = y
    BY <2>3, <2>4
  <2>5. CASE x = StopFighting(StopAllFightingWith(y, c), c)
    <3>. HIDE DEF y
    <3>. DEFINE F == {d \in Chars : y.fighting[d] = c}
                z == StopAll(y, F)
    <3>1. Sound(y) /\ F \in SUBSET Chars
      BY <2>3 DEF Stays, Leads
    <3>. HIDE DEF F
    <3>2. Stays(y, z, {})
      BY <3>1, StopAllOnly
    <3>. HIDE DEF z
    <3>3. Sound(z)
      BY <3>2 DEF Stays, Leads
    <3>4. Stays(z, StopFighting(z, c), {})
      BY <3>3, StopFightingOnly
    <3>5. x = StopFighting(z, c)
      BY <2>5 DEF StopAllFightingWith, z, F
    <3>. QED  BY <2>3, <3>2, <3>4, <3>5 DEF Stays, Leads
  <2>. QED  BY <2>2, <2>4, <2>5
<1>. QED
  <2>. HIDE DEF away
  <2>. QED  BY <1>1, <1>2, <1>3 DEF Flee, away

LEMMA FleeIfLinkdeadOnly ==
    ASSUME NEW w, Sound(w), NEW c \in Chars, NEW x \in FleeIfLinkdead(w, c)
    PROVE  Stays(w, x, {})
<1>1. CASE x \in Flee(w, c)
  BY <1>1, FleeOnly
<1>2. CASE x = w
  BY <1>2, StaysSame
<1>. QED  BY <1>1, <1>2 DEF FleeIfLinkdead

LEMMA SetFightingOnly ==
    ASSUME NEW w, Sound(w), NEW c \in InGame(w), NEW v \in InGame(w),
           NEW x \in SetFighting(w, c, v)
    PROVE  Stays(w, x, {})
<1>0. c \in Chars /\ v \in Chars /\ w.where[c] # None /\ w.where[v] # None
  BY DEF InGame
<1>1. CASE w.fighting[c] # None
  BY <1>1, StaysSame DEF SetFighting
<1>2. CASE w.fighting[c] = None
  <2>1. Stays(w, Begins(w, c, v), {})
    BY <1>0, <1>2, BeginsOnly
  <2>2. PICK y \in FleeIfLinkdead(Begins(w, c, v), c) : x \in FleeIfLinkdead(y, v)
    BY <1>2 DEF SetFighting
  <2>3. Sound(Begins(w, c, v))
    BY <2>1 DEF Stays, Leads
  <2>4. Stays(Begins(w, c, v), y, {})
    BY <1>0, <2>2, <2>3, FleeIfLinkdeadOnly
  <2>5. Sound(y)
    BY <2>4 DEF Stays, Leads
  <2>6. Stays(y, x, {})
    BY <1>0, <2>2, <2>5, FleeIfLinkdeadOnly
  <2>. QED  BY <2>1, <2>4, <2>6 DEF Stays, Leads
<1>. QED  BY <1>1, <1>2

-----------------------------------------------------------------------------
(* Blows.                                                                  *)

LEMMA EngageOnly ==
    ASSUME NEW w, Sound(w), NEW c \in InGame(w), NEW v \in InGame(w),
           NEW x \in Engage(w, c, v)
    PROVE  Stays(w, x, {})
<1>1. CASE x \in SetFighting(w, c, v)
  BY <1>1, SetFightingOnly
<1>2. CASE x = w
  BY <1>2, StaysSame
<1>. QED  BY <1>1, <1>2 DEF Engage

LEMMA FoughtOnly ==
    ASSUME NEW w, Sound(w), NEW c \in InGame(w), NEW v \in InGame(w),
           NEW x \in Fought(w, c, v)
    PROVE  Stays(w, x, {})
<1>. DEFINE o == OffIts(w, c, v)
<1>0. c \in Chars /\ v \in Chars
  BY DEF InGame
<1>1. Stays(w, o, {})
  <2>1. CASE w.mount[c] = v
    <3>1. "sitting" \in Positions \ {"dead"}
      BY DEF Positions, Down
    <3>2. Stays(w, Dismount(w, c, v, "sitting"), {})
      BY <1>0, <2>1, <3>1, DismountOnly
    <3>. QED  BY <2>1, <3>2 DEF OffIts
  <2>2. CASE w.mount[c] # v
    BY <2>2, StaysSame DEF OffIts
  <2>. QED  BY <2>1, <2>2
<1>2. PICK y \in Engage(o, v, c) : x \in Engage(y, c, v)
  BY DEF Fought
<1>. HIDE DEF o
<1>3. Sound(o) /\ c \in InGame(o) /\ v \in InGame(o)
  BY <1>1 DEF Stays, Leads
<1>4. Stays(o, y, {})
  BY <1>2, <1>3, EngageOnly
<1>5. Sound(y) /\ c \in InGame(y) /\ v \in InGame(y)
  BY <1>3, <1>4 DEF Stays, Leads
<1>6. Stays(y, x, {})
  BY <1>2, <1>5, EngageOnly
<1>. QED  BY <1>1, <1>4, <1>6 DEF Stays, Leads

LEMMA StruckOnly ==
    ASSUME NEW w, Sound(w), NEW c \in Chars, NEW v \in Chars, NEW x \in Struck(w, c, v)
    PROVE  Stays(w, x, {v})
<1>. DEFINE left == IF w.master[v] = c THEN StopFollower(w, v) ELSE w
<1>1. Stays(w, left, {})
  <2>1. Stays(w, StopFollower(w, v), {})
    BY StopFollowerOnly
  <2>. QED  BY <2>1, StaysSame
<1>2. PICK y \in Tumbles(left, v) : x \in {Wounded(y, v, h) : h \in Lower(y.hp[v])}
  BY DEF Struck
<1>. HIDE DEF left
<1>3. Sound(left)
  BY <1>1 DEF Stays, Leads
<1>4. Stays(left, y, {})
  BY <1>2, <1>3, TumblesOnly
<1>5. Sound(y) /\ Lower(y.hp[v]) \subseteq Hits
  BY <1>4 DEF Stays, Leads, Lower, Hits
<1>6. PICK h \in Hits : x = Wounded(y, v, h)
  BY <1>2, <1>5
<1>7. Stays(y, Wounded(y, v, h), {v})
  BY <1>5, WoundedOnly
<1>. QED  BY <1>1, <1>4, <1>6, <1>7 DEF Stays, Leads

\* Whatever the blow has made of v, nobody new is left dead, and v itself
\* is not, when its position tells that it is.
LEMMA DamageEpilogLeads ==
    ASSUME NEW w, Sound(w), NEW c \in Chars, NEW v \in Chars, NEW z \in DamageEpilog(w, c, v)
    PROVE  /\ Leads(w, z, {})
           /\ (w.hp[v] = "dead" => w.pos[v] = "dead") => v \notin Mortal(z)
<1>. DEFINE x == IF Awake(w, v) THEN w ELSE StopFighting(w, v)
            y == IF x.fighting[c] = v THEN StopFighting(x, c) ELSE x
            lost == v \in w.linkdead
<1>1. Stays(w, x, {}) /\ x.hp = w.hp
  <2>1. Stays(w, StopFighting(w, v), {}) /\ StopFighting(w, v).hp = w.hp
    BY StopFightingOnly
  <2>. QED  BY <2>1, StaysSame
<1>2. Sound(x)
  BY <1>1 DEF Stays, Leads
<1>. HIDE DEF x
<1>3. Stays(x, y, {})
  <2>1. Stays(x, StopFighting(x, c), {})
    BY <1>2, StopFightingOnly
  <2>. QED  BY <1>2, <2>1, StaysSame
<1>4. Sound(y)
  BY <1>3 DEF Stays, Leads
<1>. HIDE DEF y
<1>5. CASE z \in Flee(w, v) /\ lost /\ w.pos[v] # "dead"
  <2>1. Stays(w, z, {})
    BY <1>5, FleeOnly
  <2>2. (w.hp[v] = "dead" => w.pos[v] = "dead") => v \notin Mortal(w)
    BY <1>5 DEF Mortal
  <2>. QED  BY <2>1, <2>2 DEF Stays, Leads
<1>6. CASE z \in Flee(Placed(Wounded(x, v, "fit"), v, "standing"), v)
  <2>. DEFINE u == Wounded(x, v, "fit")
              s == Placed(u, v, "standing")
  <2>1. "fit" \in Hits /\ "fit" # "dead" /\ "standing" \in Positions \ {"dead"}
    BY DEF Hits, Positions, Down
  <2>2. Stays(x, Wounded(x, v, "fit"), {}) /\ Wounded(x, v, "fit").hp[v] = "fit"
    BY <1>2, <2>1, WoundedOnly
  <2>3. Stays(x, u, {}) /\ Sound(u) /\ u.hp[v] = "fit"
    BY <2>2 DEF Stays, Leads
  <2>. HIDE DEF u
  <2>4. Stays(u, Placed(u, v, "standing"), {})
    BY <2>1, <2>3, PlacedOnly
  <2>5. Stays(u, s, {}) /\ Sound(s) /\ s.pos[v] = "standing" /\ s.hp[v] = "fit"
    BY <2>3, <2>4 DEF Stays, Leads, Placed, Put, Sound, Worlds
  <2>6. z \in Flee(s, v)
    BY <1>6 DEF u
  <2>. HIDE DEF s
  <2>7. Stays(s, z, {})
    BY <2>5, <2>6, FleeOnly
  <2>8. v \notin Mortal(s)
    BY <2>5 DEF Mortal
  <2>. QED  BY <1>1, <2>3, <2>5, <2>7, <2>8 DEF Stays, Leads
<1>7. CASE z = x /\ w.pos[v] # "dead"
  <2>1. (w.hp[v] = "dead" => w.pos[v] = "dead") => v \notin Mortal(w)
    BY <1>7 DEF Mortal
  <2>. QED  BY <1>1, <1>7, <2>1 DEF Stays, Leads
<1>8. CASE z = Die(w, v)
  <2>1. Leads(w, Die(w, v), {}) /\ InGame(Die(w, v)) = InGame(w) \ {v}
    BY DieLeads
  <2>2. v \notin InGame(z) /\ Leads(w, z, {})
    BY <1>8, <2>1
  <2>. QED  BY <2>2 DEF Mortal
<1>9. CASE z = Die(y, v)
  <2>1. Leads(y, Die(y, v), {}) /\ InGame(Die(y, v)) = InGame(y) \ {v}
    BY <1>4, DieLeads
  <2>2. v \notin InGame(z) /\ Leads(y, z, {})
    BY <1>9, <2>1
  <2>. QED  BY <1>1, <1>3, <2>2 DEF Stays, Leads, Mortal
<1>10. \/ z \in Flee(w, v) /\ lost /\ w.pos[v] # "dead"
       \/ z \in Flee(Placed(Wounded(x, v, "fit"), v, "standing"), v)
       \/ z = x /\ w.pos[v] # "dead"
       \/ z = Die(w, v) \/ z = Die(y, v)
  BY DEF DamageEpilog, x, y
<1>. QED  BY <1>5, <1>6, <1>7, <1>8, <1>9, <1>10

\* Whoever flees from a blow takes nobody out of the game.
LEMMA DamageMessagesOnly ==
    ASSUME NEW w, Sound(w), NEW v \in Chars, NEW x \in DamageMessages(w, v)
    PROVE  Stays(w, x, {}) /\ (x = w \/ v \notin Mortal(w))
<1>1. CASE x = w
  BY <1>1, StaysSame
<1>2. CASE v \notin Mortal(w) /\ x \in Flee(Readied(w, v), v)
  <2>. DEFINE r == Readied(w, v)
  <2>1. Stays(w, r, {})
    BY ReadiedOnly
  <2>2. Sound(r)
    BY <2>1 DEF Stays, Leads
  <2>3. Stays(r, x, {})
    BY <1>2, <2>2, FleeOnly
  <2>. QED  BY <1>2, <2>1, <2>3, StaysTransitive
<1>3. w.hp[v] = "fit" /\ w.pos[v] \notin Down => v \notin Mortal(w)
  BY DEF Mortal, Down
<1>. QED  BY <1>1, <1>2, <1>3 DEF DamageMessages

\* The last steps of damage(): v's position is brought up to date, and, when
\* the attacker lives, what became of v is looked at.
LEMMA SettledLeads ==
    ASSUME NEW w, Sound(w), NEW c \in Chars, NEW v \in Chars,
           NEW x \in Settled(UpdatePos(w, v), c, v)
    PROVE  /\ Leads(w, x, {})
           /\ c = v \/ (c \in InGame(w) /\ c \notin Mortal(w)) => v \notin Mortal(x)
<1>. DEFINE u == UpdatePos(w, v)
<1>1. /\ Stays(w, u, {}) /\ u.hp = w.hp
      /\ w.hp[v] = "dead" => u.pos[v] = "dead"
  BY UpdatePosOnly
<1>2. x \in Settled(u, c, v)
  OBVIOUS
<1>. HIDE DEF u
<1>3. Sound(u)
  BY <1>1 DEF Stays, Leads
<1>4. CASE c # v /\ u.pos[c] = "dead"
  <2>1. x = u
    BY <1>2, <1>4 DEF Settled
  <2>2. ~ (c \in InGame(w) /\ c \notin Mortal(w))
    BY <1>1, <1>4 DEF Stays, Leads, Mortal
  <2>. QED  BY <1>1, <1>4, <2>1, <2>2 DEF Stays
<1>5. CASE ~ (c # v /\ u.pos[c] = "dead")
  <2>1. PICK m \in DamageMessages(u, v) : x \in DamageEpilog(m, c, v)
    BY <1>2, <1>5 DEF Settled
  <2>2. Stays(u, m, {}) /\ (m = u \/ v \notin Mortal(u))
    BY <1>3, DamageMessagesOnly
  <2>3. Sound(m)
    BY <2>2 DEF Stays, Leads
  <2>4. Leads(m, x, {}) /\ ((m.hp[v] = "dead" => m.pos[v] = "dead") => v \notin Mortal(x))
    BY <2>1, <2>3, DamageEpilogLeads
  <2>5. v \notin Mortal(x)
    <3>1. CASE m = u
      BY <1>1, <2>4, <3>1
    <3>2. CASE v \notin Mortal(u)
      <4>1. v \notin Mortal(m)
        BY <2>2, <3>2 DEF Stays, Leads
      <4>. QED  BY <2>4, <4>1 DEF Leads
    <3>. QED  BY <2>2, <3>1, <3>2
  <2>. QED  BY <1>1, <2>2, <2>4, <2>5 DEF Stays, Leads
<1>. QED  BY <1>4, <1>5

LEMMA SpellDamageLeads ==
    ASSUME NEW w, Sound(w), NEW c \in Chars, NEW v \in Chars, NEW x \in SpellDamage(w, c, v)
    PROVE  Leads(w, x, {v}) /\ (c \notin Mortal(w) => Leads(w, x, {}))
<1>1. CASE x = w
  BY <1>1 DEF Leads
<1>2. CASE /\ DamDetailsOk(w, c, v)
           /\ x \in UNION {Settled(UpdatePos(z, v), c, v) :
                           z \in UNION {Struck(y, c, v) : y \in Fought(w, c, v)}}
  <2>0. PICK y \in Fought(w, c, v) : \E z \in Struck(y, c, v) : x \in Settled(UpdatePos(z, v), c, v)
    BY <1>2
  <2>1. PICK z \in Struck(y, c, v) : x \in Settled(UpdatePos(z, v), c, v)
    BY <2>0
  <2>2. c \in InGame(w) /\ v \in InGame(w) /\ c # v
    BY <1>2 DEF DamDetailsOk, Together, InGame
  <2>3. Stays(w, y, {})
    BY <2>0, <2>2, FoughtOnly
  <2>4. Sound(y)
    BY <2>3 DEF Stays, Leads
  <2>5. Stays(y, z, {v})
    BY <2>1, <2>4, StruckOnly
  <2>6. Sound(z)
    BY <2>5 DEF Stays, Leads
  <2>7. Leads(z, x, {}) /\ (c \in InGame(z) /\ c \notin Mortal(z) => v \notin Mortal(x))
    BY <2>1, <2>6, SettledLeads
  <2>8. c \in InGame(z) /\ (c \notin Mortal(w) => c \notin Mortal(z))
    BY <2>2, <2>3, <2>5 DEF Stays, Leads
  <2>. QED  BY <2>3, <2>5, <2>7, <2>8 DEF Stays, Leads
<1>. QED  BY <1>1, <1>2 DEF SpellDamage

\* The flames of a shield can kill the attacker before what its blow did to
\* the victim is looked at; without them nobody dead is left.
LEMMA WeaponDamageLeads ==
    ASSUME NEW w, Sound(w), NEW c \in Chars, NEW v \in Chars, NEW x \in WeaponDamage(w, c, v)
    PROVE  Leads(w, x, {c, v}) /\ (NoFlames /\ c \notin Mortal(w) => Leads(w, x, {}))
<1>1. CASE x = w
  BY <1>1 DEF Leads
<1>2. CASE /\ DamDetailsOk(w, c, v)
           /\ x \in UNION {Settled(UpdatePos(t, v), c, v) :
                 t \in UNION {IF Burns(c, v) THEN SpellDamage(z, v, c) ELSE {z} :
                              z \in UNION {Struck(y, c, v) : y \in Fought(w, c, v)}}}
  <2>0. PICK y \in Fought(w, c, v) : \E z \in Struck(y, c, v) :
            \E t \in (IF Burns(c, v) THEN SpellDamage(z, v, c) ELSE {z}) :
                x \in Settled(UpdatePos(t, v), c, v)
    BY <1>2
  <2>1. PICK z \in Struck(y, c, v) :
            \E t \in (IF Burns(c, v) THEN SpellDamage(z, v, c) ELSE {z}) :
                x \in Settled(UpdatePos(t, v), c, v)
    BY <2>0
  <2>2. PICK t \in (IF Burns(c, v) THEN SpellDamage(z, v, c) ELSE {z}) :
            x \in Settled(UpdatePos(t, v), c, v)
    BY <2>1
  <2>3. c \in InGame(w) /\ v \in InGame(w) /\ c # v
    BY <1>2 DEF DamDetailsOk, Together, InGame
  <2>4. Stays(w, y, {})
    BY <2>0, <2>3, FoughtOnly
  <2>5. Sound(y)
    BY <2>4 DEF Stays, Leads
  <2>6. Stays(y, z, {v})
    BY <2>1, <2>5, StruckOnly
  <2>7. Sound(z)
    BY <2>6 DEF Stays, Leads
  <2>8. Leads(z, t, {c}) /\ (~ Burns(c, v) => t = z)
    <3>1. CASE Burns(c, v)
      <4>1. t \in SpellDamage(z, v, c)
        BY <2>2, <3>1
      <4>2. Leads(z, t, {c})
        BY <2>7, <4>1, SpellDamageLeads
      <4>. QED  BY <3>1, <4>2
    <3>2. CASE ~ Burns(c, v)
      BY <2>2, <2>7, <3>2 DEF Leads
    <3>. QED  BY <3>1, <3>2
  <2>9. Sound(t)
    BY <2>8 DEF Leads
  <2>10. Leads(t, x, {}) /\ (c \in InGame(t) /\ c \notin Mortal(t) => v \notin Mortal(x))
    BY <2>2, <2>9, SettledLeads
  <2>11. NoFlames => t = z
    BY <2>8 DEF NoFlames
  <2>12. c \in InGame(z) /\ (c \notin Mortal(w) => c \notin Mortal(z))
    BY <2>3, <2>4, <2>6 DEF Stays, Leads
  <2>13. Leads(w, x, {c, v})
    BY <2>4, <2>6, <2>8, <2>10 DEF Stays, Leads
  <2>14. NoFlames /\ c \notin Mortal(w) => Leads(w, x, {})
    BY <2>4, <2>6, <2>10, <2>11, <2>12 DEF Stays, Leads
  <2>. QED  BY <2>13, <2>14
<1>. QED  BY <1>1, <1>2 DEF WeaponDamage

LEMMA LeadsAfter ==
    ASSUME NEW w, NEW x, Leads(w, x, {})
    PROVE  After(w, x)
BY DEF Leads, After

LEMMA StaysAfter ==
    ASSUME NEW w, NEW x, Stays(w, x, {})
    PROVE  After(w, x)
BY DEF Stays, Leads, After

LEMMA AfterTransitive ==
    ASSUME NEW w, NEW x, NEW y, After(w, x), After(x, y)
    PROVE  After(w, y)
BY DEF After

LEMMA SpellDamageAfter ==
    ASSUME NEW w, Sound(w), NEW c \in Chars, NEW v \in Chars, NEW x \in SpellDamage(w, c, v)
    PROVE  After(w, x)
BY SpellDamageLeads DEF Leads, After

LEMMA BlowAfter ==
    ASSUME NEW w, Sound(w), NEW c \in Chars, NEW v \in Chars, NEW x \in Blow(w, c, v)
    PROVE  After(w, x)
<1>1. CASE x = w
  BY <1>1 DEF After
<1>2. CASE x \in Tumbles(w, c)
  BY <1>2, TumblesOnly, StaysAfter
<1>3. CASE \E y \in WeaponDamage(w, c, v) : x = y \/ x \in SpellDamage(y, c, v)
  <2>1. PICK y \in WeaponDamage(w, c, v) : x = y \/ x \in SpellDamage(y, c, v)
    BY <1>3
  <2>2. After(w, y)
    BY <2>1, WeaponDamageLeads DEF Leads, After
  <2>3. CASE x = y
    BY <2>2, <2>3
  <2>4. CASE x \in SpellDamage(y, c, v)
    <3>1. Sound(y)
      BY <2>2 DEF After
    <3>2. After(y, x)
      BY <2>4, <3>1, SpellDamageAfter
    <3>. QED  BY <2>2, <3>2, AfterTransitive
  <2>. QED  BY <2>1, <2>3, <2>4
<1>. QED  BY <1>1, <1>2, <1>3 DEF Blow

LEMMA HitAfter ==
    ASSUME NEW w, Sound(w), NEW c \in Chars, NEW v \in Chars, NEW x \in Hit(w, c, v)
    PROVE  After(w, x)
<1>1. CASE x \in Denied(w, c, v)
  <2>1. x = w \/ x = StopFighting(w, c)
    BY <1>1 DEF Denied
  <2>2. Stays(w, StopFighting(w, c), {})
    BY StopFightingOnly
  <2>. QED  BY <2>1, <2>2, StaysSame, StaysAfter
<1>2. CASE x \in UNION {Blow(y, c, v) : y \in Ready(w, c, v)}
  <2>1. PICK y \in Ready(w, c, v) : x \in Blow(y, c, v)
    BY <1>2
  <2>2. PICK z \in (IF w.fighting[v] # None THEN FleeIfLinkdead(w, v) ELSE {w}) :
            y \in (IF z.fighting[c] # None THEN FleeIfLinkdead(z, c) ELSE {z})
    BY <2>1 DEF Ready
  <2>3. Stays(w, z, {})
    <3>1. CASE z \in FleeIfLinkdead(w, v)
      BY <3>1, FleeIfLinkdeadOnly
    <3>. QED  BY <2>2, <3>1, StaysSame
  <2>4. Sound(z)
    BY <2>3 DEF Stays, Leads
  <2>5. Stays(z, y, {})
    <3>1. CASE y \in FleeIfLinkdead(z, c)
      BY <2>4, <3>1, FleeIfLinkdeadOnly
    <3>. QED  BY <2>2, <2>4, <3>1, StaysSame
  <2>6. Sound(y)
    BY <2>5 DEF Stays, Leads
  <2>7. After(y, x)
    BY <2>1, <2>6, BlowAfter
  <2>. QED  BY <2>3, <2>5, <2>7, StaysAfter, AfterTransitive
<1>. QED  BY <1>1, <1>2 DEF Hit

LEMMA AttacksAfter ==
    ASSUME NEW w, Sound(w), NEW c \in Chars, NEW x \in Attacks(w, c)
    PROVE  After(w, x)
<1>1. ASSUME NEW y, Sound(y), NEW z \in Once(y, c)
      PROVE  After(y, z)
  <2>1. CASE z = y
    BY <1>1, <2>1, StaysSame, StaysAfter
  <2>2. CASE \E v \in Victims(y, c) : z \in Hit(y, c, v)
    <3>1. PICK v \in Victims(y, c) : z \in Hit(y, c, v)
      BY <2>2
    <3>2. v \in Chars
      BY <1>1 DEF Victims, Sound, Worlds
    <3>. QED  BY <1>1, <3>1, <3>2, HitAfter
  <2>. QED  BY <1>1, <2>1, <2>2 DEF Once
<1>2. PICK y \in Once(w, c) : x \in {y} \cup Once(y, c)
  BY DEF Attacks
<1>3. After(w, y)
  BY <1>1, <1>2
<1>4. Sound(y)
  BY <1>3 DEF After
<1>5. After(y, x)
  <2>1. CASE x = y
    BY <1>4, <2>1, StaysSame, StaysAfter
  <2>2. CASE x \in Once(y, c)
    BY <1>1, <1>4, <2>2
  <2>. QED  BY <1>2, <2>1, <2>2
<1>. QED  BY <1>3, <1>5, AfterTransitive

-----------------------------------------------------------------------------
(* The commands.                                                           *)

LEMMA AfterReadied ==
    ASSUME NEW u, Sound(u), NEW c \in Chars, NEW x, After(Readied(u, c), x)
    PROVE  After(u, x)
BY ReadiedOnly, StaysAfter, AfterTransitive

LEMMA ReadiedSound ==
    ASSUME NEW u, Sound(u), NEW c \in Chars
    PROVE  Sound(Readied(u, c)) /\ InGame(Readied(u, c)) = InGame(u)
BY ReadiedOnly DEF Stays, Leads

LEMMA StopFightingStep ==
    ASSUME NEW w, Sound(w), NEW c \in Chars
    PROVE  /\ Sound(StopFighting(w, c)) /\ InGame(StopFighting(w, c)) = InGame(w)
           /\ After(w, StopFighting(w, c))
BY StopFightingOnly, StaysAfter DEF Stays, Leads

LEMMA SetFightingStep ==
    ASSUME NEW w, Sound(w), NEW c \in InGame(w), NEW v \in InGame(w),
           NEW x \in SetFighting(w, c, v)
    PROVE  Sound(x) /\ InGame(x) = InGame(w) /\ After(w, x)
BY SetFightingOnly, StaysAfter DEF Stays, Leads

LEMMA DoHitStep ==
    ASSUME Sound(world), NEW c \in Chars, NEW v \in Chars, DoHit(c, v)
    PROVE  After(world, world')
<1>. DEFINE w == Readied(world, c)
            turned == StopFighting(w, c)
<1>1. Sound(w) /\ InGame(w) = InGame(world)
  BY ReadiedSound
<1>2. c \in InGame(w) /\ v \in InGame(w)
  BY <1>1 DEF DoHit, At, Together, InGame
<1>3. \/ world' \in Hit(w, c, v)
      \/ world' = turned
      \/ world' \in SetFighting(turned, c, v)
  BY DEF DoHit, Become
<1>. HIDE DEF w
<1>4. Sound(turned) /\ InGame(turned) = InGame(w) /\ After(w, turned)
  BY <1>1, StopFightingStep
<1>. HIDE DEF turned
<1>5. ASSUME world' \in Hit(w, c, v) PROVE After(w, world')
  BY <1>1, <1>5, HitAfter
<1>6. ASSUME world' = turned PROVE After(w, world')
  BY <1>4, <1>6
<1>7. ASSUME world' \in SetFighting(turned, c, v) PROVE After(w, world')
  <2>1. After(turned, world')
    BY <1>2, <1>4, <1>7, SetFightingStep
  <2>. QED  BY <1>4, <2>1, AfterTransitive
<1>8. After(w, world')
  BY <1>3, <1>5, <1>6, <1>7
<1>. QED  BY <1>8, AfterReadied DEF w

LEMMA DoKillStep ==
    ASSUME Sound(world), NEW c \in Chars, NEW v \in Chars, DoKill(c, v)
    PROVE  After(world, world')
<1>1. Sound(Readied(world, c)) /\ world' = Die(Readied(world, c), v)
  BY ReadiedSound DEF DoKill, Become
<1>2. After(Readied(world, c), Die(Readied(world, c), v))
  BY <1>1, DieLeads, LeadsAfter
<1>. QED  BY <1>1, <1>2, AfterReadied

LEMMA DoFleeStep ==
    ASSUME Sound(world), NEW c \in Chars, DoFlee(c)
    PROVE  After(world, world')
<1>1. Sound(Readied(world, c)) /\ world' \in Flee(Readied(world, c), c)
  BY ReadiedSound DEF DoFlee, Become
<1>2. After(Readied(world, c), world')
  BY <1>1, FleeOnly, StaysAfter
<1>. QED  BY <1>2, AfterReadied

LEMMA DoStopFightStep ==
    ASSUME Sound(world), NEW c \in Chars, DoStopFight(c)
    PROVE  After(world, world')
<1>1. Sound(Readied(world, c)) /\ world' = StopFighting(Readied(world, c), c)
  BY ReadiedSound DEF DoStopFight, Become
<1>2. After(Readied(world, c), StopFighting(Readied(world, c), c))
  BY <1>1, StopFightingStep
<1>. QED  BY <1>1, <1>2, AfterReadied

LEMMA DoRescueStep ==
    ASSUME Sound(world), NEW c \in Chars, NEW v \in Chars, NEW t \in Chars, DoRescue(c, v, t)
    PROVE  After(world, world')
<1>. DEFINE w == Readied(world, c)
            a == IF w.fighting[v] = t THEN StopFighting(w, v) ELSE w
            s == StopFighting(a, t)
            b == StopFighting(s, c)
<1>1. Sound(w) /\ InGame(w) = InGame(world)
  BY ReadiedSound
<1>2. c \in InGame(w) /\ t \in InGame(w)
  BY <1>1 DEF DoRescue, At, Together, InGame
<1>3. \E x \in SetFighting(b, c, t) : world' \in SetFighting(x, t, c)
  BY DEF DoRescue, Become
<1>4. After(world, w)
  BY ReadiedOnly, StaysAfter
<1>. HIDE DEF w
<1>5. Sound(a) /\ InGame(a) = InGame(w) /\ After(w, a)
  BY <1>1, StopFightingStep, StaysSame, StaysAfter
<1>. HIDE DEF a
<1>6. Sound(s) /\ InGame(s) = InGame(a) /\ After(a, s)
  BY <1>5, StopFightingStep
<1>. HIDE DEF s
<1>7. Sound(b) /\ InGame(b) = InGame(s) /\ After(s, b)
  BY <1>6, StopFightingStep
<1>. HIDE DEF b
<1>8. PICK x \in SetFighting(b, c, t) : world' \in SetFighting(x, t, c)
  BY <1>3
<1>9. c \in InGame(b) /\ t \in InGame(b)
  BY <1>2, <1>5, <1>6, <1>7
<1>10. Sound(x) /\ InGame(x) = InGame(b) /\ After(b, x)
  BY <1>7, <1>8, <1>9, SetFightingStep
<1>11. After(x, world')
  BY <1>8, <1>9, <1>10, SetFightingStep
<1>. QED  BY <1>4, <1>5, <1>6, <1>7, <1>10, <1>11, AfterTransitive

LEMMA DoAssistStep ==
    ASSUME Sound(world), NEW c \in Chars, NEW v \in Chars, DoAssist(c, v)
    PROVE  After(world, world')
<1>. DEFINE w == Readied(world, c)
            t == w.fighting[v]
<1>1. Sound(w)
  BY ReadiedSound
<1>2. t \in Chars /\ world' \in Hit(w, c, t)
  BY <1>1 DEF DoAssist, Become, Sound, Worlds
<1>. HIDE DEF w, t
<1>3. After(w, world')
  BY <1>1, <1>2, HitAfter
<1>. QED  BY <1>3, AfterReadied DEF w

LEMMA PlacedAfter ==
    ASSUME NEW w, Sound(w), NEW c \in Chars, NEW p \in Positions \ {"dead"}
    PROVE  After(w, Placed(w, c, p)) /\ Sound(Placed(w, c, p))
BY PlacedOnly, StaysAfter DEF Stays, Leads

LEMMA DoBashStep ==
    ASSUME Sound(world), NEW c \in Chars, NEW v \in Chars, DoBash(c, v)
    PROVE  After(world, world')
<1>. DEFINE w == Readied(world, c)
<1>0. "sitting" \in Positions \ {"dead"}
  BY DEF Positions, Down
<1>1. Sound(w)
  BY ReadiedSound
<1>2. \/ \E x \in SpellDamage(w, c, v) : world' = Placed(x, c, "sitting")
      \/ \E x \in SpellDamage(Placed(w, v, "sitting"), c, v) :
            world' = x \/ world' = Placed(x, v, "sitting")
  BY DEF DoBash, Become
<1>. HIDE DEF w
<1>3. CASE \E x \in SpellDamage(w, c, v) : world' = Placed(x, c, "sitting")
  <2>1. PICK x \in SpellDamage(w, c, v) : world' = Placed(x, c, "sitting")
    BY <1>3
  <2>2. After(w, x) /\ Sound(x)
    BY <1>1, <2>1, SpellDamageAfter DEF After
  <2>3. After(x, Placed(x, c, "sitting"))
    BY <1>0, <2>2, PlacedAfter
  <2>4. After(w, world')
    BY <2>1, <2>2, <2>3, AfterTransitive
  <2>. QED  BY <2>4, AfterReadied DEF w
<1>4. CASE \E x \in SpellDamage(Placed(w, v, "sitting"), c, v) :
               world' = x \/ world' = Placed(x, v, "sitting")
  <2>. DEFINE u == Placed(w, v, "sitting")
  <2>1. PICK x \in SpellDamage(u, c, v) : world' = x \/ world' = Placed(x, v, "sitting")
    BY <1>4
  <2>2. After(w, u) /\ Sound(u)
    BY <1>0, <1>1, PlacedAfter
  <2>. HIDE DEF u
  <2>3. After(u, x) /\ Sound(x)
    BY <2>1, <2>2, SpellDamageAfter DEF After
  <2>4. After(x, Placed(x, v, "sitting"))
    BY <1>0, <2>3, PlacedAfter
  <2>5. After(w, world')
    BY <2>1, <2>2, <2>3, <2>4, AfterTransitive
  <2>. QED  BY <2>5, AfterReadied DEF w
<1>. QED  BY <1>2, <1>3, <1>4

LEMMA HarmStep ==
    ASSUME Sound(world), NEW c \in Chars, NEW v \in Chars, Harm(c, v)
    PROVE  After(world, world')
<1>1. Sound(Readied(world, c)) /\ world' \in SpellDamage(Readied(world, c), c, v)
  BY ReadiedSound DEF Harm, Become
<1>2. After(Readied(world, c), world')
  BY <1>1, SpellDamageAfter
<1>. QED  BY <1>2, AfterReadied

\* The masters of StopFollower(w, c) lead where those of w led, but from c.
LEMMA Uncircled ==
    ASSUME NEW w, Sound(w), NEW c \in Chars, NEW leader \in Chars,
           ~ CircleFollow(w, c, leader), w.where[c] # None, w.where[leader] # None
    PROVE  LET x == StopFollower(w, c) IN
           Sound(x) /\ Stays(w, AddFollower(x, c, leader), {})
           /\ AddFollower(x, c, leader).master[c] # None
<1>. DEFINE x == StopFollower(w, c)
<1>1. PICK S \in SUBSET Chars : /\ leader \in S /\ c \notin S
                                /\ \A k \in S : w.master[k] \in S \cup {None}
  BY DEF CircleFollow
<1>2. Stays(w, x, {}) /\ x.where = w.where /\ x.master = Put(w.master, c, None)
  BY StopFollowerOnly
<1>. HIDE DEF x
<1>3. Sound(x) /\ x.where[c] # None /\ x.where[leader] # None
  BY <1>2 DEF Stays, Leads
<1>4. \A k \in S : x.master[k] \in S \cup {None}
  BY <1>1, <1>2 DEF Put
<1>5. Stays(x, AddFollower(x, c, leader), {}) /\ AddFollower(x, c, leader).master[c] # None
  BY <1>1, <1>3, <1>4, AddFollowerOnly
<1>6. Stays(w, AddFollower(x, c, leader), {})
  BY <1>2, <1>5 DEF Stays, Leads
<1>. QED  BY <1>3, <1>5, <1>6 DEF x

LEMMA DoFollowStep ==
    ASSUME Sound(world), NEW c \in Chars, NEW leader \in Chars, DoFollow(c, leader)
    PROVE  After(world, world')
<1>. DEFINE w == Readied(world, c)
            x == StopFollower(w, c)
<1>1. Sound(w) /\ InGame(w) = InGame(world) /\ c \in InGame(w)
  BY ReadiedSound DEF DoFollow, Command
<1>2. \/ world' = x
      \/ /\ ~ CircleFollow(w, c, leader) /\ Together(w, c, leader)
         /\ world' = AddFollower(x, c, leader)
  BY DEF DoFollow, Become
<1>. HIDE DEF w
<1>3. ASSUME world' = x PROVE After(w, world')
  <2>1. Stays(w, x, {})
    BY <1>1, StopFollowerOnly
  <2>. QED  BY <1>3, <2>1, StaysAfter
<1>4. ASSUME ~ CircleFollow(w, c, leader), Together(w, c, leader), world' = AddFollower(x, c, leader)
      PROVE  After(w, world')
  <2>1. w.where[c] # None /\ w.where[leader] # None
    BY <1>4 DEF Together
  <2>2. Stays(w, AddFollower(x, c, leader), {})
    BY <1>1, <1>4, <2>1, Uncircled
  <2>. QED  BY <1>4, <2>2, StaysAfter
<1>5. After(w, world')
  BY <1>2, <1>3, <1>4
<1>. QED  BY <1>5, AfterReadied DEF w

\* The charmed have a master: the charmer.
LEMMA CharmedOnly ==
    ASSUME NEW w, Sound(w), NEW v \in Chars, w.master[v] # None,
           NEW x, x = [w EXCEPT !.charmed = @ \cup {v},
                                !.under = Put(@, v, @[v] \cup {"charm person"})]
    PROVE  Stays(w, x, {})
<1>1. /\ x.where = w.where /\ x.fighting = w.fighting /\ x.attackers = w.attackers
      /\ x.combat_list = w.combat_list /\ x.ahead = w.ahead
      /\ x.mount = w.mount /\ x.rider = w.rider /\ x.hp = w.hp /\ x.pos = w.pos
      /\ x.followers = w.followers /\ x.master = w.master /\ x.charmed = w.charmed \cup {v}
  BY DEF Sound, Worlds
<1>2. x \in Worlds
  <2>. DEFINE u == Put(w.under, v, w.under[v] \cup {"charm person"})
              k == w.charmed \cup {v}
  <2>1. "charm person" \in FightSpells
    BY DEF FightSpells
  <2>2. u \in [Chars -> SUBSET FightSpells]
    BY <2>1 DEF Sound, Worlds, Put
  <2>3. x = [w EXCEPT !.charmed = k, !.under = u] /\ k \in SUBSET Chars /\ w \in Worlds
    BY DEF Sound, Worlds
  <2>4. ASSUME NEW a \in SUBSET Chars, NEW b \in [Chars -> SUBSET FightSpells]
        PROVE  [w EXCEPT !.charmed = a, !.under = b] \in Worlds
    BY <2>3 DEF Worlds
  <2>. HIDE DEF u, k
  <2>5. [w EXCEPT !.charmed = k, !.under = u] \in Worlds
    BY <2>2, <2>3, <2>4
  <2>. QED  BY <2>3, <2>5
<1>3. Companies(x)
  BY <1>1 DEF Companies, Sound, Bonds
<1>4. \A S \in SUBSET Chars : S # {} => \E c \in S : x.master[c] \notin S
  BY <1>1 DEF Sound, Bonds
<1>. QED  BY <1>1, <1>2, <1>3, <1>4, CompanyFrame

LEMMA CharmStep ==
    ASSUME Sound(world), NEW c \in Chars, NEW v \in Chars, Charm(c, v)
    PROVE  After(world, world')
<1>. DEFINE w == Readied(world, c)
            x == AddFollower(StopFollower(w, v), v, c)
            y == [x EXCEPT !.charmed = @ \cup {v}, !.under = Put(@, v, @[v] \cup {"charm person"})]
<1>1. Sound(w) /\ InGame(w) = InGame(world)
  BY ReadiedSound
<1>2. w.where[c] # None /\ w.where[v] # None
  BY <1>1 DEF Charm, At, Together, InGame
<1>3. ~ CircleFollow(w, v, c) /\ world' = y
  BY DEF Charm, Become
<1>. HIDE DEF w
<1>4. Stays(w, x, {}) /\ x.master[v] # None
  BY <1>1, <1>2, <1>3, Uncircled
<1>. HIDE DEF x
<1>5. Sound(x)
  BY <1>4 DEF Stays, Leads
<1>6. Stays(x, y, {})
  BY <1>4, <1>5, CharmedOnly
<1>7. After(w, world')
  BY <1>3, <1>4, <1>6, StaysAfter, AfterTransitive
<1>. QED  BY <1>7, AfterReadied DEF w

LEMMA MountedOnly ==
    ASSUME NEW w, Sound(w), NEW c \in Chars, NEW h \in Chars,
           w.where[c] # None, w.where[h] # None, w.mount[c] = None, w.rider[h] = None,
           NEW x, x = [w EXCEPT !.mount = Put(@, c, h), !.rider = Put(@, h, c),
                                !.pos = Put(@, c, "mounted")]
    PROVE  Stays(w, x, {})
<1>0. None \notin Chars /\ Bonds(w) /\ "mounted" \in Positions
  BY CombatAssumption DEF Sound, Positions
<1>1. /\ x.where = w.where /\ x.fighting = w.fighting /\ x.attackers = w.attackers
      /\ x.combat_list = w.combat_list /\ x.ahead = w.ahead
      /\ x.mount = Put(w.mount, c, h) /\ x.rider = Put(w.rider, h, c)
      /\ x.hp = w.hp /\ x.pos = Put(w.pos, c, "mounted")
      /\ x.followers = w.followers /\ x.master = w.master /\ x.charmed = w.charmed
  BY DEF Sound, Worlds
<1>2. x \in Worlds
  BY <1>0 DEF Sound, Worlds, Put
<1>3. Fight(x)
  BY <1>1 DEF Sound, Fight
<1>4. Bonds(x)
  <2>1. \A a, b \in Chars : x.mount[a] = b <=> x.rider[b] = a
    BY <1>0, <1>1 DEF Bonds, Put
  <2>2. \A a \in Chars : x.where[a] = None => x.mount[a] = None /\ x.rider[a] = None
    BY <1>0, <1>1 DEF Bonds, Put
  <2>. QED  BY <1>0, <1>1, <2>1, <2>2 DEF Bonds
<1>5. InGame(x) = InGame(w) /\ Mortal(x) \subseteq Mortal(w)
  BY <1>1 DEF InGame, Mortal, Put
<1>6. x.ahead \subseteq w.ahead
  BY <1>1
<1>. QED  BY <1>2, <1>3, <1>4, <1>5, <1>6 DEF Stays, Leads, Sound

LEMMA DoMountStep ==
    ASSUME Sound(world), NEW c \in Chars, NEW h \in Chars, DoMount(c, h)
    PROVE  After(world, world')
<1>. DEFINE w == Readied(world, c)
            x == [w EXCEPT !.mount = Put(@, c, h), !.rider = Put(@, h, c),
                           !.pos = Put(@, c, "mounted")]
<1>1. Sound(w)
  BY ReadiedSound
<1>2. w.where[c] # None /\ w.where[h] # None /\ w.rider[h] = None /\ w.mount[c] = None
  BY DEF DoMount, Together
<1>3. world' = x \/ world' = Placed(w, c, "sitting") \/ world' \in Hit(w, h, c)
  BY DEF DoMount, Become
<1>. HIDE DEF w
<1>4. ASSUME world' = x PROVE After(w, world')
  <2>1. Stays(w, x, {})
    BY <1>1, <1>2, MountedOnly
  <2>. QED  BY <1>4, <2>1, StaysAfter
<1>5. ASSUME world' = Placed(w, c, "sitting") PROVE After(w, world')
  <2>1. "sitting" \in Positions \ {"dead"}
    BY DEF Positions, Down
  <2>2. After(w, Placed(w, c, "sitting"))
    BY <1>1, <2>1, PlacedAfter
  <2>. QED  BY <1>5, <2>2
<1>6. ASSUME world' \in Hit(w, h, c) PROVE After(w, world')
  BY <1>1, <1>6, HitAfter
<1>7. After(w, world')
  BY <1>3, <1>4, <1>5, <1>6
<1>. QED  BY <1>7, AfterReadied DEF w

LEMMA DoDismountStep ==
    ASSUME Sound(world), NEW c \in Chars, DoDismount(c)
    PROVE  After(world, world')
<1>. DEFINE h == world.mount[c]
<1>1. world' = Dismount(world, c, h, "standing") /\ "standing" \in Positions \ {"dead"}
  BY DEF DoDismount, Become, Positions, Down
<1>2. CASE h = None
  \* A horse that nobody rides: c stands.
  <2>1. world' = Placed(world, c, "standing")
    <3>1. /\ Put(world.mount, c, None) = world.mount
          /\ Put(world.rider, h, None) = world.rider
      BY <1>2, CombatAssumption DEF Put, Sound, Worlds
    <3>. QED  BY <1>1, <3>1 DEF Dismount, Placed, Sound, Worlds
  <2>2. After(world, Placed(world, c, "standing"))
    BY <1>1, PlacedAfter
  <2>. QED  BY <2>1, <2>2
<1>3. CASE h # None
  <2>1. h \in Chars /\ world.mount[c] = h
    BY <1>3 DEF Sound, Worlds
  <2>. HIDE DEF h
  <2>2. Stays(world, Dismount(world, c, h, "standing"), {})
    BY <1>1, <2>1, DismountOnly
  <2>. QED  BY <1>1, <2>2, StaysAfter
<1>. QED  BY <1>2, <1>3

LEMMA DoSitStep ==
    ASSUME Sound(world), NEW c \in Chars, DoSit(c) \/ DoStand(c)
    PROVE  After(world, world')
<1>1. PICK p : /\ p \in Positions \ {"dead"}
               /\ world' = Placed(Readied(world, c), c, p)
  BY DEF DoSit, DoStand, Become, Positions, Down
<1>2. Sound(Readied(world, c))
  BY ReadiedSound
<1>3. After(Readied(world, c), Placed(Readied(world, c), c, p))
  BY <1>1, <1>2, PlacedAfter
<1>. QED  BY <1>1, <1>3, AfterReadied

LEMMA DoMoveStep ==
    ASSUME Sound(world), NEW c \in Chars, NEW r \in Rooms, DoMove(c, r)
    PROVE  After(world, world')
<1>. DEFINE w == Readied(world, c)
            can(f) == Together(w, c, f) /\ MayMove(w, f) /\ w.pos[f] \in {"standing", "mounted"}
<1>1. Sound(w) /\ InGame(w) = InGame(world) /\ c \in InGame(w)
  BY ReadiedSound DEF DoMove, Command
<1>2. \/ world' = Extract(w, c)
      \/ \E F \in SUBSET (Chars \ {c}) :
            (\A f \in F : can(f)) /\ world' = Moved(w, F \cup {c}, r)
  BY DEF DoMove, Become
<1>. HIDE DEF w
<1>3. ASSUME world' = Extract(w, c) PROVE After(w, world')
  BY <1>1, <1>3, ExtractLeads, LeadsAfter
<1>4. ASSUME NEW F \in SUBSET (Chars \ {c}), \A f \in F : can(f), world' = Moved(w, F \cup {c}, r)
      PROVE  After(w, world')
  <2>. DEFINE S == F \cup {c}
  <2>1. S \in SUBSET InGame(w)
    BY <1>1, <1>4 DEF InGame, Together
  <2>. HIDE DEF S
  <2>2. Stays(w, Moved(w, S, r), {})
    BY <1>1, <2>1, MovedOnly
  <2>3. world' = Moved(w, S, r)
    BY <1>4 DEF S
  <2>. QED  BY <2>2, <2>3, StaysAfter
<1>5. After(w, world')
  BY <1>2, <1>3, <1>4
<1>. QED  BY <1>5, AfterReadied DEF w

LEMMA ThrowOffStep ==
    ASSUME Sound(world), NEW c \in Chars, ThrowOff(c)
    PROVE  After(world, world')
<1>. DEFINE w == Readied(world, c)
            r == world.rider[c]
<1>1. /\ Sound(w) /\ r \in Chars /\ world.mount[r] = c /\ world.where[c] # None
      /\ None \notin Chars
  <2>1. Sound(w) /\ None \notin Chars
    BY ReadiedSound, CombatAssumption
  <2>2. r \in Chars /\ world.where[c] # None
    BY DEF ThrowOff, Command, InGame, Sound, Worlds
  <2>3. world.mount[r] = c
    BY <2>2 DEF Sound, Bonds
  <2>. QED  BY <2>1, <2>2, <2>3
<1>2. world' = Dismount(w, r, c, "sitting") /\ "sitting" \in Positions \ {"dead"}
  BY DEF ThrowOff, Become, Positions, Down
<1>3. w.mount[r] = c
  <2>1. CASE w = world
    BY <1>1, <2>1
  <2>2. CASE ~ (world.mount[c] = None \/ Together(world, c, world.mount[c]))
    <3>1. w.mount = Put(world.mount, c, None)
      BY <2>2 DEF Readied, Dismount, Sound, Worlds
    <3>2. r # c
      BY <1>1, <2>2 DEF Together
    <3>. QED  BY <1>1, <3>1, <3>2 DEF Put
  <2>. QED  BY <2>1, <2>2 DEF Readied
<1>. HIDE DEF w, r
<1>4. Stays(w, Dismount(w, r, c, "sitting"), {})
  BY <1>1, <1>2, <1>3, DismountOnly
<1>5. After(w, world')
  BY <1>2, <1>4, StaysAfter
<1>. QED  BY <1>5, AfterReadied DEF w

-----------------------------------------------------------------------------
(* The events, and the rounds.                                             *)

\* As After, but a round may have begun.
Kept == Sound(world') /\ (NoFlames /\ Mortal(world) = {} => Mortal(world)' = {})

LEMMA AfterKept ==
    ASSUME After(world, world')
    PROVE  Kept
BY DEF After, Kept, Mortal, InGame

LEMMA EnterStep ==
    ASSUME Sound(world), NEW c \in Chars, NEW r \in Rooms, Enter(c, r)
    PROVE  After(world, world')
<1>0. None \notin Chars /\ None \notin Rooms /\ world.where[c] = None
  BY CombatAssumption DEF Enter, InGame
<1>. DEFINE x == [world EXCEPT !.where[c] = r, !.hp[c] = "fit", !.pos[c] = "standing"]
<1>1. /\ x.where = Put(world.where, c, r) /\ x.hp = Put(world.hp, c, "fit")
      /\ x.pos = Put(world.pos, c, "standing")
      /\ x.fighting = world.fighting /\ x.attackers = world.attackers
      /\ x.combat_list = world.combat_list /\ x.ahead = world.ahead
      /\ x.master = world.master /\ x.followers = world.followers /\ x.charmed = world.charmed
      /\ x.mount = world.mount /\ x.rider = world.rider
  BY DEF Sound, Worlds, Put
<1>2. x \in Worlds
  BY DEF Sound, Worlds, Hits, Positions
<1>3. world' = x
  BY DEF Enter
<1>. HIDE DEF x
<1>4. Fight(x)
  BY <1>0, <1>1 DEF Sound, Fight, Put, Worlds
<1>5. Bonds(x)
  BY <1>0, <1>1 DEF Sound, Bonds, Put
<1>6. Mortal(x) \subseteq Mortal(world) /\ x.ahead \subseteq world.ahead
  BY <1>1 DEF Mortal, InGame, Put
<1>7. Leads(world, x, {})
  BY <1>2, <1>4, <1>5, <1>6 DEF Leads, Sound
<1>. QED  BY <1>3, <1>7, LeadsAfter

LEMMA LinkChangesStep ==
    ASSUME Sound(world), NEW c \in Chars, LinkChanges(c)
    PROVE  After(world, world')
<1>. DEFINE x == [world EXCEPT !.linkdead = IF c \in @ THEN @ \ {c} ELSE @ \cup {c}]
<1>1. x \in Worlds
  BY DEF LinkChanges, Sound, Worlds
<1>2. SameTies(world, x) /\ x.pos = world.pos /\ x.hp = world.hp
  BY DEF SameTies, Sound, Worlds
<1>3. world' = x
  BY DEF LinkChanges
<1>. HIDE DEF x
<1>4. Sound(x) /\ x.ahead \subseteq world.ahead /\ InGame(x) = InGame(world)
  BY <1>1, <1>2, TiesFrame
<1>5. Leads(world, x, {})
  BY <1>2, <1>4 DEF Leads, Mortal
<1>. QED  BY <1>3, <1>5, LeadsAfter

LEMMA HealStep ==
    ASSUME Sound(world), NEW c \in Chars, Heal(c)
    PROVE  After(world, world')
<1>. DEFINE x == Wounded(world, c, "fit")
<1>1. "fit" \in Hits /\ "fit" # "dead" /\ world' = UpdatePos(x, c)
  BY DEF Hits, Heal, Become
<1>2. Stays(world, Wounded(world, c, "fit"), {})
  BY <1>1, WoundedOnly
<1>3. Stays(world, x, {}) /\ Sound(x)
  BY <1>2 DEF Stays, Leads
<1>. HIDE DEF x
<1>4. Stays(x, UpdatePos(x, c), {})
  BY <1>3, UpdatePosOnly
<1>. QED  BY <1>1, <1>3, <1>4, StaysAfter, AfterTransitive

LEMMA SufferStep ==
    ASSUME Sound(world), NEW c \in Chars, Suffer(c)
    PROVE  After(world, world')
<1>1. PICK h \in Lower(world.hp[c]) :
          world' \in Settled(UpdatePos(Wounded(world, c, h), c), c, c)
  BY DEF Suffer, Become
<1>. DEFINE x == Wounded(world, c, h)
<1>2. h \in Hits
  BY DEF Lower, Hits
<1>3. Stays(world, x, {c})
  BY <1>2, WoundedOnly
<1>4. Sound(x) /\ world' \in Settled(UpdatePos(x, c), c, c)
  BY <1>1, <1>3 DEF Stays, Leads
<1>. HIDE DEF x
<1>5. Leads(x, world', {}) /\ c \notin Mortal(world')
  BY <1>4, SettledLeads
<1>6. Leads(world, world', {})
  BY <1>3, <1>5 DEF Stays, Leads
<1>. QED  BY <1>6, LeadsAfter

LEMMA LeaveStep ==
    ASSUME Sound(world), NEW c \in Chars, Leave(c)
    PROVE  After(world, world')
<1>1. world' = Extract(world, c)
  BY DEF Leave, Become
<1>2. After(world, Extract(world, c))
  BY ExtractLeads, LeadsAfter
<1>. QED  BY <1>1, <1>2

LEMMA BeginRoundStep ==
    ASSUME Sound(world), BeginRound
    PROVE  Kept
<1>. DEFINE x == [world EXCEPT !.ahead = world.combat_list]
<1>1. /\ x.where = world.where /\ x.hp = world.hp /\ x.pos = world.pos
      /\ x.fighting = world.fighting /\ x.attackers = world.attackers
      /\ x.combat_list = world.combat_list /\ x.ahead = world.combat_list
      /\ x.master = world.master /\ x.followers = world.followers /\ x.charmed = world.charmed
      /\ x.mount = world.mount /\ x.rider = world.rider
  BY DEF Sound, Worlds
<1>2. x \in Worlds /\ world' = x
  BY DEF BeginRound, Sound, Worlds
<1>. HIDE DEF x
<1>3. Fight(x)
  BY <1>1 DEF Sound, Fight
<1>4. Bonds(x)
  BY <1>1 DEF Sound, Bonds
<1>5. Mortal(x) = Mortal(world)
  BY <1>1 DEF Mortal, InGame
<1>6. Mortal(world)' = Mortal(x)
  BY <1>2 DEF Mortal, InGame
<1>. QED  BY <1>2, <1>3, <1>4, <1>5, <1>6 DEF Kept, Sound

\* combat_next_dude moves on, and then c fights.
LEMMA TurnStep ==
    ASSUME Sound(world), NEW c \in Chars, Turn(c)
    PROVE  After(world, world') /\ c \in world.ahead /\ c \notin world'.ahead
<1>. DEFINE w == [world EXCEPT !.ahead = @ \ {c}]
<1>1. w \in Worlds /\ w.ahead = world.ahead \ {c} /\ w.pos = world.pos /\ w.hp = world.hp
  BY DEF Sound, Worlds
<1>2. SameTies(world, w)
  BY DEF SameTies, Sound, Worlds
<1>3. c \in world.ahead /\ (world' = StopFighting(w, c) \/ world' \in Attacks(w, c))
  BY DEF Turn, Become
<1>. HIDE DEF w
<1>4. Sound(w) /\ InGame(w) = InGame(world)
  BY <1>1, <1>2, TiesFrame
<1>5. Leads(world, w, {})
  BY <1>1, <1>4 DEF Leads, Mortal
<1>6. After(w, world')
  <2>1. After(w, StopFighting(w, c))
    BY <1>4, StopFightingStep
  <2>2. ASSUME world' \in Attacks(w, c) PROVE After(w, world')
    BY <1>4, <2>2, AttacksAfter
  <2>. QED  BY <1>3, <2>1, <2>2
<1>7. After(world, world')
  BY <1>5, <1>6, LeadsAfter, AfterTransitive
<1>8. c \notin world'.ahead
  BY <1>1, <1>6 DEF After
<1>. QED  BY <1>3, <1>7, <1>8

\* Every step keeps what is sound sound, and the dead out of the game.
LEMMA NextKeeps ==
    ASSUME Sound(world), [Next]_world
    PROVE  Kept
<1>1. ASSUME NEW c \in Chars, NEW v \in Chars,
             \/ DoHit(c, v) \/ DoKill(c, v) \/ DoAssist(c, v) \/ DoBash(c, v)
             \/ Harm(c, v) \/ DoFollow(c, v) \/ Charm(c, v) \/ DoMount(c, v)
      PROVE  Kept
  BY <1>1, DoHitStep, DoKillStep, DoAssistStep, DoBashStep, HarmStep, DoFollowStep,
     CharmStep, DoMountStep, AfterKept
<1>2. ASSUME NEW c \in Chars, NEW v \in Chars, NEW t \in Chars, DoRescue(c, v, t)
      PROVE  Kept
  BY <1>2, DoRescueStep, AfterKept
<1>3. ASSUME NEW c \in Chars,
             \/ DoFlee(c) \/ DoStopFight(c) \/ DoDismount(c) \/ DoSit(c) \/ DoStand(c)
             \/ ThrowOff(c)
      PROVE  Kept
  BY <1>3, DoFleeStep, DoStopFightStep, DoDismountStep, DoSitStep, ThrowOffStep, AfterKept
<1>4. ASSUME NEW c \in Chars, NEW r \in Rooms, DoMove(c, r) \/ Enter(c, r)
      PROVE  Kept
  BY <1>4, DoMoveStep, EnterStep, AfterKept
<1>5. ASSUME NEW c \in Chars, Leave(c) \/ LinkChanges(c) \/ Heal(c) \/ Suffer(c) \/ Turn(c)
      PROVE  Kept
  BY <1>5, LeaveStep, LinkChangesStep, HealStep, SufferStep, TurnStep, AfterKept
<1>6. CASE BeginRound
  BY <1>6, BeginRoundStep
<1>7. CASE UNCHANGED world
  BY <1>7 DEF Kept, Mortal, InGame
<1>. QED  BY <1>1, <1>2, <1>3, <1>4, <1>5, <1>6, <1>7 DEF Next, Commands, Events, Round

-----------------------------------------------------------------------------
(* The theorems.                                                           *)

LEMMA NobodySound == Sound(Nobody) /\ Mortal(Nobody) = {}
<1>. DEFINE x == Nobody
<1>0. None \notin Chars /\ Crowd \in Nat
  BY CombatAssumption
<1>1. /\ x.where = [c \in Chars |-> None] /\ x.fighting = [c \in Chars |-> None]
      /\ x.attackers = [c \in Chars |-> 0] /\ x.combat_list = {} /\ x.ahead = {}
      /\ x.master = [c \in Chars |-> None] /\ x.followers = [c \in Chars |-> {}]
      /\ x.mount = [c \in Chars |-> None] /\ x.rider = [c \in Chars |-> None] /\ x.charmed = {}
  BY DEF Nobody
<1>2. x \in Worlds
  BY <1>0 DEF Nobody, Worlds, Hits, Positions, Down
<1>. HIDE DEF x
<1>3. Fight(x)
  <2>1. ASSUME NEW v \in Chars
        PROVE  x.attackers[v] <= Cardinality(Foes(x.fighting, v))
    BY <1>1, <2>1, FoesFinite
  <2>2. /\ x.combat_list = {c \in Chars : x.fighting[c] # None}
        /\ x.ahead \subseteq x.combat_list
        /\ \A c \in x.combat_list : x.where[c] # None /\ x.where[x.fighting[c]] # None
    BY <1>1
  <2>. QED  BY <2>1, <2>2 DEF Fight, Foes
<1>4. Bonds(x)
  BY <1>0, <1>1 DEF Bonds
<1>5. Mortal(x) = {}
  BY <1>1 DEF Mortal, InGame
<1>. QED  BY <1>2, <1>3, <1>4, <1>5 DEF Sound, x

\* A world stays what Worlds says, its fights agree and its bonds agree,
\* whatever commands, events and rounds there are: the inductive invariant.
THEOREM WorldSound == Spec => []Sound(world)
<1>1. Init => Sound(world)
  BY NobodySound DEF Init
<1>2. Sound(world) /\ [Next]_world => Sound(world)'
  BY NextKeeps DEF Kept
<1>. QED  BY <1>1, <1>2, PTL DEF Spec

\* combat_list, fighting pointers and attacker counts agree (set_fighting,
\* stop_fighting, extract_char), for every number of characters and limits.
THEOREM FightsAlwaysAgree == Spec => []FightsAgree
<1>1. Sound(world) => FightsAgree
  BY DEF Sound, FightsAgree
<1>. QED  BY <1>1, WorldSound, PTL

\* Masters and followers, riders and mounts name each other, and nobody
\* follows itself through others (add_follower, stop_follower, Dismount).
THEOREM BondsAlwaysAgree == Spec => []BondsAgree
<1>1. Sound(world) => BondsAgree
  BY DEF Sound, BondsAgree
<1>. QED  BY <1>1, WorldSound, PTL

\* Type correctness.
THEOREM CombatTyped == Spec => []TypeOK
<1>1. Sound(world) => TypeOK
  BY DEF Sound, TypeOK
<1>. QED  BY <1>1, WorldSound, PTL

\* Nobody is left in the game dead, provided that no blow can be answered by
\* the flames of a shield: with them an attacker that they kill leaves the
\* victim of its blow unlooked at (fight.c:1764).
THEOREM TheDeadAreGone == ASSUME NoFlames PROVE Spec => []DeadAreGone
<1>. DEFINE J == Sound(world) /\ Mortal(world) = {}
<1>1. Init => J
  BY NobodySound DEF Init
<1>2. J /\ [Next]_world => J'
  BY NextKeeps DEF Kept
<1>3. J => DeadAreGone
  BY DEF DeadAreGone, Mortal
<1>. HIDE DEF J
<1>. QED  BY <1>1, <1>2, <1>3, PTL DEF Spec

\* A round of fights ends (perform_violence): each step of it takes one from
\* those whose turn is to come, and nobody can get in among them.
THEOREM RoundsShrink == Spec => RoundShrinks
<1>1. Sound(world) /\ [Next]_world
        => [InRound => world'.ahead # world.ahead /\ world'.ahead \subseteq world.ahead]_world
  <2>1. ASSUME Sound(world), NEW c \in Chars, Turn(c)
        PROVE  world'.ahead # world.ahead /\ world'.ahead \subseteq world.ahead
    BY <2>1, TurnStep DEF After
  <2>2. ASSUME Next, InRound
        PROVE  \E c \in Chars : Turn(c)
    <3>1. ~ BeginRound
      BY <2>2 DEF BeginRound
    <3>2. ~ Commands
      BY <2>2 DEF Commands, DoHit, DoKill, DoAssist, DoBash, Harm, DoFollow, Charm, DoMount,
         DoRescue, DoFlee, DoStopFight, DoDismount, DoSit, DoStand, ThrowOff, DoMove,
         Violent, Command
    <3>3. ~ Events
      BY <2>2 DEF Events, Leave, LinkChanges, Heal, Suffer, Enter, Event
    <3>. QED  BY <2>2, <3>1, <3>2, <3>3 DEF Next, Round
  <2>. QED  BY <2>1, <2>2
<1>. QED  BY <1>1, WorldSound, PTL DEF Spec, RoundShrinks

=============================================================================
