------------------------- MODULE LinkAffectsProofs -------------------------
(***************************************************************************)
(* Two parts that share nothing but this module.                           *)
(*                                                                         *)
(* Connections and bodies: the types, that a body has one connection, that *)
(* the two ends of a snoop agree, and that every step is a step of the     *)
(* abstract sessions (module PlayerSession) or a stutter.                  *)
(*                                                                         *)
(* Affects: what a character has of a quantity is the sum of what its      *)
(* objects and its spells give.  The sums run over sequences; Splits says  *)
(* that what one object or spell gives is the difference, wherever in the  *)
(* sequence it stands.  Every function of handler.c and db.c then has a    *)
(* lemma that it keeps the ledger, and every loop one, by induction on its *)
(* turns.                                                                  *)
(***************************************************************************)
EXTENDS Link, Affects, FiniteSetTheorems, WellFoundedInduction, TLAPS


\* The part of LinkInv that is about the four pointers of connections and
\* bodies, and the part about the two of the snoop structure.
LinkTypeOK ==
    /\ state \in [Desc -> {"FREE", "PWDNRM", "MENU", "PLYNG"}]
    /\ character \in [Desc -> Bodies \cup {None}]
    /\ original \in [Desc -> Players \cup {None}]
    /\ desc \in [Bodies -> Desc \cup {None}]

Linked ==
    /\ LinkTypeOK
    /\ \A d \in Desc : PointersOf(d)
    /\ UniqueOwner
    /\ BodyOfOne

WorldTypeOK ==
    /\ orig \in [Mobs -> Players \cup {None}]
    /\ inGame \subseteq Bodies
    /\ older \in [Mobs -> SUBSET Players]
    /\ poly \subseteq Mobs

Snooped ==
    /\ snooping \in [Desc -> Bodies \cup {None}]
    /\ snoopBy \in [Desc -> Players \cup {None}]
    /\ SnoopAgrees
    /\ SnooperIsItself

LEMMA Parts == LinkInv <=> Linked /\ WorldTypeOK /\ IdleMobs /\ Snooped
BY DEF LinkInv, TypeOK, Linked, LinkTypeOK, WorldTypeOK, Snooped

LEMMA PartsNext ==
    ASSUME Linked', WorldTypeOK', IdleMobs', Snooped'
    PROVE  LinkInv'
BY DEF LinkInv, TypeOK, Linked, LinkTypeOK, WorldTypeOK, Snooped

-----------------------------------------------------------------------------
(* The four pointers.                                                      *)

\* A descriptor in the game with a body: what the other lemmas use of Linked.
LEMMA Commanding ==
    ASSUME Linked, NEW d \in Desc, state[d] = "PLYNG"
    PROVE  /\ character[d] \in Bodies
           /\ desc[character[d]] = d
           /\ character[d] \in Mobs => original[d] \in Players
           /\ character[d] \in Players => original[d] = None
           /\ Owner(d) \in Players
<1>1. character[d] \in Bodies
    BY DEF Linked, LinkTypeOK, PointersOf
<1> QED
    BY <1>1, LinkAssumption DEF Linked, LinkTypeOK, PointersOf, BodyOfOne, InBody, Owner, Bodies

\* The owner's body is not commanded by anybody else.
LEMMA OwnBody ==
    ASSUME Linked, NEW d \in Desc, state[d] # "FREE", NEW k \in Desc,
           Owner(d) \in Players, desc[Owner(d)] = k
    PROVE  k = d /\ state[d] = "PLYNG" /\ character[d] = Owner(d) /\ original[d] = None
<1>1. state[k] = "PLYNG" /\ character[k] = Owner(d)
    BY DEF Linked, BodyOfOne, InBody, Bodies
<1>2. original[k] = None /\ Owner(k) = Owner(d)
    BY <1>1, Commanding DEF Owner
<1> QED
    BY <1>1, <1>2 DEF Linked, UniqueOwner

\* A freed descriptor.
LEMMA FreeLinked ==
    ASSUME Linked, NEW d \in Desc, Free(d)
    PROVE  Linked'
<1>1. LinkTypeOK'
    BY Commanding DEF Linked, LinkTypeOK, Free, Unlinked
<1>2. (\A k \in Desc : PointersOf(k))'
    BY LinkAssumption DEF Linked, LinkTypeOK, PointersOf, Free, Bodies
<1>3. UniqueOwner'
    BY DEF Linked, LinkTypeOK, UniqueOwner, Owner, Free
<1>4. BodyOfOne'
    BY Commanding, LinkAssumption DEF Linked, LinkTypeOK, BodyOfOne, InBody, Free, Unlinked
<1> QED BY <1>1, <1>2, <1>3, <1>4 DEF Linked

\* A descriptor sent back to the menu.
LEMMA BackToMenuLinked ==
    ASSUME Linked, NEW d \in Desc, state[d] = "PLYNG", BackToMenu(d)
    PROVE  Linked'
<1>1. LinkTypeOK'
    BY Commanding DEF Linked, LinkTypeOK, BackToMenu, Unlinked, Bodies
<1>2. (\A k \in Desc : PointersOf(k))'
    BY Commanding, LinkAssumption DEF Linked, LinkTypeOK, PointersOf, BackToMenu, Bodies
<1>3. UniqueOwner'
    BY Commanding, LinkAssumption DEF Linked, LinkTypeOK, UniqueOwner, Owner, BackToMenu
<1>4. BodyOfOne'
    BY Commanding, LinkAssumption DEF Linked, LinkTypeOK, BodyOfOne, InBody, BackToMenu, Unlinked
<1> QED BY <1>1, <1>2, <1>3, <1>4 DEF Linked

\* A connection that goes into an idle mobile.
LEMMA OccupyLinked ==
    ASSUME Linked, NEW d \in Desc, NEW m \in Mobs, Commands(d), desc[m] = None,
           Occupy(d, m), UNCHANGED state
    PROVE  Linked'
<1>1. LinkTypeOK'
    BY DEF Linked, LinkTypeOK, Occupy, Commands, Bodies
<1>2. (\A k \in Desc : PointersOf(k))'
    BY LinkAssumption DEF Linked, LinkTypeOK, PointersOf, Occupy, Commands, Bodies
<1>3. UniqueOwner'
    BY LinkAssumption DEF Linked, LinkTypeOK, UniqueOwner, Owner, Occupy, Commands, PointersOf
<1>4. BodyOfOne'
    BY LinkAssumption, Commanding
       DEF Linked, LinkTypeOK, BodyOfOne, InBody, Occupy, Commands, Bodies
<1> QED BY <1>1, <1>2, <1>3, <1>4 DEF Linked

\* A connection back in its own body.
LEMMA ReturnLinked ==
    ASSUME Linked, NEW d \in Desc, original[d] # None, Return(d), UNCHANGED state
    PROVE  Linked'
<1>1. /\ state[d] = "PLYNG" /\ character[d] \in Mobs /\ original[d] \in Players
      /\ desc[character[d]] = d /\ Owner(d) = original[d]
    BY Commanding DEF Linked, LinkTypeOK, PointersOf, Owner
<1>2. desc[original[d]] \notin Desc
    BY <1>1, OwnBody
<1>3. LinkTypeOK'
    BY <1>1 DEF Linked, LinkTypeOK, Return, Bodies
<1>4. (\A k \in Desc : PointersOf(k))'
    BY <1>1, LinkAssumption DEF Linked, LinkTypeOK, PointersOf, Return, Bodies
<1>5. UniqueOwner'
    BY <1>1, LinkAssumption DEF Linked, LinkTypeOK, UniqueOwner, Owner, Return
<1>6. BodyOfOne'
    BY <1>1, <1>2, LinkAssumption DEF Linked, LinkTypeOK, BodyOfOne, InBody, Return, Bodies
<1> QED BY <1>3, <1>4, <1>5, <1>6 DEF Linked

\* The steps of the login: the claimed name is free, the body found is idle.
LEMMA LoginLinked ==
    ASSUME Linked, IdleMobs, NEW d \in Desc,
           (\E p \in Players : Claim(d, p)) \/ Reconnect(d) \/ ToMenu(d) \/ Enter(d)
    PROVE  Linked'
<1>1. CASE \E p \in Players : Claim(d, p)
    <2>1. PICK p \in Players : Claim(d, p)
        BY <1>1
    <2>2. original[d] = None /\ \A k \in Desc : state[k] # "FREE" => Owner(k) # p
        BY <2>1, LinkAssumption DEF Claim, NameTaken, Linked, PointersOf, LinkTypeOK
    <2>3. LinkTypeOK'
        BY <2>1 DEF Linked, LinkTypeOK, Claim, Bodies
    <2>4. (\A k \in Desc : PointersOf(k))'
        BY <2>1, LinkAssumption DEF Linked, LinkTypeOK, PointersOf, Claim, Bodies
    <2>5. UniqueOwner'
        BY <2>1, <2>2, LinkAssumption DEF Linked, LinkTypeOK, UniqueOwner, Owner, Claim
    <2>6. BodyOfOne'
        BY <2>1, LinkAssumption DEF Linked, LinkTypeOK, BodyOfOne, InBody, Claim
    <2> QED BY <2>3, <2>4, <2>5, <2>6 DEF Linked
<1>2. CASE Reconnect(d)
    <2>0. character[d] \in Players /\ original[d] = None
        BY <1>2, LinkAssumption DEF Reconnect, Linked, PointersOf, LinkTypeOK, Bodies
    <2>1. PICK b \in Lost(character[d]) :
              /\ desc' = [desc EXCEPT ![b] = d]
              /\ character' = [character EXCEPT ![d] = b]
              /\ original' = IF b \in Mobs THEN [original EXCEPT ![d] = orig[b]]
                             ELSE original
        BY <1>2 DEF Reconnect
    <2>2. /\ b \in Bodies
          /\ desc[b] = None
          /\ b \in Players => b = character[d]
          /\ b \in Mobs => orig[b] = character[d]
        BY <2>0, <2>1, LinkAssumption DEF Lost, IdleMobs, Bodies
    <2>3. state[d] = "PWDNRM" /\ state' = [state EXCEPT ![d] = "PLYNG"]
        BY <1>2 DEF Reconnect
    <2>4. LinkTypeOK'
        BY <2>0, <2>1, <2>2, <2>3 DEF Linked, LinkTypeOK, Bodies
    <2>5. (\A k \in Desc : PointersOf(k))'
        BY <2>0, <2>1, <2>2, <2>3, LinkAssumption DEF Linked, LinkTypeOK, PointersOf, Bodies
    <2>6. UniqueOwner'
        BY <2>0, <2>1, <2>2, <2>3, LinkAssumption
           DEF Linked, LinkTypeOK, UniqueOwner, Owner, Bodies
    <2>7. BodyOfOne'
        BY <2>0, <2>1, <2>2, <2>3, LinkAssumption DEF Linked, LinkTypeOK, BodyOfOne, InBody
    <2> QED BY <2>4, <2>5, <2>6, <2>7 DEF Linked
<1>3. CASE ToMenu(d)
    <2>1. LinkTypeOK' /\ (\A k \in Desc : PointersOf(k))' /\ UniqueOwner'
        BY <1>3, LinkAssumption
           DEF Linked, LinkTypeOK, PointersOf, UniqueOwner, Owner, ToMenu, Bodies
    <2>2. BodyOfOne'
        BY <1>3 DEF Linked, LinkTypeOK, BodyOfOne, InBody, ToMenu
    <2> QED BY <2>1, <2>2 DEF Linked
<1>4. CASE Enter(d)
    <2>1. character[d] \in Players /\ original[d] = None /\ Owner(d) = character[d]
        BY <1>4, LinkAssumption DEF Enter, Linked, PointersOf, LinkTypeOK, Bodies, Owner
    <2>2. desc[character[d]] \notin Desc
        BY <1>4, <2>1, OwnBody DEF Enter
    <2>3. LinkTypeOK' /\ (\A k \in Desc : PointersOf(k))' /\ UniqueOwner'
        BY <1>4, <2>1, LinkAssumption
           DEF Linked, LinkTypeOK, PointersOf, UniqueOwner, Owner, Enter, Bodies
    <2>4. BodyOfOne'
        BY <1>4, <2>1, <2>2, LinkAssumption
           DEF Linked, LinkTypeOK, BodyOfOne, InBody, Enter, Bodies
    <2> QED BY <2>3, <2>4 DEF Linked
<1> QED BY <1>1, <1>2, <1>3, <1>4

-----------------------------------------------------------------------------
(* Snooping.                                                               *)

\* Whoever snoops, and whoever is snooped, commands a body.
LEMMA Snooping ==
    ASSUME Linked, Snooped, NEW d \in Desc
    PROVE  /\ snooping[d] # None =>
                /\ Commands(d)
                /\ snooping[d] \in Bodies
                /\ desc[snooping[d]] \in Desc
                /\ snoopBy[desc[snooping[d]]] = character[d]
                /\ character[desc[snooping[d]]] = snooping[d]
           /\ snoopBy[d] # None =>
                /\ state[d] = "PLYNG"
                /\ snoopBy[d] \in Players
                /\ desc[snoopBy[d]] \in Desc
                /\ snooping[desc[snoopBy[d]]] = character[d]
                /\ character[desc[snoopBy[d]]] = snoopBy[d]
BY LinkAssumption
   DEF Linked, LinkTypeOK, BodyOfOne, InBody, Snooped, SnoopAgrees, SnooperIsItself, Bodies

\* A snooper that is told to stop by somebody who does not snoop leaves the same
\* pointers behind as a forgotten one.
LEMMA SnooperStopsUnsnoops ==
    ASSUME Linked, Snooped, NEW d \in Desc, state[d] = "PLYNG", snooping[d] = None,
           SnooperStops(d)
    PROVE  Unsnoop(d)
<1>1. desc[character[d]] = d
    BY Commanding
<1>2. CASE snoopBy[d] = None
    BY <1>2 DEF Snooped, SnooperStops, Unsnoop, snoop
<1>3. CASE snoopBy[d] # None
    <2>1. desc[snoopBy[d]] \in Desc /\ snooping[desc[snoopBy[d]]] = character[d]
        BY <1>3, Snooping
    <2>2. character[d] # None
        BY LinkAssumption DEF Linked, PointersOf
    <2>3. snooping' = [k \in Desc |->
              IF k = d \/ (snoopBy[d] # None /\ k = desc[snoopBy[d]]) THEN None
              ELSE snooping[k]]
        BY <1>3, <2>1 DEF SnooperStops, StopSnooping, Snooped
    <2>4. snoopBy' = [k \in Desc |->
              IF k = d \/ (snooping[d] # None /\ k = desc[snooping[d]]) THEN None
              ELSE snoopBy[k]]
        <3>1. snooping[desc[snoopBy[d]]] # None /\ desc[snooping[desc[snoopBy[d]]]] = d
            BY <1>1, <2>1, <2>2
        <3>2. snoopBy' = [j \in Desc |->
                  IF snooping[desc[snoopBy[d]]] # None /\ j = desc[snooping[desc[snoopBy[d]]]]
                  THEN None ELSE snoopBy[j]]
            BY <1>3 DEF SnooperStops, StopSnooping
        <3> QED BY <3>1, <3>2
    <2> QED BY <2>3, <2>4 DEF Unsnoop
<1> QED BY <1>2, <1>3

\* After a step that made d forget its snooping and changed nobody else's body,
\* the two ends of every snoop still agree.
LEMMA UnsnoopSnooped ==
    ASSUME Linked, Snooped, NEW d \in Desc, Unsnoop(d),
           \A k \in Desc \ {d} :
               state'[k] = state[k] /\ character'[k] = character[k]
                   /\ original'[k] = original[k],
           \A b \in Bodies : desc[b] \in Desc \ {d} => desc'[b] = desc[b]
    PROVE  Snooped'
<1>1. /\ snooping' \in [Desc -> Bodies \cup {None}]
      /\ snoopBy' \in [Desc -> Players \cup {None}]
    BY DEF Snooped, Unsnoop
<1>2. snooping'[d] = None /\ snoopBy'[d] = None
    BY DEF Unsnoop
<1>3. SnooperIsItself'
    BY <1>2 DEF Unsnoop, Snooped, SnooperIsItself, Commands
<1>4. ASSUME NEW k \in Desc, snooping'[k] # None
      PROVE  /\ desc'[snooping'[k]] # None
             /\ snoopBy'[desc'[snooping'[k]]] = character'[k]
    <2>1. k # d /\ snooping'[k] = snooping[k] /\ snooping[k] # None
        BY <1>2, <1>4 DEF Unsnoop
    <2>2. snoopBy[d] = None \/ k # desc[snoopBy[d]]
        BY <1>4 DEF Unsnoop
    <2> DEFINE j == desc[snooping[k]]
    <2>3. /\ Commands(k) /\ snooping[k] \in Bodies /\ j \in Desc
          /\ snoopBy[j] = character[k]
        BY <2>1, Snooping
    <2>4. desc[character[k]] = k
        BY <2>3, Commanding DEF Commands
    <2>5. j # d
        BY <2>2, <2>3, <2>4, LinkAssumption DEF Commands
    <2>6. desc'[snooping[k]] = j
        BY <2>3, <2>5
    <2>7. snooping[d] = None \/ j # desc[snooping[d]]
        BY <2>1, <2>3, <2>4, Snooping, Commanding DEF Commands
    <2>8. snoopBy'[j] = snoopBy[j]
        BY <2>3, <2>5, <2>7 DEF Unsnoop
    <2> QED BY <2>1, <2>3, <2>6, <2>8, LinkAssumption
<1>5. ASSUME NEW k \in Desc, snoopBy'[k] # None
      PROVE  /\ state'[k] = "PLYNG"
             /\ desc'[snoopBy'[k]] # None
             /\ snooping'[desc'[snoopBy'[k]]] = character'[k]
    <2>1. k # d /\ snoopBy'[k] = snoopBy[k] /\ snoopBy[k] # None
        BY <1>2, <1>5 DEF Unsnoop
    <2>2. snooping[d] = None \/ k # desc[snooping[d]]
        BY <1>5 DEF Unsnoop
    <2> DEFINE j == desc[snoopBy[k]]
    <2>3. /\ snoopBy[k] \in Players /\ j \in Desc
          /\ snooping[j] = character[k] /\ character[j] = snoopBy[k]
        BY <2>1, Snooping
    <2>4. state[k] = "PLYNG"
        BY <2>1, Snooping
    <2>5. desc[character[k]] = k /\ character[k] # None
        BY <2>4, Commanding, LinkAssumption DEF Bodies
    <2>6. j # d
        BY <2>2, <2>3, <2>5
    <2>7. desc'[snoopBy[k]] = j
        BY <2>3, <2>6 DEF Bodies
    <2>8. snoopBy[d] = None \/ j # desc[snoopBy[d]]
        BY <2>1, <2>3, <2>4, <2>5, Snooping, Commanding
    <2>9. snooping'[j] = snooping[j]
        BY <2>3, <2>6, <2>8 DEF Unsnoop
    <2> QED BY <2>1, <2>3, <2>4, <2>7, <2>9, LinkAssumption
<1> QED BY <1>1, <1>3, <1>4, <1>5 DEF Snooped, SnoopAgrees

\* A step that leaves the descriptors' and the bodies' pointers alone.
LEMMA LinksUnchanged ==
    ASSUME Linked, UNCHANGED links
    PROVE  Linked'
BY DEF links, Linked, LinkTypeOK, PointersOf, UniqueOwner, Owner, BodyOfOne, InBody

LEMMA SnoopUnchanged ==
    ASSUME Snooped, UNCHANGED <<links, snoop>>
    PROVE  Snooped'
BY DEF links, snoop, Snooped, SnoopAgrees, SnooperIsItself, Commands

-----------------------------------------------------------------------------
(* The bodies in the game.                                                 *)

LEMMA Extraction ==
    ASSUME WorldTypeOK, IdleMobs, NEW gone, Extract(gone),
           \A m \in Mobs : IF m \in gone THEN desc'[m] = None
                           ELSE desc'[m] \in {desc[m], None}
    PROVE  WorldTypeOK' /\ IdleMobs'
<1>1. WorldTypeOK'
    BY DEF WorldTypeOK, Extract
<1>2. IdleMobs'
    BY DEF WorldTypeOK, IdleMobs, Extract, Bodies
<1> QED BY <1>1, <1>2

\* Where Unlinked leaves the mobiles.
LEMMA UnlinkedMobs ==
    ASSUME Linked, NEW d \in Desc, desc' = Unlinked(d)
    PROVE  /\ \A b \in Bodies : desc'[b] \in {desc[b], None}
           /\ \A b \in Bodies : desc[b] # d => desc'[b] = desc[b]
           /\ state[d] = "PLYNG" => desc'[character[d]] = None
<1>1. CASE state[d] = "PLYNG"
    BY <1>1, Commanding DEF Unlinked, Linked, LinkTypeOK
<1>2. CASE state[d] # "PLYNG"
    BY <1>2 DEF Unlinked
<1> QED BY <1>1, <1>2

-----------------------------------------------------------------------------
(* One lemma for each group of steps.                                      *)

\* Freed descriptors, with or without the bodies.
LEMMA FreeStep ==
    ASSUME LinkInv, NEW d \in Desc, CloseSocket(d) \/ ForceOut(d) \/ PolyIdlesOut(d)
    PROVE  LinkInv'
<1>1. Linked /\ WorldTypeOK /\ IdleMobs /\ Snooped
    BY Parts
<1>2. Free(d) /\ Unsnoop(d)
    BY DEF CloseSocket, ForceOut, PolyIdlesOut
<1>3. Linked'
    BY <1>1, <1>2, FreeLinked
<1>4. desc' = Unlinked(d)
    BY <1>2 DEF Free
<1>5. Snooped'
    BY <1>1, <1>2, <1>4, UnsnoopSnooped, UnlinkedMobs DEF Free, Linked, LinkTypeOK
<1>6. WorldTypeOK' /\ IdleMobs'
    <2>1. CASE CloseSocket(d)
        <3>1. WorldTypeOK'
            BY <1>1, <2>1, Commanding DEF CloseSocket, WorldTypeOK
        <3>2. IdleMobs'
            BY <1>1, <1>4, <2>1, UnlinkedMobs, Commanding, LinkAssumption
               DEF CloseSocket, IdleMobs, WorldTypeOK, Bodies, Linked, LinkTypeOK
        <3> QED BY <3>1, <3>2
    <2>2. CASE ForceOut(d) \/ PolyIdlesOut(d)
        <3>1. Extract({character[d]}) /\ state[d] = "PLYNG"
            BY <2>2 DEF ForceOut, PolyIdlesOut, Commands
        <3>2. \A m \in Mobs : IF m \in {character[d]} THEN desc'[m] = None
                              ELSE desc'[m] \in {desc[m], None}
            BY <1>1, <1>4, <3>1, UnlinkedMobs DEF Bodies
        <3> QED BY <1>1, <3>1, <3>2, Extraction
    <2> QED BY <2>1, <2>2
<1> QED BY <1>3, <1>5, <1>6, PartsNext

\* Descriptors sent back to the menu.
LEMMA MenuStep ==
    ASSUME LinkInv, NEW d \in Desc, LeaveGame(d) \/ OriginalGone(d) \/ PolyDies(d)
    PROVE  LinkInv'
<1>1. Linked /\ WorldTypeOK /\ IdleMobs /\ Snooped
    BY Parts
<1>2. state[d] = "PLYNG" /\ BackToMenu(d)
    BY DEF LeaveGame, OriginalGone, PolyDies, Commands
<1>3. Linked'
    BY <1>1, <1>2, BackToMenuLinked
<1>4. Unsnoop(d)
    <2>1. CASE OriginalGone(d)
        BY <1>1, <1>2, <2>1, SnooperStopsUnsnoops, LinkAssumption
           DEF OriginalGone, Snooped, SnooperIsItself, Bodies, WorldTypeOK
    <2>2. CASE LeaveGame(d) \/ PolyDies(d)
        BY <2>2 DEF LeaveGame, PolyDies
    <2> QED BY <2>1, <2>2
<1>5. desc' = Unlinked(d)
    BY <1>2 DEF BackToMenu
<1>6. Snooped'
    BY <1>1, <1>2, <1>4, <1>5, UnsnoopSnooped, UnlinkedMobs
       DEF BackToMenu, Linked, LinkTypeOK
<1>7. PICK gone : /\ Extract(gone)
                  /\ gone \cap Mobs \subseteq {character[d]}
    BY <1>1, LinkAssumption DEF LeaveGame, OriginalGone, PolyDies, Linked, LinkTypeOK
<1>8. \A m \in Mobs : IF m \in gone THEN desc'[m] = None
                      ELSE desc'[m] \in {desc[m], None}
    BY <1>1, <1>2, <1>5, <1>7, UnlinkedMobs DEF Bodies
<1>9. WorldTypeOK' /\ IdleMobs'
    BY <1>1, <1>7, <1>8, Extraction
<1> QED BY <1>3, <1>6, <1>9, PartsNext

\* Into a mobile.
LEMMA OccupyStep ==
    ASSUME LinkInv, ~StaleSwitch, NEW d \in Desc, NEW m \in Mobs,
           DoSwitch(d, m) \/ PolySelf(d, m)
    PROVE  LinkInv'
<1>1. Linked /\ WorldTypeOK /\ IdleMobs /\ Snooped
    BY Parts
<1>2. /\ Commands(d) /\ desc[m] = None /\ orig[m] = None
      /\ Occupy(d, m) /\ UNCHANGED <<state, orig>>
    BY <1>1 DEF DoSwitch, PolySelf, Load, IdleMobs
<1>3. Linked'
    BY <1>1, <1>2, OccupyLinked
<1>4. Unsnoop(d)
    <2>1. CASE DoSwitch(d, m)
        BY <1>1, <2>1 DEF DoSwitch, Unsnoop, snoop, Snooped
    <2>2. CASE PolySelf(d, m)
        BY <1>1, <2>2, SnooperStopsUnsnoops DEF PolySelf, Commands
    <2> QED BY <2>1, <2>2
<1>5. \A b \in Bodies : desc[b] \in Desc \ {d} => desc'[b] = desc[b]
    BY <1>1, <1>2, Commanding, LinkAssumption DEF Commands, Occupy, Linked, LinkTypeOK
<1>6. Snooped'
    BY <1>1, <1>2, <1>4, <1>5, UnsnoopSnooped DEF Occupy, Linked, LinkTypeOK
<1>7. WorldTypeOK'
    BY <1>1, <1>2 DEF DoSwitch, PolySelf, Load, WorldTypeOK, Bodies
<1>8. m \in inGame' /\ inGame \subseteq inGame'
    BY DEF DoSwitch, PolySelf, Load
<1>9. IdleMobs'
    BY <1>1, <1>2, <1>8, LinkAssumption
       DEF Commands, Occupy, IdleMobs, Linked, LinkTypeOK, WorldTypeOK, Bodies
<1> QED BY <1>3, <1>6, <1>7, <1>9, PartsNext

\* Back from a mobile, which may be extracted.
LEMMA ReturnStep ==
    ASSUME LinkInv, NEW d \in Desc, state[d] = "PLYNG", original[d] # None,
           Return(d), Unsnoop(d), UNCHANGED state,
           Extract({character[d]}) \/ UNCHANGED <<orig, inGame, older, poly>>
    PROVE  LinkInv'
<1>1. Linked /\ WorldTypeOK /\ IdleMobs /\ Snooped
    BY Parts
<1>2. Linked'
    BY <1>1, ReturnLinked
<1>3. character[d] \in Mobs /\ desc[character[d]] = d /\ original[d] \in Players
    BY <1>1, Commanding DEF Linked, LinkTypeOK, PointersOf
<1>4. desc[original[d]] \notin Desc
    BY <1>1, <1>3, OwnBody, LinkAssumption DEF Owner
<1>5. Snooped'
    BY <1>1, <1>3, <1>4, UnsnoopSnooped DEF Return, Linked, LinkTypeOK
<1>6. /\ \A m \in Mobs : desc'[m] \in {desc[m], None}
      /\ desc'[character[d]] = None
    BY <1>1, <1>3, LinkAssumption DEF Return, Linked, LinkTypeOK, Bodies
<1>7. WorldTypeOK' /\ IdleMobs'
    <2>1. CASE Extract({character[d]})
        BY <1>1, <1>6, <2>1, Extraction
    <2>2. CASE UNCHANGED <<orig, inGame, older, poly>>
        BY <1>1, <1>6, <2>2 DEF WorldTypeOK, IdleMobs
    <2> QED BY <2>1, <2>2
<1> QED BY <1>2, <1>5, <1>7, PartsNext

LEMMA DoReturnStep ==
    ASSUME LinkInv, NEW d \in Desc, NEW typed \in BOOLEAN, DoReturn(d, typed)
    PROVE  LinkInv'
<1>1. state[d] = "PLYNG" /\ original[d] # None /\ snooping[d] = None
    BY DEF DoReturn, LinkInv, SnooperIsItself
<1>2. Unsnoop(d)
    BY <1>1, SnooperStopsUnsnoops, Parts DEF DoReturn
<1> QED BY <1>1, <1>2, ReturnStep DEF DoReturn

LEMMA MobGoneStep ==
    ASSUME LinkInv, NEW m \in Mobs, MobGone(m)
    PROVE  LinkInv'
<1>1. Linked /\ WorldTypeOK /\ IdleMobs /\ Snooped
    BY Parts
<1>2. CASE desc[m] = None
    <2>1. Linked' /\ Snooped'
        BY <1>1, <1>2, LinksUnchanged, SnoopUnchanged DEF MobGone
    <2>2. WorldTypeOK' /\ IdleMobs'
        BY <1>1, <1>2, Extraction DEF MobGone, links
    <2> QED BY <2>1, <2>2, PartsNext
<1>3. CASE desc[m] # None
    <2>1. /\ desc[m] \in Desc /\ state[desc[m]] = "PLYNG"
          /\ character[desc[m]] = m
        BY <1>1, <1>3 DEF Linked, LinkTypeOK, BodyOfOne, InBody, Bodies
    <2> QED BY <1>3, <2>1, ReturnStep DEF MobGone
<1> QED BY <1>2, <1>3

\* The steps of the login.
LEMMA LoginStep ==
    ASSUME LinkInv, NEW d \in Desc,
           (\E p \in Players : Claim(d, p)) \/ Reconnect(d) \/ ToMenu(d) \/ Enter(d)
    PROVE  LinkInv'
<1>1. Linked /\ WorldTypeOK /\ IdleMobs /\ Snooped
    BY Parts
<1>2. Linked'
    BY <1>1, LoginLinked
<1>3. state[d] # "PLYNG" /\ snooping[d] = None /\ snoopBy[d] = None
    BY <1>1, Snooping DEF Claim, Reconnect, ToMenu, Enter, Commands
<1>4. Unsnoop(d)
    BY <1>1, <1>3 DEF Claim, Reconnect, ToMenu, Enter, snoop, Unsnoop, Snooped
<1>5. \A k \in Desc \ {d} : state'[k] = state[k] /\ character'[k] = character[k]
                                /\ original'[k] = original[k]
    BY <1>1 DEF Claim, Reconnect, ToMenu, Enter, Linked, LinkTypeOK
<1>6. /\ \A b \in Bodies : desc[b] \in Desc \ {d} => desc'[b] = desc[b]
      /\ WorldTypeOK' /\ IdleMobs'
    <2>1. CASE (\E p \in Players : Claim(d, p)) \/ ToMenu(d)
        BY <1>1, <2>1 DEF Claim, ToMenu, WorldTypeOK, IdleMobs
    <2>2. CASE Enter(d)
        <3>1. character[d] \in Players /\ Owner(d) = character[d]
            BY <1>1, <2>2, LinkAssumption
               DEF Enter, Linked, PointersOf, LinkTypeOK, Bodies, Owner
        <3>2. desc[character[d]] \notin Desc
            BY <1>1, <2>2, <3>1, OwnBody DEF Enter
        <3> QED
            BY <1>1, <2>2, <3>1, <3>2, LinkAssumption
               DEF Enter, WorldTypeOK, IdleMobs, Linked, LinkTypeOK, Bodies
    <2>3. CASE Reconnect(d)
        <3>1. PICK b \in Lost(character[d]) :
                  /\ desc' = [desc EXCEPT ![b] = d]
                  /\ orig' = IF b \in Mobs THEN [orig EXCEPT ![b] = None] ELSE orig
            BY <2>3 DEF Reconnect
        <3>2. character[d] \in Players
            BY <1>1, <2>3, LinkAssumption DEF Reconnect, Linked, PointersOf, LinkTypeOK, Bodies
        <3>3. b \in Bodies /\ b \in inGame /\ desc[b] = None
            BY <1>1, <3>1, <3>2, LinkAssumption DEF Lost, IdleMobs, Bodies
        <3> QED
            BY <1>1, <2>3, <3>1, <3>3, LinkAssumption
               DEF Reconnect, WorldTypeOK, IdleMobs, Linked, LinkTypeOK, Bodies
    <2> QED BY <2>1, <2>2, <2>3
<1>7. Snooped'
    BY <1>1, <1>4, <1>5, <1>6, UnsnoopSnooped
<1> QED BY <1>2, <1>6, <1>7, PartsNext

\* Snooping and stopping.
LEMMA SnoopStep ==
    ASSUME LinkInv, NEW d \in Desc, DoSnoopSelf(d) \/ \E b \in Bodies : DoSnoop(d, b)
    PROVE  LinkInv'
<1>1. Linked /\ WorldTypeOK /\ IdleMobs /\ Snooped
    BY Parts
<1>2. UNCHANGED <<links, orig, inGame, older, poly>> /\ Commands(d)
    BY DEF DoSnoopSelf, DoSnoop
<1>3. Linked' /\ WorldTypeOK' /\ IdleMobs'
    BY <1>1, <1>2, LinksUnchanged DEF WorldTypeOK, IdleMobs, links
<1>4. Snooped'
    <2>1. \A k \in Desc : state[k] = "PLYNG" => desc[character[k]] = k
        BY <1>1, Commanding
    <2>2. CASE DoSnoopSelf(d)
        BY <1>1, <1>2, <2>1, <2>2, Snooping, LinkAssumption
           DEF DoSnoopSelf, StopSnooping, Snooped, SnoopAgrees, SnooperIsItself, Commands, links
    <2>3. CASE \E b \in Bodies : DoSnoop(d, b)
        <3>1. PICK b \in Bodies : DoSnoop(d, b)
            BY <2>3
        <3>2. desc[b] \in Desc /\ state[desc[b]] = "PLYNG" /\ character[desc[b]] = b
            BY <1>1, <3>1 DEF DoSnoop, Linked, LinkTypeOK, BodyOfOne, InBody
        <3>3. original[d] = None
            BY <1>1, <1>2, Commanding DEF Commands
        <3>4. /\ snooping' = [snooping EXCEPT ![d] = b]
              /\ snoopBy[desc[b]] = None /\ snoopBy'[desc[b]] = character[d]
              /\ \A k \in Desc \ {desc[b]} :
                   snoopBy'[k] = IF snooping[d] # None /\ k = desc[snooping[d]]
                                 THEN None ELSE snoopBy[k]
            BY <3>1, <3>2 DEF DoSnoop
        <3>5. UNCHANGED <<state, character, original, desc>>
            BY <1>2 DEF links
        <3>6. ASSUME NEW k \in Desc, snooping'[k] # None
              PROVE  /\ Commands(k)' /\ original'[k] = None
                     /\ desc'[snooping'[k]] # None
                     /\ snoopBy'[desc'[snooping'[k]]] = character'[k]
            <4>1. CASE k = d
                BY <1>1, <1>2, <3>2, <3>3, <3>4, <3>5, <4>1, LinkAssumption
                   DEF Commands, Snooped
            <4>2. CASE k # d
                <5>1. snooping'[k] = snooping[k] /\ snooping[k] # None
                    BY <1>1, <3>4, <3>6, <4>2 DEF Snooped
                <5>2. /\ Commands(k) /\ desc[snooping[k]] \in Desc
                      /\ snoopBy[desc[snooping[k]]] = character[k]
                      /\ original[k] = None
                    BY <1>1, <5>1, Snooping DEF Snooped, SnooperIsItself
                <5>3. desc[snooping[k]] # desc[b]
                    BY <3>4, <5>2, LinkAssumption DEF Commands
                <5>4. snooping[d] = None \/ desc[snooping[k]] # desc[snooping[d]]
                    BY <1>1, <1>2, <2>1, <4>2, <5>2, Snooping DEF Commands
                <5> QED BY <3>4, <3>5, <5>1, <5>2, <5>3, <5>4, LinkAssumption DEF Commands
            <4> QED BY <4>1, <4>2
        <3>7. ASSUME NEW k \in Desc, snoopBy'[k] # None
              PROVE  /\ state'[k] = "PLYNG"
                     /\ desc'[snoopBy'[k]] # None
                     /\ snooping'[desc'[snoopBy'[k]]] = character'[k]
            <4>1. CASE k = desc[b]
                BY <1>1, <1>2, <2>1, <3>2, <3>4, <3>5, <4>1, LinkAssumption
                   DEF Commands, Snooped
            <4>2. CASE k # desc[b]
                <5>1. /\ snoopBy'[k] = snoopBy[k] /\ snoopBy[k] # None
                      /\ snooping[d] = None \/ k # desc[snooping[d]]
                    BY <3>4, <3>7, <4>2
                <5>2. /\ state[k] = "PLYNG" /\ desc[snoopBy[k]] \in Desc
                      /\ snooping[desc[snoopBy[k]]] = character[k]
                    BY <1>1, <5>1, Snooping
                <5>3. desc[snoopBy[k]] # d
                    BY <1>1, <2>1, <5>1, <5>2, Commanding, LinkAssumption DEF Bodies
                <5> QED BY <1>1, <3>4, <3>5, <5>1, <5>2, <5>3, LinkAssumption DEF Snooped
            <4> QED BY <4>1, <4>2
        <3>8. /\ snooping' \in [Desc -> Bodies \cup {None}]
              /\ snoopBy' \in [Desc -> Players \cup {None}]
            BY <1>1, <1>2, <3>1 DEF DoSnoop, Snooped, Commands
        <3> QED BY <3>6, <3>7, <3>8 DEF Snooped, SnoopAgrees, SnooperIsItself
    <2> QED BY <2>2, <2>3
<1> QED BY <1>3, <1>4, PartsNext

\* Bodies that no connection commands come and go.
LEMMA BodyStep ==
    ASSUME LinkInv,
           \/ \E p \in Players : LinkdeadGone(p)
           \/ \E d \in Desc : OriginalLost(d)
           \/ \E m \in Mobs : MobLoads(m)
    PROVE  LinkInv'
<1>1. Linked /\ WorldTypeOK /\ IdleMobs /\ Snooped
    BY Parts
<1>2. UNCHANGED <<links, snoop>>
    BY DEF LinkdeadGone, OriginalLost, MobLoads
<1>3. Linked' /\ Snooped'
    BY <1>1, <1>2, LinksUnchanged, SnoopUnchanged
<1>4. WorldTypeOK' /\ IdleMobs'
    <2>1. CASE \E m \in Mobs : MobLoads(m)
        BY <1>1, <2>1 DEF MobLoads, Load, WorldTypeOK, IdleMobs, links, Bodies
    <2>2. CASE (\E p \in Players : LinkdeadGone(p)) \/ \E d \in Desc : OriginalLost(d)
        <3>1. PICK p \in Players : Extract({p})
            BY <1>1, <2>2, LinkAssumption
               DEF LinkdeadGone, OriginalLost, Linked, LinkTypeOK, WorldTypeOK, Bodies
        <3> QED BY <1>1, <1>2, <3>1, Extraction, LinkAssumption DEF links
    <2> QED BY <2>1, <2>2
<1> QED BY <1>3, <1>4, PartsNext

LEMMA InitInv == Init => LinkInv
BY LinkAssumption
   DEF Init, LinkInv, TypeOK, PointersOf, UniqueOwner, IdleMobs, BodyOfOne, InBody,
       SnoopAgrees, SnooperIsItself, Bodies

LEMMA RestartStep ==
    ASSUME Restart
    PROVE  LinkInv'
BY LinkAssumption
   DEF Restart, LinkInv, TypeOK, PointersOf, UniqueOwner, IdleMobs, BodyOfOne, InBody,
       SnoopAgrees, SnooperIsItself, Bodies

LEMMA StutterStep ==
    ASSUME LinkInv, UNCHANGED vars
    PROVE  LinkInv'
<1>1. UNCHANGED <<links, snoop, orig, inGame, older, poly>>
    BY DEF vars, links, snoop
<1>2. Linked /\ WorldTypeOK /\ IdleMobs /\ Snooped
    BY Parts
<1>3. Linked' /\ Snooped'
    BY <1>1, <1>2, LinksUnchanged, SnoopUnchanged
<1>4. WorldTypeOK' /\ IdleMobs'
    BY <1>1, <1>2 DEF WorldTypeOK, IdleMobs, links
<1> QED BY <1>3, <1>4, PartsNext

LEMMA InvStep ==
    ASSUME LinkInv, ~StaleSwitch, [Next]_vars
    PROVE  LinkInv'
<1>1. CASE \E d \in Desc : Connection(d)
    BY <1>1, LoginStep, FreeStep DEF Connection
<1>2. CASE \E d \in Desc : Shape(d)
    BY <1>2, OccupyStep, DoReturnStep, SnoopStep DEF Shape
<1>3. CASE \E d \in Desc : Departure(d)
    BY <1>3, MenuStep, FreeStep, BodyStep DEF Departure
<1>4. CASE (\E p \in Players : LinkdeadGone(p)) \/ \E m \in Mobs : MobLoads(m)
    BY <1>4, BodyStep
<1>5. CASE \E m \in Mobs : MobGone(m)
    BY <1>5, MobGoneStep
<1>6. CASE Restart
    BY <1>6, RestartStep
<1>7. CASE UNCHANGED vars
    BY <1>7, StutterStep
<1> QED BY <1>1, <1>2, <1>3, <1>4, <1>5, <1>6, <1>7 DEF Next

\* While no wizard switches into a mobile that a link-dead player was in, the
\* invariant holds of every behaviour.
THEOREM InvHolds ==
    ASSUME ~StaleSwitch
    PROVE  Spec => []LinkInv
<1>1. LinkInv /\ [Next]_vars => LinkInv'
    BY InvStep
<1> QED BY <1>1, InitInv, PTL DEF Spec

\* The four pointers and the two of the snoop structure keep their types: in
\* particular nobody's original is ever a mobile.
THEOREM LinkTypeCorrect ==
    ASSUME ~StaleSwitch
    PROVE  Spec => []TypeOK
<1>1. LinkInv => TypeOK
    BY DEF LinkInv
<1> QED BY <1>1, InvHolds, PTL

\* A body in the game is commanded by the one connection it points to.
THEOREM OneConnectionOfABody ==
    ASSUME ~StaleSwitch
    PROVE  Spec => []BodyOfOne
<1>1. LinkInv => BodyOfOne
    BY DEF LinkInv
<1> QED BY <1>1, InvHolds, PTL

\* The two ends of every snoop agree, so that close_socket never follows a null
\* pointer.
THEOREM SnoopsAgree ==
    ASSUME ~StaleSwitch
    PROVE  Spec => []SnoopAgrees
<1>1. LinkInv => SnoopAgrees
    BY DEF LinkInv
<1> QED BY <1>1, InvHolds, PTL

\* Nobody snoops from a borrowed body.
THEOREM SnoopersAreThemselves ==
    ASSUME ~StaleSwitch
    PROVE  Spec => []SnooperIsItself
<1>1. LinkInv => SnooperIsItself
    BY DEF LinkInv
<1> QED BY <1>1, InvHolds, PTL

-----------------------------------------------------------------------------
(* The links implement PlayerSession.                                      *)

\* A player in the menu has no body in the game: the password would have led
\* back to it.  With it LinkInv is enough to show each step to be an abstract one.
MenuIsAway == \A d \in Desc : state[d] = "MENU" => Lost(character[d]) = {}

Playing(p) == \E d \in Desc : state[d] = "PLYNG" /\ Owner(d) = p

\* The owner behind a connection is a player.
LEMMA OwnerIs ==
    ASSUME LinkInv, NEW d \in Desc, state[d] # "FREE"
    PROVE  /\ Owner(d) \in Players
           /\ state[d] # "PLYNG" => Owner(d) = character[d] /\ original[d] = None
           /\ original[d] # None => Owner(d) = original[d]
BY LinkAssumption DEF LinkInv, TypeOK, PointersOf, Owner, Bodies

\* What Holder and Body are, of a player with a connection and of one without.
LEMMA HolderIs ==
    ASSUME LinkInv, NEW d \in Desc, state[d] # "FREE", NEW p \in Players, Owner(d) = p
    PROVE  Holder(p) = d /\ (Playing(p) <=> state[d] = "PLYNG")
BY LinkAssumption DEF LinkInv, UniqueOwner, Holder, NameTaken, Playing

LEMMA HolderIsNext ==
    ASSUME LinkInv', NEW d \in Desc, state'[d] # "FREE", NEW p \in Players, Owner(d)' = p
    PROVE  Holder(p)' = d /\ (Playing(p)' <=> state'[d] = "PLYNG")
BY LinkAssumption DEF LinkInv, UniqueOwner, Holder, NameTaken, Playing

LEMMA BodyIs ==
    ASSUME NEW p
    PROVE  Body(p) = IF Playing(p) THEN "playing"
                     ELSE IF Lost(p) # {} THEN "linkdead" ELSE "absent"
BY DEF Body, Playing

LEMMA BodyIsNext ==
    ASSUME NEW p
    PROVE  Body(p)' = IF Playing(p)' THEN "playing"
                      ELSE IF Lost(p)' # {} THEN "linkdead" ELSE "absent"
BY DEF Body, Playing

\* A step of connection d keeps the others' states and pointers.
Alone(d) ==
    \A k \in Desc \ {d} :
        state'[k] = state[k] /\ character'[k] = character[k] /\ original'[k] = original[k]

\* It leaves the players alone that are not behind d.
LEMMA OthersKeep ==
    ASSUME LinkInv, LinkInv', NEW d \in Desc, Alone(d),
           NEW p \in Players,
           state[d] = "FREE" \/ Owner(d) # p,
           state'[d] = "FREE" \/ Owner(d)' # p,
           Lost(p)' = {} <=> Lost(p) = {}
    PROVE  Holder(p)' = Holder(p) /\ Body(p)' = Body(p)
<1>1. \A k \in Desc \ {d} : Owner(k)' = Owner(k)
    BY DEF Alone, Owner
<1>2. CASE NameTaken(p)
    <2>1. PICK k \in Desc : state[k] # "FREE" /\ Owner(k) = p
        BY <1>2 DEF NameTaken
    <2>2. k # d /\ state'[k] = state[k] /\ Owner(k)' = p
        BY <1>1, <2>1 DEF Alone
    <2>3. Holder(p) = k /\ (Playing(p) <=> state[k] = "PLYNG")
        BY <2>1, HolderIs
    <2>4. Holder(p)' = k /\ (Playing(p)' <=> state'[k] = "PLYNG")
        BY <2>1, <2>2, HolderIsNext
    <2> QED BY <2>2, <2>3, <2>4, BodyIs, BodyIsNext
<1>3. CASE ~NameTaken(p)
    <2>1. \A k \in Desc : state'[k] = "FREE" \/ Owner(k)' # p
        BY <1>1, <1>3 DEF NameTaken, Alone
    <2>2. Holder(p) = None /\ ~Playing(p)
        BY <1>3 DEF Holder, NameTaken, Playing
    <2>3. Holder(p)' = None /\ ~Playing(p)'
        BY <2>1 DEF Holder, NameTaken, Playing
    <2> QED BY <2>2, <2>3, BodyIs, BodyIsNext
<1> QED BY <1>2, <1>3

\* What decides where a player without a connection is found.
LEMMA LostKept ==
    ASSUME NEW p \in Players,
           p \in inGame' <=> p \in inGame,
           desc'[p] = None <=> desc[p] = None,
           \A m \in Mobs : m \in inGame' /\ orig'[m] = p <=> m \in inGame /\ orig[m] = p
    PROVE  Lost(p)' = Lost(p)
BY DEF Lost

\* The abstract state before and after a step that concerns player p.
LEMMA StepOf ==
    ASSUME NEW p \in Players, NEW h, NEW b,
           \A q \in Players \ {p} : Holder(q)' = Holder(q) /\ Body(q)' = Body(q),
           Holder(p)' = h, Body(p)' = b
    PROVE  /\ [q \in Players |-> Holder(q)]'
                = [[q \in Players |-> Holder(q)] EXCEPT ![p] = h]
           /\ [q \in Players |-> Body(q)]'
                = [[q \in Players |-> Body(q)] EXCEPT ![p] = b]
OBVIOUS

LEMMA StutterOf ==
    ASSUME \A q \in Players : Holder(q)' = Holder(q) /\ Body(q)' = Body(q)
    PROVE  UNCHANGED Session!svars
BY DEF Session!svars

\* Connection d keeps its player p.
LEMMA KeepsPlayer ==
    ASSUME LinkInv, LinkInv', NEW d \in Desc, Alone(d), NEW p \in Players,
           state[d] # "FREE", Owner(d) = p, state'[d] # "FREE", Owner(d)' = p,
           \A q \in Players \ {p} : Lost(q)' = {} <=> Lost(q) = {}
    PROVE  /\ [q \in Players |-> Holder(q)][p] = d
           /\ UNCHANGED [q \in Players |-> Holder(q)]
           /\ [q \in Players |-> Body(q)]'
                = [[q \in Players |-> Body(q)] EXCEPT ![p] = Body(p)']
           /\ Playing(p) <=> state[d] = "PLYNG"
           /\ Playing(p)' <=> state'[d] = "PLYNG"
<1>1. Holder(p) = d /\ (Playing(p) <=> state[d] = "PLYNG")
    BY HolderIs
<1>2. Holder(p)' = d /\ (Playing(p)' <=> state'[d] = "PLYNG")
    BY HolderIsNext
<1>3. \A q \in Players \ {p} : Holder(q)' = Holder(q) /\ Body(q)' = Body(q)
    BY OthersKeep
<1> QED BY <1>1, <1>2, <1>3

\* ... and the player stays where it was.
LEMMA StaysStutter ==
    ASSUME LinkInv, LinkInv', NEW d \in Desc, Alone(d), NEW p \in Players,
           state[d] # "FREE", Owner(d) = p, state'[d] # "FREE", Owner(d)' = p,
           \A q \in Players \ {p} : Lost(q)' = {} <=> Lost(q) = {},
           state'[d] = "PLYNG" <=> state[d] = "PLYNG",
           state[d] = "PLYNG" \/ (Lost(p)' = {} <=> Lost(p) = {})
    PROVE  UNCHANGED Session!svars
<1>1. Holder(p) = d /\ (Playing(p) <=> state[d] = "PLYNG")
    BY HolderIs
<1>2. Holder(p)' = d /\ (Playing(p)' <=> state'[d] = "PLYNG")
    BY HolderIsNext
<1>3. \A q \in Players \ {p} : Holder(q)' = Holder(q) /\ Body(q)' = Body(q)
    BY OthersKeep
<1>4. Holder(p)' = Holder(p) /\ Body(p)' = Body(p)
    BY <1>1, <1>2, BodyIs, BodyIsNext
<1> QED BY <1>3, <1>4, StutterOf

\* Connection d goes away.
LEMMA FreesPlayer ==
    ASSUME LinkInv, LinkInv', NEW d \in Desc, Alone(d), NEW p \in Players,
           state[d] # "FREE", Owner(d) = p, state'[d] = "FREE",
           \A q \in Players \ {p} : Lost(q)' = {} <=> Lost(q) = {}
    PROVE  /\ [q \in Players |-> Holder(q)][p] = d
           /\ [q \in Players |-> Holder(q)]'
                = [[q \in Players |-> Holder(q)] EXCEPT ![p] = None]
           /\ [q \in Players |-> Body(q)]'
                = [[q \in Players |-> Body(q)]
                     EXCEPT ![p] = IF Lost(p)' # {} THEN "linkdead" ELSE "absent"]
           /\ Playing(p) <=> state[d] = "PLYNG"
<1>1. Holder(p) = d /\ (Playing(p) <=> state[d] = "PLYNG")
    BY HolderIs
<1>2. \A k \in Desc : state'[k] = "FREE" \/ Owner(k)' # p
    BY DEF LinkInv, UniqueOwner, Alone, Owner
<1>3. Holder(p)' = None /\ ~Playing(p)'
    BY <1>2 DEF Holder, NameTaken, Playing
<1>4. \A q \in Players \ {p} : Holder(q)' = Holder(q) /\ Body(q)' = Body(q)
    BY OthersKeep
<1>5. Body(p)' = IF Lost(p)' # {} THEN "linkdead" ELSE "absent"
    BY <1>3, BodyIsNext
<1> QED BY <1>1, <1>3, <1>4, <1>5

\* A step that changes no connection, and no player's place but p's.
LEMMA NoConnection ==
    ASSUME NEW p \in Players, UNCHANGED <<state, character, original>>,
           \A q \in Players \ {p} : Lost(q)' = {} <=> Lost(q) = {},
           Playing(p) \/ (Lost(p)' = {} <=> Lost(p) = {})
    PROVE  UNCHANGED Session!svars
<1>1. \A q \in Players : /\ Playing(q)' <=> Playing(q)
                         /\ Holder(q)' = Holder(q)
    BY DEF Playing, Holder, NameTaken, Owner
<1>2. \A q \in Players : Body(q)' = Body(q)
    BY <1>1, BodyIs, BodyIsNext
<1> QED BY <1>1, <1>2, StutterOf

LEMMA VanishStep ==
    ASSUME NEW p \in Players, UNCHANGED <<state, character, original>>,
           \A q \in Players \ {p} : Lost(q)' = {} <=> Lost(q) = {},
           ~Playing(p), Lost(p) # {}, Lost(p)' = {}
    PROVE  Session!Vanish(p)
<1>1. \A q \in Players : /\ Playing(q)' <=> Playing(q)
                         /\ Holder(q)' = Holder(q)
    BY DEF Playing, Holder, NameTaken, Owner
<1>2. \A q \in Players \ {p} : Body(q)' = Body(q)
    BY <1>1, BodyIs, BodyIsNext
<1>3. Body(p) = "linkdead" /\ Body(p)' = "absent"
    BY <1>1, BodyIs, BodyIsNext
<1> QED BY <1>1, <1>2, <1>3 DEF Session!Vanish

\* A step of the player behind d keeps the others out of the game that are in
\* the menu.
LEMMA MenuKept ==
    ASSUME LinkInv, MenuIsAway, NEW d \in Desc, Alone(d), NEW p \in Players,
           state[d] # "FREE", Owner(d) = p,
           \A q \in Players \ {p} : Lost(q)' = {} <=> Lost(q) = {},
           state'[d] = "MENU" => Lost(character[d])' = {}
    PROVE  MenuIsAway'
<1>1. SUFFICES ASSUME NEW k \in Desc \ {d}, state'[k] = "MENU"
               PROVE  Lost(character[k])' = {}
    BY DEF MenuIsAway
<1>2. state[k] = "MENU" /\ character'[k] = character[k]
    BY <1>1 DEF Alone
<1>3. character[k] = Owner(k) /\ Owner(k) \in Players \ {p}
    BY <1>2, OwnerIs DEF LinkInv, UniqueOwner
<1>4. PICK q \in Players \ {p} : q = character[k]
    BY <1>3
<1>5. Lost(q) = {}
    BY <1>2, <1>4 DEF MenuIsAway
<1>6. Lost(q)' = {}
    BY <1>4, <1>5
<1> QED BY <1>2, <1>4, <1>6 DEF Lost

\* What the rest shows of every step: it is an abstract one, and MenuIsAway holds
\* again.
Implements == [Session!SNext]_(Session!svars) /\ MenuIsAway'

LEMMA ReconnectStep ==
    ASSUME LinkInv, LinkInv', MenuIsAway, NEW d \in Desc, Reconnect(d)
    PROVE  Implements
<1>1. PICK b \in Lost(character[d]) :
          /\ desc' = [desc EXCEPT ![b] = d]
          /\ character' = [character EXCEPT ![d] = b]
          /\ original' = IF b \in Mobs THEN [original EXCEPT ![d] = orig[b]] ELSE original
          /\ orig' = IF b \in Mobs THEN [orig EXCEPT ![b] = None] ELSE orig
    BY DEF Reconnect
<1>2. /\ state[d] = "PWDNRM" /\ state' = [state EXCEPT ![d] = "PLYNG"] /\ inGame' = inGame
    BY DEF Reconnect
<1>3. PICK p \in Players : p = character[d] /\ p = Owner(d)
    BY <1>2, OwnerIs
<1>4. /\ b \in Bodies /\ desc[b] = None /\ b \in inGame
      /\ b \in Players => b = p
      /\ b \in Mobs => orig[b] = p
    BY <1>1, <1>3, LinkAssumption DEF Lost, LinkInv, IdleMobs, Bodies
<1>5. Alone(d)
    BY <1>1, <1>2 DEF Alone, LinkInv, TypeOK
<1>6. \A q \in Players \ {p} : Lost(q)' = Lost(q)
    <2> SUFFICES ASSUME NEW q \in Players \ {p} PROVE Lost(q)' = Lost(q)
        OBVIOUS
    <2>1. desc'[q] = desc[q]
        BY <1>1, <1>4 DEF LinkInv, TypeOK, Bodies
    <2>2. \A m \in Mobs : orig'[m] = q <=> orig[m] = q
        BY <1>1, <1>4, LinkAssumption DEF LinkInv, TypeOK
    <2> QED BY <1>2, <2>1, <2>2, LostKept
<1>7. state'[d] = "PLYNG" /\ Owner(d)' = p
    <2>1. character'[d] = b /\ state'[d] = "PLYNG"
        BY <1>1, <1>2 DEF LinkInv, TypeOK
    <2>2. original'[d] = IF b \in Mobs THEN p ELSE original[d]
        BY <1>1, <1>4 DEF LinkInv, TypeOK
    <2>3. original[d] = None
        BY <1>2, OwnerIs
    <2> QED BY <1>4, <2>1, <2>2, <2>3, LinkAssumption DEF Owner, Bodies
<1>8. Session!Resume(d, p)
    <2>1. /\ [q \in Players |-> Holder(q)][p] = d
          /\ UNCHANGED [q \in Players |-> Holder(q)]
          /\ [q \in Players |-> Body(q)]'
                = [[q \in Players |-> Body(q)] EXCEPT ![p] = Body(p)']
          /\ Playing(p) <=> state[d] = "PLYNG"
          /\ Playing(p)' <=> state'[d] = "PLYNG"
        BY <1>2, <1>3, <1>5, <1>6, <1>7, KeepsPlayer
    <2>2. Body(p) = "linkdead" /\ Body(p)' = "playing"
        BY <1>1, <1>2, <1>3, <1>7, <2>1, BodyIs, BodyIsNext
    <2> QED BY <2>1, <2>2 DEF Session!Resume, Session!Holds
<1>9. MenuIsAway'
    BY <1>2, <1>3, <1>5, <1>6, <1>7, MenuKept
<1> QED BY <1>8, <1>9 DEF Implements, Session!SNext

LEMMA ToMenuStep ==
    ASSUME LinkInv, LinkInv', MenuIsAway, NEW d \in Desc, ToMenu(d)
    PROVE  Implements
<1>1. /\ state[d] = "PWDNRM" /\ state' = [state EXCEPT ![d] = "MENU"]
      /\ Lost(character[d]) = {}
      /\ UNCHANGED <<character, original, desc, orig, inGame>>
    BY DEF ToMenu
<1>2. PICK p \in Players : p = character[d] /\ p = Owner(d)
    BY <1>1, OwnerIs
<1>3. Alone(d) /\ state'[d] = "MENU" /\ Owner(d)' = p
    BY <1>1, <1>2 DEF Alone, LinkInv, TypeOK, Owner
<1>4. \A q \in Players : Lost(q)' = Lost(q)
    BY <1>1 DEF Lost
<1>5. UNCHANGED Session!svars
    BY <1>1, <1>2, <1>3, <1>4, StaysStutter
<1>6. Lost(character[d])' = {}
    BY <1>1 DEF Lost
<1>7. MenuIsAway'
    BY <1>1, <1>2, <1>3, <1>4, <1>6, MenuKept
<1> QED BY <1>5, <1>7 DEF Implements

LEMMA EnterStep ==
    ASSUME LinkInv, LinkInv', MenuIsAway, NEW d \in Desc, Enter(d)
    PROVE  Implements
<1>1. /\ state[d] = "MENU" /\ state' = [state EXCEPT ![d] = "PLYNG"]
      /\ desc' = [desc EXCEPT ![character[d]] = d]
      /\ inGame' = inGame \cup {character[d]}
      /\ UNCHANGED <<character, original, orig>>
    BY DEF Enter
<1>2. PICK p \in Players : p = character[d] /\ p = Owner(d)
    BY <1>1, OwnerIs
<1>3. Alone(d) /\ state'[d] = "PLYNG" /\ Owner(d)' = p
    BY <1>1, <1>2 DEF Alone, LinkInv, TypeOK, Owner
<1>4. \A q \in Players \ {p} : Lost(q)' = Lost(q)
    <2> SUFFICES ASSUME NEW q \in Players \ {p} PROVE Lost(q)' = Lost(q)
        OBVIOUS
    <2>1. desc'[q] = desc[q] /\ (q \in inGame' <=> q \in inGame)
        BY <1>1, <1>2 DEF LinkInv, TypeOK, Bodies
    <2>2. \A m \in Mobs : m \in inGame' <=> m \in inGame
        BY <1>1, <1>2, LinkAssumption
    <2> QED BY <1>1, <2>1, <2>2, LostKept
<1>5. Session!Enter(d, p)
    <2>1. /\ [q \in Players |-> Holder(q)][p] = d
          /\ UNCHANGED [q \in Players |-> Holder(q)]
          /\ [q \in Players |-> Body(q)]'
                = [[q \in Players |-> Body(q)] EXCEPT ![p] = Body(p)']
          /\ Playing(p) <=> state[d] = "PLYNG"
          /\ Playing(p)' <=> state'[d] = "PLYNG"
        BY <1>1, <1>2, <1>3, <1>4, KeepsPlayer
    <2>2. Lost(p) = {}
        BY <1>1, <1>2 DEF MenuIsAway
    <2>3. Body(p) = "absent" /\ Body(p)' = "playing"
        BY <1>1, <1>3, <2>1, <2>2, BodyIs, BodyIsNext
    <2> QED BY <2>1, <2>3 DEF Session!Enter, Session!Holds
<1>6. MenuIsAway'
    BY <1>1, <1>2, <1>3, <1>4, MenuKept
<1> QED BY <1>5, <1>6 DEF Implements, Session!SNext

LEMMA ClaimStep ==
    ASSUME LinkInv, LinkInv', MenuIsAway, NEW d \in Desc, NEW p \in Players, Claim(d, p)
    PROVE  Implements
<1>1. /\ state[d] = "FREE" /\ ~NameTaken(p)
      /\ state' = [state EXCEPT ![d] = "PWDNRM"]
      /\ character' = [character EXCEPT ![d] = p]
      /\ UNCHANGED <<original, desc, orig, inGame>>
    BY DEF Claim
<1>2. original[d] = None
    BY <1>1, LinkAssumption DEF LinkInv, PointersOf, TypeOK
<1>3. Alone(d) /\ state'[d] = "PWDNRM" /\ Owner(d)' = p
    BY <1>1, <1>2 DEF Alone, LinkInv, TypeOK, Owner, Bodies
<1>4. \A q \in Players : Lost(q)' = Lost(q)
    BY <1>1 DEF Lost
<1>5. \A q \in Players \ {p} : Holder(q)' = Holder(q) /\ Body(q)' = Body(q)
    BY <1>1, <1>3, <1>4, OthersKeep
<1>6. Holder(p) = None /\ ~Playing(p)
    BY <1>1 DEF Holder, NameTaken, Playing
<1>7. Holder(p)' = d /\ ~Playing(p)'
    BY <1>3, HolderIsNext
<1>8. Body(p)' = Body(p)
    BY <1>4, <1>6, <1>7, BodyIs, BodyIsNext
<1>9. \A q \in Players : Holder(q) # d
    <2> SUFFICES ASSUME NEW q \in Players, Holder(q) = d PROVE FALSE
        OBVIOUS
    <2>1. PICK k \in Desc : state[k] # "FREE" /\ Owner(k) = q
        BY LinkAssumption DEF Holder, NameTaken
    <2> QED BY <1>1, <2>1, HolderIs
<1>10. Session!Claim(d, p)
    BY <1>5, <1>6, <1>7, <1>8, <1>9, StepOf DEF Session!Claim, Session!Holds
<1>11. MenuIsAway'
    <2> SUFFICES ASSUME NEW k \in Desc, state'[k] = "MENU" PROVE Lost(character[k])' = {}
        BY DEF MenuIsAway
    <2>1. k # d /\ state[k] = "MENU" /\ character'[k] = character[k]
        BY <1>3 DEF Alone
    <2> QED BY <1>1, <2>1 DEF MenuIsAway, Lost
<1> QED BY <1>10, <1>11 DEF Implements, Session!SNext

\* Snooping and the steps of bodies without a connection touch no connection.
LEMMA LinksKept ==
    ASSUME LinkInv, MenuIsAway, NEW p \in Players, UNCHANGED links,
           \A q \in Players \ {p} : Lost(q)' = {} <=> Lost(q) = {},
           Playing(p) \/ Lost(p) # {} \/ Lost(p)' = {}
    PROVE  Implements
<1>1. UNCHANGED <<state, character, original>>
    BY DEF links
<1>2. MenuIsAway'
    <2> SUFFICES ASSUME NEW k \in Desc, state'[k] = "MENU" PROVE Lost(character[k])' = {}
        BY DEF MenuIsAway
    <2>1. state[k] = "MENU" /\ character'[k] = character[k]
        BY <1>1
    <2>2. PICK q \in Players : q = character[k] /\ Owner(k) = q
        BY <2>1, OwnerIs
    <2>3. Lost(q) = {} /\ ~Playing(q)
        BY <2>1, <2>2, HolderIs DEF MenuIsAway
    <2>4. Lost(q)' = {}
        BY <2>3
    <2> QED BY <2>1, <2>2, <2>4 DEF Lost
<1>3. CASE Playing(p) \/ (Lost(p)' = {} <=> Lost(p) = {})
    BY <1>1, <1>2, <1>3, NoConnection DEF Implements
<1>4. CASE ~Playing(p) /\ Lost(p) # {} /\ Lost(p)' = {}
    <2>1. Session!Vanish(p)
        BY <1>1, <1>4, VanishStep
    <2> QED BY <1>2, <2>1 DEF Implements, Session!SNext
<1> QED BY <1>3, <1>4

LEMMA SnoopingImplements ==
    ASSUME LinkInv, MenuIsAway, NEW d \in Desc,
           DoSnoopSelf(d) \/ \E b \in Bodies : DoSnoop(d, b)
    PROVE  Implements
<1>1. UNCHANGED <<links, orig, inGame>> /\ Commands(d)
    BY DEF DoSnoopSelf, DoSnoop
<1>2. \A q \in Players : Lost(q)' = Lost(q)
    BY <1>1 DEF Lost, links
<1>3. Owner(d) \in Players
    BY <1>1, OwnerIs DEF Commands
<1> QED BY <1>1, <1>2, <1>3, LinksKept

\* What a departure of bodies leaves of the players it does not concern: gone is
\* only their owners' bodies.
LEMMA ExtractLost ==
    ASSUME WorldTypeOK, NEW gone, Extract(gone), NEW q \in Players, q \notin gone,
           desc'[q] = None <=> desc[q] = None,
           \A m \in Mobs \cap gone : orig[m] # q
    PROVE  Lost(q)' = Lost(q)
<1>1. \A m \in Mobs : m \in inGame' /\ orig'[m] = q <=> m \in inGame /\ orig[m] = q
    BY LinkAssumption DEF Extract, WorldTypeOK
<1>2. q \in inGame' <=> q \in inGame
    BY DEF Extract
<1> QED BY <1>1, <1>2, LostKept

LEMMA ExtractedLost ==
    ASSUME WorldTypeOK, NEW gone, Extract(gone), NEW p \in Players, p \in gone
    PROVE  Lost(p)' = {}
BY LinkAssumption DEF Extract, WorldTypeOK, Lost

LEMMA LinkdeadGoneStep ==
    ASSUME LinkInv, MenuIsAway, NEW p \in Players, LinkdeadGone(p)
    PROVE  Implements
<1>1. UNCHANGED links /\ Extract({p}) /\ WorldTypeOK
    BY Parts DEF LinkdeadGone
<1>2. \A q \in Players \ {p} : Lost(q)' = Lost(q)
    BY <1>1, ExtractLost, LinkAssumption DEF links
<1>3. Lost(p)' = {}
    BY <1>1, ExtractedLost
<1> QED BY <1>1, <1>2, <1>3, LinksKept

LEMMA OriginalLostStep ==
    ASSUME LinkInv, MenuIsAway, NEW d \in Desc, OriginalLost(d)
    PROVE  Implements
<1>1. UNCHANGED links /\ Extract({original[d]}) /\ WorldTypeOK /\ state[d] = "PLYNG"
    BY Parts DEF OriginalLost
<1>2. original[d] # None
    BY LinkAssumption DEF OriginalLost, LinkInv, TypeOK, Bodies
<1>3. PICK p \in Players : p = original[d] /\ p = Owner(d)
    BY <1>1, <1>2, OwnerIs
<1>4. \A q \in Players \ {p} : Lost(q)' = Lost(q)
    BY <1>1, <1>3, ExtractLost, LinkAssumption DEF links
<1>5. Playing(p)
    BY <1>1, <1>3 DEF Playing
<1> QED BY <1>1, <1>4, <1>5, LinksKept

LEMMA MobLoadsStep ==
    ASSUME LinkInv, MenuIsAway, NEW m \in Mobs, MobLoads(m), Players # {}
    PROVE  Implements
<1>1. UNCHANGED <<links, orig>> /\ m \notin inGame /\ inGame' = inGame \cup {m}
    BY DEF MobLoads, Load
<1>2. orig[m] = None
    BY <1>1 DEF LinkInv, IdleMobs
<1>3. \A q \in Players : Lost(q)' = Lost(q)
    BY <1>1, <1>2, LinkAssumption DEF Lost, links
<1> QED BY <1>1, <1>3, LinksKept

\* A mobile nobody commands: at most the player it remembers has lost a body.
LEMMA IdleMobGoneStep ==
    ASSUME LinkInv, MenuIsAway, NEW m \in Mobs, MobGone(m), desc[m] = None, Players # {}
    PROVE  Implements
<1>1. UNCHANGED links /\ Extract({m}) /\ WorldTypeOK
    BY Parts DEF MobGone
<1>2. PICK p \in Players : orig[m] \in {p, None}
    BY <1>1 DEF WorldTypeOK
<1>3. \A q \in Players \ {p} : Lost(q)' = Lost(q)
    BY <1>1, <1>2, ExtractLost, LinkAssumption DEF links
<1>4. Lost(p)' \subseteq Lost(p)
    BY <1>1, LinkAssumption DEF Extract, WorldTypeOK, Lost, links
<1> QED BY <1>1, <1>3, <1>4, LinksKept

LEMMA NoPlayers ==
    ASSUME LinkInv', Players = {}
    PROVE  Implements
<1>1. \A k \in Desc : state'[k] # "MENU"
    BY LinkAssumption DEF LinkInv, TypeOK, PointersOf, Bodies
<1>2. UNCHANGED Session!svars
    BY StutterOf
<1> QED BY <1>1, <1>2 DEF Implements, MenuIsAway

\* Into a mobile and back: the player stays in the game, and no other player has
\* lost a link in that mobile.
LEMMA IntoMobile ==
    ASSUME LinkInv, LinkInv', MenuIsAway, ~StaleSwitch, NEW d \in Desc, NEW m \in Mobs,
           DoSwitch(d, m) \/ PolySelf(d, m)
    PROVE  Implements
<1>1. /\ state[d] = "PLYNG" /\ character[d] \in Players
      /\ Occupy(d, m) /\ UNCHANGED <<state, orig>> /\ orig[m] = None
    BY DEF DoSwitch, PolySelf, Load, Commands, LinkInv, IdleMobs
<1>2. inGame' \ {m} = inGame \ {m}
    BY DEF DoSwitch, PolySelf, Load
<1>3. PICK p \in Players : p = character[d]
    BY <1>1
<1>4. Owner(d) = p
    BY <1>3, LinkAssumption DEF Owner, LinkInv, PointersOf
<1>5. Owner(d)' = p
    BY <1>1, <1>3, LinkAssumption DEF Owner, Occupy, LinkInv, TypeOK
<1>6. Alone(d)
    BY <1>1 DEF Alone, Occupy, LinkInv, TypeOK
<1>7. \A q \in Players \ {p} : Lost(q)' = Lost(q)
    <2> SUFFICES ASSUME NEW q \in Players \ {p} PROVE Lost(q)' = Lost(q)
        OBVIOUS
    <2>1. desc'[q] = desc[q]
        BY <1>1, <1>3, LinkAssumption DEF Occupy, LinkInv, TypeOK, Bodies
    <2>2. q \in inGame' <=> q \in inGame
        BY <1>2, LinkAssumption
    <2>3. \A k \in Mobs : k \in inGame' /\ orig'[k] = q <=> k \in inGame /\ orig[k] = q
        BY <1>1, <1>2, LinkAssumption
    <2> QED BY <2>1, <2>2, <2>3, LostKept
<1>8. UNCHANGED Session!svars
    BY <1>1, <1>4, <1>5, <1>6, <1>7, StaysStutter
<1>9. MenuIsAway'
    BY <1>1, <1>4, <1>6, <1>7, MenuKept
<1> QED BY <1>8, <1>9 DEF Implements

LEMMA OutOfMobile ==
    ASSUME LinkInv, LinkInv', MenuIsAway, NEW d \in Desc, state[d] = "PLYNG",
           original[d] # None, Return(d), UNCHANGED state,
           Extract({character[d]}) \/ UNCHANGED <<orig, inGame>>
    PROVE  Implements
<1>1. PICK p \in Players : p = original[d] /\ p = Owner(d)
    BY OwnerIs
<1>2. PICK m \in Mobs : m = character[d] /\ desc[m] = d /\ orig[m] = None
    BY LinkAssumption DEF LinkInv, PointersOf, BodyOfOne, InBody, IdleMobs, Bodies, TypeOK
<1>3. Owner(d)' = p
    BY <1>1, LinkAssumption DEF Owner, Return, LinkInv, TypeOK
<1>4. Alone(d)
    BY DEF Alone, Return, LinkInv, TypeOK
<1>5. \A q \in Players \ {p} : Lost(q)' = Lost(q)
    <2> SUFFICES ASSUME NEW q \in Players \ {p} PROVE Lost(q)' = Lost(q)
        OBVIOUS
    <2>1. desc'[q] = desc[q]
        BY <1>1, <1>2, LinkAssumption DEF Return, LinkInv, TypeOK, Bodies
    <2>2. CASE Extract({m})
        BY <1>2, <2>1, <2>2, Parts, ExtractLost, LinkAssumption
    <2>3. CASE UNCHANGED <<orig, inGame>>
        BY <2>1, <2>3, LostKept
    <2> QED BY <1>2, <2>2, <2>3
<1>6. UNCHANGED Session!svars
    BY <1>1, <1>3, <1>4, <1>5, StaysStutter
<1>7. MenuIsAway'
    BY <1>1, <1>4, <1>5, MenuKept
<1> QED BY <1>6, <1>7 DEF Implements

LEMMA DoReturnImplements ==
    ASSUME LinkInv, LinkInv', MenuIsAway, NEW d \in Desc, NEW typed \in BOOLEAN,
           DoReturn(d, typed)
    PROVE  Implements
<1>1. /\ state[d] = "PLYNG" /\ original[d] # None /\ Return(d) /\ UNCHANGED state
      /\ Extract({character[d]}) \/ UNCHANGED <<orig, inGame>>
    BY DEF DoReturn
<1> QED BY <1>1, OutOfMobile

LEMMA MobGoneImplements ==
    ASSUME LinkInv, LinkInv', MenuIsAway, NEW m \in Mobs, MobGone(m), Players # {}
    PROVE  Implements
<1>1. CASE desc[m] = None
    BY <1>1, IdleMobGoneStep
<1>2. CASE desc[m] # None
    <2>1. PICK d \in Desc : d = desc[m]
        BY <1>2 DEF LinkInv, TypeOK, Bodies
    <2>2. state[d] = "PLYNG" /\ character[d] = m
        BY <2>1 DEF LinkInv, BodyOfOne, InBody, Bodies
    <2>3. original[d] # None /\ Return(d) /\ UNCHANGED state /\ Extract({character[d]})
        BY <1>2, <2>1, <2>2 DEF MobGone
    <2> QED BY <2>2, <2>3, OutOfMobile
<1> QED BY <1>1, <1>2

\* A departure of d's own bodies: the mobile it commands, its own one, or both.
LEMMA DepartureLost ==
    ASSUME LinkInv, NEW d \in Desc, state[d] = "PLYNG", NEW p \in Players, Owner(d) = p,
           NEW gone \in SUBSET {character[d], p}, Extract(gone), desc' = Unlinked(d)
    PROVE  \A q \in Players \ {p} : Lost(q)' = Lost(q)
<1> SUFFICES ASSUME NEW q \in Players \ {p} PROVE Lost(q)' = Lost(q)
    OBVIOUS
<1>1. character[d] # q
    BY LinkAssumption DEF LinkInv, PointersOf, Owner
<1>2. desc'[q] = desc[q]
    BY <1>1 DEF Unlinked, LinkInv, TypeOK, Bodies
<1>3. \A m \in Mobs \cap gone : orig[m] # q
    BY LinkAssumption DEF LinkInv, IdleMobs, BodyOfOne, InBody, Bodies
<1> QED BY <1>1, <1>2, <1>3, Parts, ExtractLost

LEMMA MenuImplements ==
    ASSUME LinkInv, LinkInv', MenuIsAway, NEW d \in Desc,
           LeaveGame(d) \/ OriginalGone(d) \/ PolyDies(d)
    PROVE  Implements
<1>1. state[d] = "PLYNG" /\ BackToMenu(d) /\ desc' = Unlinked(d)
    BY DEF LeaveGame, OriginalGone, PolyDies, BackToMenu, Commands
<1>2. PICK p \in Players : p = Owner(d)
    BY <1>1, OwnerIs
<1>3. /\ Alone(d) /\ state'[d] = "MENU" /\ Owner(d)' = p /\ character'[d] = p
    BY <1>1, <1>2, LinkAssumption DEF Alone, BackToMenu, LinkInv, TypeOK, Owner
<1>4. PICK gone \in SUBSET {character[d], p} : Extract(gone) /\ p \in gone
    <2>1. CASE LeaveGame(d)
        <3>1. character[d] = p
            BY <1>2, <2>1, LinkAssumption DEF LeaveGame, Commands, Owner, LinkInv, PointersOf
        <3> QED BY <2>1, <3>1 DEF LeaveGame
    <2>2. CASE OriginalGone(d)
        <3>1. original[d] = p
            BY <1>2, <2>2, LinkAssumption DEF OriginalGone, Owner, LinkInv, TypeOK, Bodies
        <3> QED BY <2>2, <3>1 DEF OriginalGone
    <2>3. CASE PolyDies(d)
        <3>1. original[d] = p
            BY <1>2, <2>3, LinkAssumption DEF PolyDies, Owner, LinkInv, TypeOK, Bodies
        <3> QED BY <2>3, <3>1 DEF PolyDies
    <2> QED BY <2>1, <2>2, <2>3
<1>5. \A q \in Players \ {p} : Lost(q)' = Lost(q)
    BY <1>1, <1>2, <1>4, DepartureLost
<1>6. Lost(p)' = {}
    BY <1>4, Parts, ExtractedLost
<1>7. Session!Leave(d, p)
    <2>1. /\ [q \in Players |-> Holder(q)][p] = d
          /\ UNCHANGED [q \in Players |-> Holder(q)]
          /\ [q \in Players |-> Body(q)]'
                = [[q \in Players |-> Body(q)] EXCEPT ![p] = Body(p)']
          /\ Playing(p) <=> state[d] = "PLYNG"
          /\ Playing(p)' <=> state'[d] = "PLYNG"
        BY <1>1, <1>2, <1>3, <1>5, KeepsPlayer
    <2>2. Body(p) = "playing" /\ Body(p)' = "absent"
        BY <1>1, <1>3, <1>6, <2>1, BodyIs, BodyIsNext
    <2> QED BY <2>1, <2>2 DEF Session!Leave, Session!Holds
<1>8. MenuIsAway'
    <2>1. Lost(character[d])' = {}
        BY <1>3, <1>6 DEF Lost
    <2> QED BY <1>1, <1>2, <1>3, <1>5, <2>1, MenuKept
<1> QED BY <1>7, <1>8 DEF Implements, Session!SNext

LEMMA FreeImplements ==
    ASSUME LinkInv, LinkInv', MenuIsAway, NEW d \in Desc,
           CloseSocket(d) \/ ForceOut(d) \/ PolyIdlesOut(d)
    PROVE  Implements
<1>1. state[d] # "FREE" /\ Free(d) /\ desc' = Unlinked(d)
    BY DEF CloseSocket, ForceOut, PolyIdlesOut, Free, Commands
<1>2. PICK p \in Players : p = Owner(d)
    BY <1>1, OwnerIs
<1>3. Alone(d) /\ state'[d] = "FREE"
    BY <1>1 DEF Alone, Free, LinkInv, TypeOK
<1>4. /\ \A q \in Players \ {p} : Lost(q)' = Lost(q)
      /\ state[d] # "PLYNG" => Lost(p)' = Lost(p)
    <2>1. CASE CloseSocket(d) /\ state[d] # "PLYNG"
        BY <1>1, <2>1 DEF CloseSocket, Unlinked, Lost
    <2>2. CASE CloseSocket(d) /\ state[d] = "PLYNG"
        <3>1. character[d] \in Bodies /\ desc[character[d]] = d /\ inGame' = inGame
            BY <2>2, LinkAssumption
               DEF CloseSocket, LinkInv, TypeOK, PointersOf, BodyOfOne, InBody
        <3>2. \A q \in Players \ {p} : desc'[q] = desc[q]
            BY <1>1, <1>2, LinkAssumption DEF Unlinked, LinkInv, TypeOK, Bodies, Owner, PointersOf
        <3>3. CASE character[d] \in Mobs
            <4>1. /\ orig' = [orig EXCEPT ![character[d]] = p]
                  /\ orig[character[d]] = None
                BY <1>2, <2>2, <3>1, <3>3, LinkAssumption
                   DEF CloseSocket, LinkInv, PointersOf, IdleMobs, Owner
            <4>2. \A q \in Players \ {p}, m \in Mobs : orig'[m] = q <=> orig[m] = q
                BY <3>3, <4>1, LinkAssumption DEF LinkInv, TypeOK
            <4> QED BY <2>2, <3>1, <3>2, <4>2, LostKept
        <3>4. CASE character[d] \notin Mobs
            <4>1. orig' = orig
                BY <2>2, <3>4 DEF CloseSocket
            <4> QED BY <2>2, <3>1, <3>2, <4>1, LostKept
        <3> QED BY <3>3, <3>4
    <2>3. CASE ForceOut(d) \/ PolyIdlesOut(d)
        <3>1. state[d] = "PLYNG" /\ Extract({character[d]})
            BY <2>3 DEF ForceOut, PolyIdlesOut, Commands
        <3> QED BY <1>1, <1>2, <3>1, DepartureLost
    <2> QED BY <2>1, <2>2, <2>3
<1>5. MenuIsAway'
    BY <1>1, <1>2, <1>3, <1>4, MenuKept
<1>6. /\ [q \in Players |-> Holder(q)][p] = d
      /\ [q \in Players |-> Holder(q)]'
           = [[q \in Players |-> Holder(q)] EXCEPT ![p] = None]
      /\ [q \in Players |-> Body(q)]'
           = [[q \in Players |-> Body(q)]
                EXCEPT ![p] = IF Lost(p)' # {} THEN "linkdead" ELSE "absent"]
      /\ Playing(p) <=> state[d] = "PLYNG"
    <2>1. \A q \in Players \ {p} : Lost(q)' = {} <=> Lost(q) = {}
        BY <1>4
    <2> QED BY <1>1, <1>2, <1>3, <2>1, FreesPlayer
<1>7. CASE state[d] # "PLYNG"
    <2>1. Lost(p)' = Lost(p) /\ ~Playing(p)
        BY <1>4, <1>6, <1>7
    <2>2. Body(p) = (IF Lost(p)' # {} THEN "linkdead" ELSE "absent") /\ Body(p) # "playing"
        BY <2>1, BodyIs
    <2>3. UNCHANGED [q \in Players |-> Body(q)]
        BY <1>6, <2>2
    <2>4. Session!Release(d, p)
        BY <1>6, <2>2, <2>3 DEF Session!Release, Session!Holds
    <2> QED BY <1>5, <2>4 DEF Implements, Session!SNext
<1>8. CASE state[d] = "PLYNG"
    <2>1. Body(p) = "playing"
        BY <1>6, <1>8, BodyIs
    <2>2. Session!Drop(d, p) \/ Session!Eject(d, p)
        BY <1>6, <2>1 DEF Session!Drop, Session!Eject, Session!Holds
    <2> QED BY <1>5, <2>2 DEF Implements, Session!SNext
<1> QED BY <1>7, <1>8

LEMMA SessionStep ==
    ASSUME LinkInv, LinkInv', MenuIsAway, ~StaleSwitch, [Next]_vars
    PROVE  Implements
<1>1. CASE \E d \in Desc : Connection(d)
    BY <1>1, ClaimStep, ReconnectStep, ToMenuStep, EnterStep, FreeImplements DEF Connection
<1>2. CASE \E d \in Desc : Shape(d)
    BY <1>2, IntoMobile, DoReturnImplements, SnoopingImplements DEF Shape
<1>3. CASE \E d \in Desc : Departure(d)
    BY <1>3, MenuImplements, FreeImplements, OriginalLostStep DEF Departure
<1>4. CASE \E p \in Players : LinkdeadGone(p)
    BY <1>4, LinkdeadGoneStep
<1>5. CASE \E m \in Mobs : MobGone(m) \/ MobLoads(m)
    BY <1>5, NoPlayers, MobGoneImplements, MobLoadsStep
<1>6. CASE Restart
    <2>1. \A p \in Players : /\ Holder(p)' = None /\ Body(p)' = "absent"
        BY <1>6 DEF Restart, Holder, NameTaken, Body, Lost
    <2>2. MenuIsAway'
        BY <1>6 DEF Restart, MenuIsAway
    <2> QED BY <2>1, <2>2 DEF Implements, Session!SNext, Session!Restart
<1>7. CASE UNCHANGED vars
    <2>1. UNCHANGED Session!svars
        BY <1>7 DEF vars, Session!svars, Holder, NameTaken, Owner, Body, Lost
    <2>2. MenuIsAway'
        BY <1>7 DEF vars, MenuIsAway, Lost
    <2> QED BY <2>1, <2>2 DEF Implements
<1> QED BY <1>1, <1>2, <1>3, <1>4, <1>5, <1>6, <1>7 DEF Next

LEMMA InitSession == Init => Session!SInit /\ MenuIsAway
BY LinkAssumption
   DEF Init, Session!SInit, Holder, NameTaken, Body, Lost, MenuIsAway

\* Connections and bodies implement the abstract sessions: through switching,
\* polymorphing, dying, idling out and link loss a player has one connection and
\* one body, own or borrowed, and the password leads back to it.
THEOREM LinkImplementsSession ==
    ASSUME ~StaleSwitch
    PROVE  Spec => ImplementsSession
<1>1. LinkInv /\ LinkInv' /\ MenuIsAway /\ [Next]_vars
        => [Session!SNext]_(Session!svars) /\ MenuIsAway'
    BY SessionStep DEF Implements
<1> QED
    BY <1>1, InitSession, InvHolds, PTL DEF Spec, ImplementsSession, Session!SSpec

-----------------------------------------------------------------------------
\* Induction over the subsets of a finite set.
LEMMA SubsetInduction ==
    ASSUME NEW S, IsFiniteSet(S), NEW Q,
           \A T \in SUBSET S : (\A U \in SUBSET T : U # T => U \in Q) => T \in Q
    PROVE  \A T \in SUBSET S : T \in Q
<1> DEFINE B == (SUBSET S) \ Q
<1>1. SUFFICES ASSUME B # {} PROVE FALSE
  OBVIOUS
<1>2. IsWellFoundedOn(StrictSubsetOrdering(S), FiniteSubsetsOf(S))
  BY FS_StrictSubsetOrderingWellFounded
<1>3. FiniteSubsetsOf(S) = SUBSET S
  BY FS_FiniteSubsetsOfFinite
<1>4. PICK T \in B : \A U \in B : ~ (<<U, T>> \in StrictSubsetOrdering(S))
  <2>1. B \subseteq FiniteSubsetsOf(S)
    BY <1>3
  <2> HIDE DEF B
  <2>2. \E T \in B : \A U \in B : ~ (<<U, T>> \in StrictSubsetOrdering(S))
    BY <1>1, <1>2, <2>1, WFMin
  <2> QED
    BY <2>2
<1>5. \A U \in SUBSET T : U # T => U \in Q
  BY <1>4 DEF StrictSubsetOrdering
<1> QED
  BY <1>4, <1>5

-----------------------------------------------------------------------------
(* Lists: recursive functions are defined on an initial segment of the     *)
(* naturals, and what holds of them is proved by induction on it.          *)

\* Induction on an initial segment, with a set for the property.
LEMMA SegmentInduction ==
    ASSUME NEW n \in Nat, NEW Q, 0 \in Q, \A i \in 1..n : i - 1 \in Q => i \in Q
    PROVE  \A i \in 0..n : i \in Q
<1> DEFINE T(i) == 1..i
           R == {s \in SUBSET (1..n) : \A i \in 0..n : s = T(i) => i \in Q}
<1>1. IsFiniteSet(1..n)
  BY FS_Interval
<1>2. ASSUME NEW s \in SUBSET (1..n), \A u \in SUBSET s : u # s => u \in R
      PROVE  s \in R
  <2> SUFFICES ASSUME NEW i \in 0..n, s = T(i) PROVE i \in Q
    OBVIOUS
  <2>1. CASE i = 0
    BY <2>1
  <2>2. CASE i # 0
    <3>1. i - 1 \in 0..n /\ i \in 1..n
      BY <2>2
    <3>2. T(i - 1) \in SUBSET s /\ T(i - 1) # s
      BY <3>1
    <3>3. T(i - 1) \in R
      BY <1>2, <3>2
    <3>4. i - 1 \in Q
      BY <3>1, <3>3
    <3> QED
      BY <3>1, <3>4
  <2> QED
    BY <2>1, <2>2
<1> HIDE DEF R
<1>3. \A s \in SUBSET (1..n) : s \in R
  BY <1>1, <1>2, SubsetInduction
<1>4. \A i \in 0..n : T(i) \in R
  BY <1>3
<1> QED
  BY <1>4 DEF R

-----------------------------------------------------------------------------
(* What characters wear and bear.                                          *)

Files == [affects: Seq(Affected), hp: Int, bits: SUBSET Flags, align: {"good", "evil"}, room: Rooms]
Rents == [valid: BOOLEAN, worn: Worn, pack: SUBSET Items]
Places == {"out", "login", "menu", "game"}

Bearers == [at: Places, in_room: Rooms, align: {"good", "evil"}, affects: Seq(Affected), worn: Worn,
            pack: SUBSET Items, ground: SUBSET Items, hitroll: Int, saves: Int, hp: Int,
            stat: 0..Top, bits: SUBSET Flags, air: BOOLEAN, file: Files, rent: Rents]

\* What v has is what its objects and spells give.
Ledger(v) ==
    /\ v.hitroll = Sum(Active(v), "hitroll")
    /\ v.hp = Sum(Active(v), "hp")
    /\ Bits(Active(v)) \subseteq v.bits /\ v.bits \subseteq Bits(Active(v)) \cup Racial

\* Objects are worn where they belong, and nothing that is worn is carried.
Placed(v) == \A p \in 1..MAX_WEAR : v.worn[p] # NoItem => Slot[v.worn[p]] = p /\ v.worn[p] \notin v.pack

\* The files have the bare quantities.
Filed(v) == v.file.hp = 0 /\ v.file.bits \subseteq Racial /\ Placed(v.rent)

Good(v) == v \in Bearers /\ Ledger(v) /\ Placed(v) /\ Filed(v)

\* The inductive invariant: outside of the game nothing is worn or carried.
Lawful(v) == /\ Good(v)
             /\ v.at # "game" => v.worn = Bare /\ v.pack = {}
             /\ v.at = "out" => v.affects = <<>>
AInv == Lawful(w)

-----------------------------------------------------------------------------
(* The loops: each has its turns.                                          *)

Adds(ms, worn, p) == IF worn[p] = NoItem THEN ms ELSE ms \o Effects[worn[p]]
Lifted(u, s, k) == IF u.affects[k].spell = s THEN AffectRemove(u, k) ELSE u
Off(u, p) == IF u.worn[p] = NoItem THEN u ELSE UnequipChar(u, p)
On(u, worn, p) == IF worn[p] = NoItem THEN u ELSE Equip(u, worn[p])
Tried(u, worn, p, R) == IF worn[p] = NoItem THEN u ELSE EquipChar(u, worn[p], R)

\* A sum.
LEMMA SumRuns ==
    ASSUME NEW ms \in Seq(Modifiers), NEW a
    PROVE  \E f : /\ f[0] = 0
                  /\ \A k \in 1..Len(ms) : f[k] = f[k - 1] + ms[k][a]
                  /\ Sum(ms, a) = f[Len(ms)]
<1> DEFINE n == Len(ms)
           Rec(f, m) == f = [k \in 0..m |-> IF k = 0 THEN 0 ELSE f[k - 1] + ms[k][a]]
           Q == {m \in 0..n : \E f : Rec(f, m)}
<1>1. n \in Nat
  OBVIOUS
<1> HIDE DEF n
<1>2. 0 \in Q
  <2> DEFINE g == [k \in 0..0 |-> 0]
  <2>1. Rec(g, 0)
    OBVIOUS
  <2> HIDE DEF Rec, g
  <2> QED
    BY <1>1, <2>1
<1>3. \A m \in 1..n : m - 1 \in Q => m \in Q
  <2> SUFFICES ASSUME NEW m \in 1..n, m - 1 \in Q PROVE m \in Q
    OBVIOUS
  <2>1. PICK f : Rec(f, m - 1)
    OBVIOUS
  <2> DEFINE g == [k \in 0..m |-> IF k = m THEN f[m - 1] + ms[m][a] ELSE f[k]]
  <2>2. ASSUME NEW k \in 0..m
        PROVE  g[k] = IF k = 0 THEN 0 ELSE g[k - 1] + ms[k][a]
    <3>1. CASE k = m
      <4>1. g[k - 1] = f[m - 1] /\ k # 0
        BY <3>1, <1>1
      <4> QED
        BY <3>1, <4>1
    <3>2. CASE k # m
      <4>1. k \in 0..(m - 1) /\ (k # 0 => k - 1 \in 0..(m - 1))
        BY <3>2, <1>1
      <4>2. g[k] = f[k] /\ (k # 0 => g[k - 1] = f[k - 1])
        BY <4>1, <3>2, <1>1
      <4> QED
        BY <2>1, <4>1, <4>2
    <3> QED
      BY <3>1, <3>2
  <2>3. Rec(g, m)
    BY <2>2
  <2> HIDE DEF Rec, g
  <2> QED
    BY <2>3, <1>1
<1> HIDE DEF Q
<1>4. n \in Q
  <2>1. \A i \in 0..n : i \in Q
    BY <1>1, <1>2, <1>3, SegmentInduction
  <2> QED
    BY <2>1, <1>1
<1>5. PICK f : Rec(f, n)
  BY <1>4 DEF Q
<1>6. Sum(ms, a) = (CHOOSE h : Rec(h, n))[n]
  BY DEF n, Sum, Turns
<1> PICK h : h = CHOOSE g : Rec(g, n)
  OBVIOUS
<1>7. Rec(h, n)
  <2> HIDE DEF Rec
  <2> QED
    BY <1>5
<1>8. h[0] = 0 /\ \A k \in 1..n : h[k] = h[k - 1] + ms[k][a]
  <2>1. 0 \in 0..n /\ \A k \in 1..n : k \in 0..n /\ k # 0
    BY <1>1
  <2> QED
    BY <1>7, <2>1
<1> HIDE DEF Rec
<1> QED
  BY <1>6, <1>8 DEF n

\* affect_modify adds one after the other.
LEMMA AddRuns ==
    ASSUME NEW v, NEW ms \in Seq(Modifiers)
    PROVE  \E f : /\ f[0] = v
                  /\ \A k \in 1..Len(ms) : f[k] = Modify(f[k - 1], ms[k], TRUE)
                  /\ ModifyAll(v, ms, TRUE) = f[Len(ms)]
<1> DEFINE n == Len(ms)
           Rec(f, m) == f = [k \in 0..m |-> IF k = 0 THEN v ELSE Modify(f[k - 1], ms[k], TRUE)]
           Q == {m \in 0..n : \E f : Rec(f, m)}
<1>1. n \in Nat
  OBVIOUS
<1> HIDE DEF n
<1>2. 0 \in Q
  <2> DEFINE g == [k \in 0..0 |-> v]
  <2>1. Rec(g, 0)
    OBVIOUS
  <2> HIDE DEF Rec, g
  <2> QED
    BY <1>1, <2>1
<1>3. \A m \in 1..n : m - 1 \in Q => m \in Q
  <2> SUFFICES ASSUME NEW m \in 1..n, m - 1 \in Q PROVE m \in Q
    OBVIOUS
  <2>1. PICK f : Rec(f, m - 1)
    OBVIOUS
  <2> DEFINE g == [k \in 0..m |-> IF k = m THEN Modify(f[m - 1], ms[m], TRUE) ELSE f[k]]
  <2>2. ASSUME NEW k \in 0..m
        PROVE  g[k] = IF k = 0 THEN v ELSE Modify(g[k - 1], ms[k], TRUE)
    <3>1. CASE k = m
      <4>1. g[k - 1] = f[m - 1] /\ k # 0
        BY <3>1, <1>1
      <4> QED
        BY <3>1, <4>1
    <3>2. CASE k # m
      <4>1. k \in 0..(m - 1) /\ (k # 0 => k - 1 \in 0..(m - 1))
        BY <3>2, <1>1
      <4>2. g[k] = f[k] /\ (k # 0 => g[k - 1] = f[k - 1])
        BY <4>1, <3>2, <1>1
      <4> QED
        BY <2>1, <4>1, <4>2
    <3> QED
      BY <3>1, <3>2
  <2>3. Rec(g, m)
    BY <2>2
  <2> HIDE DEF Rec, g
  <2> QED
    BY <2>3, <1>1
<1> HIDE DEF Q
<1>4. n \in Q
  <2>1. \A i \in 0..n : i \in Q
    BY <1>1, <1>2, <1>3, SegmentInduction
  <2> QED
    BY <2>1, <1>1
<1>5. PICK f : Rec(f, n)
  BY <1>4 DEF Q
<1>6. ModifyAll(v, ms, TRUE) = (CHOOSE h : Rec(h, n))[n]
  BY DEF n, ModifyAll, Turns
<1> PICK h : h = CHOOSE g : Rec(g, n)
  OBVIOUS
<1>7. Rec(h, n)
  <2> HIDE DEF Rec
  <2> QED
    BY <1>5
<1>8. h[0] = v /\ \A k \in 1..n : h[k] = Modify(h[k - 1], ms[k], TRUE)
  <2>1. 0 \in 0..n /\ \A k \in 1..n : k \in 0..n /\ k # 0
    BY <1>1
  <2> QED
    BY <1>7, <2>1
<1> HIDE DEF Rec
<1> QED
  BY <1>6, <1>8 DEF n

\* affect_modify takes one after the other.
LEMMA TakeRuns ==
    ASSUME NEW v, NEW ms \in Seq(Modifiers)
    PROVE  \E f : /\ f[0] = v
                  /\ \A k \in 1..Len(ms) : f[k] = Modify(f[k - 1], ms[k], FALSE)
                  /\ ModifyAll(v, ms, FALSE) = f[Len(ms)]
<1> DEFINE n == Len(ms)
           Rec(f, m) == f = [k \in 0..m |-> IF k = 0 THEN v ELSE Modify(f[k - 1], ms[k], FALSE)]
           Q == {m \in 0..n : \E f : Rec(f, m)}
<1>1. n \in Nat
  OBVIOUS
<1> HIDE DEF n
<1>2. 0 \in Q
  <2> DEFINE g == [k \in 0..0 |-> v]
  <2>1. Rec(g, 0)
    OBVIOUS
  <2> HIDE DEF Rec, g
  <2> QED
    BY <1>1, <2>1
<1>3. \A m \in 1..n : m - 1 \in Q => m \in Q
  <2> SUFFICES ASSUME NEW m \in 1..n, m - 1 \in Q PROVE m \in Q
    OBVIOUS
  <2>1. PICK f : Rec(f, m - 1)
    OBVIOUS
  <2> DEFINE g == [k \in 0..m |-> IF k = m THEN Modify(f[m - 1], ms[m], FALSE) ELSE f[k]]
  <2>2. ASSUME NEW k \in 0..m
        PROVE  g[k] = IF k = 0 THEN v ELSE Modify(g[k - 1], ms[k], FALSE)
    <3>1. CASE k = m
      <4>1. g[k - 1] = f[m - 1] /\ k # 0
        BY <3>1, <1>1
      <4> QED
        BY <3>1, <4>1
    <3>2. CASE k # m
      <4>1. k \in 0..(m - 1) /\ (k # 0 => k - 1 \in 0..(m - 1))
        BY <3>2, <1>1
      <4>2. g[k] = f[k] /\ (k # 0 => g[k - 1] = f[k - 1])
        BY <4>1, <3>2, <1>1
      <4> QED
        BY <2>1, <4>1, <4>2
    <3> QED
      BY <3>1, <3>2
  <2>3. Rec(g, m)
    BY <2>2
  <2> HIDE DEF Rec, g
  <2> QED
    BY <2>3, <1>1
<1> HIDE DEF Q
<1>4. n \in Q
  <2>1. \A i \in 0..n : i \in Q
    BY <1>1, <1>2, <1>3, SegmentInduction
  <2> QED
    BY <2>1, <1>1
<1>5. PICK f : Rec(f, n)
  BY <1>4 DEF Q
<1>6. ModifyAll(v, ms, FALSE) = (CHOOSE h : Rec(h, n))[n]
  BY DEF n, ModifyAll, Turns
<1> PICK h : h = CHOOSE g : Rec(g, n)
  OBVIOUS
<1>7. Rec(h, n)
  <2> HIDE DEF Rec
  <2> QED
    BY <1>5
<1>8. h[0] = v /\ \A k \in 1..n : h[k] = Modify(h[k - 1], ms[k], FALSE)
  <2>1. 0 \in 0..n /\ \A k \in 1..n : k \in 0..n /\ k # 0
    BY <1>1
  <2> QED
    BY <1>7, <2>1
<1> HIDE DEF Rec
<1> QED
  BY <1>6, <1>8 DEF n

\* What the objects give, position by position.
LEMMA WornRuns ==
    ASSUME NEW worn
    PROVE  \E f : /\ f[0] = <<>>
                  /\ \A k \in 1..MAX_WEAR : f[k] = Adds(f[k - 1], worn, k)
                  /\ OfWorn(worn) = f[MAX_WEAR]
<1> DEFINE n == MAX_WEAR
           Rec(f, m) == f = [k \in 0..m |-> IF k = 0 THEN <<>> ELSE Adds(f[k - 1], worn, k)]
           Q == {m \in 0..n : \E f : Rec(f, m)}
<1>1. n \in Nat
  BY AffectsAssumption
<1> HIDE DEF n
<1>2. 0 \in Q
  <2> DEFINE g == [k \in 0..0 |-> <<>>]
  <2>1. Rec(g, 0)
    OBVIOUS
  <2> HIDE DEF Rec, g
  <2> QED
    BY <1>1, <2>1
<1>3. \A m \in 1..n : m - 1 \in Q => m \in Q
  <2> SUFFICES ASSUME NEW m \in 1..n, m - 1 \in Q PROVE m \in Q
    OBVIOUS
  <2>1. PICK f : Rec(f, m - 1)
    OBVIOUS
  <2> DEFINE g == [k \in 0..m |-> IF k = m THEN Adds(f[m - 1], worn, m) ELSE f[k]]
  <2>2. ASSUME NEW k \in 0..m
        PROVE  g[k] = IF k = 0 THEN <<>> ELSE Adds(g[k - 1], worn, k)
    <3>1. CASE k = m
      <4>1. g[k - 1] = f[m - 1] /\ k # 0
        BY <3>1, <1>1
      <4> QED
        BY <3>1, <4>1
    <3>2. CASE k # m
      <4>1. k \in 0..(m - 1) /\ (k # 0 => k - 1 \in 0..(m - 1))
        BY <3>2, <1>1
      <4>2. g[k] = f[k] /\ (k # 0 => g[k - 1] = f[k - 1])
        BY <4>1, <3>2, <1>1
      <4> QED
        BY <2>1, <4>1, <4>2
    <3> QED
      BY <3>1, <3>2
  <2>3. Rec(g, m)
    BY <2>2
  <2> HIDE DEF Rec, g
  <2> QED
    BY <2>3, <1>1
<1> HIDE DEF Q
<1>4. n \in Q
  <2>1. \A i \in 0..n : i \in Q
    BY <1>1, <1>2, <1>3, SegmentInduction
  <2> QED
    BY <2>1, <1>1
<1>5. PICK f : Rec(f, n)
  BY <1>4 DEF Q
<1>6. OfWorn(worn) = (CHOOSE h : Rec(h, n))[n]
  BY DEF n, OfWorn, Turns, Adds
<1> PICK h : h = CHOOSE g : Rec(g, n)
  OBVIOUS
<1>7. Rec(h, n)
  <2> HIDE DEF Rec
  <2> QED
    BY <1>5
<1>8. h[0] = <<>> /\ \A k \in 1..n : h[k] = Adds(h[k - 1], worn, k)
  <2>1. 0 \in 0..n /\ \A k \in 1..n : k \in 0..n /\ k # 0
    BY <1>1
  <2> QED
    BY <1>7, <2>1
<1> HIDE DEF Rec
<1> QED
  BY <1>6, <1>8 DEF n

\* affect_from_char.
LEMMA FromRuns ==
    ASSUME NEW v, v.affects \in Seq(Affected), NEW s
    PROVE  \E f : /\ f[0] = v
                  /\ \A k \in 1..Len(v.affects) : f[k] = Lifted(f[k - 1], s, Len(v.affects) - k + 1)
                  /\ AffectFromChar(v, s) = f[Len(v.affects)]
<1> DEFINE n == Len(v.affects)
           Rec(f, m) == f = [k \in 0..m |-> IF k = 0 THEN v ELSE Lifted(f[k - 1], s, Len(v.affects) - k + 1)]
           Q == {m \in 0..n : \E f : Rec(f, m)}
<1>1. n \in Nat
  OBVIOUS
<1> HIDE DEF n
<1>2. 0 \in Q
  <2> DEFINE g == [k \in 0..0 |-> v]
  <2>1. Rec(g, 0)
    OBVIOUS
  <2> HIDE DEF Rec, g
  <2> QED
    BY <1>1, <2>1
<1>3. \A m \in 1..n : m - 1 \in Q => m \in Q
  <2> SUFFICES ASSUME NEW m \in 1..n, m - 1 \in Q PROVE m \in Q
    OBVIOUS
  <2>1. PICK f : Rec(f, m - 1)
    OBVIOUS
  <2> DEFINE g == [k \in 0..m |-> IF k = m THEN Lifted(f[m - 1], s, Len(v.affects) - m + 1) ELSE f[k]]
  <2>2. ASSUME NEW k \in 0..m
        PROVE  g[k] = IF k = 0 THEN v ELSE Lifted(g[k - 1], s, Len(v.affects) - k + 1)
    <3>1. CASE k = m
      <4>1. g[k - 1] = f[m - 1] /\ k # 0
        BY <3>1, <1>1
      <4> QED
        BY <3>1, <4>1
    <3>2. CASE k # m
      <4>1. k \in 0..(m - 1) /\ (k # 0 => k - 1 \in 0..(m - 1))
        BY <3>2, <1>1
      <4>2. g[k] = f[k] /\ (k # 0 => g[k - 1] = f[k - 1])
        BY <4>1, <3>2, <1>1
      <4> QED
        BY <2>1, <4>1, <4>2
    <3> QED
      BY <3>1, <3>2
  <2>3. Rec(g, m)
    BY <2>2
  <2> HIDE DEF Rec, g
  <2> QED
    BY <2>3, <1>1
<1> HIDE DEF Q
<1>4. n \in Q
  <2>1. \A i \in 0..n : i \in Q
    BY <1>1, <1>2, <1>3, SegmentInduction
  <2> QED
    BY <2>1, <1>1
<1>5. PICK f : Rec(f, n)
  BY <1>4 DEF Q
<1>6. AffectFromChar(v, s) = (CHOOSE h : Rec(h, n))[n]
  BY DEF n, AffectFromChar, Turns, Lifted
<1> PICK h : h = CHOOSE g : Rec(g, n)
  OBVIOUS
<1>7. Rec(h, n)
  <2> HIDE DEF Rec
  <2> QED
    BY <1>5
<1>8. h[0] = v /\ \A k \in 1..n : h[k] = Lifted(h[k - 1], s, Len(v.affects) - k + 1)
  <2>1. 0 \in 0..n /\ \A k \in 1..n : k \in 0..n /\ k # 0
    BY <1>1
  <2> QED
    BY <1>7, <2>1
<1> HIDE DEF Rec
<1> QED
  BY <1>6, <1>8 DEF n

\* affect_from_char, spell by spell.
LEMMA SeveralRuns ==
    ASSUME NEW v, NEW S, Cardinality(S) \in Nat
    PROVE  \E f : /\ f[0] = v
                  /\ \A k \in 1..Cardinality(S) : f[k] = AffectFromChar(f[k - 1], SetToSeq(S)[k])
                  /\ AffectsFromChar(v, S) = f[Cardinality(S)]
<1> DEFINE n == Cardinality(S)
           Rec(f, m) == f = [k \in 0..m |-> IF k = 0 THEN v ELSE AffectFromChar(f[k - 1], SetToSeq(S)[k])]
           Q == {m \in 0..n : \E f : Rec(f, m)}
<1>1. n \in Nat
  OBVIOUS
<1> HIDE DEF n
<1>2. 0 \in Q
  <2> DEFINE g == [k \in 0..0 |-> v]
  <2>1. Rec(g, 0)
    OBVIOUS
  <2> HIDE DEF Rec, g
  <2> QED
    BY <1>1, <2>1
<1>3. \A m \in 1..n : m - 1 \in Q => m \in Q
  <2> SUFFICES ASSUME NEW m \in 1..n, m - 1 \in Q PROVE m \in Q
    OBVIOUS
  <2>1. PICK f : Rec(f, m - 1)
    OBVIOUS
  <2> DEFINE g == [k \in 0..m |-> IF k = m THEN AffectFromChar(f[m - 1], SetToSeq(S)[m]) ELSE f[k]]
  <2>2. ASSUME NEW k \in 0..m
        PROVE  g[k] = IF k = 0 THEN v ELSE AffectFromChar(g[k - 1], SetToSeq(S)[k])
    <3>1. CASE k = m
      <4>1. g[k - 1] = f[m - 1] /\ k # 0
        BY <3>1, <1>1
      <4> QED
        BY <3>1, <4>1
    <3>2. CASE k # m
      <4>1. k \in 0..(m - 1) /\ (k # 0 => k - 1 \in 0..(m - 1))
        BY <3>2, <1>1
      <4>2. g[k] = f[k] /\ (k # 0 => g[k - 1] = f[k - 1])
        BY <4>1, <3>2, <1>1
      <4> QED
        BY <2>1, <4>1, <4>2
    <3> QED
      BY <3>1, <3>2
  <2>3. Rec(g, m)
    BY <2>2
  <2> HIDE DEF Rec, g
  <2> QED
    BY <2>3, <1>1
<1> HIDE DEF Q
<1>4. n \in Q
  <2>1. \A i \in 0..n : i \in Q
    BY <1>1, <1>2, <1>3, SegmentInduction
  <2> QED
    BY <2>1, <1>1
<1>5. PICK f : Rec(f, n)
  BY <1>4 DEF Q
<1>6. AffectsFromChar(v, S) = (CHOOSE h : Rec(h, n))[n]
  BY DEF n, AffectsFromChar, Turns
<1> PICK h : h = CHOOSE g : Rec(g, n)
  OBVIOUS
<1>7. Rec(h, n)
  <2> HIDE DEF Rec
  <2> QED
    BY <1>5
<1>8. h[0] = v /\ \A k \in 1..n : h[k] = AffectFromChar(h[k - 1], SetToSeq(S)[k])
  <2>1. 0 \in 0..n /\ \A k \in 1..n : k \in 0..n /\ k # 0
    BY <1>1
  <2> QED
    BY <1>7, <2>1
<1> HIDE DEF Rec
<1> QED
  BY <1>6, <1>8 DEF n

\* affect_to_char, of one after the other.
LEMMA GivenRuns ==
    ASSUME NEW v, NEW afs \in Seq(Affected)
    PROVE  \E f : /\ f[0] = v
                  /\ \A k \in 1..Len(afs) : f[k] = AffectToChar(f[k - 1], afs[k])
                  /\ AffectsToChar(v, afs) = f[Len(afs)]
<1> DEFINE n == Len(afs)
           Rec(f, m) == f = [k \in 0..m |-> IF k = 0 THEN v ELSE AffectToChar(f[k - 1], afs[k])]
           Q == {m \in 0..n : \E f : Rec(f, m)}
<1>1. n \in Nat
  OBVIOUS
<1> HIDE DEF n
<1>2. 0 \in Q
  <2> DEFINE g == [k \in 0..0 |-> v]
  <2>1. Rec(g, 0)
    OBVIOUS
  <2> HIDE DEF Rec, g
  <2> QED
    BY <1>1, <2>1
<1>3. \A m \in 1..n : m - 1 \in Q => m \in Q
  <2> SUFFICES ASSUME NEW m \in 1..n, m - 1 \in Q PROVE m \in Q
    OBVIOUS
  <2>1. PICK f : Rec(f, m - 1)
    OBVIOUS
  <2> DEFINE g == [k \in 0..m |-> IF k = m THEN AffectToChar(f[m - 1], afs[m]) ELSE f[k]]
  <2>2. ASSUME NEW k \in 0..m
        PROVE  g[k] = IF k = 0 THEN v ELSE AffectToChar(g[k - 1], afs[k])
    <3>1. CASE k = m
      <4>1. g[k - 1] = f[m - 1] /\ k # 0
        BY <3>1, <1>1
      <4> QED
        BY <3>1, <4>1
    <3>2. CASE k # m
      <4>1. k \in 0..(m - 1) /\ (k # 0 => k - 1 \in 0..(m - 1))
        BY <3>2, <1>1
      <4>2. g[k] = f[k] /\ (k # 0 => g[k - 1] = f[k - 1])
        BY <4>1, <3>2, <1>1
      <4> QED
        BY <2>1, <4>1, <4>2
    <3> QED
      BY <3>1, <3>2
  <2>3. Rec(g, m)
    BY <2>2
  <2> HIDE DEF Rec, g
  <2> QED
    BY <2>3, <1>1
<1> HIDE DEF Q
<1>4. n \in Q
  <2>1. \A i \in 0..n : i \in Q
    BY <1>1, <1>2, <1>3, SegmentInduction
  <2> QED
    BY <2>1, <1>1
<1>5. PICK f : Rec(f, n)
  BY <1>4 DEF Q
<1>6. AffectsToChar(v, afs) = (CHOOSE h : Rec(h, n))[n]
  BY DEF n, AffectsToChar, Turns
<1> PICK h : h = CHOOSE g : Rec(g, n)
  OBVIOUS
<1>7. Rec(h, n)
  <2> HIDE DEF Rec
  <2> QED
    BY <1>5
<1>8. h[0] = v /\ \A k \in 1..n : h[k] = AffectToChar(h[k - 1], afs[k])
  <2>1. 0 \in 0..n /\ \A k \in 1..n : k \in 0..n /\ k # 0
    BY <1>1
  <2> QED
    BY <1>7, <2>1
<1> HIDE DEF Rec
<1> QED
  BY <1>6, <1>8 DEF n

\* unequip_char, position by position.
LEMMA StrippedRuns ==
    ASSUME NEW v
    PROVE  \E f : /\ f[0] = v
                  /\ \A k \in 1..MAX_WEAR : f[k] = Off(f[k - 1], k)
                  /\ Stripped(v) = f[MAX_WEAR]
<1> DEFINE n == MAX_WEAR
           Rec(f, m) == f = [k \in 0..m |-> IF k = 0 THEN v ELSE Off(f[k - 1], k)]
           Q == {m \in 0..n : \E f : Rec(f, m)}
<1>1. n \in Nat
  BY AffectsAssumption
<1> HIDE DEF n
<1>2. 0 \in Q
  <2> DEFINE g == [k \in 0..0 |-> v]
  <2>1. Rec(g, 0)
    OBVIOUS
  <2> HIDE DEF Rec, g
  <2> QED
    BY <1>1, <2>1
<1>3. \A m \in 1..n : m - 1 \in Q => m \in Q
  <2> SUFFICES ASSUME NEW m \in 1..n, m - 1 \in Q PROVE m \in Q
    OBVIOUS
  <2>1. PICK f : Rec(f, m - 1)
    OBVIOUS
  <2> DEFINE g == [k \in 0..m |-> IF k = m THEN Off(f[m - 1], m) ELSE f[k]]
  <2>2. ASSUME NEW k \in 0..m
        PROVE  g[k] = IF k = 0 THEN v ELSE Off(g[k - 1], k)
    <3>1. CASE k = m
      <4>1. g[k - 1] = f[m - 1] /\ k # 0
        BY <3>1, <1>1
      <4> QED
        BY <3>1, <4>1
    <3>2. CASE k # m
      <4>1. k \in 0..(m - 1) /\ (k # 0 => k - 1 \in 0..(m - 1))
        BY <3>2, <1>1
      <4>2. g[k] = f[k] /\ (k # 0 => g[k - 1] = f[k - 1])
        BY <4>1, <3>2, <1>1
      <4> QED
        BY <2>1, <4>1, <4>2
    <3> QED
      BY <3>1, <3>2
  <2>3. Rec(g, m)
    BY <2>2
  <2> HIDE DEF Rec, g
  <2> QED
    BY <2>3, <1>1
<1> HIDE DEF Q
<1>4. n \in Q
  <2>1. \A i \in 0..n : i \in Q
    BY <1>1, <1>2, <1>3, SegmentInduction
  <2> QED
    BY <2>1, <1>1
<1>5. PICK f : Rec(f, n)
  BY <1>4 DEF Q
<1>6. Stripped(v) = (CHOOSE h : Rec(h, n))[n]
  BY DEF n, Stripped, Turns, Off
<1> PICK h : h = CHOOSE g : Rec(g, n)
  OBVIOUS
<1>7. Rec(h, n)
  <2> HIDE DEF Rec
  <2> QED
    BY <1>5
<1>8. h[0] = v /\ \A k \in 1..n : h[k] = Off(h[k - 1], k)
  <2>1. 0 \in 0..n /\ \A k \in 1..n : k \in 0..n /\ k # 0
    BY <1>1
  <2> QED
    BY <1>7, <2>1
<1> HIDE DEF Rec
<1> QED
  BY <1>6, <1>8 DEF n

\* equip_char without tests, position by position.
LEMMA PutOnRuns ==
    ASSUME NEW v, NEW worn
    PROVE  \E f : /\ f[0] = v
                  /\ \A k \in 1..MAX_WEAR : f[k] = On(f[k - 1], worn, k)
                  /\ PutOn(v, worn) = f[MAX_WEAR]
<1> DEFINE n == MAX_WEAR
           Rec(f, m) == f = [k \in 0..m |-> IF k = 0 THEN v ELSE On(f[k - 1], worn, k)]
           Q == {m \in 0..n : \E f : Rec(f, m)}
<1>1. n \in Nat
  BY AffectsAssumption
<1> HIDE DEF n
<1>2. 0 \in Q
  <2> DEFINE g == [k \in 0..0 |-> v]
  <2>1. Rec(g, 0)
    OBVIOUS
  <2> HIDE DEF Rec, g
  <2> QED
    BY <1>1, <2>1
<1>3. \A m \in 1..n : m - 1 \in Q => m \in Q
  <2> SUFFICES ASSUME NEW m \in 1..n, m - 1 \in Q PROVE m \in Q
    OBVIOUS
  <2>1. PICK f : Rec(f, m - 1)
    OBVIOUS
  <2> DEFINE g == [k \in 0..m |-> IF k = m THEN On(f[m - 1], worn, m) ELSE f[k]]
  <2>2. ASSUME NEW k \in 0..m
        PROVE  g[k] = IF k = 0 THEN v ELSE On(g[k - 1], worn, k)
    <3>1. CASE k = m
      <4>1. g[k - 1] = f[m - 1] /\ k # 0
        BY <3>1, <1>1
      <4> QED
        BY <3>1, <4>1
    <3>2. CASE k # m
      <4>1. k \in 0..(m - 1) /\ (k # 0 => k - 1 \in 0..(m - 1))
        BY <3>2, <1>1
      <4>2. g[k] = f[k] /\ (k # 0 => g[k - 1] = f[k - 1])
        BY <4>1, <3>2, <1>1
      <4> QED
        BY <2>1, <4>1, <4>2
    <3> QED
      BY <3>1, <3>2
  <2>3. Rec(g, m)
    BY <2>2
  <2> HIDE DEF Rec, g
  <2> QED
    BY <2>3, <1>1
<1> HIDE DEF Q
<1>4. n \in Q
  <2>1. \A i \in 0..n : i \in Q
    BY <1>1, <1>2, <1>3, SegmentInduction
  <2> QED
    BY <2>1, <1>1
<1>5. PICK f : Rec(f, n)
  BY <1>4 DEF Q
<1>6. PutOn(v, worn) = (CHOOSE h : Rec(h, n))[n]
  BY DEF n, PutOn, Turns, On
<1> PICK h : h = CHOOSE g : Rec(g, n)
  OBVIOUS
<1>7. Rec(h, n)
  <2> HIDE DEF Rec
  <2> QED
    BY <1>5
<1>8. h[0] = v /\ \A k \in 1..n : h[k] = On(h[k - 1], worn, k)
  <2>1. 0 \in 0..n /\ \A k \in 1..n : k \in 0..n /\ k # 0
    BY <1>1
  <2> QED
    BY <1>7, <2>1
<1> HIDE DEF Rec
<1> QED
  BY <1>6, <1>8 DEF n

\* equip_char, position by position.
TriesOn(v, worn, R) ==
    \E f : /\ f[0] = v
           /\ \A k \in 1..MAX_WEAR : f[k] = Tried(f[k - 1], worn, k, R)
           /\ TryOn(v, worn, R) = f[MAX_WEAR]

LEMMA TryOnRuns ==
    ASSUME NEW v, NEW worn, NEW R
    PROVE  TriesOn(v, worn, R)
<1> DEFINE n == MAX_WEAR
           Rec(f, m) == f = [k \in 0..m |-> IF k = 0 THEN v ELSE Tried(f[k - 1], worn, k, R)]
           Q == {m \in 0..n : \E f : Rec(f, m)}
<1>1. n \in Nat
  BY AffectsAssumption
<1> HIDE DEF n
<1>2. 0 \in Q
  <2> DEFINE g == [k \in 0..0 |-> v]
  <2>1. Rec(g, 0)
    OBVIOUS
  <2> HIDE DEF Rec, g
  <2> QED
    BY <1>1, <2>1
<1>3. \A m \in 1..n : m - 1 \in Q => m \in Q
  <2> SUFFICES ASSUME NEW m \in 1..n, m - 1 \in Q PROVE m \in Q
    OBVIOUS
  <2>1. PICK f : Rec(f, m - 1)
    OBVIOUS
  <2> DEFINE g == [k \in 0..m |-> IF k = m THEN Tried(f[m - 1], worn, m, R) ELSE f[k]]
  <2>2. ASSUME NEW k \in 0..m
        PROVE  g[k] = IF k = 0 THEN v ELSE Tried(g[k - 1], worn, k, R)
    <3>1. CASE k = m
      <4>1. g[k - 1] = f[m - 1] /\ k # 0
        BY <3>1, <1>1
      <4> QED
        BY <3>1, <4>1
    <3>2. CASE k # m
      <4>1. k \in 0..(m - 1) /\ (k # 0 => k - 1 \in 0..(m - 1))
        BY <3>2, <1>1
      <4>2. g[k] = f[k] /\ (k # 0 => g[k - 1] = f[k - 1])
        BY <4>1, <3>2, <1>1
      <4> QED
        BY <2>1, <4>1, <4>2
    <3> QED
      BY <3>1, <3>2
  <2>3. Rec(g, m)
    BY <2>2
  <2> HIDE DEF Rec, g
  <2> QED
    BY <2>3, <1>1
<1> HIDE DEF Q
<1>4. n \in Q
  <2>1. \A i \in 0..n : i \in Q
    BY <1>1, <1>2, <1>3, SegmentInduction
  <2> QED
    BY <2>1, <1>1
<1>5. PICK f : Rec(f, n)
  BY <1>4 DEF Q
<1>6. TryOn(v, worn, R) = (CHOOSE h : Rec(h, n))[n]
  BY DEF n, TryOn, Turns, Tried
<1> PICK h : h = CHOOSE g : Rec(g, n)
  OBVIOUS
<1>7. Rec(h, n)
  <2> HIDE DEF Rec
  <2> QED
    BY <1>5
<1>8. h[0] = v /\ \A k \in 1..n : h[k] = Tried(h[k - 1], worn, k, R)
  <2>1. 0 \in 0..n /\ \A k \in 1..n : k \in 0..n /\ k # 0
    BY <1>1
  <2> QED
    BY <1>7, <2>1
<1> HIDE DEF Rec
<1>9. TryOn(v, worn, R) = h[MAX_WEAR] /\ \A k \in 1..MAX_WEAR : h[k] = Tried(h[k - 1], worn, k, R)
  BY <1>6, <1>8 DEF n
<1> QED
  BY <1>8, <1>9 DEF TriesOn

\* affect_update.
LEMMA WalkRuns ==
    ASSUME NEW v, v.affects \in Seq(Affected)
    PROVE  \E f : /\ f[0] = [v |-> v, k |-> 1]
                  /\ \A k \in 1..Len(v.affects) : f[k] = WalkOn(f[k - 1])
                  /\ Walked(v) = f[Len(v.affects)].v
<1> DEFINE n == Len(v.affects)
           Rec(f, m) == f = [k \in 0..m |-> IF k = 0 THEN [v |-> v, k |-> 1] ELSE WalkOn(f[k - 1])]
           Q == {m \in 0..n : \E f : Rec(f, m)}
<1>1. n \in Nat
  OBVIOUS
<1> HIDE DEF n
<1>2. 0 \in Q
  <2> DEFINE g == [k \in 0..0 |-> [v |-> v, k |-> 1]]
  <2>1. Rec(g, 0)
    OBVIOUS
  <2> HIDE DEF Rec, g
  <2> QED
    BY <1>1, <2>1
<1>3. \A m \in 1..n : m - 1 \in Q => m \in Q
  <2> SUFFICES ASSUME NEW m \in 1..n, m - 1 \in Q PROVE m \in Q
    OBVIOUS
  <2>1. PICK f : Rec(f, m - 1)
    OBVIOUS
  <2> DEFINE g == [k \in 0..m |-> IF k = m THEN WalkOn(f[m - 1]) ELSE f[k]]
  <2>2. ASSUME NEW k \in 0..m
        PROVE  g[k] = IF k = 0 THEN [v |-> v, k |-> 1] ELSE WalkOn(g[k - 1])
    <3>1. CASE k = m
      <4>1. g[k - 1] = f[m - 1] /\ k # 0
        BY <3>1, <1>1
      <4> QED
        BY <3>1, <4>1
    <3>2. CASE k # m
      <4>1. k \in 0..(m - 1) /\ (k # 0 => k - 1 \in 0..(m - 1))
        BY <3>2, <1>1
      <4>2. g[k] = f[k] /\ (k # 0 => g[k - 1] = f[k - 1])
        BY <4>1, <3>2, <1>1
      <4> QED
        BY <2>1, <4>1, <4>2
    <3> QED
      BY <3>1, <3>2
  <2>3. Rec(g, m)
    BY <2>2
  <2> HIDE DEF Rec, g
  <2> QED
    BY <2>3, <1>1
<1> HIDE DEF Q
<1>4. n \in Q
  <2>1. \A i \in 0..n : i \in Q
    BY <1>1, <1>2, <1>3, SegmentInduction
  <2> QED
    BY <2>1, <1>1
<1>5. PICK f : Rec(f, n)
  BY <1>4 DEF Q
<1>6. Walked(v) = (CHOOSE h : Rec(h, n))[n].v
  BY DEF n, Walked, Turns
<1> PICK h : h = CHOOSE g : Rec(g, n)
  OBVIOUS
<1>7. Rec(h, n)
  <2> HIDE DEF Rec
  <2> QED
    BY <1>5
<1>8. h[0] = [v |-> v, k |-> 1] /\ \A k \in 1..n : h[k] = WalkOn(h[k - 1])
  <2>1. 0 \in 0..n /\ \A k \in 1..n : k \in 0..n /\ k # 0
    BY <1>1
  <2> QED
    BY <1>7, <2>1
<1> HIDE DEF Rec
<1> QED
  BY <1>6, <1>8 DEF n

-----------------------------------------------------------------------------
(* Sums over sequences of affects.                                         *)

Counted == {"hitroll", "hp"}

LEMMA ModifierIs ==
    ASSUME NEW m \in Modifiers
    PROVE  /\ m.hitroll \in Int /\ m.saves \in Int /\ m.hp \in Int /\ m.stat \in Int
           /\ m.bits \subseteq Flags /\ m["hitroll"] = m.hitroll /\ m["hp"] = m.hp
BY DEF Modifiers

LEMMA SumIs ==
    ASSUME NEW ms \in Seq(Modifiers), NEW a \in Counted
    PROVE  /\ Sum(ms, a) \in Int
           /\ \E f \in [0..Len(ms) -> Int] : /\ f[0] = 0 /\ f[Len(ms)] = Sum(ms, a)
                                             /\ \A k \in 1..Len(ms) : f[k] = f[k - 1] + ms[k][a]
<1>1. PICK f : /\ f[0] = 0
               /\ \A k \in 1..Len(ms) : f[k] = f[k - 1] + ms[k][a]
               /\ Sum(ms, a) = f[Len(ms)]
  BY SumRuns
<1> DEFINE n == Len(ms)
           Q == {k \in 0..n : f[k] \in Int}
<1>2. n \in Nat /\ \A k \in 1..n : ms[k][a] \in Int
  <2>1. \A k \in 1..n : ms[k] \in Modifiers
    OBVIOUS
  <2> QED
    BY <2>1, ModifierIs DEF Counted
<1>3. 0 \in Q
  BY <1>1, <1>2
<1>4. \A k \in 1..n : k - 1 \in Q => k \in Q
  BY <1>1, <1>2
<1> HIDE DEF Q, n
<1>5. \A k \in 0..n : k \in Q
  BY <1>2, <1>3, <1>4, SegmentInduction
<1>6. \A k \in 0..n : f[k] \in Int
  BY <1>5 DEF Q
<1> DEFINE g == [k \in 0..n |-> f[k]]
<1>7. g \in [0..n -> Int] /\ g[0] = 0 /\ g[n] = Sum(ms, a) /\ g[n] \in Int
  BY <1>1, <1>2, <1>6 DEF n
<1>8. \A k \in 1..n : g[k] = g[k - 1] + ms[k][a]
  BY <1>1, <1>2 DEF n
<1> HIDE DEF g
<1> QED
  BY <1>7, <1>8 DEF n

LEMMA SumNone == \A a \in Counted : Sum(<<>>, a) = 0
<1> SUFFICES ASSUME NEW a \in Counted PROVE Sum(<<>>, a) = 0
  OBVIOUS
<1>1. <<>> \in Seq(Modifiers) /\ Len(<<>>) = 0
  OBVIOUS
<1>2. \E f \in [0..Len(<<>>) -> Int] : f[0] = 0 /\ f[Len(<<>>)] = Sum(<<>>, a)
  BY <1>1, SumIs
<1> QED
  BY <1>1, <1>2

LEMMA SumOne ==
    ASSUME NEW m \in Modifiers, NEW a \in Counted
    PROVE  Sum(<<m>>, a) = m[a]
<1> DEFINE ms == <<m>>
<1>1. ms \in Seq(Modifiers) /\ Len(ms) = 1 /\ ms[1] = m /\ m[a] \in Int
  BY ModifierIs DEF Counted
<1> HIDE DEF ms
<1>2. PICK f \in [0..Len(ms) -> Int] : /\ f[0] = 0 /\ f[Len(ms)] = Sum(ms, a)
                                       /\ \A k \in 1..Len(ms) : f[k] = f[k - 1] + ms[k][a]
  BY <1>1, SumIs
<1>3. f[1] = f[0] + ms[1][a]
  BY <1>1, <1>2
<1> QED
  BY <1>1, <1>2, <1>3 DEF ms

LEMMA SumConcat ==
    ASSUME NEW ms \in Seq(Modifiers), NEW ns \in Seq(Modifiers), NEW a \in Counted
    PROVE  Sum(ms \o ns, a) = Sum(ms, a) + Sum(ns, a)
<1> DEFINE all == ms \o ns
           m == Len(ms)
           n == Len(ns)
<1>1. /\ all \in Seq(Modifiers) /\ m \in Nat /\ n \in Nat /\ Len(all) = m + n
      /\ \A k \in 1..m : all[k] = ms[k]
      /\ \A k \in 1..n : all[m + k] = ns[k]
  OBVIOUS
<1>2. PICK f \in [0..m -> Int] : /\ f[0] = 0 /\ f[m] = Sum(ms, a)
                                 /\ \A k \in 1..m : f[k] = f[k - 1] + ms[k][a]
  BY SumIs
<1>3. PICK g \in [0..n -> Int] : /\ g[0] = 0 /\ g[n] = Sum(ns, a)
                                 /\ \A k \in 1..n : g[k] = g[k - 1] + ns[k][a]
  BY SumIs
<1> HIDE DEF all, m, n
<1>4. PICK h \in [0..(m + n) -> Int] :
          /\ h[0] = 0 /\ h[m + n] = Sum(all, a)
          /\ \A k \in 1..(m + n) : h[k] = h[k - 1] + all[k][a]
  <2>1. all \in Seq(Modifiers) /\ Len(all) = m + n
    BY <1>1
  <2>2. \E h \in [0..Len(all) -> Int] :
            /\ h[0] = 0 /\ h[Len(all)] = Sum(all, a)
            /\ \A k \in 1..Len(all) : h[k] = h[k - 1] + all[k][a]
    BY <2>1, SumIs
  <2> QED
    BY <2>1, <2>2
<1> DEFINE Q == {k \in 0..m : h[k] = f[k]}
           R == {k \in 0..n : h[m + k] = f[m] + g[k]}
<1>5. 0 \in Q
  BY <1>1, <1>2, <1>4
<1>6. \A k \in 1..m : k - 1 \in Q => k \in Q
  <2> SUFFICES ASSUME NEW k \in 1..m, k - 1 \in Q PROVE k \in Q
    OBVIOUS
  <2>1. k \in 1..(m + n) /\ k \in 0..m /\ h[k - 1] = f[k - 1] /\ all[k] = ms[k]
    BY <1>1
  <2> QED
    BY <1>2, <1>4, <2>1
<1> HIDE DEF Q
<1>7. m \in Q
  <2>1. \A k \in 0..m : k \in Q
    BY <1>1, <1>5, <1>6, SegmentInduction
  <2> QED
    BY <1>1, <2>1
<1>8. 0 \in R
  <2>1. h[m] = f[m] /\ f[m] \in Int
    BY <1>1, <1>2, <1>7 DEF Q
  <2> QED
    BY <1>1, <1>3, <2>1
<1>9. \A k \in 1..n : k - 1 \in R => k \in R
  <2> SUFFICES ASSUME NEW k \in 1..n, k - 1 \in R PROVE k \in R
    OBVIOUS
  <2>1. /\ m + k \in 1..(m + n) /\ k \in 0..n /\ k - 1 \in 0..n /\ all[m + k] = ns[k]
        /\ (m + k) - 1 = m + (k - 1)
    BY <1>1
  <2>2. h[m + (k - 1)] = f[m] + g[k - 1] /\ f[m] \in Int /\ g[k - 1] \in Int
    BY <1>1, <2>1
  <2>3. h[m + k] = h[m + (k - 1)] + ns[k][a] /\ g[k] = g[k - 1] + ns[k][a]
    BY <1>3, <1>4, <2>1
  <2>4. ns[k][a] \in Int
    <3>1. ns[k] \in Modifiers
      BY DEF n
    <3> QED
      BY <3>1, ModifierIs DEF Counted
  <2>5. h[m + k] = f[m] + g[k]
    BY <2>2, <2>3, <2>4
  <2> QED
    BY <2>1, <2>5
<1> HIDE DEF R
<1>10. n \in R
  <2>1. \A k \in 0..n : k \in R
    BY <1>1, <1>8, <1>9, SegmentInduction
  <2> QED
    BY <1>1, <2>1
<1> QED
  BY <1>2, <1>3, <1>4, <1>10 DEF R, all

LEMMA BitsOf ==
    /\ Bits(<<>>) = {}
    /\ \A m \in Modifiers : Bits(<<m>>) = m.bits
    /\ \A ms \in Seq(Modifiers) : Bits(ms) \subseteq Flags
    /\ \A ms, ns \in Seq(Modifiers) : Bits(ms \o ns) = Bits(ms) \cup Bits(ns)
<1>1. Bits(<<>>) = {}
  BY DEF Bits
<1>2. ASSUME NEW m \in Modifiers PROVE Bits(<<m>>) = m.bits
  BY DEF Bits
<1>3. ASSUME NEW ms \in Seq(Modifiers) PROVE Bits(ms) \subseteq Flags
  <2>1. \A k \in DOMAIN ms : ms[k] \in Modifiers
    OBVIOUS
  <2>2. \A k \in DOMAIN ms : ms[k].bits \subseteq Flags
    BY <2>1, ModifierIs
  <2> QED
    BY <2>2 DEF Bits
<1>4. ASSUME NEW ms \in Seq(Modifiers), NEW ns \in Seq(Modifiers)
      PROVE  Bits(ms \o ns) = Bits(ms) \cup Bits(ns)
  <2> DEFINE all == ms \o ns
             m == Len(ms)
             n == Len(ns)
  <2>1. /\ m \in Nat /\ n \in Nat /\ DOMAIN all = 1..(m + n) /\ DOMAIN ms = 1..m /\ DOMAIN ns = 1..n
        /\ \A k \in 1..m : all[k] = ms[k]
        /\ \A k \in 1..n : all[m + k] = ns[k]
        /\ \A k \in (1..(m + n)) \ (1..m) : all[k] = ns[k - m]
    OBVIOUS
  <2> HIDE DEF all, m, n
  <2>2. \A k \in 1..(m + n) : k \in 1..m \/ (k - m \in 1..n /\ k \notin 1..m)
    BY <2>1
  <2>3. (\A k \in 1..m : k \in 1..(m + n)) /\ \A k \in 1..n : m + k \in 1..(m + n)
    BY <2>1
  <2>4. Bits(all) \subseteq Bits(ms) \cup Bits(ns)
    BY <2>1, <2>2 DEF Bits
  <2>5. Bits(ms) \subseteq Bits(all)
    BY <2>1, <2>3 DEF Bits
  <2>6. Bits(ns) \subseteq Bits(all)
    BY <2>1, <2>3 DEF Bits
  <2> QED
    BY <2>4, <2>5, <2>6 DEF all
<1> QED
  BY <1>1, <1>2, <1>3, <1>4

-----------------------------------------------------------------------------
(* What is worn and what has been cast.                                    *)

\* What all give is what part and rest give.
Splits(all, part, rest) ==
    /\ Sum(all, "hitroll") = Sum(part, "hitroll") + Sum(rest, "hitroll")
    /\ Sum(all, "hp") = Sum(part, "hp") + Sum(rest, "hp")
    /\ Bits(all) = Bits(part) \cup Bits(rest)

LEMMA SumsAre ==
    ASSUME NEW ms \in Seq(Modifiers)
    PROVE  Sum(ms, "hitroll") \in Int /\ Sum(ms, "hp") \in Int /\ Bits(ms) \subseteq Flags
BY SumIs, BitsOf DEF Counted

LEMMA ConcatSplits ==
    ASSUME NEW ms \in Seq(Modifiers), NEW ns \in Seq(Modifiers)
    PROVE  Splits(ms \o ns, ms, ns)
BY SumConcat, BitsOf DEF Splits, Counted

LEMMA OneIs ==
    ASSUME NEW m \in Modifiers
    PROVE  /\ <<m>> \in Seq(Modifiers)
           /\ Sum(<<m>>, "hitroll") = m.hitroll /\ Sum(<<m>>, "hp") = m.hp /\ Bits(<<m>>) = m.bits
BY SumOne, BitsOf, ModifierIs DEF Counted

LEMMA NoneIs == Sum(<<>>, "hitroll") = 0 /\ Sum(<<>>, "hp") = 0 /\ Bits(<<>>) = {}
BY SumNone, BitsOf DEF Counted

ModOf(a) == Effects[a.spell][a.part]

LEMMA ModOfIs ==
    ASSUME NEW a \in Affected
    PROVE  ModOf(a) \in Modifiers /\ ModOf(a).hp = 0
<1>1. a.spell \in Spells /\ a.part \in DOMAIN Effects[a.spell]
  BY DEF Affected
<1>2. Effects[a.spell] \in Seq(Modifiers)
  BY <1>1, AffectsAssumption
<1> QED
  BY <1>1, <1>2, AffectsAssumption DEF ModOf

LEMMA OfAffectsIs ==
    ASSUME NEW afs \in Seq(Affected)
    PROVE  /\ OfAffects(afs) \in Seq(Modifiers) /\ Len(OfAffects(afs)) = Len(afs)
           /\ \A k \in 1..Len(afs) : OfAffects(afs)[k] = ModOf(afs[k])
<1>1. OfAffects(afs) = [k \in 1..Len(afs) |-> ModOf(afs[k])]
  BY DEF OfAffects, ModOf
<1>2. \A k \in 1..Len(afs) : ModOf(afs[k]) \in Modifiers
  <2>1. \A k \in 1..Len(afs) : afs[k] \in Affected
    OBVIOUS
  <2> QED
    BY <2>1, ModOfIs
<1> QED
  BY <1>1, <1>2

\* The growth spells refuse players.
LEMMA NoHealth ==
    ASSUME NEW afs \in Seq(Affected)
    PROVE  Sum(OfAffects(afs), "hp") = 0
<1> DEFINE ms == OfAffects(afs)
           n == Len(afs)
<1>1. /\ ms \in Seq(Modifiers) /\ Len(ms) = n /\ n \in Nat
      /\ \A k \in 1..n : ms[k]["hp"] = 0
  <2>1. \A k \in 1..n : afs[k] \in Affected
    OBVIOUS
  <2>2. ms \in Seq(Modifiers) /\ Len(ms) = n /\ \A k \in 1..n : ms[k] = ModOf(afs[k])
    BY OfAffectsIs
  <2>3. \A k \in 1..n : ModOf(afs[k])["hp"] = 0
    BY <2>1, ModOfIs, ModifierIs
  <2> QED
    BY <2>2, <2>3
<1> HIDE DEF ms, n
<1>2. PICK f \in [0..n -> Int] : /\ f[0] = 0 /\ f[n] = Sum(ms, "hp")
                                 /\ \A k \in 1..n : f[k] = f[k - 1] + ms[k]["hp"]
  <2>1. \E f \in [0..Len(ms) -> Int] : /\ f[0] = 0 /\ f[Len(ms)] = Sum(ms, "hp")
                                       /\ \A k \in 1..Len(ms) : f[k] = f[k - 1] + ms[k]["hp"]
    BY <1>1, SumIs DEF Counted
  <2> QED
    BY <1>1, <2>1
<1> DEFINE Q == {k \in 0..n : f[k] = 0}
<1>3. 0 \in Q
  BY <1>1, <1>2
<1>4. \A k \in 1..n : k - 1 \in Q => k \in Q
  BY <1>1, <1>2
<1> HIDE DEF Q
<1>5. \A k \in 0..n : k \in Q
  BY <1>1, <1>3, <1>4, SegmentInduction
<1> QED
  BY <1>1, <1>2, <1>5 DEF Q, ms

LEMMA AffectsCat ==
    ASSUME NEW s \in Seq(Affected), NEW t \in Seq(Affected)
    PROVE  /\ s \o t \in Seq(Affected) /\ Len(s) \in Nat /\ Len(t) \in Nat /\ Len(s \o t) = Len(s) + Len(t)
           /\ \A k \in 1..Len(s) : (s \o t)[k] = s[k]
           /\ \A k \in 1..Len(t) : (s \o t)[Len(s) + k] = t[k]
OBVIOUS

LEMMA SameAffects ==
    ASSUME NEW s \in Seq(Affected), NEW t \in Seq(Affected), Len(s) = Len(t), \A k \in 1..Len(s) : s[k] = t[k]
    PROVE  s = t
OBVIOUS

LEMMA ModsCat ==
    ASSUME NEW s \in Seq(Modifiers), NEW t \in Seq(Modifiers)
    PROVE  /\ s \o t \in Seq(Modifiers) /\ Len(s) \in Nat /\ Len(t) \in Nat /\ Len(s \o t) = Len(s) + Len(t)
           /\ \A k \in 1..Len(s) : (s \o t)[k] = s[k]
           /\ \A k \in 1..Len(t) : (s \o t)[Len(s) + k] = t[k]
OBVIOUS

LEMMA SameMods ==
    ASSUME NEW s \in Seq(Modifiers), NEW t \in Seq(Modifiers), Len(s) = Len(t), \A k \in 1..Len(s) : s[k] = t[k]
    PROVE  s = t
OBVIOUS

LEMMA AffectsConcat ==
    ASSUME NEW afs \in Seq(Affected), NEW bs \in Seq(Affected)
    PROVE  OfAffects(afs \o bs) = OfAffects(afs) \o OfAffects(bs)
<1> DEFINE m == Len(afs)
           n == Len(bs)
           F == OfAffects(afs)
           G == OfAffects(bs)
           H == OfAffects(afs \o bs)
<1>1. /\ afs \o bs \in Seq(Affected) /\ Len(afs \o bs) = m + n /\ m \in Nat /\ n \in Nat
      /\ \A k \in 1..m : (afs \o bs)[k] = afs[k]
      /\ \A k \in 1..n : (afs \o bs)[m + k] = bs[k]
  BY AffectsCat
<1>2. /\ F \in Seq(Modifiers) /\ Len(F) = m /\ \A k \in 1..m : F[k] = ModOf(afs[k])
      /\ G \in Seq(Modifiers) /\ Len(G) = n /\ \A k \in 1..n : G[k] = ModOf(bs[k])
  BY OfAffectsIs
<1>3. H \in Seq(Modifiers) /\ Len(H) = m + n /\ \A k \in 1..(m + n) : H[k] = ModOf((afs \o bs)[k])
  <2> DEFINE cs == afs \o bs
  <2>1. cs \in Seq(Affected) /\ Len(cs) = m + n
    BY <1>1
  <2> HIDE DEF cs
  <2>2. OfAffects(cs) \in Seq(Modifiers) /\ Len(OfAffects(cs)) = Len(cs) /\ \A k \in 1..Len(cs) : OfAffects(cs)[k] = ModOf(cs[k])
    BY <2>1, OfAffectsIs
  <2> QED
    BY <2>1, <2>2 DEF cs
<1> HIDE DEF F, G, H, m, n
<1>4. /\ F \o G \in Seq(Modifiers) /\ Len(F \o G) = m + n
      /\ \A k \in 1..m : (F \o G)[k] = F[k]
      /\ \A k \in 1..n : (F \o G)[m + k] = G[k]
  BY <1>2, ModsCat
<1>5. ASSUME NEW k \in 1..(m + n) PROVE H[k] = (F \o G)[k]
  <2>1. CASE k \in 1..m
    BY <1>1, <1>2, <1>3, <1>4, <2>1
  <2>2. CASE k \notin 1..m
    <3> DEFINE j == k - m
    <3>1. j \in 1..n /\ k = m + j
      BY <1>1, <2>2
    <3> HIDE DEF j
    <3>2. H[k] = ModOf(bs[j])
      BY <1>1, <1>3, <3>1
    <3>3. (F \o G)[m + j] = G[j] /\ G[j] = ModOf(bs[j])
      BY <1>2, <1>4, <3>1
    <3> QED
      BY <3>1, <3>2, <3>3
  <2> QED
    BY <2>1, <2>2
<1>6. H = F \o G
  <2> DEFINE K == F \o G
  <2>1. K \in Seq(Modifiers) /\ Len(K) = m + n /\ \A k \in 1..(m + n) : H[k] = K[k]
    BY <1>4, <1>5
  <2> HIDE DEF K
  <2>2. H = K
    BY <1>3, <2>1, SameMods
  <2> QED
    BY <2>2 DEF K
<1> QED
  BY <1>6 DEF F, G, H

LEMMA HeadSplits ==
    ASSUME NEW a \in Affected, NEW afs \in Seq(Affected)
    PROVE  <<a>> \o afs \in Seq(Affected) /\ Splits(OfAffects(<<a>> \o afs), <<ModOf(a)>>, OfAffects(afs))
<1>1. <<a>> \in Seq(Affected) /\ <<a>> \o afs \in Seq(Affected)
  OBVIOUS
<1>2. OfAffects(<<a>> \o afs) = OfAffects(<<a>>) \o OfAffects(afs)
  BY <1>1, AffectsConcat
<1>3. OfAffects(<<a>>) = <<ModOf(a)>>
  BY DEF OfAffects, ModOf
<1>4. <<ModOf(a)>> \in Seq(Modifiers) /\ OfAffects(afs) \in Seq(Modifiers)
  BY ModOfIs, OfAffectsIs
<1> QED
  BY <1>1, <1>2, <1>3, <1>4, ConcatSplits

LEMMA RemoveSplits ==
    ASSUME NEW afs \in Seq(Affected), NEW k \in 1..Len(afs)
    PROVE  /\ RemoveAt(afs, k) \in Seq(Affected) /\ Len(RemoveAt(afs, k)) = Len(afs) - 1
           /\ \A j \in 1..(k - 1) : RemoveAt(afs, k)[j] = afs[j]
           /\ Splits(OfAffects(afs), <<ModOf(afs[k])>>, OfAffects(RemoveAt(afs, k)))
<1> DEFINE low == SubSeq(afs, 1, k - 1)
           top == SubSeq(afs, k + 1, Len(afs))
           one == <<afs[k]>>
<1>1. /\ low \in Seq(Affected) /\ top \in Seq(Affected) /\ one \in Seq(Affected)
      /\ Len(low) = k - 1 /\ Len(top) = Len(afs) - k /\ Len(one) = 1
      /\ \A j \in 1..(k - 1) : low[j] = afs[j]
      /\ \A j \in 1..(Len(afs) - k) : top[j] = afs[k + j]
      /\ one[1] = afs[k]
  OBVIOUS
<1>0. low \in Seq(Affected) /\ top \in Seq(Affected) /\ one \in Seq(Affected) /\ Len(afs) \in Nat /\ k \in Nat
  OBVIOUS
<1>2. RemoveAt(afs, k) = low \o top
  BY DEF RemoveAt
<1> HIDE DEF low, top, one
<1>3. low \o top \in Seq(Affected) /\ Len(low \o top) = Len(afs) - 1 /\ \A j \in 1..(k - 1) : (low \o top)[j] = afs[j]
  <2>1. Len(low \o top) = Len(low) + Len(top) /\ low \o top \in Seq(Affected)
    BY <1>0, AffectsCat
  <2>2. \A j \in 1..Len(low) : (low \o top)[j] = low[j]
    BY <1>0, AffectsCat
  <2> QED
    BY <1>0, <1>1, <2>1, <2>2
<1>4. one \o top \in Seq(Affected) /\ Len(one \o top) = (Len(afs) - k) + 1
  <2>1. Len(one \o top) = Len(one) + Len(top) /\ one \o top \in Seq(Affected)
    BY <1>0, AffectsCat
  <2> QED
    BY <1>0, <1>1, <2>1
<1>5. afs = low \o (one \o top)
  <2> DEFINE whole == low \o (one \o top)
  <2>1. whole \in Seq(Affected) /\ Len(whole) = Len(afs)
    <3>1. Len(whole) = (k - 1) + ((Len(afs) - k) + 1) /\ whole \in Seq(Affected)
      <4>1. Len(low \o (one \o top)) = Len(low) + Len(one \o top) /\ low \o (one \o top) \in Seq(Affected)
        BY <1>0, <1>4, AffectsCat
      <4> QED
        BY <1>1, <1>4, <4>1
    <3> QED
      BY <1>0, <3>1
  <2>2. ASSUME NEW j \in 1..Len(afs) PROVE whole[j] = afs[j]
    <3> DEFINE rest == one \o top
    <3>1. /\ rest \in Seq(Affected) /\ rest[1] = one[1]
          /\ \A i \in 1..Len(top) : rest[1 + i] = top[i]
      <4>1. \A i \in 1..Len(one) : rest[i] = one[i]
        BY <1>0, AffectsCat
      <4>2. \A i \in 1..Len(top) : rest[Len(one) + i] = top[i]
        BY <1>0, AffectsCat
      <4> QED
        BY <1>1, <1>4, <4>1, <4>2
    <3>0. rest \in Seq(Affected)
      BY <3>1
    <3> HIDE DEF rest
    <3>2. /\ \A i \in 1..(k - 1) : (low \o rest)[i] = low[i]
          /\ \A i \in 1..Len(rest) : (low \o rest)[(k - 1) + i] = rest[i]
      <4>1. \A i \in 1..Len(low) : (low \o rest)[i] = low[i]
        BY <1>0, <3>0, AffectsCat
      <4>2. \A i \in 1..Len(rest) : (low \o rest)[Len(low) + i] = rest[i]
        BY <1>0, <3>0, AffectsCat
      <4> QED
        BY <1>1, <4>1, <4>2
    <3>3. Len(rest) = (Len(afs) - k) + 1
      BY <1>4 DEF rest
    <3>4. CASE j < k
      BY <1>1, <3>2, <3>4 DEF rest
    <3>5. CASE j = k
      <4>1. 1 \in 1..Len(rest) /\ (k - 1) + 1 = j
        BY <3>3, <3>5
      <4>2. (low \o rest)[(k - 1) + 1] = rest[1]
        BY <3>2, <4>1
      <4> QED
        BY <1>1, <3>1, <3>5, <4>1, <4>2 DEF rest
    <3>6. CASE j > k
      <4> DEFINE i == j - k
      <4>1. i \in 1..Len(top) /\ 1 + i \in 1..Len(rest) /\ (k - 1) + (1 + i) = j /\ k + i = j
        BY <1>0, <1>1, <3>3, <3>6
      <4> HIDE DEF i
      <4>2. (low \o rest)[(k - 1) + (1 + i)] = rest[1 + i] /\ rest[1 + i] = top[i]
        BY <3>1, <3>2, <4>1
      <4>3. i \in 1..(Len(afs) - k) /\ top[i] = afs[k + i]
        BY <1>1, <4>1
      <4>4. (low \o rest)[j] = top[i]
        BY <4>1, <4>2
      <4>5. top[i] = afs[j]
        BY <4>1, <4>3
      <4> QED
        BY <4>4, <4>5 DEF rest
    <3>7. j < k \/ j = k \/ j > k
      BY <1>0
    <3> HIDE DEF whole
    <3> QED
      BY <3>4, <3>5, <3>6, <3>7
  <2> HIDE DEF whole
  <2>3. afs = whole
    BY <2>1, <2>2, SameAffects
  <2> QED
    BY <2>3 DEF whole
<1> DEFINE L == OfAffects(low)
           T == OfAffects(top)
           O == OfAffects(one)
<1>6. L \in Seq(Modifiers) /\ T \in Seq(Modifiers) /\ O \in Seq(Modifiers) /\ O \o T \in Seq(Modifiers)
  BY <1>1, OfAffectsIs
<1>7. O = <<ModOf(afs[k])>>
  BY DEF OfAffects, ModOf, one
<1>8. OfAffects(afs) = L \o (O \o T) /\ OfAffects(low \o top) = L \o T
  <2>1. OfAffects(low \o (one \o top)) = L \o OfAffects(one \o top)
    BY <1>1, <1>4, AffectsConcat
  <2>2. OfAffects(one \o top) = O \o T /\ OfAffects(low \o top) = L \o T
    BY <1>1, AffectsConcat
  <2> QED
    BY <1>5, <2>1, <2>2
<1> HIDE DEF L, T, O
<1>9. Splits(L \o (O \o T), L, O \o T) /\ Splits(O \o T, O, T) /\ Splits(L \o T, L, T)
  BY <1>6, ConcatSplits
<1>10. Splits(L \o (O \o T), O, L \o T)
  <2>1. /\ Sum(L, "hitroll") \in Int /\ Sum(T, "hitroll") \in Int /\ Sum(O, "hitroll") \in Int
        /\ Sum(L, "hp") \in Int /\ Sum(T, "hp") \in Int /\ Sum(O, "hp") \in Int
    BY <1>6, SumsAre
  <2>2. Bits(L \o (O \o T)) = Bits(O) \cup Bits(L \o T)
    BY <1>9 DEF Splits
  <2> QED
    BY <1>9, <2>1, <2>2 DEF Splits
<1> QED
  BY <1>2, <1>3, <1>7, <1>8, <1>10

LEMMA EffectsAre ==
    ASSUME NEW x \in Spells \cup Items
    PROVE  Effects[x] \in Seq(Modifiers)
BY AffectsAssumption

LEMMA OfWornIs ==
    ASSUME NEW worn \in Worn
    PROVE  /\ OfWorn(worn) \in Seq(Modifiers)
           /\ \E f \in [0..MAX_WEAR -> Seq(Modifiers)] :
                  /\ f[0] = <<>> /\ OfWorn(worn) = f[MAX_WEAR]
                  /\ \A p \in 1..MAX_WEAR : f[p] = Adds(f[p - 1], worn, p)
<1>0. MAX_WEAR \in Nat
  BY AffectsAssumption
<1>1. PICK f : /\ f[0] = <<>>
               /\ \A p \in 1..MAX_WEAR : f[p] = Adds(f[p - 1], worn, p)
               /\ OfWorn(worn) = f[MAX_WEAR]
  BY WornRuns
<1> DEFINE Q == {p \in 0..MAX_WEAR : f[p] \in Seq(Modifiers)}
<1>2. 0 \in Q
  <2>1. f[0] \in Seq(Modifiers)
    BY <1>1
  <2> QED
    BY <1>0, <2>1
<1>3. \A p \in 1..MAX_WEAR : p - 1 \in Q => p \in Q
  <2> SUFFICES ASSUME NEW p \in 1..MAX_WEAR, p - 1 \in Q PROVE p \in Q
    OBVIOUS
  <2>1. f[p - 1] \in Seq(Modifiers) /\ p \in 0..MAX_WEAR
    BY <1>0
  <2>2. worn[p] # NoItem => worn[p] \in Items
    BY DEF Worn
  <2>3. worn[p] # NoItem => Effects[worn[p]] \in Seq(Modifiers)
    BY <2>2, EffectsAre
  <2>4. worn[p] # NoItem => f[p - 1] \o Effects[worn[p]] \in Seq(Modifiers)
    BY <2>1, <2>3, ModsCat
  <2>5. f[p] \in Seq(Modifiers)
    BY <1>1, <2>1, <2>4 DEF Adds
  <2> QED
    BY <2>1, <2>5
<1> HIDE DEF Q
<1>4. \A p \in 0..MAX_WEAR : p \in Q
  BY <1>0, <1>2, <1>3, SegmentInduction
<1>5. \A p \in 0..MAX_WEAR : f[p] \in Seq(Modifiers)
  BY <1>4 DEF Q
<1> DEFINE g == [p \in 0..MAX_WEAR |-> f[p]]
<1>6. g \in [0..MAX_WEAR -> Seq(Modifiers)] /\ g[0] = <<>> /\ OfWorn(worn) = g[MAX_WEAR]
  BY <1>0, <1>1, <1>5
<1>7. \A p \in 1..MAX_WEAR : g[p] = Adds(g[p - 1], worn, p)
  <2> SUFFICES ASSUME NEW p \in 1..MAX_WEAR PROVE g[p] = Adds(g[p - 1], worn, p)
    OBVIOUS
  <2>1. g[p] = f[p] /\ g[p - 1] = f[p - 1]
    BY <1>0
  <2> QED
    BY <1>1, <2>1
<1>8. OfWorn(worn) \in Seq(Modifiers)
  BY <1>0, <1>1, <1>5
<1> HIDE DEF g
<1> QED
  BY <1>6, <1>7, <1>8

LEMMA SplitsBehind ==
    ASSUME NEW x \in Seq(Modifiers), NEW y \in Seq(Modifiers), NEW m \in Seq(Modifiers),
           NEW z \in Seq(Modifiers), Splits(x, m, y)
    PROVE  Splits(x \o z, m, y \o z)
<1>1. Splits(x \o z, x, z) /\ Splits(y \o z, y, z)
  BY ConcatSplits
<1>2. /\ Sum(x, "hitroll") \in Int /\ Sum(y, "hitroll") \in Int /\ Sum(z, "hitroll") \in Int
      /\ Sum(x, "hp") \in Int /\ Sum(y, "hp") \in Int /\ Sum(z, "hp") \in Int
      /\ Sum(m, "hitroll") \in Int /\ Sum(m, "hp") \in Int
  BY SumsAre
<1>3. Bits(x \o z) = Bits(m) \cup Bits(y \o z)
  BY <1>1 DEF Splits
<1> QED
  BY <1>1, <1>2, <1>3 DEF Splits

LEMMA SplitsAfter ==
    ASSUME NEW x \in Seq(Modifiers), NEW y \in Seq(Modifiers), NEW m \in Seq(Modifiers),
           NEW z \in Seq(Modifiers), Splits(x, m, y)
    PROVE  Splits(z \o x, m, z \o y)
<1>1. Splits(z \o x, z, x) /\ Splits(z \o y, z, y)
  BY ConcatSplits
<1>2. /\ Sum(x, "hitroll") \in Int /\ Sum(y, "hitroll") \in Int /\ Sum(z, "hitroll") \in Int
      /\ Sum(x, "hp") \in Int /\ Sum(y, "hp") \in Int /\ Sum(z, "hp") \in Int
      /\ Sum(m, "hitroll") \in Int /\ Sum(m, "hp") \in Int
  BY SumsAre
<1>3. Bits(z \o x) = Bits(m) \cup Bits(z \o y)
  BY <1>1 DEF Splits
<1> QED
  BY <1>1, <1>2, <1>3 DEF Splits

\* An object adds what it gives, wherever it is worn.
LEMMA WornSplits ==
    ASSUME NEW worn \in Worn, NEW p \in 1..MAX_WEAR, NEW i \in Items, worn[p] = NoItem
    PROVE  /\ [worn EXCEPT ![p] = i] \in Worn
           /\ Splits(OfWorn([worn EXCEPT ![p] = i]), Effects[i], OfWorn(worn))
<1> DEFINE new == [worn EXCEPT ![p] = i]
<1>0. MAX_WEAR \in Nat /\ i # NoItem /\ Effects[i] \in Seq(Modifiers)
  BY AffectsAssumption, EffectsAre
<1>1. new \in Worn /\ new[p] = i /\ \A q \in 1..MAX_WEAR : q # p => new[q] = worn[q]
  BY DEF Worn
<1> HIDE DEF new
<1>2. PICK f \in [0..MAX_WEAR -> Seq(Modifiers)] :
                  /\ f[0] = <<>> /\ OfWorn(worn) = f[MAX_WEAR]
                  /\ \A q \in 1..MAX_WEAR : f[q] = Adds(f[q - 1], worn, q)
  BY OfWornIs
<1>3. PICK g \in [0..MAX_WEAR -> Seq(Modifiers)] :
                  /\ g[0] = <<>> /\ OfWorn(new) = g[MAX_WEAR]
                  /\ \A q \in 1..MAX_WEAR : g[q] = Adds(g[q - 1], new, q)
  BY <1>1, OfWornIs
<1> DEFINE Q == {q \in 0..MAX_WEAR : IF q < p THEN g[q] = f[q] ELSE Splits(g[q], Effects[i], f[q])}
<1>4. 0 \in Q
  BY <1>0, <1>2, <1>3
<1>5. \A q \in 1..MAX_WEAR : q - 1 \in Q => q \in Q
  <2> SUFFICES ASSUME NEW q \in 1..MAX_WEAR, q - 1 \in Q PROVE q \in Q
    OBVIOUS
  <2>1. /\ q \in 0..MAX_WEAR /\ q - 1 \in 0..MAX_WEAR /\ q \in Nat /\ p \in Nat
        /\ f[q - 1] \in Seq(Modifiers) /\ g[q - 1] \in Seq(Modifiers)
    BY <1>0
  <2>2. f[q] = Adds(f[q - 1], worn, q) /\ g[q] = Adds(g[q - 1], new, q)
    BY <1>2, <1>3
  <2>3. CASE q < p
    <3>1. q - 1 < p /\ g[q - 1] = f[q - 1] /\ new[q] = worn[q]
      BY <1>1, <2>1, <2>3
    <3>2. g[q] = f[q]
      BY <2>2, <3>1 DEF Adds
    <3> QED
      BY <2>1, <2>3, <3>2
  <2>4. CASE q = p
    <3>1. f[q] = f[q - 1] /\ g[q] = g[q - 1] \o Effects[i]
      BY <1>0, <1>1, <2>2, <2>4 DEF Adds
    <3>2. g[q - 1] = f[q - 1]
      BY <2>1, <2>4
    <3>3. Splits(g[q], f[q], Effects[i])
      BY <1>0, <2>1, <3>1, <3>2, ConcatSplits
    <3>4. Sum(f[q], "hitroll") \in Int /\ Sum(f[q], "hp") \in Int
          /\ Sum(Effects[i], "hitroll") \in Int /\ Sum(Effects[i], "hp") \in Int
      BY <1>0, <2>1, <3>1, SumsAre
    <3>5. Splits(g[q], Effects[i], f[q])
      BY <3>3, <3>4 DEF Splits
    <3> QED
      BY <2>1, <2>4, <3>5
  <2>5. CASE q > p
    <3>1. Splits(g[q - 1], Effects[i], f[q - 1])
      BY <2>1, <2>5
    <3>2. new[q] = worn[q] /\ (worn[q] # NoItem => worn[q] \in Items)
      BY <1>1, <2>5 DEF Worn
    <3>3. CASE worn[q] = NoItem
      <4>1. f[q] = f[q - 1] /\ g[q] = g[q - 1]
        BY <2>2, <3>2, <3>3 DEF Adds
      <4> QED
        BY <2>1, <2>5, <3>1, <4>1
    <3>4. CASE worn[q] # NoItem
      <4>1. Effects[worn[q]] \in Seq(Modifiers)
        BY <3>2, <3>4, EffectsAre
      <4>2. f[q] = f[q - 1] \o Effects[worn[q]] /\ g[q] = g[q - 1] \o Effects[worn[q]]
        BY <2>2, <3>2, <3>4 DEF Adds
      <4>3. Splits(g[q], Effects[i], f[q])
        BY <1>0, <2>1, <3>1, <4>1, <4>2, SplitsBehind
      <4> QED
        BY <2>1, <2>5, <4>3
    <3> QED
      BY <3>3, <3>4
  <2>6. q < p \/ q = p \/ q > p
    BY <2>1
  <2> QED
    BY <2>3, <2>4, <2>5, <2>6
<1> HIDE DEF Q
<1>6. \A q \in 0..MAX_WEAR : q \in Q
  BY <1>0, <1>4, <1>5, SegmentInduction
<1>7. MAX_WEAR \in Q /\ ~ (MAX_WEAR < p)
  BY <1>0, <1>6
<1> QED
  BY <1>1, <1>2, <1>3, <1>7 DEF Q, new

LEMMA NothingWorn == OfWorn(Bare) = <<>>
<1>0. MAX_WEAR \in Nat /\ Bare \in Worn /\ \A p \in 1..MAX_WEAR : Bare[p] = NoItem
  BY AffectsAssumption DEF Bare, Worn
<1>1. PICK f \in [0..MAX_WEAR -> Seq(Modifiers)] :
                  /\ f[0] = <<>> /\ OfWorn(Bare) = f[MAX_WEAR]
                  /\ \A q \in 1..MAX_WEAR : f[q] = Adds(f[q - 1], Bare, q)
  BY <1>0, OfWornIs
<1> DEFINE Q == {q \in 0..MAX_WEAR : f[q] = <<>>}
<1>2. 0 \in Q
  BY <1>0, <1>1
<1>3. \A q \in 1..MAX_WEAR : q - 1 \in Q => q \in Q
  BY <1>0, <1>1 DEF Adds
<1> HIDE DEF Q
<1>4. \A q \in 0..MAX_WEAR : q \in Q
  BY <1>0, <1>2, <1>3, SegmentInduction
<1> QED
  BY <1>0, <1>1, <1>4 DEF Q

-----------------------------------------------------------------------------
(* affect_modify and affect_total.                                         *)

LEMMA BearerFields ==
    ASSUME NEW v \in Bearers
    PROVE  /\ v.at \in Places /\ v.in_room \in Rooms /\ v.align \in {"good", "evil"} /\ v.affects \in Seq(Affected)
           /\ v.worn \in Worn /\ v.pack \subseteq Items /\ v.ground \subseteq Items
           /\ v.hitroll \in Int /\ v.saves \in Int /\ v.hp \in Int /\ v.stat \in 0..Top
           /\ v.bits \subseteq Flags /\ v.air \in BOOLEAN /\ v.file \in Files /\ v.rent \in Rents
BY DEF Bearers

\* All but the quantities is as it was.
Alike(u, v) ==
    /\ u \in Bearers
    /\ u.at = v.at /\ u.align = v.align /\ u.affects = v.affects /\ u.worn = v.worn
    /\ u.pack = v.pack /\ u.ground = v.ground /\ u.air = v.air /\ u.file = v.file /\ u.rent = v.rent

\* u is v with these quantities.
Has(u, v, hitroll, hp, bits) == Alike(u, v) /\ u.hitroll = hitroll /\ u.hp = hp /\ u.bits = bits

LEMMA Rescored ==
    ASSUME NEW v \in Bearers, NEW b \in SUBSET Flags, NEW s \in 0..Top,
           NEW h \in Int, NEW t \in Int, NEW l \in Int
    PROVE  Has([v EXCEPT !.bits = b, !.stat = s, !.hitroll = h, !.saves = t, !.hp = l], v, h, l, b)
BY DEF Bearers, Alike, Has

LEMMA RestatIs ==
    ASSUME NEW v \in Bearers, NEW s \in 0..Top
    PROVE  /\ Has([v EXCEPT !.stat = s], v, v.hitroll, v.hp, v.bits)
           /\ [v EXCEPT !.stat = s].stat = s
BY DEF Bearers, Alike, Has

LEMMA ScoredIs ==
    ASSUME NEW s \in Int, NEW d \in Int
    PROVE  Scored(s, d) \in 0..Top
<1>1. Top \in Int /\ 0 <= Top
  BY AffectsAssumption
<1> QED
  BY <1>1 DEF Scored

LEMMA Adding ==
    ASSUME NEW v \in Bearers, NEW m \in Modifiers
    PROVE  Has(Modify(v, m, TRUE), v, v.hitroll + m.hitroll, v.hp + m.hp, v.bits \cup m.bits)
<1> DEFINE d == 1 * m.stat
           s == Scored(v.stat, d)
           h == v.hitroll + 1 * m.hitroll
           t == v.saves + 1 * m.saves
           l == v.hp + 1 * m.hp
           b == v.bits \cup m.bits
<1>1. m.hitroll \in Int /\ m.saves \in Int /\ m.hp \in Int /\ m.stat \in Int /\ m.bits \subseteq Flags
  BY ModifierIs
<1>2. /\ v.hitroll \in Int /\ v.saves \in Int /\ v.hp \in Int /\ v.stat \in 0..Top /\ v.bits \subseteq Flags
      /\ Top \in Int
  BY BearerFields, AffectsAssumption
<1>3. v.stat \in Int /\ d \in Int
  BY <1>1, <1>2
<1>4. s \in 0..Top
  <2> HIDE DEF d
  <2> QED
    BY <1>3, ScoredIs
<1>5. h = v.hitroll + m.hitroll /\ l = v.hp + m.hp /\ h \in Int /\ t \in Int /\ l \in Int
  BY <1>1, <1>2
<1>6. b \in SUBSET Flags
  BY <1>1, <1>2
<1>7. Modify(v, m, TRUE) = [v EXCEPT !.bits = b, !.stat = s, !.hitroll = h, !.saves = t, !.hp = l]
  BY DEF Modify, Flagged
<1> HIDE DEF d, s, h, t, l, b
<1>8. Has([v EXCEPT !.bits = b, !.stat = s, !.hitroll = h, !.saves = t, !.hp = l], v, h, l, b)
  BY <1>4, <1>5, <1>6, Rescored
<1> QED
  BY <1>5, <1>7, <1>8 DEF b

LEMMA Taking ==
    ASSUME NEW v \in Bearers, NEW m \in Modifiers
    PROVE  Has(Modify(v, m, FALSE), v, v.hitroll - m.hitroll, v.hp - m.hp, v.bits \ m.bits)
<1> DEFINE d == (-1) * m.stat
           s == Scored(v.stat, d)
           h == v.hitroll + (-1) * m.hitroll
           t == v.saves + (-1) * m.saves
           l == v.hp + (-1) * m.hp
           b == v.bits \ m.bits
<1>1. m.hitroll \in Int /\ m.saves \in Int /\ m.hp \in Int /\ m.stat \in Int /\ m.bits \subseteq Flags
  BY ModifierIs
<1>2. /\ v.hitroll \in Int /\ v.saves \in Int /\ v.hp \in Int /\ v.stat \in 0..Top /\ v.bits \subseteq Flags
      /\ Top \in Int
  BY BearerFields, AffectsAssumption
<1>3. v.stat \in Int /\ d \in Int
  BY <1>1, <1>2
<1>4. s \in 0..Top
  <2> HIDE DEF d
  <2> QED
    BY <1>3, ScoredIs
<1>5. h = v.hitroll - m.hitroll /\ l = v.hp - m.hp /\ h \in Int /\ t \in Int /\ l \in Int
  BY <1>1, <1>2
<1>6. b \in SUBSET Flags
  BY <1>1, <1>2
<1>7. Modify(v, m, FALSE) = [v EXCEPT !.bits = b, !.stat = s, !.hitroll = h, !.saves = t, !.hp = l]
  BY DEF Modify, Flagged
<1> HIDE DEF d, s, h, t, l, b
<1>8. Has([v EXCEPT !.bits = b, !.stat = s, !.hitroll = h, !.saves = t, !.hp = l], v, h, l, b)
  BY <1>4, <1>5, <1>6, Rescored
<1> QED
  BY <1>5, <1>7, <1>8 DEF b

\* The sums, turn by turn.
LEMMA SumTurns ==
    ASSUME NEW ms \in Seq(Modifiers)
    PROVE  /\ \E h \in [0..Len(ms) -> Int] : /\ h[0] = 0 /\ h[Len(ms)] = Sum(ms, "hitroll")
                                             /\ \A k \in 1..Len(ms) : h[k] = h[k - 1] + ms[k].hitroll
           /\ \E l \in [0..Len(ms) -> Int] : /\ l[0] = 0 /\ l[Len(ms)] = Sum(ms, "hp")
                                             /\ \A k \in 1..Len(ms) : l[k] = l[k - 1] + ms[k].hp
<1>1. \A k \in 1..Len(ms) : ms[k]["hitroll"] = ms[k].hitroll /\ ms[k]["hp"] = ms[k].hp
  <2>1. \A k \in 1..Len(ms) : ms[k] \in Modifiers
    OBVIOUS
  <2> QED
    BY <2>1, ModifierIs
<1>2. PICK h \in [0..Len(ms) -> Int] : /\ h[0] = 0 /\ h[Len(ms)] = Sum(ms, "hitroll")
                                       /\ \A k \in 1..Len(ms) : h[k] = h[k - 1] + ms[k]["hitroll"]
  BY SumIs DEF Counted
<1>3. PICK l \in [0..Len(ms) -> Int] : /\ l[0] = 0 /\ l[Len(ms)] = Sum(ms, "hp")
                                       /\ \A k \in 1..Len(ms) : l[k] = l[k - 1] + ms[k]["hp"]
  BY SumIs DEF Counted
<1> QED
  BY <1>1, <1>2, <1>3

LEMMA AddingAll ==
    ASSUME NEW v \in Bearers, NEW ms \in Seq(Modifiers)
    PROVE  Has(ModifyAll(v, ms, TRUE), v, v.hitroll + Sum(ms, "hitroll"), v.hp + Sum(ms, "hp"),
               v.bits \cup Bits(ms))
<1> DEFINE n == Len(ms)
           B(k) == UNION {ms[j].bits : j \in 1..k}
<1>1. PICK f : /\ f[0] = v
               /\ \A k \in 1..n : f[k] = Modify(f[k - 1], ms[k], TRUE)
               /\ ModifyAll(v, ms, TRUE) = f[n]
  BY AddRuns
<1>2. PICK h \in [0..n -> Int] : h[0] = 0 /\ h[n] = Sum(ms, "hitroll") /\ \A k \in 1..n : h[k] = h[k - 1] + ms[k].hitroll
  BY SumTurns
<1>3. PICK l \in [0..n -> Int] : l[0] = 0 /\ l[n] = Sum(ms, "hp") /\ \A k \in 1..n : l[k] = l[k - 1] + ms[k].hp
  BY SumTurns
<1>4. n \in Nat /\ (\A k \in 1..n : ms[k] \in Modifiers) /\ Bits(ms) = B(n)
  BY DEF Bits
<1> HIDE DEF n
<1> DEFINE Q == {k \in 0..n : Has(f[k], v, v.hitroll + h[k], v.hp + l[k], v.bits \cup B(k))}
<1>5. 0 \in Q
  <2>1. Alike(v, v) /\ v.hitroll \in Int /\ v.hp \in Int
    BY BearerFields DEF Alike
  <2>2. B(0) = {}
    OBVIOUS
  <2> HIDE DEF B
  <2> QED
    BY <1>1, <1>2, <1>3, <1>4, <2>1, <2>2 DEF Has
<1>6. \A k \in 1..n : k - 1 \in Q => k \in Q
  <2> SUFFICES ASSUME NEW k \in 1..n, k - 1 \in Q PROVE k \in Q
    OBVIOUS
  <2> DEFINE u == f[k - 1]
             m == ms[k]
  <2>1. /\ Has(u, v, v.hitroll + h[k - 1], v.hp + l[k - 1], v.bits \cup B(k - 1))
        /\ k \in 0..n /\ k - 1 \in 0..n /\ m \in Modifiers
    BY <1>4
  <2>2. B(k) = B(k - 1) \cup m.bits
    <3>1. 1..k = 1..(k - 1) \cup {k}
      BY <1>4
    <3> QED
      BY <3>1
  <2>3. f[k] = Modify(u, m, TRUE) /\ u \in Bearers
    BY <1>1, <2>1 DEF Alike, Has
  <2>0. h[k] = h[k - 1] + m.hitroll /\ l[k] = l[k - 1] + m.hp
    BY <1>2, <1>3
  <2> HIDE DEF u, m, B
  <2>4. Has(f[k], u, u.hitroll + m.hitroll, u.hp + m.hp, u.bits \cup m.bits)
    BY <2>1, <2>3, Adding
  <2>5. Alike(f[k], v)
    BY <2>1, <2>4 DEF Alike, Has
  <2>6. /\ v.hitroll \in Int /\ v.hp \in Int /\ h[k - 1] \in Int /\ l[k - 1] \in Int
        /\ m.hitroll \in Int /\ m.hp \in Int
    BY <2>1, BearerFields, ModifierIs
  <2>7. f[k].hitroll = v.hitroll + h[k] /\ f[k].hp = v.hp + l[k]
    BY <2>0, <2>1, <2>4, <2>6 DEF Has
  <2>8. f[k].bits = v.bits \cup B(k)
    BY <2>1, <2>2, <2>4 DEF Has
  <2> QED
    BY <2>1, <2>5, <2>7, <2>8 DEF Has
<1> HIDE DEF Q
<1>7. \A k \in 0..n : k \in Q
  BY <1>4, <1>5, <1>6, SegmentInduction
<1>8. n \in Q
  BY <1>4, <1>7
<1> QED
  BY <1>1, <1>2, <1>3, <1>4, <1>8 DEF Q

LEMMA TakingAll ==
    ASSUME NEW v \in Bearers, NEW ms \in Seq(Modifiers)
    PROVE  Has(ModifyAll(v, ms, FALSE), v, v.hitroll - Sum(ms, "hitroll"), v.hp - Sum(ms, "hp"),
               v.bits \ Bits(ms))
<1> DEFINE n == Len(ms)
           B(k) == UNION {ms[j].bits : j \in 1..k}
<1>1. PICK f : /\ f[0] = v
               /\ \A k \in 1..n : f[k] = Modify(f[k - 1], ms[k], FALSE)
               /\ ModifyAll(v, ms, FALSE) = f[n]
  BY TakeRuns
<1>2. PICK h \in [0..n -> Int] : h[0] = 0 /\ h[n] = Sum(ms, "hitroll") /\ \A k \in 1..n : h[k] = h[k - 1] + ms[k].hitroll
  BY SumTurns
<1>3. PICK l \in [0..n -> Int] : l[0] = 0 /\ l[n] = Sum(ms, "hp") /\ \A k \in 1..n : l[k] = l[k - 1] + ms[k].hp
  BY SumTurns
<1>4. n \in Nat /\ (\A k \in 1..n : ms[k] \in Modifiers) /\ Bits(ms) = B(n)
  BY DEF Bits
<1> HIDE DEF n
<1> DEFINE Q == {k \in 0..n : Has(f[k], v, v.hitroll - h[k], v.hp - l[k], v.bits \ B(k))}
<1>5. 0 \in Q
  <2>1. Alike(v, v) /\ v.hitroll \in Int /\ v.hp \in Int
    BY BearerFields DEF Alike
  <2>2. B(0) = {}
    OBVIOUS
  <2> HIDE DEF B
  <2> QED
    BY <1>1, <1>2, <1>3, <1>4, <2>1, <2>2 DEF Has
<1>6. \A k \in 1..n : k - 1 \in Q => k \in Q
  <2> SUFFICES ASSUME NEW k \in 1..n, k - 1 \in Q PROVE k \in Q
    OBVIOUS
  <2> DEFINE u == f[k - 1]
             m == ms[k]
  <2>1. /\ Has(u, v, v.hitroll - h[k - 1], v.hp - l[k - 1], v.bits \ B(k - 1))
        /\ k \in 0..n /\ k - 1 \in 0..n /\ m \in Modifiers
    BY <1>4
  <2>2. B(k) = B(k - 1) \cup m.bits
    <3>1. 1..k = 1..(k - 1) \cup {k}
      BY <1>4
    <3> QED
      BY <3>1
  <2>3. f[k] = Modify(u, m, FALSE) /\ u \in Bearers
    BY <1>1, <2>1 DEF Alike, Has
  <2>0. h[k] = h[k - 1] + m.hitroll /\ l[k] = l[k - 1] + m.hp
    BY <1>2, <1>3
  <2> HIDE DEF u, m, B
  <2>4. Has(f[k], u, u.hitroll - m.hitroll, u.hp - m.hp, u.bits \ m.bits)
    BY <2>1, <2>3, Taking
  <2>5. Alike(f[k], v)
    BY <2>1, <2>4 DEF Alike, Has
  <2>6. /\ v.hitroll \in Int /\ v.hp \in Int /\ h[k - 1] \in Int /\ l[k - 1] \in Int
        /\ m.hitroll \in Int /\ m.hp \in Int
    BY <2>1, BearerFields, ModifierIs
  <2>7. f[k].hitroll = v.hitroll - h[k] /\ f[k].hp = v.hp - l[k]
    BY <2>0, <2>1, <2>4, <2>6 DEF Has
  <2>8. f[k].bits = v.bits \ B(k)
    BY <2>1, <2>2, <2>4 DEF Has
  <2> QED
    BY <2>1, <2>5, <2>7, <2>8 DEF Has
<1> HIDE DEF Q
<1>7. \A k \in 0..n : k \in Q
  BY <1>4, <1>5, <1>6, SegmentInduction
<1>8. n \in Q
  BY <1>4, <1>7
<1> QED
  BY <1>1, <1>2, <1>3, <1>4, <1>8 DEF Q

-----------------------------------------------------------------------------
(* Every change keeps the ledger.                                          *)

LEMMA ActiveIs ==
    ASSUME NEW v \in Bearers
    PROVE  /\ OfWorn(v.worn) \in Seq(Modifiers) /\ OfAffects(v.affects) \in Seq(Modifiers)
           /\ Active(v) \in Seq(Modifiers)
<1>0. v.worn \in Worn /\ v.affects \in Seq(Affected)
  BY BearerFields
<1>1. OfWorn(v.worn) \in Seq(Modifiers)
  BY <1>0, OfWornIs
<1>2. OfAffects(v.affects) \in Seq(Modifiers)
  BY <1>0, OfAffectsIs
<1>3. OfWorn(v.worn) \o OfAffects(v.affects) \in Seq(Modifiers)
  BY <1>1, <1>2, ModsCat
<1> QED
  BY <1>1, <1>2, <1>3 DEF Active

\* affect_total changes only the score, and sets the bits that are given.
LEMMA TotalIs ==
    ASSUME NEW v \in Bearers
    PROVE  Has(Total(v), v, v.hitroll, v.hp, v.bits \cup Bits(Active(v)))
<1> DEFINE all == Active(v)
           off == ModifyAll(v, all, FALSE)
           mid == [off EXCEPT !.stat = Base]
           on == ModifyAll(mid, all, TRUE)
           s == IF on.stat < Low THEN Low ELSE on.stat
           H == Sum(all, "hitroll")
           P == Sum(all, "hp")
           B == Bits(all)
<1>0. all \in Seq(Modifiers)
  BY ActiveIs
<1>1. Total(v) = [on EXCEPT !.stat = s]
  BY DEF Total
<1>2. Base \in 0..Top /\ Low \in 0..Top
  BY AffectsAssumption
<1> HIDE DEF all
<1>3. Has(off, v, v.hitroll - H, v.hp - P, v.bits \ B)
  BY <1>0, TakingAll
<1> HIDE DEF off
<1>4. off \in Bearers
  BY <1>3 DEF Has, Alike
<1>5. Has(mid, off, off.hitroll, off.hp, off.bits)
  BY <1>2, <1>4, RestatIs
<1> HIDE DEF mid
<1>6. mid \in Bearers
  BY <1>5 DEF Has, Alike
<1>7. Has(on, mid, mid.hitroll + H, mid.hp + P, mid.bits \cup B)
  BY <1>0, <1>6, AddingAll
<1> HIDE DEF on
<1>8. on \in Bearers
  BY <1>7 DEF Has, Alike
<1>9. s \in 0..Top
  <2>1. on.stat \in 0..Top
    BY <1>8, BearerFields
  <2> QED
    BY <1>2, <2>1
<1> HIDE DEF s
<1>10. Has([on EXCEPT !.stat = s], on, on.hitroll, on.hp, on.bits)
  BY <1>8, <1>9, RestatIs
<1>11. H \in Int /\ P \in Int /\ v.hitroll \in Int /\ v.hp \in Int
  BY <1>0, SumsAre, BearerFields
<1> HIDE DEF H, P, B
<1>12. on.hitroll = v.hitroll /\ on.hp = v.hp /\ on.bits = v.bits \cup B
  BY <1>3, <1>5, <1>7, <1>11 DEF Has
<1>13. Alike([on EXCEPT !.stat = s], v)
  BY <1>3, <1>5, <1>7, <1>10 DEF Has, Alike
<1>14. Has(Total(v), v, v.hitroll, v.hp, v.bits \cup B)
  BY <1>1, <1>10, <1>12, <1>13 DEF Has
<1> QED
  BY <1>14 DEF B, all

\* What all give is given with what part gives.
LEMMA Gained ==
    ASSUME NEW u \in Bearers, NEW v \in Bearers, NEW ms \in Seq(Modifiers),
           Splits(Active(u), ms, Active(v)), Ledger(v),
           u.hitroll = v.hitroll + Sum(ms, "hitroll"), u.hp = v.hp + Sum(ms, "hp"),
           u.bits = v.bits \cup Bits(ms)
    PROVE  Ledger(u)
<1>1. /\ Sum(ms, "hitroll") \in Int /\ Sum(ms, "hp") \in Int
      /\ v.hitroll \in Int /\ v.hp \in Int
  BY SumsAre, BearerFields
<1>2. u.hitroll = Sum(Active(u), "hitroll") /\ u.hp = Sum(Active(u), "hp")
  BY <1>1 DEF Ledger, Splits
<1>3. Bits(Active(u)) \subseteq u.bits /\ u.bits \subseteq Bits(Active(u)) \cup Racial
  BY DEF Ledger, Splits
<1> QED
  BY <1>2, <1>3 DEF Ledger

LEMMA TotalKeeps ==
    ASSUME NEW u \in Bearers, u.hitroll = Sum(Active(u), "hitroll"), u.hp = Sum(Active(u), "hp"),
           u.bits \subseteq Bits(Active(u)) \cup Racial
    PROVE  Alike(Total(u), u) /\ Ledger(Total(u))
<1>1. Has(Total(u), u, u.hitroll, u.hp, u.bits \cup Bits(Active(u)))
  BY TotalIs
<1>2. Active(Total(u)) = Active(u)
  BY <1>1 DEF Has, Alike, Active
<1> QED
  BY <1>1, <1>2 DEF Has, Ledger

\* affect_total sets again what was cleared although something else gives it.
LEMMA Diminished ==
    ASSUME NEW u \in Bearers, NEW v \in Bearers, NEW ms \in Seq(Modifiers),
           Splits(Active(v), ms, Active(u)), Ledger(v),
           u.hitroll = v.hitroll - Sum(ms, "hitroll"), u.hp = v.hp - Sum(ms, "hp"),
           u.bits = v.bits \ Bits(ms)
    PROVE  Alike(Total(u), u) /\ Ledger(Total(u))
<1>1. /\ Sum(ms, "hitroll") \in Int /\ Sum(ms, "hp") \in Int
      /\ v.hitroll \in Int /\ v.hp \in Int
      /\ Sum(Active(u), "hitroll") \in Int /\ Sum(Active(u), "hp") \in Int
  BY SumsAre, BearerFields, ActiveIs
<1>2. u.hitroll = Sum(Active(u), "hitroll") /\ u.hp = Sum(Active(u), "hp")
  BY <1>1 DEF Ledger, Splits
<1>3. u.bits \subseteq Bits(Active(u)) \cup Racial
  BY DEF Ledger, Splits
<1> QED
  BY <1>2, <1>3, TotalKeeps

LEMMA GoodTotal ==
    ASSUME NEW v, Good(v)
    PROVE  Alike(Total(v), v) /\ Good(Total(v))
<1>1. Alike(Total(v), v) /\ Ledger(Total(v))
  BY TotalKeeps DEF Good, Ledger
<1>2. Placed(Total(v)) /\ Filed(Total(v)) /\ Total(v) \in Bearers
  BY <1>1 DEF Good, Placed, Filed, Alike
<1> QED
  BY <1>1, <1>2 DEF Good

\* What is not in the ledger may change.
LEMMA Unmoved ==
    ASSUME NEW v, Good(v), NEW u \in Bearers,
           u.affects = v.affects, u.worn = v.worn, u.hitroll = v.hitroll, u.hp = v.hp, u.bits = v.bits,
           Placed(u), Filed(u)
    PROVE  Good(u)
<1>1. Active(u) = Active(v)
  BY DEF Active
<1> QED
  BY <1>1 DEF Good, Ledger
-----------------------------------------------------------------------------
(* What begins and what ends.                                              *)

\* What is followed of a character when it changes clothes.
Same(u, v) == Good(u) /\ u.at = v.at /\ u.pack = v.pack /\ u.affects = v.affects

LEMMA GoodIs ==
    ASSUME NEW v, Good(v)
    PROVE  v \in Bearers /\ Ledger(v) /\ Placed(v) /\ Filed(v) /\ Same(v, v)
BY DEF Good, Same

LEMMA Dressed ==
    ASSUME NEW v \in Bearers, NEW worn \in Worn
    PROVE  LET u == [v EXCEPT !.worn = worn]
           IN  /\ u \in Bearers /\ u.at = v.at /\ u.align = v.align /\ u.affects = v.affects /\ u.worn = worn
               /\ u.pack = v.pack /\ u.ground = v.ground /\ u.air = v.air /\ u.file = v.file /\ u.rent = v.rent
               /\ u.hitroll = v.hitroll /\ u.hp = v.hp /\ u.bits = v.bits
BY DEF Bearers

LEMMA Enspelled ==
    ASSUME NEW v \in Bearers, NEW afs \in Seq(Affected)
    PROVE  LET u == [v EXCEPT !.affects = afs]
           IN  /\ u \in Bearers /\ u.at = v.at /\ u.align = v.align /\ u.affects = afs /\ u.worn = v.worn
               /\ u.pack = v.pack /\ u.ground = v.ground /\ u.air = v.air /\ u.file = v.file /\ u.rent = v.rent
               /\ u.hitroll = v.hitroll /\ u.hp = v.hp /\ u.bits = v.bits
BY DEF Bearers

LEMMA ItemIs ==
    ASSUME NEW i \in Items
    PROVE  Slot[i] \in 1..MAX_WEAR /\ i # NoItem /\ Effects[i] \in Seq(Modifiers)
BY AffectsAssumption, EffectsAre

\* equip_char
LEMMA EquipIs ==
    ASSUME NEW v, Good(v), NEW i \in Items, v.worn[Slot[i]] = NoItem, i \notin v.pack
    PROVE  Same(Equip(v, i), v) /\ Equip(v, i).worn = [v.worn EXCEPT ![Slot[i]] = i]
<1> DEFINE p == Slot[i]
           ms == Effects[i]
           worn == [v.worn EXCEPT ![p] = i]
           x == [v EXCEPT !.worn = worn]
           y == ModifyAll(x, ms, TRUE)
<1>1. v \in Bearers /\ Ledger(v) /\ Placed(v) /\ Filed(v) /\ v.worn \in Worn /\ v.affects \in Seq(Affected)
  BY GoodIs, BearerFields
<1>2. p \in 1..MAX_WEAR /\ i # NoItem /\ ms \in Seq(Modifiers)
  BY ItemIs
<1>3. worn \in Worn /\ Splits(OfWorn(worn), ms, OfWorn(v.worn))
  BY <1>1, <1>2, WornSplits
<1>4. Equip(v, i) = Total(y)
  BY DEF Equip
<1>5. /\ x \in Bearers /\ x.at = v.at /\ x.affects = v.affects /\ x.worn = worn
      /\ x.pack = v.pack /\ x.file = v.file /\ x.rent = v.rent
      /\ x.hitroll = v.hitroll /\ x.hp = v.hp /\ x.bits = v.bits
  BY <1>1, <1>3, Dressed
<1>6. \A q \in 1..MAX_WEAR : worn[q] = IF q = p THEN i ELSE v.worn[q]
  BY <1>1 DEF Worn
<1> HIDE DEF x, worn, ms
<1>7. Has(y, x, x.hitroll + Sum(ms, "hitroll"), x.hp + Sum(ms, "hp"), x.bits \cup Bits(ms))
  BY <1>2, <1>5, AddingAll
<1> HIDE DEF y
<1>8. /\ y \in Bearers /\ y.at = v.at /\ y.affects = v.affects /\ y.worn = worn
      /\ y.pack = v.pack /\ y.file = v.file /\ y.rent = v.rent
      /\ y.hitroll = v.hitroll + Sum(ms, "hitroll") /\ y.hp = v.hp + Sum(ms, "hp")
      /\ y.bits = v.bits \cup Bits(ms)
  BY <1>5, <1>7 DEF Has, Alike
<1>9. Splits(Active(y), ms, Active(v))
  <2>1. /\ OfWorn(v.worn) \in Seq(Modifiers) /\ OfAffects(v.affects) \in Seq(Modifiers)
        /\ OfWorn(worn) \in Seq(Modifiers)
    BY <1>1, <1>3, ActiveIs, OfWornIs
  <2>2. Splits(OfWorn(worn) \o OfAffects(v.affects), ms, OfWorn(v.worn) \o OfAffects(v.affects))
    BY <1>2, <1>3, <2>1, SplitsBehind
  <2> QED
    BY <1>8, <2>2 DEF Active
<1>10. Ledger(y)
  BY <1>1, <1>2, <1>8, <1>9, Gained
<1>11. Placed(y) /\ Filed(y)
  BY <1>1, <1>6, <1>8 DEF Placed, Filed
<1>12. Good(y)
  BY <1>8, <1>10, <1>11 DEF Good
<1>13. Alike(Total(y), y) /\ Good(Total(y))
  BY <1>12, GoodTotal
<1> QED
  BY <1>4, <1>8, <1>13 DEF Same, Alike, worn

\* unequip_char
LEMMA UnequipIs ==
    ASSUME NEW v, Good(v), NEW p \in 1..MAX_WEAR, v.worn[p] # NoItem
    PROVE  Same(UnequipChar(v, p), v) /\ UnequipChar(v, p).worn = [v.worn EXCEPT ![p] = NoItem]
<1> DEFINE i == v.worn[p]
           ms == Effects[i]
           worn == [v.worn EXCEPT ![p] = NoItem]
           x == [v EXCEPT !.worn = worn]
           y == ModifyAll(x, ms, FALSE)
<1>1. v \in Bearers /\ Ledger(v) /\ Placed(v) /\ Filed(v) /\ v.worn \in Worn /\ v.affects \in Seq(Affected)
  BY GoodIs, BearerFields
<1>2. i \in Items /\ ms \in Seq(Modifiers)
  <2>1. i \in Items
    BY <1>1 DEF Worn
  <2> QED
    BY <2>1, ItemIs
<1>3. worn \in Worn /\ Splits(OfWorn(v.worn), ms, OfWorn(worn))
  <2>1. worn \in Worn /\ worn[p] = NoItem /\ v.worn = [worn EXCEPT ![p] = i]
    BY <1>1 DEF Worn
  <2> HIDE DEF worn
  <2>2. Splits(OfWorn([worn EXCEPT ![p] = i]), Effects[i], OfWorn(worn))
    BY <1>2, <2>1, WornSplits
  <2> QED
    BY <2>1, <2>2
<1>4. UnequipChar(v, p) = Total(y)
  BY DEF UnequipChar
<1>5. /\ x \in Bearers /\ x.at = v.at /\ x.affects = v.affects /\ x.worn = worn
      /\ x.pack = v.pack /\ x.file = v.file /\ x.rent = v.rent
      /\ x.hitroll = v.hitroll /\ x.hp = v.hp /\ x.bits = v.bits
  BY <1>1, <1>3, Dressed
<1>6. \A q \in 1..MAX_WEAR : worn[q] = IF q = p THEN NoItem ELSE v.worn[q]
  BY <1>1 DEF Worn
<1> HIDE DEF x, worn, ms
<1>7. Has(y, x, x.hitroll - Sum(ms, "hitroll"), x.hp - Sum(ms, "hp"), x.bits \ Bits(ms))
  BY <1>2, <1>5, TakingAll
<1> HIDE DEF y
<1>8. /\ y \in Bearers /\ y.at = v.at /\ y.affects = v.affects /\ y.worn = worn
      /\ y.pack = v.pack /\ y.file = v.file /\ y.rent = v.rent
      /\ y.hitroll = v.hitroll - Sum(ms, "hitroll") /\ y.hp = v.hp - Sum(ms, "hp")
      /\ y.bits = v.bits \ Bits(ms)
  BY <1>5, <1>7 DEF Has, Alike
<1>9. Splits(Active(v), ms, Active(y))
  <2>1. /\ OfWorn(v.worn) \in Seq(Modifiers) /\ OfAffects(v.affects) \in Seq(Modifiers)
        /\ OfWorn(worn) \in Seq(Modifiers)
    BY <1>1, <1>3, ActiveIs, OfWornIs
  <2>2. Splits(OfWorn(v.worn) \o OfAffects(v.affects), ms, OfWorn(worn) \o OfAffects(v.affects))
    BY <1>2, <1>3, <2>1, SplitsBehind
  <2> QED
    BY <1>8, <2>2 DEF Active
<1>10. Alike(Total(y), y) /\ Ledger(Total(y))
  BY <1>1, <1>2, <1>8, <1>9, Diminished
<1>11. Placed(Total(y)) /\ Filed(Total(y)) /\ Total(y) \in Bearers
  BY <1>1, <1>6, <1>8, <1>10 DEF Placed, Filed, Alike
<1> QED
  BY <1>4, <1>8, <1>10, <1>11 DEF Same, Good, Alike, worn

\* affect_to_char
LEMMA ToCharIs ==
    ASSUME NEW v, Good(v), NEW a \in Affected
    PROVE  /\ Good(AffectToChar(v, a)) /\ AffectToChar(v, a).at = v.at
           /\ AffectToChar(v, a).pack = v.pack /\ AffectToChar(v, a).worn = v.worn
<1> DEFINE m == ModOf(a)
           ms == <<m>>
           afs == <<a>> \o v.affects
           x == [v EXCEPT !.affects = afs]
           y == Modify(x, m, TRUE)
<1>1. v \in Bearers /\ Ledger(v) /\ Placed(v) /\ Filed(v) /\ v.worn \in Worn /\ v.affects \in Seq(Affected)
  BY GoodIs, BearerFields
<1>2. m \in Modifiers
  BY ModOfIs
<1>3. afs \in Seq(Affected) /\ Splits(OfAffects(afs), ms, OfAffects(v.affects))
  BY <1>1, HeadSplits
<1>4. AffectToChar(v, a) = Total(y)
  BY DEF AffectToChar, ModOf
<1>5. /\ x \in Bearers /\ x.at = v.at /\ x.affects = afs /\ x.worn = v.worn
      /\ x.pack = v.pack /\ x.file = v.file /\ x.rent = v.rent
      /\ x.hitroll = v.hitroll /\ x.hp = v.hp /\ x.bits = v.bits
  BY <1>1, <1>3, Enspelled
<1> HIDE DEF x, afs, m
<1>6. /\ ms \in Seq(Modifiers)
      /\ Sum(ms, "hitroll") = m.hitroll /\ Sum(ms, "hp") = m.hp /\ Bits(ms) = m.bits
  BY <1>2, OneIs
<1>7. Has(y, x, x.hitroll + m.hitroll, x.hp + m.hp, x.bits \cup m.bits)
  BY <1>2, <1>5, Adding
<1> HIDE DEF y, ms
<1>8. /\ y \in Bearers /\ y.at = v.at /\ y.affects = afs /\ y.worn = v.worn
      /\ y.pack = v.pack /\ y.file = v.file /\ y.rent = v.rent
      /\ y.hitroll = v.hitroll + Sum(ms, "hitroll") /\ y.hp = v.hp + Sum(ms, "hp")
      /\ y.bits = v.bits \cup Bits(ms)
  BY <1>5, <1>6, <1>7 DEF Has, Alike
<1>9. Splits(Active(y), ms, Active(v))
  <2>1. /\ OfWorn(v.worn) \in Seq(Modifiers) /\ OfAffects(v.affects) \in Seq(Modifiers)
        /\ OfAffects(afs) \in Seq(Modifiers)
    BY <1>1, <1>3, ActiveIs, OfAffectsIs
  <2>2. Splits(OfWorn(v.worn) \o OfAffects(afs), ms, OfWorn(v.worn) \o OfAffects(v.affects))
    BY <1>3, <1>6, <2>1, SplitsAfter
  <2> QED
    BY <1>8, <2>2 DEF Active
<1>10. Ledger(y)
  BY <1>1, <1>6, <1>8, <1>9, Gained
<1>11. Placed(y) /\ Filed(y)
  BY <1>1, <1>8 DEF Placed, Filed
<1>12. Good(y)
  BY <1>8, <1>10, <1>11 DEF Good
<1>13. Alike(Total(y), y) /\ Good(Total(y))
  BY <1>12, GoodTotal
<1> QED
  BY <1>4, <1>8, <1>13 DEF Alike

\* affect_remove
LEMMA RemoveIs ==
    ASSUME NEW v, Good(v), NEW k \in 1..Len(v.affects)
    PROVE  /\ Good(AffectRemove(v, k)) /\ AffectRemove(v, k).at = v.at
           /\ AffectRemove(v, k).pack = v.pack /\ AffectRemove(v, k).worn = v.worn
           /\ Len(AffectRemove(v, k).affects) = Len(v.affects) - 1
<1> DEFINE a == v.affects[k]
           m == ModOf(a)
           ms == <<m>>
           x == Modify(v, m, FALSE)
           afs == RemoveAt(v.affects, k)
           y == [x EXCEPT !.affects = afs]
<1>1. v \in Bearers /\ Ledger(v) /\ Placed(v) /\ Filed(v) /\ v.worn \in Worn /\ v.affects \in Seq(Affected)
  BY GoodIs, BearerFields
<1>2. a \in Affected /\ m \in Modifiers
  <2>1. a \in Affected
    BY <1>1
  <2> QED
    BY <2>1, ModOfIs
<1>3. afs \in Seq(Affected) /\ Len(afs) = Len(v.affects) - 1 /\ Splits(OfAffects(v.affects), ms, OfAffects(afs))
  BY <1>1, RemoveSplits
<1>5. Has(x, v, v.hitroll - m.hitroll, v.hp - m.hp, v.bits \ m.bits)
  BY <1>1, <1>2, Taking
<1>6. /\ ms \in Seq(Modifiers)
      /\ Sum(ms, "hitroll") = m.hitroll /\ Sum(ms, "hp") = m.hp /\ Bits(ms) = m.bits
  BY <1>2, OneIs
<1>4. AffectRemove(v, k) = Total(y)
  <2>1. x.affects = v.affects
    BY <1>5 DEF Has, Alike
  <2>2. AffectRemove(v, k) = Total([x EXCEPT !.affects = RemoveAt(x.affects, k)])
    BY DEF AffectRemove, ModOf
  <2> QED
    BY <2>1, <2>2
<1> HIDE DEF m, x, afs, ms
<1>7. x \in Bearers
  BY <1>5 DEF Has, Alike
<1>8. /\ y \in Bearers /\ y.at = v.at /\ y.affects = afs /\ y.worn = v.worn
      /\ y.pack = v.pack /\ y.file = v.file /\ y.rent = v.rent
      /\ y.hitroll = v.hitroll - Sum(ms, "hitroll") /\ y.hp = v.hp - Sum(ms, "hp")
      /\ y.bits = v.bits \ Bits(ms)
  <2>1. /\ y \in Bearers /\ y.at = x.at /\ y.affects = afs /\ y.worn = x.worn
        /\ y.pack = x.pack /\ y.file = x.file /\ y.rent = x.rent
        /\ y.hitroll = x.hitroll /\ y.hp = x.hp /\ y.bits = x.bits
    BY <1>3, <1>7, Enspelled
  <2> HIDE DEF y
  <2> QED
    BY <1>5, <1>6, <2>1 DEF Has, Alike
<1> HIDE DEF y
<1>9. Splits(Active(v), ms, Active(y))
  <2>1. /\ OfWorn(v.worn) \in Seq(Modifiers) /\ OfAffects(v.affects) \in Seq(Modifiers)
        /\ OfAffects(afs) \in Seq(Modifiers)
    BY <1>1, <1>3, ActiveIs, OfAffectsIs
  <2>2. Splits(OfWorn(v.worn) \o OfAffects(v.affects), ms, OfWorn(v.worn) \o OfAffects(afs))
    BY <1>3, <1>6, <2>1, SplitsAfter
  <2> QED
    BY <1>8, <2>2 DEF Active
<1>10. Alike(Total(y), y) /\ Ledger(Total(y))
  BY <1>1, <1>6, <1>8, <1>9, Diminished
<1>11. Placed(Total(y)) /\ Filed(Total(y)) /\ Total(y) \in Bearers
  BY <1>1, <1>8, <1>10 DEF Placed, Filed, Alike
<1> QED
  BY <1>3, <1>4, <1>8, <1>10, <1>11 DEF Good, Alike
-----------------------------------------------------------------------------
(* Undressing and dressing, object by object.                              *)

LEMMA OffIs ==
    ASSUME NEW v, Good(v), NEW p \in 1..MAX_WEAR
    PROVE  /\ Same(Off(v, p), v) /\ Off(v, p).worn[p] = NoItem
           /\ \A q \in 1..MAX_WEAR : q # p => Off(v, p).worn[q] = v.worn[q]
<1>0. v.worn \in Worn /\ v \in Bearers
  BY GoodIs, BearerFields
<1>1. CASE v.worn[p] = NoItem
  BY <1>1, GoodIs DEF Off
<1>2. CASE v.worn[p] # NoItem
  <2>1. Off(v, p) = UnequipChar(v, p)
    BY <1>2 DEF Off
  <2>2. Same(UnequipChar(v, p), v) /\ UnequipChar(v, p).worn = [v.worn EXCEPT ![p] = NoItem]
    BY <1>2, UnequipIs
  <2>3. \A q \in 1..MAX_WEAR : [v.worn EXCEPT ![p] = NoItem][q] = IF q = p THEN NoItem ELSE v.worn[q]
    BY <1>0 DEF Worn
  <2> QED
    BY <2>1, <2>2, <2>3
<1> QED
  BY <1>1, <1>2

LEMMA SameTwice ==
    ASSUME NEW u, NEW v, NEW x, Same(u, v), Same(v, x)
    PROVE  Same(u, x)
BY DEF Same

LEMMA BareIs == MAX_WEAR \in Nat /\ Bare \in Worn /\ \A p \in 1..MAX_WEAR : Bare[p] = NoItem
BY AffectsAssumption DEF Bare, Worn

LEMMA SameWorn ==
    ASSUME NEW x \in Worn, NEW y \in Worn, \A p \in 1..MAX_WEAR : x[p] = y[p]
    PROVE  x = y
<1>1. x = [p \in 1..MAX_WEAR |-> x[p]] /\ y = [p \in 1..MAX_WEAR |-> y[p]]
  BY DEF Worn
<1> QED
  BY <1>1

LEMMA StrippedIs ==
    ASSUME NEW v, Good(v)
    PROVE  Same(Stripped(v), v) /\ Stripped(v).worn = Bare
<1> DEFINE n == MAX_WEAR
<1>0. n \in Nat
  BY BareIs
<1>1. PICK f : /\ f[0] = v
               /\ \A k \in 1..n : f[k] = Off(f[k - 1], k)
               /\ Stripped(v) = f[n]
  BY StrippedRuns
<1> DEFINE Q == {k \in 0..n : Same(f[k], v) /\ \A p \in 1..n : p <= k => f[k].worn[p] = NoItem}
<1>2. 0 \in Q
  <2>1. Same(f[0], v) /\ \A p \in 1..n : ~ (p <= 0)
    BY <1>0, <1>1, GoodIs
  <2> QED
    BY <1>0, <2>1
<1>3. \A k \in 1..n : k - 1 \in Q => k \in Q
  <2> SUFFICES ASSUME NEW k \in 1..n, k - 1 \in Q PROVE k \in Q
    OBVIOUS
  <2> DEFINE u == f[k - 1]
  <2>1. Same(u, v) /\ (\A p \in 1..n : p <= k - 1 => u.worn[p] = NoItem) /\ f[k] = Off(u, k) /\ k \in 0..n
    BY <1>0, <1>1
  <2>2. Good(u)
    BY <2>1 DEF Same
  <2> HIDE DEF u
  <2>3. /\ Same(f[k], u) /\ f[k].worn[k] = NoItem
        /\ \A q \in 1..n : q # k => f[k].worn[q] = u.worn[q]
    BY <2>1, <2>2, OffIs
  <2>4. Same(f[k], v)
    BY <2>1, <2>3, SameTwice
  <2>5. \A p \in 1..n : p <= k => f[k].worn[p] = NoItem
    <3>1. \A p \in 1..n : p <= k => p = k \/ p <= k - 1
      BY <1>0
    <3> QED
      BY <2>1, <2>3, <3>1
  <2> QED
    BY <2>1, <2>4, <2>5
<1> HIDE DEF Q
<1>4. n \in Q
  <2>1. \A k \in 0..n : k \in Q
    BY <1>0, <1>2, <1>3, SegmentInduction
  <2> QED
    BY <1>0, <2>1
<1>5. Same(f[n], v) /\ \A p \in 1..n : f[n].worn[p] = NoItem
  BY <1>0, <1>4 DEF Q
<1>6. f[n].worn \in Worn
  BY <1>5, GoodIs, BearerFields DEF Same
<1>7. f[n].worn = Bare
  BY <1>5, <1>6, BareIs, SameWorn
<1> QED
  BY <1>1, <1>5, <1>7

\* What can be put on one who has pack.
Fits(worn, pack) ==
    /\ worn \in Worn
    /\ \A p \in 1..MAX_WEAR : worn[p] # NoItem => Slot[worn[p]] = p /\ worn[p] \notin pack

LEMMA FitsIs ==
    ASSUME NEW v, Good(v)
    PROVE  Fits(v.worn, v.pack)
BY GoodIs, BearerFields DEF Placed, Fits

LEMMA OnIs ==
    ASSUME NEW v, Good(v), NEW worn, Fits(worn, v.pack), NEW p \in 1..MAX_WEAR, v.worn[p] = NoItem
    PROVE  /\ Same(On(v, worn, p), v) /\ On(v, worn, p).worn[p] = worn[p]
           /\ \A q \in 1..MAX_WEAR : q # p => On(v, worn, p).worn[q] = v.worn[q]
<1> DEFINE i == worn[p]
<1>0. v.worn \in Worn /\ v \in Bearers
  BY GoodIs, BearerFields
<1>1. CASE i = NoItem
  BY <1>1, GoodIs DEF On
<1>2. CASE i # NoItem
  <2>1. On(v, worn, p) = Equip(v, i)
    BY <1>2 DEF On
  <2>2. i \in Items /\ Slot[i] = p /\ i \notin v.pack
    BY <1>2 DEF Fits, Worn
  <2>3. Same(Equip(v, i), v) /\ Equip(v, i).worn = [v.worn EXCEPT ![Slot[i]] = i]
    BY <2>2, EquipIs
  <2>4. \A q \in 1..MAX_WEAR : [v.worn EXCEPT ![p] = i][q] = IF q = p THEN i ELSE v.worn[q]
    BY <1>0 DEF Worn
  <2> QED
    BY <2>1, <2>2, <2>3, <2>4
<1> QED
  BY <1>1, <1>2

LEMMA PutOnIs ==
    ASSUME NEW v, Good(v), v.worn = Bare, NEW worn, Fits(worn, v.pack)
    PROVE  Same(PutOn(v, worn), v) /\ PutOn(v, worn).worn = worn
<1> DEFINE n == MAX_WEAR
<1>0. n \in Nat
  BY BareIs
<1>1. PICK f : /\ f[0] = v
               /\ \A k \in 1..n : f[k] = On(f[k - 1], worn, k)
               /\ PutOn(v, worn) = f[n]
  BY PutOnRuns
<1> DEFINE Q == {k \in 0..n : /\ Same(f[k], v)
                              /\ \A p \in 1..n : f[k].worn[p] = IF p <= k THEN worn[p] ELSE NoItem}
<1>2. 0 \in Q
  <2>1. Same(f[0], v) /\ \A p \in 1..n : ~ (p <= 0) /\ f[0].worn[p] = NoItem
    BY <1>0, <1>1, GoodIs, BareIs
  <2> QED
    BY <1>0, <2>1
<1>3. \A k \in 1..n : k - 1 \in Q => k \in Q
  <2> SUFFICES ASSUME NEW k \in 1..n, k - 1 \in Q PROVE k \in Q
    OBVIOUS
  <2> DEFINE u == f[k - 1]
  <2>1. /\ Same(u, v) /\ f[k] = On(u, worn, k) /\ k \in 0..n
        /\ \A p \in 1..n : u.worn[p] = IF p <= k - 1 THEN worn[p] ELSE NoItem
    BY <1>0, <1>1
  <2>2. Good(u) /\ u.pack = v.pack
    BY <2>1 DEF Same
  <2> HIDE DEF u
  <2>3. u.worn[k] = NoItem
    BY <1>0, <2>1
  <2>4. /\ Same(f[k], u) /\ f[k].worn[k] = worn[k]
        /\ \A q \in 1..n : q # k => f[k].worn[q] = u.worn[q]
    BY <2>1, <2>2, <2>3, OnIs
  <2>5. Same(f[k], v)
    BY <2>1, <2>4, SameTwice
  <2>6. \A p \in 1..n : f[k].worn[p] = IF p <= k THEN worn[p] ELSE NoItem
    <3>1. \A p \in 1..n : p # k => (p <= k <=> p <= k - 1)
      BY <1>0
    <3>2. k <= k
      BY <1>0
    <3> QED
      BY <2>1, <2>4, <3>1, <3>2
  <2> QED
    BY <2>1, <2>5, <2>6
<1> HIDE DEF Q
<1>4. n \in Q
  <2>1. \A k \in 0..n : k \in Q
    BY <1>0, <1>2, <1>3, SegmentInduction
  <2> QED
    BY <1>0, <2>1
<1>5. Same(f[n], v) /\ \A p \in 1..n : f[n].worn[p] = worn[p]
  BY <1>0, <1>4 DEF Q
<1>6. f[n].worn \in Worn /\ worn \in Worn
  BY <1>5, GoodIs, BearerFields DEF Same, Fits
<1>7. f[n].worn = worn
  BY <1>5, <1>6, SameWorn
<1> QED
  BY <1>1, <1>5, <1>7
-----------------------------------------------------------------------------
(* Saving.                                                                 *)

LEMMA SaveObjIs ==
    ASSUME NEW v, Good(v)
    PROVE  Same(SaveObj(v), v) /\ SaveObj(v).worn = v.worn
<1> DEFINE u == SaveObj(v)
<1>1. v \in Bearers /\ Placed(v) /\ Filed(v)
  BY GoodIs
<1>2. /\ u \in Bearers /\ u.at = v.at /\ u.affects = v.affects /\ u.worn = v.worn /\ u.pack = v.pack
      /\ u.file = v.file /\ u.rent = [valid |-> TRUE, worn |-> v.worn, pack |-> v.pack]
      /\ u.hitroll = v.hitroll /\ u.hp = v.hp /\ u.bits = v.bits
  BY <1>1 DEF SaveObj, Bearers, Rents
<1> HIDE DEF u
<1>3. Placed(u) /\ Placed(u.rent) /\ Filed(u)
  BY <1>1, <1>2 DEF Placed, Filed
<1>4. Good(u)
  BY <1>2, <1>3, Unmoved
<1> QED
  BY <1>2, <1>4 DEF Same, u

LEMMA WholeSeq ==
    ASSUME NEW afs \in Seq(Affected), Len(afs) <= MAX_AFFECT
    PROVE  SubSeq(afs, 1, IF Len(afs) < MAX_AFFECT THEN Len(afs) ELSE MAX_AFFECT) = afs
<1>1. MAX_AFFECT \in Nat /\ Len(afs) \in Nat
  BY AffectsAssumption
<1>2. (IF Len(afs) < MAX_AFFECT THEN Len(afs) ELSE MAX_AFFECT) = Len(afs)
  BY <1>1
<1>3. SubSeq(afs, 1, Len(afs)) = afs
  OBVIOUS
<1> QED
  BY <1>2, <1>3

\* char_to_store: naked and without its spells, the character is as the file
\* is to have it.
LEMMA WrittenIs ==
    ASSUME NEW v, Good(v), Len(v.affects) <= MAX_AFFECT, NEW room \in Rooms
    PROVE  Same(Written(v, room), v) /\ Written(v, room).worn = Bare
<1> DEFINE kept == SubSeq(v.affects, 1, IF Len(v.affects) < MAX_AFFECT THEN Len(v.affects) ELSE MAX_AFFECT)
           ms == OfAffects(v.affects)
           s == Stripped(v)
           off == ModifyAll(s, ms, FALSE)
           file == [affects |-> v.affects, hp |-> off.hp, bits |-> off.bits, align |-> v.align, room |-> room]
           x == [off EXCEPT !.stat = Base, !.file = file]
           y == ModifyAll(x, ms, TRUE)
           H == Sum(ms, "hitroll")
           P == Sum(ms, "hp")
           B == Bits(ms)
<1>1. v \in Bearers /\ v.affects \in Seq(Affected) /\ v.align \in {"good", "evil"}
  BY GoodIs, BearerFields
<1>2. kept = v.affects
  BY <1>1, WholeSeq
<1>3. Written(v, room) = y
  <2> HIDE DEF kept
  <2>1. Written(v, room) = ModifyAll([ModifyAll(s, OfAffects(kept), FALSE) EXCEPT
                      !.stat = Base,
                      !.file = [affects |-> kept, hp |-> ModifyAll(s, OfAffects(kept), FALSE).hp,
                                bits |-> ModifyAll(s, OfAffects(kept), FALSE).bits, align |-> v.align, room |-> room]],
                  OfAffects(kept), TRUE)
    BY DEF Written, kept
  <2> QED
    BY <1>2, <2>1
<1>4. Same(s, v) /\ s.worn = Bare
  BY StrippedIs
<1> HIDE DEF s, kept
<1>5. s \in Bearers /\ Ledger(s) /\ Placed(s) /\ Filed(s) /\ s.affects = v.affects
  BY <1>4 DEF Same, Good
<1>6. ms \in Seq(Modifiers) /\ Active(s) = <<>> \o ms
  BY <1>1, <1>4, <1>5, OfAffectsIs, NothingWorn DEF Active
<1>7. Active(s) = ms
  <2> HIDE DEF ms
  <2> QED
    BY <1>6
<1> HIDE DEF ms
<1>8. H \in Int /\ P \in Int /\ B \subseteq Flags
  BY <1>6, SumsAre
<1>9. Has(off, s, s.hitroll - H, s.hp - P, s.bits \ B)
  BY <1>5, <1>6, TakingAll
<1>10. s.hitroll = H /\ s.hp = P /\ B \subseteq s.bits /\ s.bits \subseteq B \cup Racial
  BY <1>5, <1>7 DEF Ledger
<1> HIDE DEF off, H, P, B
<1>11. off \in Bearers /\ off.hitroll = 0 /\ off.hp = 0 /\ off.bits \subseteq Racial
  BY <1>8, <1>9, <1>10 DEF Has, Alike
<1>12. file \in Files /\ file.hp = 0 /\ file.bits \subseteq Racial
  <2>1. Racial \subseteq Flags
    BY AffectsAssumption
  <2> QED
    BY <1>1, <1>11, <2>1 DEF Files
<1> HIDE DEF file
<1>13. Base \in 0..Top
  BY AffectsAssumption
<1>14. /\ x \in Bearers /\ x.at = off.at /\ x.affects = off.affects /\ x.worn = off.worn
       /\ x.pack = off.pack /\ x.file = file /\ x.rent = off.rent
       /\ x.hitroll = off.hitroll /\ x.hp = off.hp /\ x.bits = off.bits
  <2>1. off \in Bearers /\ file \in Files /\ Base \in 0..Top
    BY <1>11, <1>12, <1>13
  <2> QED
    BY <2>1 DEF Bearers
<1> HIDE DEF x
<1>15. Has(y, x, x.hitroll + H, x.hp + P, x.bits \cup B)
  BY <1>6, <1>14, AddingAll DEF H, P, B
<1> HIDE DEF y
<1>16. /\ y \in Bearers /\ y.at = v.at /\ y.affects = v.affects /\ y.worn = Bare /\ y.pack = v.pack
       /\ y.file = file /\ y.rent = s.rent
  BY <1>4, <1>9, <1>14, <1>15 DEF Has, Alike, Same
<1>17. y.hitroll = H /\ y.hp = P /\ y.bits = off.bits \cup B
  BY <1>8, <1>11, <1>14, <1>15 DEF Has
<1>18. Active(y) = Active(s)
  BY <1>4, <1>5, <1>16 DEF Active
<1>19. Ledger(y)
  BY <1>7, <1>11, <1>17, <1>18 DEF Ledger, H, P, B
<1>20. Placed(y) /\ Filed(y)
  BY <1>5, <1>12, <1>16, BareIs DEF Placed, Filed
<1> QED
  BY <1>3, <1>16, <1>19, <1>20 DEF Same, Good

LEMMA TotalSame ==
    ASSUME NEW v, Good(v)
    PROVE  Same(Total(v), v) /\ Total(v).worn = v.worn
BY GoodTotal DEF Same, Alike

\* The do_save from within equip_char.
LEMMA NestedSaveIs ==
    ASSUME NEW v, Good(v), Len(v.affects) <= MAX_AFFECT
    PROVE  Same(NestedSave(v), v) /\ NestedSave(v).worn = v.worn
<1> DEFINE x == SaveObj(v)
           y == Written(x, "AUTO_RENT")
           z == PutOn(y, v.worn)
<1>1. Same(x, v) /\ x.worn = v.worn
  BY SaveObjIs
<1>2. NestedSave(v) = Total(z)
  BY DEF NestedSave
<1> HIDE DEF x
<1>3. Same(y, x) /\ y.worn = Bare
  BY <1>1, WrittenIs DEF Same, Rooms
<1> HIDE DEF y
<1>4. Fits(v.worn, y.pack) /\ Good(y)
  BY <1>1, <1>3, FitsIs DEF Same
<1>5. Same(z, y) /\ z.worn = v.worn
  BY <1>3, <1>4, PutOnIs
<1> HIDE DEF z
<1>6. Same(Total(z), z) /\ Total(z).worn = z.worn
  BY <1>5, TotalSame DEF Same
<1> QED
  BY <1>1, <1>2, <1>3, <1>5, <1>6 DEF Same

\* On the floor lies what equip_char refused.
LEMMA FloorIs ==
    ASSUME NEW v, Good(v), NEW i \in Items
    PROVE  LET u == [v EXCEPT !.ground = @ \cup {i}]
           IN  Same(u, v) /\ u.worn = v.worn
<1> DEFINE u == [v EXCEPT !.ground = @ \cup {i}]
<1>1. v \in Bearers /\ Placed(v) /\ Filed(v)
  BY GoodIs
<1>2. /\ u \in Bearers /\ u.at = v.at /\ u.affects = v.affects /\ u.worn = v.worn /\ u.pack = v.pack
      /\ u.file = v.file /\ u.rent = v.rent
      /\ u.hitroll = v.hitroll /\ u.hp = v.hp /\ u.bits = v.bits
  BY <1>1 DEF Bearers
<1> HIDE DEF u
<1>3. Placed(u) /\ Filed(u)
  BY <1>1, <1>2 DEF Placed, Filed
<1>4. Good(u)
  BY <1>2, <1>3, Unmoved
<1> QED
  BY <1>2, <1>4 DEF Same, u

LEMMA EquipCharIs ==
    ASSUME NEW v, Good(v), Len(v.affects) <= MAX_AFFECT,
           NEW R, NEW i \in Items, v.worn[Slot[i]] = NoItem, i \notin v.pack
    PROVE  /\ Same(EquipChar(v, i, R), v)
           /\ \A q \in 1..MAX_WEAR : q # Slot[i] => EquipChar(v, i, R).worn[q] = v.worn[q]
           /\ EquipChar(v, i, R).worn[Slot[i]] \in {i, NoItem}
<1>0. v.worn \in Worn /\ Slot[i] \in 1..MAX_WEAR
  BY GoodIs, BearerFields, ItemIs
<1>1. CASE Refuses(v, i, R)
  <2> DEFINE u == [v EXCEPT !.ground = @ \cup {i}]
  <2>1. EquipChar(v, i, R) = NestedSave(u)
    BY <1>1 DEF EquipChar
  <2>2. Same(u, v) /\ u.worn = v.worn
    BY FloorIs
  <2> HIDE DEF u
  <2>3. Same(NestedSave(u), u) /\ NestedSave(u).worn = u.worn
    BY <2>2, NestedSaveIs DEF Same
  <2> QED
    BY <2>1, <2>2, <2>3 DEF Same
<1>2. CASE ~ Refuses(v, i, R)
  <2>1. EquipChar(v, i, R) = Equip(v, i)
    BY <1>2 DEF EquipChar
  <2>2. Same(Equip(v, i), v) /\ Equip(v, i).worn = [v.worn EXCEPT ![Slot[i]] = i]
    BY EquipIs
  <2>3. /\ \A q \in 1..MAX_WEAR : q # Slot[i] => [v.worn EXCEPT ![Slot[i]] = i][q] = v.worn[q]
        /\ [v.worn EXCEPT ![Slot[i]] = i][Slot[i]] = i
    BY <1>0 DEF Worn
  <2> QED
    BY <2>1, <2>2, <2>3
<1> QED
  BY <1>1, <1>2

LEMMA TriedIs ==
    ASSUME NEW v, Good(v), Len(v.affects) <= MAX_AFFECT, NEW R, NEW worn, Fits(worn, v.pack),
           NEW p \in 1..MAX_WEAR, v.worn[p] = NoItem
    PROVE  /\ Same(Tried(v, worn, p, R), v)
           /\ \A q \in 1..MAX_WEAR : q # p => Tried(v, worn, p, R).worn[q] = v.worn[q]
           /\ Tried(v, worn, p, R).worn[p] \in {worn[p], NoItem}
<1> DEFINE i == worn[p]
<1>1. CASE i = NoItem
  BY <1>1, GoodIs DEF Tried
<1>2. CASE i # NoItem
  <2>1. Tried(v, worn, p, R) = EquipChar(v, i, R)
    BY <1>2 DEF Tried
  <2>2. i \in Items /\ Slot[i] = p /\ i \notin v.pack
    BY <1>2 DEF Fits, Worn
  <2> HIDE DEF i
  <2>3. /\ Same(EquipChar(v, i, R), v)
        /\ \A q \in 1..MAX_WEAR : q # Slot[i] => EquipChar(v, i, R).worn[q] = v.worn[q]
        /\ EquipChar(v, i, R).worn[Slot[i]] \in {i, NoItem}
    BY <2>2, EquipCharIs
  <2> QED
    BY <2>1, <2>2, <2>3 DEF i
<1> QED
  BY <1>1, <1>2

\* At every position is what should be, or nothing.
Worse(x, worn) == \A p \in 1..MAX_WEAR : x[p] = worn[p] \/ x[p] = NoItem

LEMMA TryOnIs ==
    ASSUME NEW v, Good(v), v.worn = Bare, Len(v.affects) <= MAX_AFFECT, NEW R,
           NEW worn, Fits(worn, v.pack)
    PROVE  /\ Same(TryOn(v, worn, R), v)
           /\ Worse(TryOn(v, worn, R).worn, worn)
<1> DEFINE n == MAX_WEAR
<1>0. n \in Nat
  BY BareIs
<1>1. PICK f : /\ f[0] = v
               /\ \A k \in 1..n : f[k] = Tried(f[k - 1], worn, k, R)
               /\ TryOn(v, worn, R) = f[n]
  <2>1. TriesOn(v, worn, R)
    BY TryOnRuns
  <2> QED
    BY <2>1 DEF TriesOn
<1> DEFINE Q == {k \in 0..n : /\ Same(f[k], v)
                              /\ Worse(f[k].worn, worn)
                              /\ \A p \in 1..n : p > k => f[k].worn[p] = NoItem}
<1>2. 0 \in Q
  <2>1. Same(f[0], v) /\ (\A p \in 1..n : f[0].worn[p] = NoItem) /\ Worse(f[0].worn, worn)
    BY <1>0, <1>1, GoodIs, BareIs DEF Worse
  <2> QED
    BY <1>0, <2>1
<1>3. \A k \in 1..n : k - 1 \in Q => k \in Q
  <2> SUFFICES ASSUME NEW k \in 1..n, k - 1 \in Q PROVE k \in Q
    OBVIOUS
  <2> DEFINE u == f[k - 1]
  <2>1. /\ Same(u, v) /\ f[k] = Tried(u, worn, k, R) /\ k \in 0..n
        /\ Worse(u.worn, worn) /\ \A p \in 1..n : p > k - 1 => u.worn[p] = NoItem
    BY <1>0, <1>1
  <2>2. Good(u) /\ u.pack = v.pack /\ u.affects = v.affects
    BY <2>1 DEF Same
  <2> HIDE DEF u
  <2>3. u.worn[k] = NoItem
    BY <1>0, <2>1
  <2>4. /\ Same(f[k], u)
        /\ \A q \in 1..n : q # k => f[k].worn[q] = u.worn[q]
        /\ f[k].worn[k] \in {worn[k], NoItem}
    BY <2>1, <2>2, <2>3, TriedIs
  <2>5. Same(f[k], v)
    BY <2>1, <2>4, SameTwice
  <2>6. Worse(f[k].worn, worn)
    BY <2>1, <2>4 DEF Worse
  <2>7. \A p \in 1..n : p > k => f[k].worn[p] = NoItem
    <3>1. \A p \in 1..n : p > k => p # k /\ p > k - 1
      BY <1>0
    <3> QED
      BY <2>1, <2>4, <3>1
  <2> QED
    BY <2>1, <2>5, <2>6, <2>7
<1> HIDE DEF Q
<1>4. n \in Q
  <2>1. \A k \in 0..n : k \in Q
    BY <1>0, <1>2, <1>3, SegmentInduction
  <2> QED
    BY <1>0, <2>1
<1> QED
  BY <1>1, <1>4 DEF Q

\* What the files get does not show in the ledger.
LEMMA RecordIs ==
    ASSUME NEW v, Good(v), NEW x, Good(x)
    PROVE  LET u == [v EXCEPT !.file = x.file]
           IN  Same(u, v) /\ u.worn = v.worn
<1> DEFINE u == [v EXCEPT !.file = x.file]
<1>1. v \in Bearers /\ Placed(v) /\ Filed(v)
  BY GoodIs
<1>2. x.file \in Files /\ x.file.hp = 0 /\ x.file.bits \subseteq Racial
  BY GoodIs, BearerFields DEF Filed
<1>3. /\ u \in Bearers /\ u.at = v.at /\ u.affects = v.affects /\ u.worn = v.worn /\ u.pack = v.pack
      /\ u.file = x.file /\ u.rent = v.rent
      /\ u.hitroll = v.hitroll /\ u.hp = v.hp /\ u.bits = v.bits
  BY <1>1, <1>2 DEF Bearers
<1> HIDE DEF u
<1>4. Placed(u) /\ Filed(u)
  BY <1>1, <1>2, <1>3 DEF Placed, Filed
<1>5. Good(u)
  BY <1>3, <1>4, Unmoved
<1> QED
  BY <1>3, <1>5 DEF Same, u

LEMMA SaveCharIs ==
    ASSUME NEW v, Good(v), Len(v.affects) <= MAX_AFFECT, NEW room \in Rooms, NEW R
    PROVE  Same(SaveChar(v, room, R), v) /\ (v.worn = Bare => SaveChar(v, room, R).worn = Bare)
<1> DEFINE y == Written(v, room)
           z == TryOn(y, v.worn, R)
           t == Total(z)
           u == [t EXCEPT !.file = y.file]
<1>1. Same(y, v) /\ y.worn = Bare
  BY WrittenIs
<1>2. SaveChar(v, room, R) = u
  BY DEF SaveChar
<1> HIDE DEF y
<1>3. Fits(v.worn, y.pack) /\ Good(y) /\ Len(y.affects) <= MAX_AFFECT
  BY <1>1, FitsIs DEF Same
<1>4. Same(z, y) /\ Worse(z.worn, v.worn)
  BY <1>1, <1>3, TryOnIs
<1> HIDE DEF z
<1>5. Same(t, z) /\ t.worn = z.worn
  BY <1>4, TotalSame DEF Same
<1> HIDE DEF t
<1>6. Same(u, t) /\ u.worn = t.worn
  BY <1>3, <1>5, RecordIs DEF Same
<1> HIDE DEF u
<1>7. z.worn \in Worn
  BY <1>4, GoodIs, BearerFields DEF Same
<1>8. v.worn = Bare => z.worn = Bare
  BY <1>4, <1>7, BareIs, SameWorn DEF Worse
<1> QED
  BY <1>1, <1>2, <1>4, <1>5, <1>6, <1>8 DEF Same

LEMMA DoSaveIs ==
    ASSUME NEW v, Good(v), Len(v.affects) <= MAX_AFFECT, NEW R
    PROVE  Same(DoSave(v, R), v) /\ (v.worn = Bare => DoSave(v, R).worn = Bare)
<1> DEFINE u == SaveObj(v)
           y == SaveChar(u, "AUTO_RENT", R)
<1>1. Same(u, v) /\ u.worn = v.worn
  BY SaveObjIs
<1>2. DoSave(v, R) = y
  BY DEF DoSave
<1> HIDE DEF u
<1>3. Same(y, u) /\ (u.worn = Bare => y.worn = Bare)
  BY <1>1, SaveCharIs DEF Same, Rooms
<1> HIDE DEF y
<1> QED
  BY <1>1, <1>2, <1>3 DEF Same
-----------------------------------------------------------------------------
(* Spells that end.                                                        *)

\* What is followed of a character when its spells change.
Shorter(u, v) == Good(u) /\ u.at = v.at /\ u.pack = v.pack /\ u.worn = v.worn /\ Len(u.affects) <= Len(v.affects)

LEMMA LengthIs ==
    ASSUME NEW v, Good(v)
    PROVE  Len(v.affects) \in Nat /\ v.affects \in Seq(Affected) /\ Shorter(v, v)
<1>1. v.affects \in Seq(Affected)
  BY GoodIs, BearerFields
<1>2. Len(v.affects) \in Nat
  BY <1>1
<1> QED
  BY <1>1, <1>2 DEF Shorter

LEMMA ShorterTwice ==
    ASSUME NEW u, NEW v, NEW x, Shorter(u, v), Shorter(v, x), Good(x)
    PROVE  Shorter(u, x)
<1>1. Len(u.affects) \in Nat /\ Len(v.affects) \in Nat /\ Len(x.affects) \in Nat
  BY LengthIs DEF Shorter
<1> QED
  BY <1>1 DEF Shorter

LEMMA FromCharIs ==
    ASSUME NEW v, Good(v), NEW s
    PROVE  Shorter(AffectFromChar(v, s), v)
<1> DEFINE n == Len(v.affects)
<1>0. n \in Nat /\ v.affects \in Seq(Affected)
  BY LengthIs
<1>1. PICK f : /\ f[0] = v
               /\ \A k \in 1..n : f[k] = Lifted(f[k - 1], s, n - k + 1)
               /\ AffectFromChar(v, s) = f[n]
  BY <1>0, FromRuns
<1>9. Good(v) /\ Shorter(v, v)
  BY LengthIs
<1> HIDE DEF n
<1> DEFINE Q == {k \in 0..n : Shorter(f[k], v) /\ n - k <= Len(f[k].affects)}
<1>2. 0 \in Q
  <2>1. n - 0 <= Len(f[0].affects)
    BY <1>0, <1>1 DEF n
  <2> QED
    BY <1>0, <1>1, <1>9, <2>1
<1>3. \A k \in 1..n : k - 1 \in Q => k \in Q
  <2> SUFFICES ASSUME NEW k \in 1..n, k - 1 \in Q PROVE k \in Q
    OBVIOUS
  <2> DEFINE u == f[k - 1]
             j == n - k + 1
  <2>1. Shorter(u, v) /\ n - (k - 1) <= Len(u.affects) /\ f[k] = Lifted(u, s, j) /\ k \in 0..n
    BY <1>0, <1>1
  <2> HIDE DEF u
  <2>2. Good(u) /\ Len(u.affects) \in Nat /\ Shorter(u, u)
    BY <2>1, LengthIs DEF Shorter
  <2>3. j \in 1..Len(u.affects)
    BY <1>0, <2>1, <2>2
  <2>4. n - k <= Len(u.affects) - 1
    BY <1>0, <2>1, <2>2
  <2> HIDE DEF j
  <2>5. CASE u.affects[j].spell = s
    <3> DEFINE x == AffectRemove(u, j)
    <3>1. f[k] = x
      BY <2>1, <2>5 DEF Lifted
    <3>2. /\ Good(x) /\ x.at = u.at /\ x.pack = u.pack /\ x.worn = u.worn
          /\ Len(x.affects) = Len(u.affects) - 1
      BY <2>2, <2>3, RemoveIs
    <3> HIDE DEF x
    <3>3. Shorter(x, u)
      BY <2>2, <3>2 DEF Shorter
    <3>4. Shorter(x, v)
      BY <1>9, <2>1, <3>3, ShorterTwice
    <3>5. n - k <= Len(x.affects)
      BY <2>4, <3>2
    <3> QED
      BY <2>1, <3>1, <3>4, <3>5
  <2>6. CASE u.affects[j].spell # s
    <3>1. f[k] = u
      BY <2>1, <2>6 DEF Lifted
    <3>2. n - k <= Len(u.affects)
      BY <1>0, <2>2, <2>4
    <3> QED
      BY <2>1, <3>1, <3>2
  <2> QED
    BY <2>5, <2>6
<1> HIDE DEF Q
<1>4. n \in Q
  <2>1. \A k \in 0..n : k \in Q
    BY <1>0, <1>2, <1>3, SegmentInduction
  <2> QED
    BY <1>0, <2>1
<1> QED
  BY <1>1, <1>4 DEF Q

LEMMA SeveralIs ==
    ASSUME NEW v, Good(v), NEW S \in SUBSET Spells
    PROVE  Shorter(AffectsFromChar(v, S), v)
<1> DEFINE n == Cardinality(S)
<1>0. n \in Nat
  <2>1. IsFiniteSet(S)
    BY AffectsAssumption, FS_Subset
  <2> QED
    BY <2>1, FS_CardinalityType
<1>1. PICK f : /\ f[0] = v
               /\ \A k \in 1..n : f[k] = AffectFromChar(f[k - 1], SetToSeq(S)[k])
               /\ AffectsFromChar(v, S) = f[n]
  BY <1>0, SeveralRuns
<1> HIDE DEF n
<1>9. Good(v) /\ Shorter(v, v)
  BY LengthIs
<1> DEFINE Q == {k \in 0..n : Shorter(f[k], v)}
<1>2. 0 \in Q
  BY <1>0, <1>1, <1>9
<1>3. \A k \in 1..n : k - 1 \in Q => k \in Q
  <2> SUFFICES ASSUME NEW k \in 1..n, k - 1 \in Q PROVE k \in Q
    OBVIOUS
  <2> DEFINE u == f[k - 1]
             s == SetToSeq(S)[k]
  <2>1. Shorter(u, v) /\ f[k] = AffectFromChar(u, s) /\ k \in 0..n
    BY <1>0, <1>1
  <2> HIDE DEF u, s
  <2>2. Shorter(f[k], u)
    BY <2>1, FromCharIs DEF Shorter
  <2> QED
    BY <1>9, <2>1, <2>2, ShorterTwice
<1> HIDE DEF Q
<1>4. n \in Q
  <2>1. \A k \in 0..n : k \in Q
    BY <1>0, <1>2, <1>3, SegmentInduction
  <2> QED
    BY <1>0, <2>1
<1> QED
  BY <1>1, <1>4 DEF Q

LEMMA ToCharsIs ==
    ASSUME NEW v, Good(v), NEW afs \in Seq(Affected)
    PROVE  /\ Good(AffectsToChar(v, afs)) /\ AffectsToChar(v, afs).at = v.at
           /\ AffectsToChar(v, afs).pack = v.pack /\ AffectsToChar(v, afs).worn = v.worn
<1> DEFINE n == Len(afs)
<1>0. n \in Nat /\ \A k \in 1..n : afs[k] \in Affected
  OBVIOUS
<1>1. PICK f : /\ f[0] = v
               /\ \A k \in 1..n : f[k] = AffectToChar(f[k - 1], afs[k])
               /\ AffectsToChar(v, afs) = f[n]
  BY GivenRuns
<1> HIDE DEF n
<1> DEFINE Q == {k \in 0..n : Good(f[k]) /\ f[k].at = v.at /\ f[k].pack = v.pack /\ f[k].worn = v.worn}
<1>2. 0 \in Q
  BY <1>0, <1>1
<1>3. \A k \in 1..n : k - 1 \in Q => k \in Q
  <2> SUFFICES ASSUME NEW k \in 1..n, k - 1 \in Q PROVE k \in Q
    OBVIOUS
  <2> DEFINE u == f[k - 1]
             a == afs[k]
  <2>1. /\ Good(u) /\ u.at = v.at /\ u.pack = v.pack /\ u.worn = v.worn
        /\ f[k] = AffectToChar(u, a) /\ k \in 0..n /\ a \in Affected
    BY <1>0, <1>1
  <2> HIDE DEF u, a
  <2>2. /\ Good(AffectToChar(u, a)) /\ AffectToChar(u, a).at = u.at
        /\ AffectToChar(u, a).pack = u.pack /\ AffectToChar(u, a).worn = u.worn
    BY <2>1, ToCharIs
  <2> QED
    BY <2>1, <2>2
<1> HIDE DEF Q
<1>4. n \in Q
  <2>1. \A k \in 0..n : k \in Q
    BY <1>0, <1>2, <1>3, SegmentInduction
  <2> QED
    BY <1>0, <2>1
<1> QED
  BY <1>1, <1>4 DEF Q

\* affect_update: a spell that lasts gives the same.
LEMMA AgedIs ==
    ASSUME NEW v, Good(v), NEW k \in 1..Len(v.affects), v.affects[k].left >= 1
    PROVE  LET u == [v EXCEPT !.affects[k].left = @ - 1]
           IN  /\ Good(u) /\ u.at = v.at /\ u.pack = v.pack /\ u.worn = v.worn
               /\ Len(u.affects) = Len(v.affects)
<1> DEFINE a == v.affects[k]
           b == [a EXCEPT !.left = @ - 1]
           afs == [v.affects EXCEPT ![k] = b]
           u == [v EXCEPT !.affects = afs]
<1>1. v \in Bearers /\ Placed(v) /\ Filed(v) /\ v.affects \in Seq(Affected) /\ a \in Affected /\ Len(v.affects) \in Nat
  BY GoodIs, BearerFields
<1>2. b \in Affected /\ ModOf(b) = ModOf(a)
  <2>1. Lasts \in Nat
    BY AffectsAssumption
  <2>2. a \in [spell: Spells, part: Nat, left: 0..Lasts] /\ a.left >= 1 /\ a.part \in DOMAIN Effects[a.spell]
    BY <1>1 DEF Affected
  <2>3. b \in [spell: Spells, part: Nat, left: 0..Lasts] /\ b.spell = a.spell /\ b.part = a.part
    BY <2>1, <2>2
  <2> HIDE DEF a, b
  <2> QED
    BY <2>2, <2>3 DEF Affected, ModOf
<1>3. [v EXCEPT !.affects[k].left = @ - 1] = u
  OBVIOUS
<1> HIDE DEF b
<1>4. /\ afs \in Seq(Affected) /\ Len(afs) = Len(v.affects)
      /\ \A j \in 1..Len(v.affects) : afs[j] = IF j = k THEN b ELSE v.affects[j]
  BY <1>1, <1>2
<1> HIDE DEF afs
<1>5. /\ u \in Bearers /\ u.at = v.at /\ u.affects = afs /\ u.worn = v.worn
      /\ u.pack = v.pack /\ u.file = v.file /\ u.rent = v.rent
      /\ u.hitroll = v.hitroll /\ u.hp = v.hp /\ u.bits = v.bits
  BY <1>1, <1>4, Enspelled
<1> HIDE DEF u
<1>6. OfAffects(afs) = OfAffects(v.affects)
  <2>1. /\ OfAffects(afs) \in Seq(Modifiers) /\ Len(OfAffects(afs)) = Len(afs)
        /\ \A j \in 1..Len(afs) : OfAffects(afs)[j] = ModOf(afs[j])
    BY <1>4, OfAffectsIs
  <2>2. /\ OfAffects(v.affects) \in Seq(Modifiers) /\ Len(OfAffects(v.affects)) = Len(v.affects)
        /\ \A j \in 1..Len(v.affects) : OfAffects(v.affects)[j] = ModOf(v.affects[j])
    BY <1>1, OfAffectsIs
  <2>3. \A j \in 1..Len(v.affects) : ModOf(afs[j]) = ModOf(v.affects[j])
    BY <1>2, <1>4
  <2> QED
    BY <1>4, <2>1, <2>2, <2>3, SameMods
<1>7. Active(u) = Active(v)
  BY <1>5, <1>6 DEF Active
<1>8. Good(u)
  <2>1. Ledger(u)
    BY <1>5, <1>7 DEF Good, Ledger
  <2>2. Placed(u) /\ Filed(u)
    BY <1>1, <1>5 DEF Placed, Filed
  <2> QED
    BY <1>5, <2>1, <2>2 DEF Good
<1> QED
  BY <1>3, <1>4, <1>5, <1>8

LEMMA WalkedIs ==
    ASSUME NEW v, Good(v)
    PROVE  Shorter(Walked(v), v)
<1> DEFINE n == Len(v.affects)
<1>0. n \in Nat /\ v.affects \in Seq(Affected)
  BY LengthIs
<1>1. PICK f : /\ f[0] = [v |-> v, k |-> 1]
               /\ \A j \in 1..n : f[j] = WalkOn(f[j - 1])
               /\ Walked(v) = f[n].v
  BY <1>0, WalkRuns
<1>9. Good(v) /\ Shorter(v, v)
  BY LengthIs
<1> DEFINE Left(s) == Len(s.v.affects) - s.k + 1
           Q == {j \in 0..n : /\ Shorter(f[j].v, v) /\ f[j].k \in Nat \ {0}
                              /\ Len(f[j].v.affects) - f[j].k + 1 = n - j}
<1>2. 0 \in Q
  <2>1. f[0].v = v /\ f[0].k = 1
    BY <1>1
  <2> QED
    BY <1>0, <1>9, <2>1
<1> HIDE DEF n
<1>3. \A j \in 1..n : j - 1 \in Q => j \in Q
  <2> SUFFICES ASSUME NEW j \in 1..n, j - 1 \in Q PROVE j \in Q
    OBVIOUS
  <2> DEFINE s == f[j - 1]
             u == s.v
             k == s.k
  <2>1. /\ Shorter(u, v) /\ k \in Nat \ {0} /\ Len(u.affects) - k + 1 = n - (j - 1)
        /\ f[j] = WalkOn(s) /\ j \in 0..n
    BY <1>0, <1>1
  <2>7. WalkOn(s) = IF u.affects[k].left >= 1
                    THEN [v |-> [u EXCEPT !.affects[k].left = @ - 1], k |-> k + 1]
                    ELSE [v |-> AffectRemove(u, k), k |-> k]
    BY DEF WalkOn, WearOff
  <2> HIDE DEF s, u, k
  <2>2. Good(u) /\ Len(u.affects) \in Nat
    BY <2>1, LengthIs DEF Shorter
  <2>3. k \in 1..Len(u.affects)
    BY <1>0, <2>1, <2>2
  <2>4. CASE u.affects[k].left >= 1
    <3> DEFINE x == [u EXCEPT !.affects[k].left = @ - 1]
    <3>1. f[j] = [v |-> x, k |-> k + 1]
      BY <2>1, <2>4, <2>7
    <3>2. Good(x) /\ x.at = u.at /\ x.pack = u.pack /\ x.worn = u.worn /\ Len(x.affects) = Len(u.affects)
      BY <2>2, <2>3, <2>4, AgedIs
    <3> HIDE DEF x
    <3>3. Shorter(x, u)
      BY <2>2, <3>2 DEF Shorter
    <3>4. Shorter(x, v)
      BY <1>9, <2>1, <3>3, ShorterTwice
    <3>5. f[j].v = x /\ f[j].k = k + 1
      BY <3>1
    <3>6. Len(x.affects) - (k + 1) + 1 = n - j /\ k + 1 \in Nat \ {0}
      <4>1. Len(u.affects) - k + 1 = n - (j - 1) /\ Len(x.affects) = Len(u.affects)
        BY <2>1, <3>2
      <4>2. Len(u.affects) \in Int /\ k \in Nat /\ n \in Int /\ j \in Int
        BY <1>0, <2>1, <2>2
      <4> QED
        BY <4>1, <4>2
    <3> QED
      BY <2>1, <3>4, <3>5, <3>6
  <2>5. CASE ~ (u.affects[k].left >= 1)
    <3> DEFINE x == AffectRemove(u, k)
    <3>1. f[j] = [v |-> x, k |-> k]
      BY <2>1, <2>5, <2>7
    <3>2. /\ Good(x) /\ x.at = u.at /\ x.pack = u.pack /\ x.worn = u.worn
          /\ Len(x.affects) = Len(u.affects) - 1
      BY <2>2, <2>3, RemoveIs
    <3> HIDE DEF x
    <3>3. Shorter(x, u)
      BY <2>2, <3>2 DEF Shorter
    <3>4. Shorter(x, v)
      BY <1>9, <2>1, <3>3, ShorterTwice
    <3>5. f[j].v = x /\ f[j].k = k
      BY <3>1
    <3>6. Len(x.affects) - k + 1 = n - j
      BY <1>0, <2>1, <2>2, <3>2
    <3> QED
      BY <2>1, <3>4, <3>5, <3>6
  <2> QED
    BY <2>4, <2>5
<1> HIDE DEF Q
<1>4. n \in Q
  <2>1. \A j \in 0..n : j \in Q
    BY <1>0, <1>2, <1>3, SegmentInduction
  <2> QED
    BY <1>0, <2>1
<1> QED
  BY <1>1, <1>4 DEF Q
-----------------------------------------------------------------------------
(* Out of the game, and into it.                                           *)

\* Everything is left where the character was.
Left(v, more) == [v EXCEPT !.at = "menu", !.in_room = "NOWHERE", !.air = FALSE, !.pack = {}, !.ground = @ \cup more]

LEMMA LeftIs ==
    ASSUME NEW v, Good(v), NEW more \in SUBSET Items
    PROVE  /\ Good(Left(v, more)) /\ Left(v, more).at = "menu"
           /\ Left(v, more).pack = {} /\ Left(v, more).worn = v.worn /\ Left(v, more).affects = v.affects
<1> DEFINE u == Left(v, more)
<1>1. v \in Bearers /\ Placed(v) /\ Filed(v)
  BY GoodIs
<1>2. /\ u \in Bearers /\ u.at = "menu" /\ u.affects = v.affects /\ u.worn = v.worn /\ u.pack = {}
      /\ u.file = v.file /\ u.rent = v.rent
      /\ u.hitroll = v.hitroll /\ u.hp = v.hp /\ u.bits = v.bits
  BY <1>1 DEF Bearers, Left, Places, Rooms
<1> HIDE DEF u
<1>3. Placed(u) /\ Filed(u)
  BY <1>1, <1>2 DEF Placed, Filed
<1>4. Good(u)
  BY <1>2, <1>3, Unmoved
<1> QED
  BY <1>2, <1>4 DEF u

LEMMA WornItems ==
    ASSUME NEW v, Good(v)
    PROVE  v.pack \cup WornSet(v) \in SUBSET Items
<1>1. v.worn \in Worn /\ v.pack \subseteq Items
  BY GoodIs, BearerFields
<1> QED
  BY <1>1 DEF WornSet, Worn

\* Saved in the menu, without clothes.
LEMMA SavedInMenu ==
    ASSUME NEW v, Good(v), v.at = "menu", v.worn = Bare, v.pack = {}, Len(v.affects) <= MAX_AFFECT
    PROVE  Lawful(DoSave(v, {})) /\ \A room \in Rooms : Lawful(SaveChar(v, room, {}))
BY DoSaveIs, SaveCharIs DEF Lawful, Same

LEMMA DieIs ==
    ASSUME NEW v, Good(v), Len(v.affects) <= MAX_AFFECT
    PROVE  Lawful(Die(v))
<1> DEFINE x == Stripped(v)
           y == RemAllAffects(x)
           more == v.pack \cup WornSet(v)
           z == Left(y, more)
<1>1. Die(v) = DoSave(z, {})
  <2>1. z = [y EXCEPT !.at = "menu", !.in_room = "NOWHERE", !.air = FALSE, !.pack = {},
                      !.ground = @ \cup v.pack \cup WornSet(v)]
    BY DEF Left
  <2> HIDE DEF z
  <2> QED
    BY <2>1 DEF Die
<1>2. Same(x, v) /\ x.worn = Bare
  BY StrippedIs
<1>3. more \in SUBSET Items
  BY WornItems
<1> HIDE DEF x
<1>4. Shorter(y, x)
  BY <1>2, SeveralIs DEF RemAllAffects, Same
<1> HIDE DEF y
<1>5. Good(z) /\ z.at = "menu" /\ z.pack = {} /\ z.worn = Bare /\ z.affects = y.affects
  <2>1. /\ Good(Left(y, more)) /\ Left(y, more).at = "menu" /\ Left(y, more).pack = {}
        /\ Left(y, more).worn = y.worn /\ Left(y, more).affects = y.affects
    BY <1>3, <1>4, LeftIs DEF Shorter
  <2> QED
    BY <1>2, <1>4, <2>1 DEF Shorter
<1>6. Len(z.affects) <= MAX_AFFECT
  <2>1. Len(y.affects) \in Nat /\ Len(v.affects) \in Nat /\ Len(y.affects) <= Len(v.affects) /\ MAX_AFFECT \in Nat
    BY <1>2, <1>4, LengthIs, AffectsAssumption DEF Shorter, Same
  <2> QED
    BY <1>5, <2>1
<1> HIDE DEF z
<1> QED
  BY <1>1, <1>5, <1>6, SavedInMenu

LEMMA GroundedIs ==
    ASSUME NEW v, Good(v), NEW air \in BOOLEAN
    PROVE  /\ Good([v EXCEPT !.air = air]) /\ [v EXCEPT !.air = air].at = v.at
           /\ [v EXCEPT !.air = air].affects = v.affects
<1> DEFINE u == [v EXCEPT !.air = air]
<1>1. v \in Bearers /\ Placed(v) /\ Filed(v)
  BY GoodIs
<1>2. /\ u \in Bearers /\ u.at = v.at /\ u.affects = v.affects /\ u.worn = v.worn /\ u.pack = v.pack
      /\ u.file = v.file /\ u.rent = v.rent
      /\ u.hitroll = v.hitroll /\ u.hp = v.hp /\ u.bits = v.bits
  BY <1>1 DEF Bearers
<1> HIDE DEF u
<1>3. Placed(u) /\ Filed(u)
  BY <1>1, <1>2 DEF Placed, Filed
<1>4. Good(u)
  BY <1>2, <1>3, Unmoved
<1> QED
  BY <1>2, <1>4 DEF u

LEMMA FallingIs ==
    ASSUME NEW v, Good(v), v.at = "game", Len(v.affects) <= MAX_AFFECT, NEW u \in CheckFalling(v)
    PROVE  Lawful(u)
<1>1. u = v \/ u = Die(v) \/ u = [v EXCEPT !.air = FALSE]
  BY DEF CheckFalling
<1>2. CASE u = v
  BY <1>2 DEF Lawful
<1>3. CASE u = Die(v)
  BY <1>3, DieIs
<1>4. CASE u = [v EXCEPT !.air = FALSE]
  BY <1>4, GroundedIs DEF Lawful
<1> QED
  BY <1>1, <1>2, <1>3, <1>4

\* Nobody: nothing gives anything.
LEMMA BlankIs ==
    ASSUME NEW file \in Files, NEW rent \in Rents, file.hp = 0, file.bits \subseteq Racial, Placed(rent)
    PROVE  Lawful(Blank(file, rent))
<1> DEFINE u == Blank(file, rent)
<1>1. <<>> \in Seq(Affected) /\ Bare \in Worn /\ Base \in 0..Top
  BY BareIs, AffectsAssumption
<1>2. /\ u \in Bearers /\ u.at = "out" /\ u.affects = <<>> /\ u.worn = Bare /\ u.pack = {}
      /\ u.file = file /\ u.rent = rent /\ u.hitroll = 0 /\ u.hp = 0 /\ u.bits = {}
  BY <1>1 DEF Bearers, Blank, Places, Rooms
<1> HIDE DEF u
<1>3. Active(u) = <<>>
  <2>1. OfAffects(<<>>) = <<>> /\ <<>> \o <<>> = <<>>
    BY DEF OfAffects
  <2> QED
    BY <1>2, <2>1, NothingWorn DEF Active
<1>4. Ledger(u)
  BY <1>2, <1>3, NoneIs DEF Ledger
<1>5. Placed(u) /\ Filed(u)
  BY <1>2, BareIs DEF Placed, Filed
<1> QED
  BY <1>2, <1>4, <1>5 DEF Lawful, Good, u

LEMMA DownIs ==
    ASSUME NEW v, Good(v), NEW u \in Down(v)
    PROVE  Lawful(u)
<1> DEFINE lost == [v.file EXCEPT !.room = "NOWHERE"]
<1>1. v.file \in Files /\ v.rent \in Rents /\ v.file.hp = 0 /\ v.file.bits \subseteq Racial /\ Placed(v.rent)
  BY GoodIs, BearerFields DEF Filed
<1>2. lost \in Files /\ lost.hp = v.file.hp /\ lost.bits = v.file.bits
  BY <1>1 DEF Files, Rooms
<1>3. NoRent \in Rents /\ Placed(NoRent)
  BY BareIs DEF NoRent, Rents, Placed
<1>4. u = Blank(v.file, v.rent) \/ u = Blank(lost, v.rent) \/ u = Blank(lost, NoRent)
  BY DEF Down
<1> HIDE DEF lost
<1>5. Lawful(Blank(v.file, v.rent)) /\ Lawful(Blank(lost, v.rent)) /\ Lawful(Blank(lost, NoRent))
  BY <1>1, <1>2, <1>3, BlankIs
<1> QED
  BY <1>4, <1>5

\* reset_char, with nothing worn.
LEMMA ResetIs ==
    ASSUME NEW v, Good(v), v.worn = Bare
    PROVE  Same(ResetChar(v), v) /\ ResetChar(v).worn = Bare
<1> DEFINE ms == OfAffects(v.affects)
           x == [v EXCEPT !.hitroll = 0, !.bits = @ \cup Racial]
           y == ModifyAll(x, ms, TRUE)
<1>1. v \in Bearers /\ Ledger(v) /\ Placed(v) /\ Filed(v) /\ v.affects \in Seq(Affected) /\ v.bits \subseteq Flags
  BY GoodIs, BearerFields
<1>2. ms \in Seq(Modifiers) /\ Sum(ms, "hp") = 0 /\ Sum(ms, "hitroll") \in Int /\ Active(v) = <<>> \o ms
  BY <1>1, OfAffectsIs, NoHealth, SumsAre, NothingWorn DEF Active
<1>0. ResetChar(v) = y
  BY DEF ResetChar
<1> HIDE DEF ms
<1>3. Active(v) = ms
  BY <1>2
<1>4. Racial \subseteq Flags
  BY AffectsAssumption
<1>5. /\ x \in Bearers /\ x.at = v.at /\ x.affects = v.affects /\ x.worn = v.worn /\ x.pack = v.pack
      /\ x.file = v.file /\ x.rent = v.rent
      /\ x.hitroll = 0 /\ x.hp = v.hp /\ x.bits = v.bits \cup Racial
  <2>1. v.bits \cup Racial \in SUBSET Flags /\ 0 \in Int
    BY <1>1, <1>4
  <2>2. x = [v EXCEPT !.hitroll = 0, !.bits = v.bits \cup Racial]
    OBVIOUS
  <2> QED
    BY <1>1, <2>1, <2>2 DEF Bearers
<1> HIDE DEF x
<1>6. Has(y, x, x.hitroll + Sum(ms, "hitroll"), x.hp + Sum(ms, "hp"), x.bits \cup Bits(ms))
  BY <1>2, <1>5, AddingAll
<1> HIDE DEF y
<1>7. /\ y \in Bearers /\ y.at = v.at /\ y.affects = v.affects /\ y.worn = v.worn /\ y.pack = v.pack
      /\ y.file = v.file /\ y.rent = v.rent
  BY <1>5, <1>6 DEF Has, Alike
<1>8. Active(y) = ms /\ v.hp = 0
  BY <1>1, <1>2, <1>3, <1>7 DEF Active, Ledger
<1>9. Ledger(y)
  <2>1. y.hitroll = Sum(ms, "hitroll") /\ y.hp = 0 /\ y.bits = v.bits \cup Racial \cup Bits(ms)
    BY <1>2, <1>5, <1>6, <1>8 DEF Has
  <2> QED
    BY <1>1, <1>2, <1>3, <1>8, <2>1 DEF Ledger
<1>10. Placed(y) /\ Filed(y)
  BY <1>1, <1>7 DEF Placed, Filed
<1> QED
  BY <1>0, <1>7, <1>9, <1>10 DEF Same, Good
-----------------------------------------------------------------------------
(* The actions.                                                            *)

LEMMA LawfulIs ==
    ASSUME NEW v, Lawful(v)
    PROVE  Good(v) /\ v \in Bearers /\ Ledger(v) /\ Placed(v) /\ Filed(v)
BY GoodIs DEF Lawful

LEMMA ReverseIs ==
    ASSUME NEW afs \in Seq(Affected)
    PROVE  Reverse(afs) \in Seq(Affected)
<1> DEFINE n == Len(afs)
<1>1. n \in Nat /\ \A k \in 1..n : (n - k) + 1 \in 1..n
  OBVIOUS
<1>2. \A k \in 1..n : afs[(n - k) + 1] \in Affected
  BY <1>1
<1>3. Reverse(afs) = [k \in 1..n |-> afs[(n - k) + 1]]
  BY DEF Reverse
<1> HIDE DEF n
<1> QED
  BY <1>1, <1>2, <1>3

LEMMA LoginKeeps == ASSUME AInv, Login PROVE AInv'
<1> DEFINE x == [w EXCEPT !.at = "login", !.hp = w.file.hp, !.align = w.file.align, !.bits = w.file.bits,
                    !.in_room = w.file.room]
           afs == Reverse(w.file.affects)
<1>1. Good(w) /\ w \in Bearers /\ Ledger(w) /\ Placed(w) /\ Filed(w) /\ w.worn = Bare /\ w.pack = {} /\ w.affects = <<>>
  BY LawfulIs DEF AInv, Lawful, Login
<1>2. w.file \in Files /\ w.hitroll \in Int
  BY <1>1, BearerFields
<1>3. /\ w.file.affects \in Seq(Affected) /\ w.file.hp = 0 /\ w.file.align \in {"good", "evil"}
      /\ w.file.room \in Rooms /\ w.file.bits \in SUBSET Flags /\ w.file.bits \subseteq Racial
  BY <1>1, <1>2 DEF Files, Filed
<1>4. w' = AffectsToChar(x, afs)
  BY DEF Login
<1>5. afs \in Seq(Affected)
  BY <1>3, ReverseIs
<1>6. /\ x \in Bearers /\ x.at = "login" /\ x.affects = w.affects /\ x.worn = w.worn /\ x.pack = w.pack
      /\ x.file = w.file /\ x.rent = w.rent
      /\ x.hitroll = w.hitroll /\ x.hp = 0 /\ x.bits = w.file.bits
  <2> DEFINE h == w.file.hp
             l == w.file.align
             b == w.file.bits
             g == w.file.room
  <2>1. h = 0 /\ h \in Int /\ l \in {"good", "evil"} /\ b \in SUBSET Flags /\ g \in Rooms /\ "login" \in Places
    BY <1>3 DEF Places
  <2>2. x = [w EXCEPT !.at = "login", !.hp = h, !.align = l, !.bits = b, !.in_room = g]
    OBVIOUS
  <2> HIDE DEF h, l, b, g, x
  <2>3. /\ x \in Bearers /\ x.at = "login" /\ x.affects = w.affects /\ x.worn = w.worn /\ x.pack = w.pack
        /\ x.file = w.file /\ x.rent = w.rent
        /\ x.hitroll = w.hitroll /\ x.hp = h /\ x.bits = b
    BY <1>1, <2>1, <2>2 DEF Bearers
  <2> QED
    BY <2>1, <2>3 DEF b
<1> HIDE DEF x, afs
<1>7. Active(w) = <<>> /\ Active(x) = <<>>
  <2>1. OfAffects(<<>>) = <<>> /\ <<>> \o <<>> = <<>>
    BY DEF OfAffects
  <2> QED
    BY <1>1, <1>6, <2>1, NothingWorn DEF Active
<1>8. Ledger(x)
  BY <1>1, <1>3, <1>6, <1>7, NoneIs DEF Ledger
<1>9. Good(x)
  <2>1. Placed(x) /\ Filed(x)
    BY <1>1, <1>6 DEF Placed, Filed
  <2> QED
    BY <1>6, <1>8, <2>1 DEF Good
<1>10. Good(AffectsToChar(x, afs)) /\ AffectsToChar(x, afs).at = "login" /\ AffectsToChar(x, afs).worn = Bare
        /\ AffectsToChar(x, afs).pack = {}
  BY <1>1, <1>5, <1>6, <1>9, ToCharsIs
<1> QED
  BY <1>4, <1>10 DEF AInv, Lawful

LEMMA InGameIs ==
    ASSUME NEW v, Good(v)
    PROVE  Lawful(InGame(v))
<1> DEFINE u == InGame(v)
<1>1. v \in Bearers /\ Placed(v) /\ Filed(v)
  BY GoodIs
<1>2. /\ u \in Bearers /\ u.at = "game" /\ u.affects = v.affects /\ u.worn = v.worn /\ u.pack = v.pack
      /\ u.file = v.file /\ u.rent = v.rent
      /\ u.hitroll = v.hitroll /\ u.hp = v.hp /\ u.bits = v.bits
  BY <1>1 DEF Bearers, InGame, Places, Rooms
<1> HIDE DEF u
<1>3. Placed(u) /\ Filed(u)
  BY <1>1, <1>2 DEF Placed, Filed
<1>4. Good(u)
  BY <1>2, <1>3, Unmoved
<1> QED
  BY <1>2, <1>4 DEF Lawful, u

LEMMA RentLostIs ==
    ASSUME NEW v, Good(v)
    PROVE  Same([v EXCEPT !.rent = NoRent], v)
<1> DEFINE u == [v EXCEPT !.rent = NoRent]
<1>1. v \in Bearers /\ Placed(v) /\ Filed(v)
  BY GoodIs
<1>2. NoRent \in Rents /\ Placed(NoRent)
  BY BareIs DEF NoRent, Rents, Placed
<1>3. /\ u \in Bearers /\ u.at = v.at /\ u.affects = v.affects /\ u.worn = v.worn /\ u.pack = v.pack
      /\ u.file = v.file /\ u.rent = NoRent
      /\ u.hitroll = v.hitroll /\ u.hp = v.hp /\ u.bits = v.bits
  BY <1>1, <1>2 DEF Bearers
<1> HIDE DEF u
<1>4. Placed(u) /\ Filed(u)
  BY <1>1, <1>2, <1>3 DEF Placed, Filed
<1>5. Good(u)
  BY <1>3, <1>4, Unmoved
<1> QED
  BY <1>3, <1>5 DEF Same, u

\* What was worn is put on, and what was carried is carried.
LEMMA WearsIs ==
    ASSUME NEW v, Good(v), v.worn = Bare, v.pack = {}, Len(v.affects) <= MAX_AFFECT,
           NEW r \in Rents, Placed(r), NEW R
    PROVE  Good(Wears(v, r, R)) /\ Wears(v, r, R).affects = v.affects
<1> DEFINE x == TryOn(v, r.worn, R)
           u == [x EXCEPT !.pack = r.pack]
<1>1. r.pack \in SUBSET Items /\ r.worn \in Worn
  BY DEF Rents
<1>2. Fits(r.worn, v.pack)
  BY <1>1 DEF Fits, Placed
<1>3. Same(x, v) /\ Worse(x.worn, r.worn)
  BY <1>2, TryOnIs
<1>4. Wears(v, r, R) = u
  BY DEF Wears
<1> HIDE DEF x
<1>5. x \in Bearers /\ Filed(x) /\ x.affects = v.affects /\ Good(x)
  BY <1>3, GoodIs DEF Same
<1>6. /\ u \in Bearers /\ u.at = x.at /\ u.affects = x.affects /\ u.worn = x.worn /\ u.pack = r.pack
      /\ u.file = x.file /\ u.rent = x.rent
      /\ u.hitroll = x.hitroll /\ u.hp = x.hp /\ u.bits = x.bits
  BY <1>1, <1>5 DEF Bearers
<1> HIDE DEF u
<1>7. Placed(u) /\ Filed(u)
  BY <1>3, <1>5, <1>6 DEF Placed, Filed, Worse
<1>8. Good(u)
  BY <1>5, <1>6, <1>7, Unmoved
<1> QED
  BY <1>4, <1>5, <1>6, <1>8

LEMMA EnterKeeps == ASSUME AInv, FitsTheFile, EnterGame PROVE AInv'
<1> DEFINE r == w.rent
           x == ResetChar(w)
<1>1. Good(w) /\ w \in Bearers /\ Filed(w) /\ w.worn = Bare /\ w.pack = {} /\ Len(w.affects) \in Nat
  <2>1. w.at # "game"
    BY DEF EnterGame
  <2> QED
    BY <2>1, LawfulIs, LengthIs DEF AInv, Lawful
<1>2. r \in Rents /\ Placed(r)
  BY <1>1, BearerFields DEF Filed
<1>3. PICK c, R : /\ c = RemAllAffects(x) \/ c = x
                  /\ \/ w' = InGame(c)
                     \/ w' = InGame(SaveChar([c EXCEPT !.rent = NoRent], "AUTO_RENT", R))
                     \/ w' \in Down(c)
                     \/ w' = InGame(SaveChar(Wears(c, r, R), "AUTO_RENT", R))
  BY DEF EnterGame
<1>4. Same(x, w) /\ x.worn = Bare
  BY <1>1, ResetIs
<1> HIDE DEF x
<1>5. Shorter(x, x) /\ Shorter(RemAllAffects(x), x)
  BY <1>4, LengthIs, SeveralIs DEF Same, RemAllAffects
<1>6. Shorter(c, x)
  BY <1>3, <1>5
<1> HIDE DEF r
<1>7. Good(c) /\ c.worn = Bare /\ c.pack = {} /\ Len(c.affects) <= MAX_AFFECT
  <2>1. Good(c) /\ c.worn = Bare /\ c.pack = {} /\ Len(c.affects) <= Len(w.affects)
    BY <1>1, <1>4, <1>6 DEF Shorter, Same
  <2>2. Len(c.affects) \in Nat /\ MAX_AFFECT \in Nat /\ Len(w.affects) <= MAX_AFFECT
    BY <2>1, LengthIs, AffectsAssumption DEF FitsTheFile
  <2> QED
    BY <1>1, <2>1, <2>2
<1>8. CASE w' = InGame(c)
  BY <1>7, <1>8, InGameIs DEF AInv
<1>9. CASE w' \in Down(c)
  BY <1>7, <1>9, DownIs DEF AInv
<1>10. CASE w' = InGame(SaveChar([c EXCEPT !.rent = NoRent], "AUTO_RENT", R))
  <2> DEFINE y == [c EXCEPT !.rent = NoRent]
             z == SaveChar(y, "AUTO_RENT", R)
  <2>1. Same(y, c)
    BY <1>7, RentLostIs
  <2>2. w' = InGame(z)
    BY <1>10
  <2> HIDE DEF y
  <2>3. Same(z, y)
    BY <1>7, <2>1, SaveCharIs DEF Same, Rooms
  <2> HIDE DEF z
  <2> QED
    BY <2>2, <2>3, InGameIs DEF AInv, Same
<1>11. CASE w' = InGame(SaveChar(Wears(c, r, R), "AUTO_RENT", R))
  <2> DEFINE y == Wears(c, r, R)
             z == SaveChar(y, "AUTO_RENT", R)
  <2>1. Good(y) /\ y.affects = c.affects
    BY <1>2, <1>7, WearsIs
  <2>2. w' = InGame(z)
    BY <1>11
  <2> HIDE DEF y
  <2>3. Same(z, y)
    BY <1>7, <2>1, SaveCharIs DEF Rooms
  <2> HIDE DEF z
  <2> QED
    BY <2>2, <2>3, InGameIs DEF AInv, Same
<1> QED
  BY <1>3, <1>8, <1>9, <1>10, <1>11

LEMMA QuitKeeps == ASSUME AInv, FitsTheFile, Quit PROVE AInv'
<1> DEFINE x == Stripped(w)
           more == w.pack \cup WornSet(w)
           y == Left(x, more)
<1>1. Good(w)
  BY DEF AInv, Lawful
<1>2. w' = DoSave(y, {})
  <2>1. y = [x EXCEPT !.at = "menu", !.in_room = "NOWHERE", !.air = FALSE, !.pack = {}, !.ground = @ \cup w.pack \cup WornSet(w)]
    BY DEF Left
  <2> HIDE DEF y
  <2> QED
    BY <2>1 DEF Quit
<1>3. Same(x, w) /\ x.worn = Bare
  BY <1>1, StrippedIs
<1> HIDE DEF x
<1>4. Good(y) /\ y.at = "menu" /\ y.pack = {} /\ y.worn = Bare /\ y.affects = w.affects
  <2>1. more \in SUBSET Items
    BY <1>1, WornItems
  <2> HIDE DEF more
  <2> QED
    BY <1>3, <2>1, LeftIs DEF Same
<1> HIDE DEF y
<1> QED
  BY <1>2, <1>4, SavedInMenu DEF AInv, FitsTheFile

LEMMA RentOutKeeps == ASSUME AInv, FitsTheFile, RentOut PROVE AInv'
<1> DEFINE x == SaveObj(w)
           y == Stripped(x)
           z == [y EXCEPT !.at = "menu", !.pack = {}]
<1>1. Good(w)
  BY DEF AInv, Lawful
<1>2. w' = SaveChar(z, "real", {})
  BY DEF RentOut
<1>3. Same(x, w)
  BY <1>1, SaveObjIs
<1> HIDE DEF x
<1>4. Same(y, x) /\ y.worn = Bare
  BY <1>3, StrippedIs DEF Same
<1> HIDE DEF y
<1>5. y \in Bearers /\ Filed(y) /\ Good(y) /\ y.affects = w.affects
  BY <1>3, <1>4 DEF Same, Good
<1>6. /\ z \in Bearers /\ z.at = "menu" /\ z.affects = y.affects /\ z.worn = y.worn /\ z.pack = {}
      /\ z.file = y.file /\ z.rent = y.rent
      /\ z.hitroll = y.hitroll /\ z.hp = y.hp /\ z.bits = y.bits
  BY <1>5 DEF Bearers, Places
<1> HIDE DEF z
<1>7. Placed(z) /\ Filed(z)
  BY <1>4, <1>5, <1>6, BareIs DEF Placed, Filed
<1>8. Good(z)
  BY <1>5, <1>6, <1>7, Unmoved
<1> QED
  BY <1>2, <1>4, <1>5, <1>6, <1>8, SavedInMenu DEF AInv, FitsTheFile, Rooms

LEMMA LeaveKeeps == ASSUME AInv, LeaveMenu PROVE AInv'
<1> DEFINE x == Blank(w.file, w.rent)
           u == [x EXCEPT !.ground = w.ground]
<1>1. Good(w) /\ w.ground \in SUBSET Items
  BY GoodIs, BearerFields DEF AInv, Lawful
<1>2. Lawful(x) /\ x \in Bearers /\ Placed(x) /\ Filed(x)
  <2>1. w.file \in Files /\ w.rent \in Rents /\ Filed(w)
    BY <1>1, GoodIs, BearerFields
  <2> QED
    BY <2>1, BlankIs, LawfulIs DEF Filed
<1>3. w' = u /\ x.at = "out"
  BY DEF LeaveMenu, Blank
<1> HIDE DEF x
<1>4. /\ u \in Bearers /\ u.at = x.at /\ u.affects = x.affects /\ u.worn = x.worn /\ u.pack = x.pack
      /\ u.file = x.file /\ u.rent = x.rent
      /\ u.hitroll = x.hitroll /\ u.hp = x.hp /\ u.bits = x.bits
  BY <1>1, <1>2 DEF Bearers
<1> HIDE DEF u
<1>5. Placed(u) /\ Filed(u)
  BY <1>2, <1>4 DEF Placed, Filed
<1>6. Good(u)
  BY <1>2, <1>4, <1>5, Unmoved DEF Lawful
<1> QED
  BY <1>2, <1>3, <1>4, <1>6 DEF AInv, Lawful

LEMMA CrashKeeps == ASSUME AInv, Crash PROVE AInv'
BY DownIs DEF AInv, Lawful, Crash

LEMMA CrashInSaveKeeps == ASSUME AInv, CrashInSave PROVE AInv'
BY SaveObjIs, DownIs DEF AInv, Lawful, CrashInSave, Same

LEMMA WearKeeps == ASSUME AInv, FitsTheFile, NEW i \in Items, DoWear(i) PROVE AInv'
<1> DEFINE x == [w EXCEPT !.pack = @ \ {i}]
<1>0. PICK R : w' = DoSave([x EXCEPT !.ground = @ \cup {i}], R) \/ w' = Equip(x, i)
  BY DEF DoWear
<1>1. Good(w) /\ w \in Bearers /\ Placed(w) /\ Filed(w) /\ w.pack \subseteq Items
  BY GoodIs, BearerFields DEF AInv, Lawful
<1>2. w.at = "game" /\ w.worn[Slot[i]] = NoItem
  BY DEF DoWear
<1>3. /\ x \in Bearers /\ x.at = "game" /\ x.affects = w.affects /\ x.worn = w.worn /\ x.pack = w.pack \ {i}
      /\ x.file = w.file /\ x.rent = w.rent
      /\ x.hitroll = w.hitroll /\ x.hp = w.hp /\ x.bits = w.bits
  BY <1>1, <1>2 DEF Bearers
<1> HIDE DEF x
<1>4. Placed(x) /\ Filed(x)
  BY <1>1, <1>3 DEF Placed, Filed
<1>5. Good(x)
  BY <1>1, <1>3, <1>4, Unmoved
<1>6. CASE w' = Equip(x, i)
  <2>1. Same(Equip(x, i), x)
    BY <1>2, <1>3, <1>5, EquipIs
  <2> QED
    BY <1>3, <1>6, <2>1 DEF AInv, Lawful, Same
<1>7. CASE w' = DoSave([x EXCEPT !.ground = @ \cup {i}], R)
  <2> DEFINE y == [x EXCEPT !.ground = @ \cup {i}]
  <2>1. Same(y, x)
    BY <1>5, FloorIs
  <2>2. w' = DoSave(y, R)
    BY <1>7
  <2> HIDE DEF y
  <2>3. Same(DoSave(y, R), y)
    BY <1>3, <2>1, DoSaveIs DEF FitsTheFile, Same
  <2> QED
    BY <1>3, <2>1, <2>2, <2>3 DEF AInv, Lawful, Same
<1> QED
  BY <1>0, <1>6, <1>7

LEMMA FallingKeeps ==
    ASSUME NEW v, Good(v), v.at = "game", Len(v.affects) <= MAX_AFFECT, w' \in CheckFalling(v)
    PROVE  AInv'
BY FallingIs DEF AInv

LEMMA RemoveKeeps == ASSUME AInv, FitsTheFile, NEW p \in 1..MAX_WEAR, DoRemove(p) PROVE AInv'
<1> DEFINE i == w.worn[p]
           x == UnequipChar(w, p)
           y == [x EXCEPT !.pack = @ \cup {i}]
<1>1. Good(w) /\ w.worn \in Worn /\ Placed(w)
  BY GoodIs, BearerFields DEF AInv, Lawful
<1>2. w.at = "game" /\ i # NoItem /\ w' \in CheckFalling(y)
  BY DEF DoRemove
<1>3. i \in Items /\ Slot[i] = p
  BY <1>1, <1>2 DEF Worn, Placed
<1>4. Same(x, w) /\ x.worn = [w.worn EXCEPT ![p] = NoItem]
  BY <1>1, <1>2, UnequipIs
<1> HIDE DEF x
<1>5. x \in Bearers /\ Placed(x) /\ Filed(x) /\ Good(x) /\ x.at = "game" /\ x.affects = w.affects
      /\ x.pack = w.pack /\ x.pack \subseteq Items
  BY <1>2, <1>4, GoodIs, BearerFields DEF Same
<1>6. /\ y \in Bearers /\ y.at = x.at /\ y.affects = x.affects /\ y.worn = x.worn /\ y.pack = x.pack \cup {i}
      /\ y.file = x.file /\ y.rent = x.rent
      /\ y.hitroll = x.hitroll /\ y.hp = x.hp /\ y.bits = x.bits
  BY <1>3, <1>5 DEF Bearers
<1> HIDE DEF y
<1>7. Placed(y) /\ Filed(y)
  <2>1. \A q \in 1..MAX_WEAR : x.worn[q] = IF q = p THEN NoItem ELSE w.worn[q]
    BY <1>1, <1>4 DEF Worn
  <2>2. \A q \in 1..MAX_WEAR : x.worn[q] # NoItem => x.worn[q] # i
    BY <1>1, <1>3, <2>1 DEF Placed
  <2> QED
    BY <1>5, <1>6, <2>2 DEF Placed, Filed
<1>8. Good(y)
  BY <1>5, <1>6, <1>7, Unmoved
<1> QED
  BY <1>2, <1>5, <1>6, <1>8, FallingKeeps DEF FitsTheFile

LEMMA GetKeeps == ASSUME AInv, FitsTheFile, NEW i \in Items, DoGet(i) PROVE AInv'
<1> DEFINE x == [w EXCEPT !.pack = @ \cup {i}, !.ground = @ \ {i}]
<1>1. Good(w) /\ w \in Bearers /\ Placed(w) /\ Filed(w) /\ w.pack \subseteq Items /\ w.ground \subseteq Items
  BY GoodIs, BearerFields DEF AInv, Lawful
<1>2. w.at = "game" /\ (\E R : w' = DoSave(x, R)) /\ \A p \in 1..MAX_WEAR : w.worn[p] # NoItem => w.worn[p] # i
  BY DEF DoGet, WornSet
<1>3. /\ x \in Bearers /\ x.at = "game" /\ x.affects = w.affects /\ x.worn = w.worn /\ x.pack = w.pack \cup {i}
      /\ x.file = w.file /\ x.rent = w.rent
      /\ x.hitroll = w.hitroll /\ x.hp = w.hp /\ x.bits = w.bits
  BY <1>1, <1>2 DEF Bearers
<1> HIDE DEF x
<1>4. Placed(x) /\ Filed(x)
  BY <1>1, <1>2, <1>3 DEF Placed, Filed
<1>5. Good(x)
  BY <1>1, <1>3, <1>4, Unmoved
<1>6. \A R : Same(DoSave(x, R), x)
  BY <1>3, <1>5, DoSaveIs DEF FitsTheFile
<1> QED
  BY <1>2, <1>3, <1>6 DEF AInv, Lawful, Same

LEMMA DropKeeps == ASSUME AInv, FitsTheFile, NEW i \in Items, DoDrop(i) PROVE AInv'
<1> DEFINE x == [w EXCEPT !.pack = @ \ {i}, !.ground = @ \cup {i}]
<1>1. Good(w) /\ w \in Bearers /\ Placed(w) /\ Filed(w) /\ w.pack \subseteq Items /\ w.ground \subseteq Items
  BY GoodIs, BearerFields DEF AInv, Lawful
<1>2. w.at = "game" /\ \E R : w' = DoSave(x, R)
  BY DEF DoDrop
<1>3. /\ x \in Bearers /\ x.at = "game" /\ x.affects = w.affects /\ x.worn = w.worn /\ x.pack = w.pack \ {i}
      /\ x.file = w.file /\ x.rent = w.rent
      /\ x.hitroll = w.hitroll /\ x.hp = w.hp /\ x.bits = w.bits
  BY <1>1, <1>2 DEF Bearers
<1> HIDE DEF x
<1>4. Placed(x) /\ Filed(x)
  BY <1>1, <1>3 DEF Placed, Filed
<1>5. Good(x)
  BY <1>1, <1>3, <1>4, Unmoved
<1>6. \A R : Same(DoSave(x, R), x)
  BY <1>3, <1>5, DoSaveIs DEF FitsTheFile
<1> QED
  BY <1>2, <1>3, <1>6 DEF AInv, Lawful, Same

LEMMA CastKeeps == ASSUME AInv, NEW s \in Spells, Cast(s) PROVE AInv'
<1> DEFINE afs == [k \in DOMAIN Effects[s] |-> [spell |-> s, part |-> k, left |-> Lasts]]
<1>1. Good(w) /\ w.at = "game" /\ w' = AffectsToChar(w, afs)
  BY DEF AInv, Lawful, Cast
<1>2. afs \in Seq(Affected)
  <2> DEFINE n == Len(Effects[s])
  <2>1. Effects[s] \in Seq(Modifiers) /\ Lasts \in Nat
    BY EffectsAre, AffectsAssumption
  <2>2. n \in Nat /\ DOMAIN Effects[s] = 1..n
    BY <2>1
  <2> HIDE DEF n
  <2>3. \A k \in 1..n : [spell |-> s, part |-> k, left |-> Lasts] \in Affected
    BY <2>1, <2>2 DEF Affected
  <2> QED
    BY <2>2, <2>3
<1> HIDE DEF afs
<1>3. Good(AffectsToChar(w, afs)) /\ AffectsToChar(w, afs).at = w.at
  BY <1>1, <1>2, ToCharsIs
<1> QED
  BY <1>1, <1>3 DEF AInv, Lawful

\* What lifts spells leaves the character where it was.
LEMMA ShorterFits ==
    ASSUME AInv, FitsTheFile, w.at = "game", NEW v, Shorter(v, w)
    PROVE  Good(v) /\ v.at = "game" /\ Len(v.affects) <= MAX_AFFECT
<1>1. Good(w) /\ Len(w.affects) \in Nat
  BY LengthIs DEF AInv, Lawful
<1>2. Good(v) /\ v.at = "game" /\ Len(v.affects) <= Len(w.affects)
  BY DEF Shorter
<1>3. Len(v.affects) \in Nat /\ MAX_AFFECT \in Nat /\ Len(w.affects) <= MAX_AFFECT
  BY <1>2, LengthIs, AffectsAssumption DEF FitsTheFile
<1> QED
  BY <1>1, <1>2, <1>3

LEMMA DispelKeeps == ASSUME AInv, FitsTheFile, NEW S \in SUBSET Spells, Dispel(S) PROVE AInv'
<1> DEFINE x == AffectsFromChar(w, S)
<1>1. w.at = "game" /\ w' \in CheckFalling(x)
  BY DEF Dispel
<1>2. Shorter(x, w)
  BY SeveralIs DEF AInv, Lawful
<1> HIDE DEF x
<1>3. Good(x) /\ x.at = "game" /\ Len(x.affects) <= MAX_AFFECT
  BY <1>1, <1>2, ShorterFits
<1> QED
  BY <1>1, <1>3, FallingKeeps

LEMMA UpdateKeeps == ASSUME AInv, FitsTheFile, NEW saves \in BOOLEAN, AffectUpdate(saves) PROVE AInv'
<1> DEFINE x == Walked(w)
<1>1. w.at = "game" /\ (w' \in CheckFalling(x) \/ \E R : w' \in CheckFalling(DoSave(x, R)))
  BY DEF AffectUpdate
<1>2. Shorter(x, w)
  BY WalkedIs DEF AInv, Lawful
<1> HIDE DEF x
<1>3. Good(x) /\ x.at = "game" /\ Len(x.affects) <= MAX_AFFECT
  BY <1>1, <1>2, ShorterFits
<1>4. \A R : Same(DoSave(x, R), x)
  BY <1>3, DoSaveIs
<1>5. \A R : Good(DoSave(x, R)) /\ DoSave(x, R).at = "game" /\ Len(DoSave(x, R).affects) <= MAX_AFFECT
  BY <1>3, <1>4 DEF Same
<1>6. CASE w' \in CheckFalling(x)
  BY <1>3, <1>6, FallingKeeps
<1>7. CASE \E R : w' \in CheckFalling(DoSave(x, R))
  BY <1>5, <1>7, FallingKeeps
<1> QED
  BY <1>1, <1>6, <1>7

LEMMA SaveKeeps == ASSUME AInv, FitsTheFile, Save PROVE AInv'
<1>1. Good(w) /\ w.at = "game" /\ \E R : w' = DoSave(w, R)
  BY DEF AInv, Lawful, Save
<1>2. \A R : Same(DoSave(w, R), w)
  BY <1>1, DoSaveIs DEF FitsTheFile
<1> QED
  BY <1>1, <1>2 DEF AInv, Lawful, Same

LEMMA BankKeeps == ASSUME AInv, FitsTheFile, Bank PROVE AInv'
<1>1. Good(w) /\ w.at = "game" /\ \E R : w' = SaveChar(w, "real", R)
  BY DEF AInv, Lawful, Bank
<1>2. \A R : Same(SaveChar(w, "real", R), w)
  BY <1>1, SaveCharIs DEF FitsTheFile, Rooms
<1> QED
  BY <1>1, <1>2 DEF AInv, Lawful, Same

LEMMA MoveKeeps == ASSUME AInv, FitsTheFile, Move PROVE AInv'
<1> DEFINE air == ~ w.air
           x == [w EXCEPT !.air = air]
<1>1. Good(w) /\ w.at = "game" /\ w' \in CheckFalling(x)
  BY DEF AInv, Lawful, Move
<1>2. air \in BOOLEAN
  OBVIOUS
<1> HIDE DEF air
<1>3. Good(x) /\ x.at = "game" /\ x.affects = w.affects
  BY <1>1, <1>2, GroundedIs
<1> QED
  BY <1>1, <1>3, FallingKeeps DEF FitsTheFile

LEMMA AlignKeeps == ASSUME AInv, ChangeAlign PROVE AInv'
<1> DEFINE l == IF w.align = "good" THEN "evil" ELSE "good"
           x == [w EXCEPT !.align = l]
<1>1. Good(w) /\ w \in Bearers /\ Placed(w) /\ Filed(w)
  BY GoodIs DEF AInv, Lawful
<1>2. w.at = "game" /\ w' = x /\ l \in {"good", "evil"}
  BY DEF ChangeAlign
<1> HIDE DEF l
<1>3. /\ x \in Bearers /\ x.at = w.at /\ x.affects = w.affects /\ x.worn = w.worn /\ x.pack = w.pack
      /\ x.file = w.file /\ x.rent = w.rent
      /\ x.hitroll = w.hitroll /\ x.hp = w.hp /\ x.bits = w.bits
  BY <1>1, <1>2 DEF Bearers
<1> HIDE DEF x
<1>4. Placed(x) /\ Filed(x)
  BY <1>1, <1>3 DEF Placed, Filed
<1>5. Good(x)
  BY <1>1, <1>3, <1>4, Unmoved
<1> QED
  BY <1>2, <1>3, <1>5 DEF AInv, Lawful

LEMMA KilledKeeps == ASSUME AInv, FitsTheFile, Killed PROVE AInv'
BY DieIs DEF AInv, Lawful, Killed, FitsTheFile

LEMMA AInvInit == AffectsInit => AInv
<1>1. NewFile \in Files /\ NewFile.hp = 0 /\ NewFile.bits \subseteq Racial
  <2>1. <<>> \in Seq(Affected) /\ Racial \subseteq Flags
    BY AffectsAssumption
  <2> QED
    BY <2>1 DEF NewFile, Files, Rooms
<1>2. NoRent \in Rents /\ Placed(NoRent)
  BY BareIs DEF NoRent, Rents, Placed
<1>3. Lawful(Blank(NewFile, NoRent))
  BY <1>1, <1>2, BlankIs
<1> QED
  BY <1>3 DEF AffectsInit, AInv

LEMMA AInvStep == AInv /\ FitsTheFile /\ [AffectsNext]_w => AInv'
<1> SUFFICES ASSUME AInv, FitsTheFile, [AffectsNext]_w PROVE AInv'
  OBVIOUS
<1>1. CASE Login
  BY <1>1, LoginKeeps
<1>2. CASE EnterGame
  BY <1>2, EnterKeeps
<1>3. CASE Quit
  BY <1>3, QuitKeeps
<1>4. CASE RentOut
  BY <1>4, RentOutKeeps
<1>5. CASE LeaveMenu
  BY <1>5, LeaveKeeps
<1>6. CASE Crash
  BY <1>6, CrashKeeps
<1>7. CASE CrashInSave
  BY <1>7, CrashInSaveKeeps
<1>8. ASSUME NEW i \in Items, DoWear(i) \/ DoGet(i) \/ DoDrop(i) PROVE AInv'
  BY <1>8, WearKeeps, GetKeeps, DropKeeps
<1>9. ASSUME NEW p \in 1..MAX_WEAR, DoRemove(p) PROVE AInv'
  BY <1>9, RemoveKeeps
<1>10. ASSUME NEW s \in Spells, Cast(s) PROVE AInv'
  BY <1>10, CastKeeps
<1>11. ASSUME NEW S \in SUBSET Spells, Dispel(S) PROVE AInv'
  BY <1>11, DispelKeeps
<1>12. ASSUME NEW saves \in BOOLEAN, AffectUpdate(saves) PROVE AInv'
  BY <1>12, UpdateKeeps
<1>13. CASE Save
  BY <1>13, SaveKeeps
<1>14. CASE Move
  BY <1>14, MoveKeeps
<1>15. CASE ChangeAlign
  BY <1>15, AlignKeeps
<1>16. CASE Killed
  BY <1>16, KilledKeeps
<1>17. CASE UNCHANGED w
  BY <1>17 DEF AInv
<1>18. CASE Bank
  BY <1>18, BankKeeps
<1> QED
  BY <1>1, <1>2, <1>3, <1>4, <1>5, <1>6, <1>7, <1>8, <1>9, <1>10, <1>11, <1>12, <1>13, <1>14, <1>15,
     <1>16, <1>17, <1>18 DEF AffectsNext

LEMMA AInvAlways == AffectsSpec /\ []FitsTheFile => []AInv
BY AInvInit, AInvStep, PTL DEF AffectsSpec

\* The struct, the floor and the files have their types, an object is worn
\* where it belongs, and none is worn and carried: whatever the spells, the
\* objects and the races are, as long as the player is never under more
\* affects than its file has room for (with more of them char_to_store
\* leaves what the others gave in the record).
THEOREM AffectsTypeCorrect == AffectsSpec /\ []FitsTheFile => []AffectsTypeOK
<1>1. ASSUME AInv PROVE AffectsTypeOK
  <2>1. Good(w) /\ w \in Bearers /\ Placed(w)
    BY <1>1, GoodIs DEF AInv, Lawful
  <2>2. /\ w.at \in Places /\ w.in_room \in Rooms /\ w.align \in {"good", "evil"} /\ w.affects \in Seq(Affected)
        /\ w.worn \in Worn /\ w.pack \subseteq Items /\ w.ground \subseteq Items
        /\ w.hitroll \in Int /\ w.saves \in Int /\ w.hp \in Int /\ w.stat \in 0..Top
        /\ w.air \in BOOLEAN /\ w.file \in Files /\ w.rent \in Rents
    BY <2>1, BearerFields
  <2>3. /\ w.file.affects \in Seq(Affected) /\ w.file.room \in Rooms /\ w.rent.valid \in BOOLEAN
        /\ w.rent.worn \in Worn /\ w.rent.pack \subseteq Items
    BY <2>2 DEF Files, Rents
  <2>4. w.pack \cap WornSet(w) = {}
    BY <2>1 DEF Placed, WornSet
  <2>5. \A i \in Items, p \in 1..MAX_WEAR : w.worn[p] = i => p = Slot[i]
    BY <2>1, ItemIs DEF Placed
  <2> QED
    BY <2>2, <2>3, <2>4, <2>5 DEF AffectsTypeOK, Places
<1>2. AInv => AffectsTypeOK
  BY <1>1
<1> QED
  BY <1>2, AInvAlways, PTL

\* What is added is taken away again: for any spells, objects, flags, positions
\* and races, in the game the quantities of a player are what its worn objects
\* and its spells give, through every save, refusal of equip_char, death, rent
\* and crash, as long as all its affects fit the record of char_to_store.
THEOREM BalancedHolds == AffectsSpec /\ []FitsTheFile => []Balanced
<1>1. AInv => Balanced
  BY DEF AInv, Lawful, Good, Ledger, Balanced
<1> QED
  BY <1>1, AInvAlways, PTL
=============================================================================
