-------------------------------- MODULE Link --------------------------------
(***************************************************************************)
(* Connections and bodies.  A connection commands a body in the game: the  *)
(* player's own, or a mobile it switched into (do_switch, for wizards) or  *)
(* polymorphed into (spell_poly_self), with its own body kept as the       *)
(* descriptor's `original'.  Links are lost, bodies are killed, idle out,  *)
(* are rented out by force and purged, wizards snoop, and link-dead        *)
(* players reconnect to a body.                                            *)
(*                                                                         *)
(* The four pointers d->character, d->original, ch->desc and ch->orig and  *)
(* the two of the snoop structure are changed by different files, each     *)
(* trusting the others: this module is about their agreement.  The login   *)
(* dialogue before the password is one step (the module Nanny has it), and *)
(* a player's body is the player.                                          *)
(***************************************************************************)
EXTENDS Naturals, FiniteSets

CONSTANTS Desc,          \* connections
          Players,       \* players, and their own bodies
          Mobs,          \* mobiles
          None,
          Level,         \* GetMaxLevel of every body
          StaleSwitch    \* whether wizards switch into a mobile that a
                         \* link-dead player was in

Bodies == Players \cup Mobs

ASSUME LinkAssumption ==
    /\ None \notin Desc \cup Players \cup Mobs
    /\ Players \cap Mobs = {}
    /\ Level \in [Bodies -> Nat]
    /\ StaleSwitch \in BOOLEAN

LOW_IMMORTAL == 51
DEMIGOD == 54
GOD == 56
IMPLEMENTOR == 59

VARIABLES state,       \* d->connected: CON_PWDNRM, the menu or CON_PLYNG; "FREE"
          character,   \* d->character: outside the game, the player's name
          original,    \* d->original
          desc,        \* ch->desc of a body in the game
          orig,        \* ch->orig of a mobile
          inGame,      \* the bodies in character_list
          older,       \* the players behind a mobile in character_list
          poly,        \* the mobiles with ACT_POLYSELF
          snooping,    \* d->snoop.snooping
          snoopBy      \* d->snoop.snoop_by

snoop == <<snooping, snoopBy>>
links == <<state, character, original, desc>>
vars  == <<state, character, original, desc, orig, inGame, older, poly, snooping,
           snoopBy>>

Init ==
    /\ state = [d \in Desc |-> "FREE"]
    /\ character = [d \in Desc |-> None]
    /\ original = [d \in Desc |-> None]
    /\ desc = [b \in Bodies |-> None]
    /\ orig = [m \in Mobs |-> None]
    /\ inGame = {}
    /\ older = [m \in Mobs |-> {}]
    /\ poly = {}
    /\ snooping = [d \in Desc |-> None]
    /\ snoopBy = [d \in Desc |-> None]

\* The player behind a descriptor.
Owner(d) == IF original[d] # None THEN original[d] ELSE character[d]

\* Mutant: only the character's name is compared.
NameTakenUnswitched(p) == \E k \in Desc : state[k] # "FREE" /\ character[k] = p

\* "Check if already playing", at the name prompt.
NameTaken(p) == \E k \in Desc : state[k] # "FREE" /\ Owner(k) = p

\* The body the connection commands is without a link from now on.
Unlinked(d) ==
    IF state[d] = "PLYNG" THEN [desc EXCEPT ![character[d]] = None] ELSE desc

\* The descriptor is freed.
Free(d) ==
    /\ state' = [state EXCEPT ![d] = "FREE"]
    /\ character' = [character EXCEPT ![d] = None]
    /\ original' = [original EXCEPT ![d] = None]
    /\ desc' = Unlinked(d)

\* extract_char puts the player behind it back into the menu.
BackToMenu(d) ==
    /\ state' = [state EXCEPT ![d] = "MENU"]
    /\ character' = [character EXCEPT ![d] = Owner(d)]
    /\ original' = [original EXCEPT ![d] = None]
    /\ desc' = Unlinked(d)

\* Both ends forget the snooping of and by d (close_socket, extract_char).
\* The code follows snooping->desc without a test.
Unsnoop(d) ==
    /\ snooping' = [k \in Desc |->
           IF k = d \/ (snoopBy[d] # None /\ k = desc[snoopBy[d]]) THEN None
           ELSE snooping[k]]
    /\ snoopBy' = [k \in Desc |->
           IF k = d \/ (snooping[d] # None /\ k = desc[snooping[d]]) THEN None
           ELSE snoopBy[k]]

\* do_snoop of k on itself: k stops.
StopSnooping(k) ==
    /\ snooping' = [snooping EXCEPT ![k] = None]
    /\ snoopBy' = [j \in Desc |->
           IF snooping[k] # None /\ j = desc[snooping[k]] THEN None ELSE snoopBy[j]]

\* "force the snooper to stop"
SnooperStops(d) ==
    IF snoopBy[d] = None THEN UNCHANGED snoop ELSE StopSnooping(desc[snoopBy[d]])

\* extract_char of bodies: they leave character_list, and nobody remembers them.
Extract(gone) ==
    /\ inGame' = inGame \ gone
    /\ older' = [m \in Mobs |-> IF m \in gone THEN {} ELSE older[m] \ gone]
    /\ poly' = poly \ gone
    /\ orig' = [m \in Mobs |-> IF m \in gone \/ orig[m] \in gone THEN None ELSE orig[m]]

-----------------------------------------------------------------------------
(* Connections.                                                            *)

\* A player names itself; a new player is created the same way.
Claim(d, p) ==
    /\ state[d] = "FREE"
    /\ ~NameTaken(p)
    /\ state' = [state EXCEPT ![d] = "PWDNRM"]
    /\ character' = [character EXCEPT ![d] = p]
    /\ UNCHANGED <<original, desc, orig, inGame, older, poly, snoop>>

\* The bodies a password leads back to: the player's own, without a link, and
\* any mobile it lost its link in, even one that somebody else is in now.
Lost(p) ==
    {b \in inGame \cap {p} : desc[b] = None} \cup {m \in inGame \cap Mobs : orig[m] = p}

\* The first one in character_list: newer bodies stand in front.
Reconnect(d) ==
    /\ state[d] = "PWDNRM"
    /\ \E b \in Lost(character[d]) :
        /\ \A c \in Lost(character[d]) :
             /\ b \in Players /\ c \in Mobs => b \notin older[c]
             /\ b \in Mobs /\ c \in Players => c \in older[b]
        /\ desc' = [desc EXCEPT ![b] = d]
        /\ character' = [character EXCEPT ![d] = b]
        /\ original' = IF b \in Mobs THEN [original EXCEPT ![d] = orig[b]] ELSE original
        /\ orig' = IF b \in Mobs THEN [orig EXCEPT ![b] = None] ELSE orig
    /\ state' = [state EXCEPT ![d] = "PLYNG"]
    /\ UNCHANGED <<inGame, older, poly, snoop>>

\* No such body: the menu.
ToMenu(d) ==
    /\ state[d] = "PWDNRM"
    /\ Lost(character[d]) = {}
    /\ state' = [state EXCEPT ![d] = "MENU"]
    /\ UNCHANGED <<character, original, desc, orig, inGame, older, poly, snoop>>

\* '1' in the menu: the player joins character_list at its head.
Enter(d) ==
    /\ state[d] = "MENU"
    /\ state' = [state EXCEPT ![d] = "PLYNG"]
    /\ desc' = [desc EXCEPT ![character[d]] = d]
    /\ inGame' = inGame \cup {character[d]}
    /\ UNCHANGED <<character, original, orig, older, poly, snoop>>

\* close_socket: a body in the game stays, and a mobile remembers its player.
CloseSocket(d) ==
    /\ state[d] # "FREE"
    /\ Unsnoop(d)
    /\ orig' = IF state[d] = "PLYNG" /\ character[d] \in Mobs
               THEN [orig EXCEPT ![character[d]] = original[desc[character[d]]]]
               ELSE orig
    /\ Free(d)
    /\ UNCHANGED <<inGame, older, poly>>

-----------------------------------------------------------------------------
(* Into another body and back.                                             *)

InBody(d, b) == state[d] = "PLYNG" /\ character[d] = b
Commands(d) == state[d] = "PLYNG" /\ character[d] \in Players

\* The connection of player p goes into the mobile m, and p stays as original.
Occupy(d, m) ==
    /\ character' = [character EXCEPT ![d] = m]
    /\ original' = [original EXCEPT ![d] = character[d]]
    /\ desc' = [desc EXCEPT ![m] = d, ![character[d]] = None]

\* Mutant: the victim may have a connection.
DoSwitchInUse(d, m) ==
    /\ Commands(d)
    /\ snooping[d] = None /\ snoopBy[d] = None
    /\ m \in inGame
    /\ Level[character[d]] >= DEMIGOD
    /\ Occupy(d, m)
    /\ UNCHANGED <<state, orig, inGame, older, poly, snoop>>

\* do_switch, into a mobile without connection.
DoSwitch(d, m) ==
    /\ Commands(d)
    /\ snooping[d] = None /\ snoopBy[d] = None
    /\ m \in inGame /\ desc[m] = None
    /\ StaleSwitch \/ orig[m] = None
    /\ Level[character[d]] >= DEMIGOD
    /\ Level[m] <= Level[character[d]] \/ Level[character[d]] >= IMPLEMENTOR
    /\ Occupy(d, m)
    /\ UNCHANGED <<state, orig, inGame, older, poly, snoop>>

\* The new mobile, in front of all others in character_list.
Load(m) ==
    /\ m \notin inGame
    /\ inGame' = inGame \cup {m}
    /\ older' = [older EXCEPT ![m] = inGame \cap Players]

\* spell_poly_self, into a mobile just read.
PolySelf(d, m) ==
    /\ Commands(d)
    /\ snooping[d] = None
    /\ SnooperStops(d)
    /\ Occupy(d, m)
    /\ Load(m)
    /\ poly' = poly \cup {m}
    /\ UNCHANGED <<state, orig>>

\* do_return, when it is not refused: d is back in its own body.
Return(d) ==
    /\ character' = [character EXCEPT ![d] = original[d]]
    /\ original' = [original EXCEPT ![d] = None]
    /\ desc' = [desc EXCEPT ![character[d]] = None, ![original[d]] = d]

\* Too deep in a fight to return: only a weak body can be.
MayBeRefused(d) == Level[character[d]] < LOW_IMMORTAL

\* Mutant: the snooper keeps snooping the body left behind.
DoReturnSilent(d, typed) ==
    /\ state[d] = "PLYNG"
    /\ original[d] # None
    /\ Return(d)
    /\ UNCHANGED <<state, orig, inGame, older, poly, snoop>>

\* The command, or the return some special rooms enforce (cmd = 0, after which
\* a polymorphed player's mobile is left standing).
DoReturn(d, typed) ==
    /\ state[d] = "PLYNG"
    /\ original[d] # None
    /\ SnooperStops(d)
    /\ Return(d)
    /\ IF typed /\ character[d] \in poly
       THEN Extract({character[d]})
       ELSE UNCHANGED <<orig, inGame, older, poly>>
    /\ UNCHANGED state

-----------------------------------------------------------------------------
(* Snooping.                                                               *)

\* do_snoop: the former victim, if any, is let go.
DoSnoop(d, b) ==
    /\ Commands(d)
    /\ b \in inGame
    /\ b # character[d]
    /\ desc[b] # None
    /\ snoopBy[desc[b]] = None
    /\ Level[character[d]] >= GOD
    /\ Level[b] < Level[character[d]]
    /\ snooping' = [snooping EXCEPT ![d] = b]
    /\ snoopBy' = [j \in Desc |->
           IF j = desc[b] THEN character[d]
           ELSE IF snooping[d] # None /\ j = desc[snooping[d]] THEN None
           ELSE snoopBy[j]]
    /\ UNCHANGED <<links, orig, inGame, older, poly>>

DoSnoopSelf(d) ==
    /\ Commands(d)
    /\ snooping[d] # None
    /\ StopSnooping(d)
    /\ UNCHANGED <<links, orig, inGame, older, poly>>

-----------------------------------------------------------------------------
(* Bodies leave the game.  extract_char of a player that is not in          *)
(* character_list ends the process: assert( 0 ), here Restart.              *)

\* A player quits, rents or dies: back to the menu.
LeaveGame(d) ==
    /\ Commands(d)
    /\ character[d] \in inGame
    /\ Unsnoop(d)
    /\ Extract({character[d]})
    /\ BackToMenu(d)

\* It idles out, is rented out by force or purged: close_socket, then
\* extract_char.
ForceOut(d) ==
    /\ Commands(d)
    /\ character[d] \in inGame
    /\ Unsnoop(d)
    /\ Extract({character[d]})
    /\ Free(d)

\* The body of a player without a link in it is killed or rented out.  Nobody is
\* in another body for it.
LinkdeadGone(p) ==
    /\ p \in inGame
    /\ desc[p] = None
    /\ \A d \in Desc : original[d] # p
    /\ Extract({p})
    /\ UNCHANGED <<links, snoop>>

\* The same, while the player's connection d is in another body: do_return comes
\* first, and then the player leaves for the menu ...
OriginalGone(d) ==
    /\ state[d] = "PLYNG"
    /\ original[d] \in inGame
    /\ SnooperStops(d)
    /\ Extract({original[d]})
    /\ BackToMenu(d)

\* ... or do_return refuses, and the original is extracted nevertheless.
OriginalLost(d) ==
    /\ state[d] = "PLYNG"
    /\ original[d] \in inGame
    /\ MayBeRefused(d)
    /\ Extract({original[d]})
    /\ UNCHANGED <<links, snoop>>

\* A mobile dies or is purged; a connection in it is sent back to its own body.
MobGone(m) ==
    /\ m \in inGame
    /\ Extract({m})
    /\ IF desc[m] = None THEN UNCHANGED <<links, snoop>>
       ELSE /\ original[desc[m]] # None
            /\ Unsnoop(desc[m])
            /\ Return(desc[m])
            /\ UNCHANGED state

\* die of a polymorphed player: the mobile goes, and then the player dies.
PolyDies(d) ==
    /\ state[d] = "PLYNG"
    /\ character[d] \in poly
    /\ original[d] \in inGame
    /\ Unsnoop(d)
    /\ Extract({character[d], original[d]})
    /\ BackToMenu(d)

\* A polymorphed player idles out: the connection and the mobile go, and the
\* player's own body stays where it was stored.
PolyIdlesOut(d) ==
    /\ state[d] = "PLYNG"
    /\ character[d] \in poly
    /\ Level[character[d]] < DEMIGOD
    /\ Unsnoop(d)
    /\ Extract({character[d]})
    /\ Free(d)

\* read_mobile: a new mobile at the head of character_list.
MobLoads(m) ==
    /\ Load(m)
    /\ UNCHANGED <<links, orig, poly, snoop>>

Restart ==
    /\ state' = [d \in Desc |-> "FREE"]
    /\ character' = [d \in Desc |-> None]
    /\ original' = [d \in Desc |-> None]
    /\ desc' = [b \in Bodies |-> None]
    /\ orig' = [m \in Mobs |-> None]
    /\ inGame' = {}
    /\ older' = [m \in Mobs |-> {}]
    /\ poly' = {}
    /\ snooping' = [d \in Desc |-> None]
    /\ snoopBy' = [d \in Desc |-> None]

-----------------------------------------------------------------------------
Connection(d) ==
    \/ \E p \in Players : Claim(d, p)
    \/ Reconnect(d) \/ ToMenu(d) \/ Enter(d) \/ CloseSocket(d)

Shape(d) ==
    \/ \E m \in Mobs : DoSwitch(d, m) \/ PolySelf(d, m)
    \/ \E typed \in BOOLEAN : DoReturn(d, typed)
    \/ \E b \in Bodies : DoSnoop(d, b)
    \/ DoSnoopSelf(d)

Departure(d) ==
    \/ LeaveGame(d) \/ ForceOut(d) \/ OriginalGone(d) \/ OriginalLost(d)
    \/ PolyDies(d) \/ PolyIdlesOut(d)

Next ==
    \/ \E d \in Desc : Connection(d) \/ Shape(d) \/ Departure(d)
    \/ \E p \in Players : LinkdeadGone(p)
    \/ \E m \in Mobs : MobGone(m) \/ MobLoads(m)
    \/ Restart

Spec == Init /\ [][Next]_vars

-----------------------------------------------------------------------------
(* Properties.                                                             *)

TypeOK ==
    /\ state \in [Desc -> {"FREE", "PWDNRM", "MENU", "PLYNG"}]
    /\ character \in [Desc -> Bodies \cup {None}]
    /\ original \in [Desc -> Players \cup {None}]
    /\ desc \in [Bodies -> Desc \cup {None}]
    /\ orig \in [Mobs -> Players \cup {None}]
    /\ inGame \subseteq Bodies
    /\ older \in [Mobs -> SUBSET Players]
    /\ poly \subseteq Mobs
    /\ snooping \in [Desc -> Bodies \cup {None}]
    /\ snoopBy \in [Desc -> Players \cup {None}]

\* "the body is already in use!": a body in the game is commanded by one
\* connection, the one it points to, whoever switched, returned, died,
\* reconnected or idled out before.
BodyOfOne ==
    \A d \in Desc, b \in Bodies : InBody(d, b) <=> desc[b] = d

\* The two ends of a snoop agree: whoever is snooped knows by whom, and the
\* other way round, so that close_socket, which follows snooping->desc and
\* snoop_by->desc without a test, never follows a null pointer.
SnoopAgrees ==
    \A d \in Desc :
        /\ snooping[d] # None =>
             desc[snooping[d]] # None /\ snoopBy[desc[snooping[d]]] = character[d]
        /\ snoopBy[d] # None =>
             /\ state[d] = "PLYNG"
             /\ desc[snoopBy[d]] # None /\ snooping[desc[snoopBy[d]]] = character[d]

\* "Mixing snoop & switch is bad for your health": nobody snoops from a borrowed
\* body.
SnooperIsItself ==
    \A d \in Desc : snooping[d] # None => Commands(d) /\ original[d] = None

-----------------------------------------------------------------------------
(* The inductive invariant behind BodyOfOne and SnoopAgrees.               *)

\* What a descriptor's state says of its two pointers.
PointersOf(d) ==
    /\ state[d] = "FREE" => character[d] = None
    /\ state[d] # "FREE" => character[d] # None
    /\ original[d] # None <=> character[d] \in Mobs
    /\ character[d] \in Mobs => state[d] = "PLYNG"

\* One connection for a player.
UniqueOwner ==
    \A d, k \in Desc :
        d # k /\ state[d] # "FREE" /\ state[k] # "FREE" => Owner(d) # Owner(k)

\* A mobile that remembers a player has no connection, and one that is not in
\* the game neither (while nobody switches into the former: see StaleSwitch).
IdleMobs ==
    \A m \in Mobs :
        /\ m \notin inGame => desc[m] = None /\ orig[m] = None
        /\ orig[m] # None => desc[m] = None

LinkInv ==
    /\ TypeOK
    /\ \A d \in Desc : PointersOf(d)
    /\ UniqueOwner
    /\ IdleMobs
    /\ BodyOfOne
    /\ SnoopAgrees
    /\ SnooperIsItself

-----------------------------------------------------------------------------
(* The links implement PlayerSession.                                      *)

Holder(p) ==
    IF NameTaken(p) THEN CHOOSE d \in Desc : state[d] # "FREE" /\ Owner(d) = p ELSE None

Body(p) ==
    IF \E d \in Desc : state[d] = "PLYNG" /\ Owner(d) = p THEN "playing"
    ELSE IF Lost(p) # {} THEN "linkdead" ELSE "absent"

Session == INSTANCE PlayerSession
    WITH Names <- Players,
         holder <- [p \in Players |-> Holder(p)],
         body <- [p \in Players |-> Body(p)]

\* A player has one connection and one body, own or borrowed, and finds the body
\* it lost the link in again: every step is one of the abstract sessions.
ImplementsSession == Session!SSpec

=============================================================================
