--------------------------- MODULE PlayerSession ---------------------------
(***************************************************************************)
(* What the login dialogue and the link handling of the server promise,    *)
(* without the dialogue: a player's name is held by at most one connection *)
(* at a time, and the player has at most one body in the game.  A body is  *)
(* played by the connection that holds the name, or it is link-dead (in    *)
(* the game, with no connection), or the player is not in the game.        *)
(*                                                                         *)
(* The modules Nanny and Link implement this specification, each with its  *)
(* own part of the code.                                                   *)
(***************************************************************************)
CONSTANTS Desc,      \* connections (struct descriptor_data)
          Names,     \* player names
          None       \* no connection: not in Desc

VARIABLES holder,    \* the connection that holds a name, or None
          body       \* where the player of a name is

svars == <<holder, body>>

SessionTypeOK ==
    /\ holder \in [Names -> Desc \cup {None}]
    /\ body \in [Names -> {"absent", "linkdead", "playing"}]

SInit ==
    /\ holder = [n \in Names |-> None]
    /\ body = [n \in Names |-> "absent"]

Holds(d, n) == holder[n] = d

\* A connection names a player nobody else is logging in or playing as.
Claim(d, n) ==
    /\ holder[n] = None
    /\ \A m \in Names : ~Holds(d, m)
    /\ holder' = [holder EXCEPT ![n] = d]
    /\ UNCHANGED body

\* It goes away, or drops the name, without being in the game.
Release(d, n) ==
    /\ Holds(d, n)
    /\ body[n] # "playing"
    /\ holder' = [holder EXCEPT ![n] = None]
    /\ UNCHANGED body

\* The player enters the game with a new body: there is no other one.
Enter(d, n) ==
    /\ Holds(d, n)
    /\ body[n] = "absent"
    /\ body' = [body EXCEPT ![n] = "playing"]
    /\ UNCHANGED holder

\* The player takes back the body it left link-dead.
Resume(d, n) ==
    /\ Holds(d, n)
    /\ body[n] = "linkdead"
    /\ body' = [body EXCEPT ![n] = "playing"]
    /\ UNCHANGED holder

\* The body leaves the game, the connection is back in the menu.
Leave(d, n) ==
    /\ Holds(d, n)
    /\ body[n] = "playing"
    /\ body' = [body EXCEPT ![n] = "absent"]
    /\ UNCHANGED holder

\* The connection is lost and the body stays.
Drop(d, n) ==
    /\ Holds(d, n)
    /\ body[n] = "playing"
    /\ body' = [body EXCEPT ![n] = "linkdead"]
    /\ holder' = [holder EXCEPT ![n] = None]

\* The server throws both the connection and the body out.
Eject(d, n) ==
    /\ Holds(d, n)
    /\ body[n] = "playing"
    /\ body' = [body EXCEPT ![n] = "absent"]
    /\ holder' = [holder EXCEPT ![n] = None]

\* A link-dead body leaves the game.
Vanish(n) ==
    /\ body[n] = "linkdead"
    /\ body' = [body EXCEPT ![n] = "absent"]
    /\ UNCHANGED holder

\* The player comes back to life while no connection holds its name.
Appear(n) ==
    /\ holder[n] = None
    /\ body[n] = "absent"
    /\ body' = [body EXCEPT ![n] = "linkdead"]
    /\ UNCHANGED holder

\* The process ends: every connection and every body is gone.
Restart ==
    /\ holder' = [n \in Names |-> None]
    /\ body' = [n \in Names |-> "absent"]

SNext ==
    \/ \E n \in Names :
        \/ Vanish(n) \/ Appear(n)
        \/ \E d \in Desc :
            \/ Claim(d, n) \/ Release(d, n) \/ Enter(d, n) \/ Resume(d, n)
            \/ Leave(d, n) \/ Drop(d, n) \/ Eject(d, n)
    \/ Restart

SSpec == SInit /\ [][SNext]_svars
=============================================================================
