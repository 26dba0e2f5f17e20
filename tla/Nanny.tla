------------------------------- MODULE Nanny -------------------------------
(***************************************************************************)
(* The login dialogue (nanny, interpreter.c): every connection walks       *)
(* through the CON_* states, from the name to the game and back to the     *)
(* menu, while the link is lost, characters rent out, link-dead bodies are *)
(* taken away and wizards lock the game, ask for the approval of new       *)
(* characters and call players' bodies into the world (do_ghost), as the   *)
(* spell that reincarnates the dead does.                                  *)
(*                                                                         *)
(* A connection's character is abstracted to its name and the password     *)
(* kept in the descriptor (d->pwd); race, sex, statistics and class leave  *)
(* only their dialogue.  The states CON_HELPRACE, CON_HELPCLASS and        *)
(* CON_CITY_CHOICE are never assigned by the code and have no action.      *)
(* Input that only repeats a question changes nothing and is no step.      *)
(***************************************************************************)
EXTENDS Naturals, FiniteSets

CONSTANTS Desc,          \* connections
          Names,         \* player names _parse_name accepts
          Pwds,          \* passwords
          None,
          Guest,         \* the player that cannot delete itself
          MaxCount,      \* bound: players are counted up to this number
          MaxCorpses,    \* bound: corpses of one player lying around
          GhostsAnyTime  \* whether wizards use do_ghost whenever they like

\* What the player file keeps: struct char_file_u.
Players == [pwd : Pwds, god : BOOLEAN]

ASSUME ConstAssumption ==
    /\ None \notin Desc \cup Names \cup Pwds \cup Players
    /\ GhostsAnyTime \in BOOLEAN
    /\ MaxCount \in Nat /\ MaxCorpses \in Nat
    /\ GhostsAnyTime => MaxCorpses = 0    \* examined one at a time
    /\ IsFiniteSet(Names)

NEWBIE_AXE == 0
NEWBIE_REQUEST == 1
NEWBIE_CHANCES == 3
NEWBIE_START == 100

\* The part of the dialogue in which a character does not exist yet.
Creating == {"NMECNF", "PWDGET", "PWDCNF", "QRACE", "ENDHELPRACE", "QSEX",
             "STAT_LIST", "QCLASS", "ENDHELPCLASS", "AUTH"}

Menu == {"RMOTD", "WMOTD", "SLCT", "EXDSCR", "DELETE_ME", "PWDNEW", "PWDNCNF"}

States == {"FREE", "NME", "PWDNRM", "WIZLOCK", "CHECK_MAGE_TYPE", "RNEWD", "PLYNG"}
              \cup Creating \cup Menu

VARIABLES state,        \* d->connected, or "FREE" for an unused slot
          name,         \* the name of the descriptor's character, or None
          pwd,          \* d->pwd
          generic,      \* d->character->generic, the approval counter
          file,         \* the player file: a record, or None
          dead,         \* talks[2] of the player file: "char is dead"
          corpses,      \* corpses of a player that died with a connection
          loose,        \* bodies of a player in the game without connection
          wizLock,      \* WizLock
          reqApprove,   \* SYS_REQAPPROVE
          playerCount   \* top_of_p_table

conn  == <<state, name, pwd, generic>>
grave == <<dead, corpses>>
flags == <<wizLock, reqApprove>>
world == <<file, dead, corpses, loose, wizLock, reqApprove, playerCount>>
vars  == <<state, name, pwd, generic, file, dead, corpses, loose, wizLock, reqApprove,
           playerCount>>

Init ==
    /\ state = [d \in Desc |-> "FREE"]
    /\ name = [d \in Desc |-> None]
    /\ pwd = [d \in Desc |-> None]
    /\ generic = [d \in Desc |-> 0]
    /\ file = [n \in Names |-> None]
    /\ dead = [n \in Names |-> FALSE]
    /\ corpses = [n \in Names |-> 0]
    /\ loose = [n \in Names |-> 0]
    /\ wizLock = FALSE
    /\ reqApprove \in BOOLEAN
    /\ playerCount = 0

Playing(n) == \E d \in Desc : state[d] = "PLYNG" /\ name[d] = n

\* GetMaxLevel(d->character) >= LOW_IMMORTAL.
IsGod(d) == name[d] \in Names /\ file[name[d]] # None /\ file[name[d]].god

\* Mutant: only descriptors in the game are compared.
NameTakenInGame(d, n) == \E k \in Desc \ {d} : name[k] = n /\ state[k] = "PLYNG"

\* Some other descriptor's character has this name ("Check if already playing").
NameTaken(d, n) == \E k \in Desc \ {d} : name[k] = n

\* save_char: level and d->pwd go to the player's file.
Saved(d) == [file EXCEPT ![name[d]] = [pwd |-> pwd[d], god |-> IsGod(d)]]

Goto(d, s) == state' = [state EXCEPT ![d] = s]

Move(d, from, to) ==
    /\ state[d] = from
    /\ Goto(d, to)
    /\ UNCHANGED <<name, pwd, generic, world>>

\* The descriptor is freed, with the character it holds.
FreeDescriptor(d) ==
    /\ Goto(d, "FREE")
    /\ name' = [name EXCEPT ![d] = None]
    /\ pwd' = [pwd EXCEPT ![d] = None]
    /\ generic' = [generic EXCEPT ![d] = 0]

-----------------------------------------------------------------------------
(* Connections come and go.                                                *)

\* new_descriptor
Connect(d) == Move(d, "FREE", "NME")

\* close_socket of a descriptor that is not in the game: the link is lost, or
\* the dialogue closes it (empty name, wrong password, '0', CON_WIZLOCK).
CloseSocket(d) ==
    /\ state[d] \notin {"FREE", "PLYNG"}
    /\ FreeDescriptor(d)
    /\ UNCHANGED world

\* close_socket of a playing descriptor: do_save, and the body stays.
LoseLink(d) ==
    /\ state[d] = "PLYNG"
    /\ file' = Saved(d)
    /\ loose' = [loose EXCEPT ![name[d]] = @ + 1]
    /\ FreeDescriptor(d)
    /\ UNCHANGED <<grave, flags, playerCount>>

-----------------------------------------------------------------------------
(* A name and a password.                                                  *)

\* The name of a player with a file: load_char.  The counter means nothing
\* any more: the character exists.
NmeKnown(d, n) ==
    /\ state[d] = "NME"
    /\ ~NameTaken(d, n)
    /\ file[n] # None
    /\ name' = [name EXCEPT ![d] = n]
    /\ pwd' = [pwd EXCEPT ![d] = file[n].pwd]
    /\ generic' = [generic EXCEPT ![d] = 0]
    /\ Goto(d, "PWDNRM")
    /\ UNCHANGED world

\* A new name, unless the game is locked.
NmeNew(d, n) ==
    /\ state[d] = "NME"
    /\ ~NameTaken(d, n)
    /\ file[n] = None
    /\ ~wizLock
    /\ name' = [name EXCEPT ![d] = n]
    /\ Goto(d, "NMECNF")
    /\ UNCHANGED <<pwd, generic, world>>

\* A banned site (the ban list may hold any site), or a new name while locked.
NmeRefused(d) == Move(d, "NME", "WIZLOCK")

NmecnfYes(d) == Move(d, "NMECNF", "PWDGET")

\* The name is dropped; the character and its counter stay.
NmecnfNo(d) ==
    /\ state[d] = "NMECNF"
    /\ name' = [name EXCEPT ![d] = None]
    /\ Goto(d, "NME")
    /\ UNCHANGED <<pwd, generic, world>>

\* Mutant: the reconnecting body is not taken over but duplicated.
PwdnrmReconnectCopy(d) ==
    /\ state[d] = "PWDNRM"
    /\ loose[name[d]] > 0
    /\ Goto(d, "PLYNG")
    /\ UNCHANGED <<name, pwd, generic, world>>

\* The right password, and a body of the player is in the game without a link.
PwdnrmReconnect(d) ==
    /\ state[d] = "PWDNRM"
    /\ loose[name[d]] > 0
    /\ loose' = [loose EXCEPT ![name[d]] = @ - 1]
    /\ Goto(d, "PLYNG")
    /\ UNCHANGED <<name, pwd, generic, file, grave, flags, playerCount>>

\* Mutant: link-dead bodies are not looked for.
PwdnrmConnectBlind(d) == Move(d, "PWDNRM", "RMOTD")

\* The right password, and no such body.
PwdnrmConnect(d) ==
    /\ state[d] = "PWDNRM"
    /\ loose[name[d]] = 0
    /\ Goto(d, "RMOTD")
    /\ UNCHANGED <<name, pwd, generic, world>>

-----------------------------------------------------------------------------
(* A new character.                                                        *)

\* A new password and, at the second prompt, its confirmation.
Pwdget(d, p) ==
    /\ state[d] = "PWDGET"
    /\ pwd' = [pwd EXCEPT ![d] = p]
    /\ Goto(d, "PWDCNF")
    /\ UNCHANGED <<name, generic, world>>

Pwdcnf(d, p) == Move(d, "PWDCNF", IF p = pwd[d] THEN "QRACE" ELSE "PWDGET")

Qrace(d)        == Move(d, "QRACE", "QSEX")
QraceHelp(d)    == Move(d, "QRACE", "ENDHELPRACE")
EndHelpRace(d)  == Move(d, "ENDHELPRACE", "QRACE")
Qsex(d)         == Move(d, "QSEX", "STAT_LIST")
QclassHelp(d)   == Move(d, "QCLASS", "ENDHELPCLASS")
EndHelpClass(d) == Move(d, "ENDHELPCLASS", "QCLASS")

\* All statistics given: the approval counter starts, if approval is required.
StatList(d) ==
    /\ state[d] = "STAT_LIST"
    /\ generic' = IF reqApprove
                  THEN [generic EXCEPT ![d] = NEWBIE_REQUEST + NEWBIE_CHANCES]
                  ELSE generic
    /\ Goto(d, "QCLASS")
    /\ UNCHANGED <<name, pwd, world>>

\* The code only asks whether the count is positive.
AtMost(count) == IF count > MaxCount THEN MaxCount ELSE count

\* init_char and save_char: the first player of all is an implementor.  `more'
\* is what the caller adds to the player count beside init_char's one.
Create(d, more) ==
    /\ file' = [file EXCEPT ![name[d]] = [pwd |-> pwd[d], god |-> playerCount = 0]]
    /\ playerCount' = AtMost(playerCount + 1 + more)
    /\ generic' = [generic EXCEPT ![d] = 0]
    /\ dead' = [dead EXCEPT ![name[d]] = FALSE]
    /\ UNCHANGED <<name, pwd, corpses, loose, flags>>

\* A class, and SYS_REQAPPROVE is set now.
QclassAuth(d) == reqApprove /\ Move(d, "QCLASS", "AUTH")

\* Mutant: approval is not asked for.
QclassUnapproved(d) ==
    /\ state[d] = "QCLASS"
    /\ Goto(d, "RNEWD")
    /\ Create(d, 0)

\* A class; mages are asked which kind of mage they are.
Qclass(d) ==
    /\ state[d] = "QCLASS"
    /\ ~reqApprove
    /\ \E next \in {"CHECK_MAGE_TYPE", "RNEWD"} : Goto(d, next)
    /\ Create(d, 0)

\* CON_AUTH, approved: create_entry counts the player a second time.
AuthAccepted(d) ==
    /\ state[d] = "AUTH"
    /\ generic[d] >= NEWBIE_START
    /\ Goto(d, "RMOTD")
    /\ Create(d, 1)

\* Mutant: a request without end.
AuthWaitingEndless(d) == Move(d, "AUTH", "AUTH")

\* CON_AUTH, still a request: one chance less, none at all from some sites, and
\* automatic approval when there is no player yet.
AuthWaiting(d) ==
    /\ state[d] = "AUTH"
    /\ generic[d] \in NEWBIE_REQUEST .. (NEWBIE_START - 1)
    /\ \E refused \in BOOLEAN :
        LET now == IF refused THEN 1
                   ELSE IF playerCount > 0 THEN generic[d] ELSE NEWBIE_START + 5
        IN /\ generic' = [generic EXCEPT ![d] = now - 1]
           /\ Goto(d, IF now = 1 THEN "WIZLOCK" ELSE "AUTH")
    /\ UNCHANGED <<name, pwd, world>>

AuthDenied(d) == generic[d] < NEWBIE_REQUEST /\ Move(d, "AUTH", "WIZLOCK")

CheckMageType(d) == Move(d, "CHECK_MAGE_TYPE", "RNEWD")
Rnewd(d)         == Move(d, "RNEWD", "RMOTD")

-----------------------------------------------------------------------------
(* The menu.                                                               *)

\* The message of the day: gods read a second one.
RmotdGod(d) == IsGod(d) /\ Move(d, "RMOTD", "WMOTD")

\* The menu, or the door when the game is locked or the site banned.
ToMenu(d) ==
    /\ state[d] \in {"RMOTD", "WMOTD"}
    /\ IsGod(d) => state[d] = "WMOTD"
    /\ \E siteLock \in BOOLEAN :
        Goto(d, IF (wizLock \/ siteLock) /\ ~IsGod(d) THEN "WIZLOCK" ELSE "SLCT")
    /\ UNCHANGED <<name, pwd, generic, world>>

\* '1': reset_char clears the dead bit, load_char_objs saves the character when
\* there is a rent file.
SlctEnter(d) ==
    /\ state[d] = "SLCT"
    /\ Goto(d, "PLYNG")
    /\ file' \in {file, Saved(d)}
    /\ dead' = [dead EXCEPT ![name[d]] = FALSE]
    /\ UNCHANGED <<name, pwd, generic, corpses, loose, flags, playerCount>>

SlctDelete(d)   == Move(d, "SLCT", "DELETE_ME")
SlctDescribe(d) == Move(d, "SLCT", "EXDSCR")
SlctStory(d)    == Move(d, "SLCT", "WMOTD")
SlctPassword(d) == Move(d, "SLCT", "PWDNEW")

\* string_add at the closing '@', and a refusal to be deleted.
EndDescription(d) == Move(d, "EXDSCR", "SLCT")
DeleteNo(d)       == Move(d, "DELETE_ME", "SLCT")

\* 'si': the files are removed and the connection closed.
DeleteYes(d) ==
    /\ state[d] = "DELETE_ME"
    /\ name[d] # Guest
    /\ file' = [file EXCEPT ![name[d]] = None]
    /\ FreeDescriptor(d)
    /\ UNCHANGED <<loose, grave, flags, playerCount>>

Pwdnew(d, p) ==
    /\ state[d] = "PWDNEW"
    /\ pwd' = [pwd EXCEPT ![d] = p]
    /\ Goto(d, "PWDNCNF")
    /\ UNCHANGED <<name, generic, world>>

Pwdncnf(d, p) == Move(d, "PWDNCNF", IF p = pwd[d] THEN "SLCT" ELSE "PWDNEW")

-----------------------------------------------------------------------------
(* In the game.                                                            *)

\* do_save
Save(d) ==
    /\ state[d] = "PLYNG"
    /\ file' = Saved(d)
    /\ UNCHANGED <<conn, loose, grave, flags, playerCount>>

\* do_quit, the receptionist: extract_char_smarter saves and goes back to the
\* menu.
Leave(d) ==
    /\ state[d] = "PLYNG"
    /\ file' = Saved(d)
    /\ Goto(d, "SLCT")
    /\ UNCHANGED <<name, pwd, generic, loose, grave, flags, playerCount>>

\* die, raw_kill: the same, and a corpse is left.
Die(d) ==
    /\ state[d] = "PLYNG"
    /\ corpses[name[d]] < MaxCorpses
    /\ file' = Saved(d)
    /\ dead' = [dead EXCEPT ![name[d]] = TRUE]
    /\ corpses' = [corpses EXCEPT ![name[d]] = @ + 1]
    /\ Goto(d, "SLCT")
    /\ UNCHANGED <<name, pwd, generic, loose, flags, playerCount>>

\* The corpse rots (update of the object timers).
CorpseDecays(n) ==
    /\ corpses[n] > 0
    /\ corpses' = [corpses EXCEPT ![n] = @ - 1]
    /\ UNCHANGED <<conn, file, dead, loose, flags, playerCount>>

\* FORCE_RENT_TIME in check_idling, do_force_rent: close_socket, then the body
\* is extracted.
ForceRent(d) ==
    /\ state[d] = "PLYNG"
    /\ file' = Saved(d)
    /\ FreeDescriptor(d)
    /\ UNCHANGED <<loose, grave, flags, playerCount>>

\* The same, death or a purge, for a body without connection: no save_char, and
\* a corpse nobody can reincarnate.
LooseGone(n) ==
    /\ loose[n] > 0
    /\ loose' = [loose EXCEPT ![n] = @ - 1]
    /\ UNCHANGED <<conn, file, grave, flags, playerCount>>

\* spell_reincarnate, by somebody in the game: a new body for a player whose
\* file says it is dead.  A connection in the dialogue under that name gets the
\* body, whatever its state; the dead bit stays set.
Reincarnate(n) ==
    /\ \E w \in Desc : state[w] = "PLYNG"
    /\ corpses[n] > 0
    /\ file[n] # None
    /\ dead[n]
    /\ corpses' = [corpses EXCEPT ![n] = @ - 1]
    /\ \/ \E d \in Desc :
            /\ name[d] = n /\ state[d] # "PLYNG"
            /\ Goto(d, "PLYNG")
            /\ UNCHANGED loose
       \/ /\ \A d \in Desc : name[d] = n => state[d] = "PLYNG"
          /\ loose' = [loose EXCEPT ![n] = @ + 1]
          /\ UNCHANGED state
    /\ UNCHANGED <<name, pwd, generic, file, dead, flags, playerCount>>

-----------------------------------------------------------------------------
(* What wizards do, and the end of the process.                            *)

GodPlaying == \E w \in Desc : state[w] = "PLYNG" /\ IsGod(w)

DoWizlock ==
    /\ GodPlaying
    /\ wizLock' = ~wizLock
    /\ UNCHANGED <<conn, file, grave, loose, reqApprove, playerCount>>

\* do_god_interven req
DoGodIntervenReq ==
    /\ GodPlaying
    /\ reqApprove' = ~reqApprove
    /\ UNCHANGED <<conn, file, grave, loose, wizLock, playerCount>>

\* do_auth yes and no, of any descriptor by name (the counter is read only
\* while the character is being created).
DoAuth(d, verdict) ==
    /\ GodPlaying
    /\ name[d] # None
    /\ state[d] \in Creating
    /\ generic' = [generic EXCEPT ![d] = verdict]
    /\ UNCHANGED <<state, name, pwd, world>>

\* do_ghost: a copy of the player, if get_char finds none in the game.  Bound:
\* of players that nobody is logging in as and that left no corpse, unless
\* GhostsAnyTime.
DoGhost(n) ==
    /\ GhostsAnyTime \/ (corpses[n] = 0 /\ \A d \in Desc : name[d] # n)
    /\ GodPlaying
    /\ file[n] # None
    /\ loose[n] = 0
    /\ ~Playing(n)
    /\ loose' = [loose EXCEPT ![n] = 1]
    /\ UNCHANGED <<conn, file, grave, flags, playerCount>>

\* The process dies, or shuts down after its last close_socket; the next one
\* counts the player files (build_player_index).
Restart ==
    /\ state' = [d \in Desc |-> "FREE"]
    /\ name' = [d \in Desc |-> None]
    /\ pwd' = [d \in Desc |-> None]
    /\ generic' = [d \in Desc |-> 0]
    /\ loose' = [n \in Names |-> 0]
    /\ corpses' = [n \in Names |-> 0]
    /\ wizLock' = FALSE
    /\ reqApprove' \in BOOLEAN
    /\ playerCount' = AtMost(Cardinality({n \in Names : file[n] # None}))
    /\ UNCHANGED <<file, dead>>

-----------------------------------------------------------------------------
Login(d) ==
    \/ Connect(d) \/ CloseSocket(d) \/ LoseLink(d) \/ NmeRefused(d)
    \/ \E n \in Names : NmeKnown(d, n) \/ NmeNew(d, n)
    \/ NmecnfYes(d) \/ NmecnfNo(d)
    \/ PwdnrmReconnect(d) \/ PwdnrmConnect(d)

Creation(d) ==
    \/ \E p \in Pwds : Pwdget(d, p) \/ Pwdcnf(d, p)
    \/ Qrace(d) \/ QraceHelp(d) \/ EndHelpRace(d) \/ Qsex(d) \/ StatList(d)
    \/ QclassHelp(d) \/ EndHelpClass(d) \/ QclassAuth(d) \/ Qclass(d)
    \/ AuthAccepted(d) \/ AuthWaiting(d) \/ AuthDenied(d)
    \/ CheckMageType(d) \/ Rnewd(d)

MainMenu(d) ==
    \/ RmotdGod(d) \/ ToMenu(d) \/ SlctEnter(d) \/ SlctDelete(d) \/ SlctDescribe(d)
    \/ SlctStory(d) \/ SlctPassword(d) \/ EndDescription(d) \/ DeleteNo(d)
    \/ DeleteYes(d) \/ \E p \in Pwds : Pwdnew(d, p) \/ Pwdncnf(d, p)

InGame(d) ==
    \/ Save(d) \/ Leave(d) \/ Die(d) \/ ForceRent(d)
    \/ \E verdict \in {NEWBIE_START, NEWBIE_AXE} : DoAuth(d, verdict)

Next ==
    \/ \E d \in Desc : Login(d) \/ Creation(d) \/ MainMenu(d) \/ InGame(d)
    \/ \E n \in Names : LooseGone(n) \/ CorpseDecays(n) \/ Reincarnate(n) \/ DoGhost(n)
    \/ DoWizlock \/ DoGodIntervenReq \/ Restart

Spec == Init /\ [][Next]_vars

\* game_loop serves every descriptor with input in each pulse: a newcomer that
\* keeps pressing return is answered.
Answer(d) == AuthAccepted(d) \/ AuthWaiting(d) \/ AuthDenied(d)

FairSpec == Spec /\ \A d \in Desc : WF_vars(Answer(d))

-----------------------------------------------------------------------------
(* Properties.                                                             *)

TypeOK ==
    /\ state \in [Desc -> States]
    /\ name \in [Desc -> Names \cup {None}]
    /\ pwd \in [Desc -> Pwds \cup {None}]
    /\ generic \in [Desc -> Nat]
    /\ file \in [Names -> Players \cup {None}]
    /\ dead \in [Names -> BOOLEAN]
    /\ corpses \in [Names -> 0 .. MaxCorpses]
    /\ loose \in [Names -> Nat]
    /\ wizLock \in BOOLEAN
    /\ reqApprove \in BOOLEAN
    /\ playerCount \in Nat

\* No two connections log in, create or play a character of the same name.
\* The code tests this once, at CON_NME; names are given up and taken back in
\* a dozen other places.
UniqueName ==
    \A d, k \in Desc : d # k /\ name[d] # None => name[d] # name[k]

\* A player has at most one body in the game, played or link-dead: entering
\* from the menu never finds a link-dead body left behind.
OneBody ==
    \A n \in Names : loose[n] <= 1 /\ (Playing(n) => loose[n] = 0)

\* "You must enter the game to activate the change": the stored password of an
\* existing player changes only with a step of a session in the game, so a
\* change begun in the menu and given up there leaves no trace.
StoredPassword ==
    [][\A n \in Names :
         file[n] # None /\ file'[n] # None /\ file'[n].pwd # file[n].pwd
           => \E d \in Desc : name[d] = n /\ "PLYNG" \in {state[d], state'[d]}]_vars

\* While approval is required, and unless it is the first player of all, a
\* character comes to exist only when a god accepted its request.
NewcomerApproved ==
    [][\A n \in Names :
         reqApprove /\ playerCount > 0 /\ file[n] = None /\ file'[n] # None
           => \E d \in Desc : name[d] = n /\ generic[d] >= NEWBIE_START]_vars

\* A newcomer waiting for approval is accepted or turned away after finitely
\* many answers (three chances), whatever the gods do.
ApprovalEnds ==
    \A d \in Desc : state[d] = "AUTH" ~> state[d] # "AUTH"

-----------------------------------------------------------------------------
(* The inductive invariant behind UniqueName and OneBody.                  *)

\* What each state of the dialogue knows of the connection: a name, a password,
\* a player file.
Unnamed == {"FREE", "NME"}
Passworded == States \ {"FREE", "NME", "NMECNF", "PWDGET", "WIZLOCK"}

KnownOf(d) ==
    /\ state[d] \in Unnamed => name[d] = None
    /\ state[d] \notin Unnamed \cup {"WIZLOCK"} => name[d] \in Names
    /\ state[d] \in Passworded => pwd[d] \in Pwds
    /\ state[d] \in Creating => file[name[d]] = None
    /\ state[d] \in Passworded \ Creating => file[name[d]] # None
    /\ state[d] = "WIZLOCK" /\ name[d] # None /\ file[name[d]] # None
         => pwd[d] \in Pwds

DialogueOK == \A d \in Desc : KnownOf(d)

\* Behind the password prompt no link-dead body of the player is left, nor is
\* there one of a player that has no file.
NoBodyLeft ==
    /\ \A d \in Desc :
        state[d] \notin Unnamed \cup {"WIZLOCK", "PWDNRM"} => loose[name[d]] = 0
    /\ \A n \in Names : loose[n] <= 1 /\ (file[n] = None => loose[n] = 0)

\* Who can be reincarnated has no body (while corpses are few: see MaxCorpses).
DeadHaveNoBody ==
    \A n \in Names :
        dead[n] /\ corpses[n] > 0 /\ file[n] # None => loose[n] = 0 /\ ~Playing(n)

NameInv == TypeOK /\ DialogueOK /\ UniqueName
NannyInv == NameInv /\ NoBodyLeft /\ DeadHaveNoBody

-----------------------------------------------------------------------------
(* The dialogue implements PlayerSession.                                  *)

Holder(n) ==
    IF \E d \in Desc : name[d] = n THEN CHOOSE d \in Desc : name[d] = n ELSE None

Body(n) ==
    IF Playing(n) THEN "playing" ELSE IF loose[n] > 0 THEN "linkdead" ELSE "absent"

Session == INSTANCE PlayerSession
    WITH holder <- [n \in Names |-> Holder(n)],
         body <- [n \in Names |-> Body(n)]

\* Every step of the dialogue is a step of the abstract sessions, or none.
ImplementsSession == Session!SSpec

=============================================================================
