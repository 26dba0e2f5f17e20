---------------------------- MODULE NannyProofs ----------------------------
(***************************************************************************)
(* Proofs about the login dialogue: its types, that no two connections     *)
(* share a name, who writes the players' files, that a player has at most  *)
(* one body, and that the dialogue implements PlayerSession.               *)
(***************************************************************************)
EXTENDS Nanny, FiniteSetTheorems, TLAPS

\* The states by what they know of the connection: the leaves below reason
\* about a state's name only through this fact.
LEMMA StateSets ==
    /\ Unnamed \subseteq States
    /\ Passworded \subseteq States
    /\ Passworded \cap Unnamed = {}
    /\ "WIZLOCK" \notin Passworded
    /\ Menu \cup {"PLYNG", "PWDNRM", "CHECK_MAGE_TYPE", "RNEWD"} \subseteq Passworded
    /\ Creating \subseteq States \ (Unnamed \cup {"WIZLOCK"})
    /\ Creating \ {"NMECNF", "PWDGET"} \subseteq Passworded
    /\ States \subseteq Unnamed \cup Creating \cup Passworded \cup {"WIZLOCK"}
BY DEF Unnamed, Passworded, States, Menu, Creating

\* A step of the dialogue that only changes the state of one connection.
LEMMA MoveNameInv ==
    ASSUME NameInv, NEW d \in Desc, NEW from \in States, NEW to \in States,
           Move(d, from, to),
           to \in Unnamed => from \in Unnamed,
           to \notin Unnamed \cup {"WIZLOCK"} => from \notin Unnamed \cup {"WIZLOCK"},
           to \in Passworded => from \in Passworded,
           to \in Creating => from \in Creating,
           to \in Passworded \ Creating => from \in Passworded \ Creating
    PROVE  NameInv'
<1>1. TypeOK'
    BY DEF NameInv, TypeOK, Move, Goto, world
<1>2. DialogueOK'
    BY StateSets DEF NameInv, TypeOK, DialogueOK, KnownOf, Move, Goto, world
<1>3. UniqueName'
    BY DEF NameInv, UniqueName, Move
<1> QED BY <1>1, <1>2, <1>3 DEF NameInv

\* A freed descriptor has no name and no password.
LEMMA FreeNameInv ==
    ASSUME NameInv, NEW d \in Desc, FreeDescriptor(d),
           file' \in [Names -> Players \cup {None}],
           \A n \in Names : n # name[d] => file'[n] = file[n],
           loose' \in [Names -> Nat],
           UNCHANGED <<grave, flags, playerCount>>
    PROVE  NameInv'
<1>1. "FREE" \in States /\ "FREE" \in Unnamed /\ "FREE" \notin Passworded \cup Creating
    BY DEF States, Unnamed, Passworded, Creating
<1>2. TypeOK'
    BY <1>1 DEF NameInv, TypeOK, FreeDescriptor, Goto, flags, grave
<1>3. DialogueOK'
    <2>1. SUFFICES ASSUME NEW k \in Desc, k # d PROVE KnownOf(k)'
        BY <1>1 DEF NameInv, TypeOK, DialogueOK, KnownOf, FreeDescriptor, Goto
    <2>2. state'[k] = state[k] /\ name'[k] = name[k] /\ pwd'[k] = pwd[k]
        BY <2>1 DEF NameInv, TypeOK, FreeDescriptor, Goto
    <2>3. name[k] \in Names => file'[name[k]] = file[name[k]]
        BY <2>1, ConstAssumption DEF NameInv, UniqueName
    <2> QED BY <2>2, <2>3, StateSets, ConstAssumption DEF NameInv, TypeOK, DialogueOK, KnownOf
<1>4. UniqueName'
    BY DEF NameInv, TypeOK, UniqueName, FreeDescriptor
<1> QED BY <1>2, <1>3, <1>4 DEF NameInv

\* What a playing session stores is a player record.
LEMMA SavedType ==
    ASSUME NameInv, NEW d \in Desc, state[d] \in Passworded
    PROVE  /\ Saved(d) \in [Names -> Players \cup {None}]
           /\ Saved(d)[name[d]] \in Players
<1>1. name[d] \in Names /\ pwd[d] \in Pwds
    BY StateSets DEF NameInv, DialogueOK, KnownOf
<1>2. IsGod(d) \in BOOLEAN
    BY <1>1, ConstAssumption DEF IsGod, NameInv, TypeOK, Players
<1> QED BY <1>1, <1>2 DEF Saved, NameInv, TypeOK, Players

LEMMA AtMostType ==
    ASSUME NEW count \in Nat
    PROVE  AtMost(count) \in Nat
BY ConstAssumption DEF AtMost

\* The steps that are moves, whatever the input.
Moves(d) ==
    \/ Connect(d) \/ NmeRefused(d) \/ NmecnfYes(d) \/ Qrace(d)
    \/ QraceHelp(d) \/ EndHelpRace(d) \/ Qsex(d) \/ QclassHelp(d)
    \/ EndHelpClass(d) \/ QclassAuth(d) \/ AuthDenied(d) \/ CheckMageType(d)
    \/ Rnewd(d) \/ RmotdGod(d) \/ SlctDelete(d) \/ SlctDescribe(d)
    \/ SlctStory(d) \/ SlctPassword(d) \/ EndDescription(d) \/ DeleteNo(d)
    \/ \E p \in Pwds : Pwdcnf(d, p) \/ Pwdncnf(d, p)

\* Each of them leads from a state to one that asks no more of the connection.
LEMMA MovesAreMoves ==
    ASSUME NEW d \in Desc, Moves(d)
    PROVE  \E from, to \in States :
              /\ Move(d, from, to)
              /\ to \in Unnamed => from \in Unnamed
              /\ to \notin Unnamed \cup {"WIZLOCK"} => from \notin Unnamed \cup {"WIZLOCK"}
              /\ to \in Passworded => from \in Passworded
              /\ to \notin Unnamed \cup {"WIZLOCK", "PWDNRM"}
                   => from \notin Unnamed \cup {"WIZLOCK", "PWDNRM"}
              /\ to \in Creating => from \in Creating
              /\ to \in Passworded \ Creating => from \in Passworded \ Creating
              /\ to # "PLYNG"
<1>1. CASE Connect(d)
    BY <1>1 DEF Connect, States, Creating, Menu, Unnamed, Passworded
<1>2. CASE NmeRefused(d)
    BY <1>2 DEF NmeRefused, States, Creating, Menu, Unnamed, Passworded
<1>3. CASE NmecnfYes(d)
    BY <1>3 DEF NmecnfYes, States, Creating, Menu, Unnamed, Passworded
<1>4. CASE Qrace(d)
    BY <1>4 DEF Qrace, States, Creating, Menu, Unnamed, Passworded
<1>5. CASE QraceHelp(d)
    BY <1>5 DEF QraceHelp, States, Creating, Menu, Unnamed, Passworded
<1>6. CASE EndHelpRace(d)
    BY <1>6 DEF EndHelpRace, States, Creating, Menu, Unnamed, Passworded
<1>7. CASE Qsex(d)
    BY <1>7 DEF Qsex, States, Creating, Menu, Unnamed, Passworded
<1>8. CASE QclassHelp(d)
    BY <1>8 DEF QclassHelp, States, Creating, Menu, Unnamed, Passworded
<1>9. CASE EndHelpClass(d)
    BY <1>9 DEF EndHelpClass, States, Creating, Menu, Unnamed, Passworded
<1>10. CASE QclassAuth(d)
    BY <1>10 DEF QclassAuth, States, Creating, Menu, Unnamed, Passworded
<1>11. CASE AuthDenied(d)
    BY <1>11 DEF AuthDenied, States, Creating, Menu, Unnamed, Passworded
<1>12. CASE CheckMageType(d)
    BY <1>12 DEF CheckMageType, States, Creating, Menu, Unnamed, Passworded
<1>13. CASE Rnewd(d)
    BY <1>13 DEF Rnewd, States, Creating, Menu, Unnamed, Passworded
<1>14. CASE RmotdGod(d)
    BY <1>14 DEF RmotdGod, States, Creating, Menu, Unnamed, Passworded
<1>15. CASE SlctDelete(d)
    BY <1>15 DEF SlctDelete, States, Creating, Menu, Unnamed, Passworded
<1>16. CASE SlctDescribe(d)
    BY <1>16 DEF SlctDescribe, States, Creating, Menu, Unnamed, Passworded
<1>17. CASE SlctStory(d)
    BY <1>17 DEF SlctStory, States, Creating, Menu, Unnamed, Passworded
<1>18. CASE SlctPassword(d)
    BY <1>18 DEF SlctPassword, States, Creating, Menu, Unnamed, Passworded
<1>19. CASE EndDescription(d)
    BY <1>19 DEF EndDescription, States, Creating, Menu, Unnamed, Passworded
<1>20. CASE DeleteNo(d)
    BY <1>20 DEF DeleteNo, States, Creating, Menu, Unnamed, Passworded
<1>21. CASE \E p \in Pwds : Pwdcnf(d, p)
    BY <1>21 DEF Pwdcnf, States, Creating, Menu, Unnamed, Passworded
<1>22. CASE \E p \in Pwds : Pwdncnf(d, p)
    BY <1>22 DEF Pwdncnf, States, Creating, Menu, Unnamed, Passworded
<1> QED BY <1>1, <1>2, <1>3, <1>4, <1>5, <1>6, <1>7, <1>8, <1>9, <1>10, <1>11, <1>12, <1>13, <1>14, <1>15, <1>16, <1>17, <1>18, <1>19, <1>20, <1>21, <1>22 DEF Moves

LEMMA SetsOfStates ==
    /\ \A s \in {"PLYNG", "SLCT", "RMOTD", "CHECK_MAGE_TYPE", "RNEWD", "QCLASS", "AUTH",
                  "PWDCNF", "PWDNCNF", "PWDNRM", "STAT_LIST", "PWDNEW", "WMOTD", "DELETE_ME"} :
           s \in States /\ s \notin Unnamed /\ s # "WIZLOCK" /\ s \in Passworded
    /\ \A s \in {"NMECNF", "PWDGET"} :
           s \in States /\ s \notin Unnamed /\ s # "WIZLOCK" /\ s \notin Passworded
    /\ \A s \in {"FREE", "NME"} : s \in States /\ s \in Unnamed /\ s \notin Passworded
    /\ "WIZLOCK" \in States /\ "WIZLOCK" \notin Unnamed /\ "WIZLOCK" \notin Passworded
    /\ {"QCLASS", "AUTH", "PWDCNF", "STAT_LIST", "NMECNF", "PWDGET"} \subseteq Creating
    /\ {"PLYNG", "SLCT", "RMOTD", "CHECK_MAGE_TYPE", "RNEWD", "PWDNCNF", "PWDNRM", "PWDNEW",
        "WMOTD", "DELETE_ME", "FREE", "NME", "WIZLOCK"} \cap Creating = {}
BY DEF States, Creating, Menu, Unnamed, Passworded

LEMMA InitNameInv == Init => NameInv
<1> SUFFICES ASSUME Init PROVE NameInv
    OBVIOUS
<1>0. dead \in [Names -> BOOLEAN] /\ corpses \in [Names -> 0 .. MaxCorpses]
    BY ConstAssumption DEF Init
<1>1. TypeOK
    BY <1>0, SetsOfStates DEF Init, TypeOK
<1>2. DialogueOK
    BY SetsOfStates, ConstAssumption DEF Init, DialogueOK, KnownOf
<1>3. UniqueName
    BY DEF Init, UniqueName
<1> QED BY <1>1, <1>2, <1>3 DEF NameInv

\* A step of one connection: what has to be shown of it alone.
LEMMA OneConnection ==
    ASSUME NameInv, TypeOK', NEW d \in Desc, KnownOf(d)',
           \A k \in Desc \ {d} :
              state'[k] = state[k] /\ name'[k] = name[k] /\ pwd'[k] = pwd[k],
           name'[d] # None => \A k \in Desc \ {d} : name[k] # name'[d],
           \A n \in Names : n \notin {name[d], name'[d]} => file'[n] = file[n]
    PROVE  NameInv'
<1>1. UniqueName'
    BY DEF NameInv, UniqueName
<1>2. DialogueOK'
    <2>1. SUFFICES ASSUME NEW k \in Desc \ {d} PROVE KnownOf(k)'
        BY DEF DialogueOK
    <2>2. name[k] \in Names => file'[name[k]] = file[name[k]]
        BY ConstAssumption DEF NameInv, UniqueName
    <2> QED BY <2>2, StateSets, ConstAssumption DEF NameInv, TypeOK, DialogueOK, KnownOf
<1> QED BY <1>1, <1>2 DEF NameInv

\* init_char and save_char: the connection leaves the creation of a character.
LEMMA CreateNameInv ==
    ASSUME NameInv, NEW d \in Desc, state[d] \in Creating \cap Passworded,
           NEW more \in Nat, Create(d, more),
           NEW s \in Passworded \ Creating, Goto(d, s)
    PROVE  NameInv'
<1> DEFINE player == [pwd |-> pwd[d], god |-> playerCount = 0]
<1>1. name[d] \in Names /\ player \in Players
    BY StateSets DEF Players, NameInv, DialogueOK, KnownOf
<1>2. file' = [file EXCEPT ![name[d]] = player]
    BY DEF Create
<1> HIDE DEF player
<1>3. file' \in [Names -> Players \cup {None}] /\ file'[name[d]] \in Players
    BY <1>1, <1>2 DEF NameInv, TypeOK
<1>4. dead' \in [Names -> BOOLEAN]
    BY DEF Create, NameInv, TypeOK
<1>5. playerCount' \in Nat
    BY AtMostType DEF Create, NameInv, TypeOK
<1>6. TypeOK'
    BY <1>3, <1>4, <1>5, StateSets DEF Create, Goto, flags, NameInv, TypeOK
<1>7. KnownOf(d)'
    BY <1>1, <1>3, StateSets, ConstAssumption
    DEF Create, Goto, NameInv, TypeOK, DialogueOK, KnownOf
<1> QED
    BY <1>2, <1>6, <1>7, OneConnection DEF Create, Goto, NameInv, TypeOK, UniqueName

LEMMA StepNameInv ==
    ASSUME NameInv, [Next]_vars
    PROVE  NameInv'
<1> USE SetsOfStates, ConstAssumption
<1>1. ASSUME NEW d \in Desc, Moves(d) PROVE NameInv'
    <2>1. PICK from, to \in States :
            /\ Move(d, from, to)
            /\ to \in Unnamed => from \in Unnamed
            /\ to \notin Unnamed \cup {"WIZLOCK"} => from \notin Unnamed \cup {"WIZLOCK"}
            /\ to \in Passworded => from \in Passworded
            /\ to \in Creating => from \in Creating
            /\ to \in Passworded \ Creating => from \in Passworded \ Creating
        BY <1>1, MovesAreMoves
    <2> QED BY <2>1, MoveNameInv
<1>2. ASSUME NEW d \in Desc, CloseSocket(d) PROVE NameInv'
    BY <1>2, FreeNameInv DEF CloseSocket, world, flags, grave, NameInv, TypeOK
<1>3. ASSUME NEW d \in Desc, LoseLink(d) PROVE NameInv'
    <2>1. name[d] \in Names
        BY <1>3 DEF LoseLink, NameInv, DialogueOK, KnownOf
    <2>2. /\ file' \in [Names -> Players \cup {None}] /\ loose' \in [Names -> Nat]
          /\ \A n \in Names : n # name[d] => file'[n] = file[n]
        BY <1>3, <2>1, SavedType DEF LoseLink, Saved, NameInv, TypeOK
    <2> QED BY <1>3, <2>2, FreeNameInv DEF LoseLink
<1>4. ASSUME NEW d \in Desc, ForceRent(d) PROVE NameInv'
    <2>1. /\ file' \in [Names -> Players \cup {None}] /\ loose' \in [Names -> Nat]
          /\ \A n \in Names : n # name[d] => file'[n] = file[n]
        BY <1>4, SavedType DEF ForceRent, Saved, NameInv, TypeOK
    <2> QED BY <1>4, <2>1, FreeNameInv DEF ForceRent
<1>5. ASSUME NEW d \in Desc, DeleteYes(d) PROVE NameInv'
    <2>1. /\ file' \in [Names -> Players \cup {None}] /\ loose' \in [Names -> Nat]
          /\ \A n \in Names : n # name[d] => file'[n] = file[n]
        BY <1>5 DEF DeleteYes, NameInv, TypeOK
    <2> QED BY <1>5, <2>1, FreeNameInv DEF DeleteYes
<1>6. ASSUME NEW d \in Desc, NEW n \in Names, NmeKnown(d, n) PROVE NameInv'
    <2>1. TypeOK'
        BY <1>6 DEF NmeKnown, NameTaken, Players, Goto, world, flags, grave, conn, NameInv, TypeOK, DialogueOK, KnownOf
    <2>2. KnownOf(d)'
        BY <1>6 DEF NmeKnown, NameTaken, Players, Goto, world, conn, NameInv, TypeOK, DialogueOK, KnownOf
    <2> QED
        BY <1>6, <2>1, <2>2, OneConnection DEF NmeKnown, NameTaken, Players, Goto, world, conn, NameInv, TypeOK, UniqueName
<1>7. ASSUME NEW d \in Desc, NEW n \in Names, NmeNew(d, n) PROVE NameInv'
    <2>1. TypeOK'
        BY <1>7 DEF NmeNew, NameTaken, Goto, world, flags, grave, conn, NameInv, TypeOK, DialogueOK, KnownOf
    <2>2. KnownOf(d)'
        BY <1>7 DEF NmeNew, NameTaken, Goto, world, conn, NameInv, TypeOK, DialogueOK, KnownOf
    <2> QED
        BY <1>7, <2>1, <2>2, OneConnection DEF NmeNew, NameTaken, Goto, world, conn, NameInv, TypeOK, UniqueName
<1>8. ASSUME NEW d \in Desc, NmecnfNo(d) PROVE NameInv'
    <2>1. TypeOK'
        BY <1>8 DEF NmecnfNo, Goto, world, flags, grave, conn, NameInv, TypeOK, DialogueOK, KnownOf
    <2>2. KnownOf(d)'
        BY <1>8 DEF NmecnfNo, Goto, world, conn, NameInv, TypeOK, DialogueOK, KnownOf
    <2> QED
        BY <1>8, <2>1, <2>2, OneConnection DEF NmecnfNo, Goto, world, conn, NameInv, TypeOK, UniqueName
<1>9. ASSUME NEW d \in Desc, PwdnrmReconnect(d) PROVE NameInv'
    <2>1. TypeOK'
        BY <1>9 DEF PwdnrmReconnect, Goto, world, flags, grave, conn, NameInv, TypeOK, DialogueOK, KnownOf
    <2>2. KnownOf(d)'
        BY <1>9 DEF PwdnrmReconnect, Goto, world, conn, NameInv, TypeOK, DialogueOK, KnownOf
    <2> QED
        BY <1>9, <2>1, <2>2, OneConnection DEF PwdnrmReconnect, Goto, world, conn, NameInv, TypeOK, UniqueName
<1>10. ASSUME NEW d \in Desc, PwdnrmConnect(d) PROVE NameInv'
    <2>1. TypeOK'
        BY <1>10 DEF PwdnrmConnect, Goto, world, flags, grave, conn, NameInv, TypeOK, DialogueOK, KnownOf
    <2>2. KnownOf(d)'
        BY <1>10 DEF PwdnrmConnect, Goto, world, conn, NameInv, TypeOK, DialogueOK, KnownOf
    <2> QED
        BY <1>10, <2>1, <2>2, OneConnection DEF PwdnrmConnect, Goto, world, conn, NameInv, TypeOK, UniqueName
<1>11. ASSUME NEW d \in Desc, StatList(d) PROVE NameInv'
    <2>1. TypeOK'
        BY <1>11 DEF StatList, NEWBIE_REQUEST, NEWBIE_CHANCES, Goto, world, flags, grave, conn, NameInv, TypeOK, DialogueOK, KnownOf
    <2>2. KnownOf(d)'
        BY <1>11 DEF StatList, NEWBIE_REQUEST, NEWBIE_CHANCES, Goto, world, conn, NameInv, TypeOK, DialogueOK, KnownOf
    <2> QED
        BY <1>11, <2>1, <2>2, OneConnection DEF StatList, NEWBIE_REQUEST, NEWBIE_CHANCES, Goto, world, conn, NameInv, TypeOK, UniqueName
<1>12. ASSUME NEW d \in Desc, ToMenu(d) PROVE NameInv'
    <2>1. TypeOK'
        BY <1>12 DEF ToMenu, Goto, world, flags, grave, conn, NameInv, TypeOK, DialogueOK, KnownOf
    <2>2. KnownOf(d)'
        BY <1>12 DEF ToMenu, Goto, world, conn, NameInv, TypeOK, DialogueOK, KnownOf
    <2> QED
        BY <1>12, <2>1, <2>2, OneConnection DEF ToMenu, Goto, world, conn, NameInv, TypeOK, UniqueName
<1>13. ASSUME NEW d \in Desc, NEW p \in Pwds, Pwdget(d, p) PROVE NameInv'
    <2>1. TypeOK'
        BY <1>13 DEF Pwdget, Goto, world, flags, grave, conn, NameInv, TypeOK, DialogueOK, KnownOf
    <2>2. KnownOf(d)'
        BY <1>13 DEF Pwdget, Goto, world, conn, NameInv, TypeOK, DialogueOK, KnownOf
    <2> QED
        BY <1>13, <2>1, <2>2, OneConnection DEF Pwdget, Goto, world, conn, NameInv, TypeOK, UniqueName
<1>14. ASSUME NEW d \in Desc, NEW p \in Pwds, Pwdnew(d, p) PROVE NameInv'
    <2>1. TypeOK'
        BY <1>14 DEF Pwdnew, Goto, world, flags, grave, conn, NameInv, TypeOK, DialogueOK, KnownOf
    <2>2. KnownOf(d)'
        BY <1>14 DEF Pwdnew, Goto, world, conn, NameInv, TypeOK, DialogueOK, KnownOf
    <2> QED
        BY <1>14, <2>1, <2>2, OneConnection DEF Pwdnew, Goto, world, conn, NameInv, TypeOK, UniqueName
<1>15. ASSUME NEW d \in Desc, Qclass(d) PROVE NameInv'
    <2>1. /\ state[d] \in Creating /\ state[d] \in Passworded /\ Create(d, 0)
          /\ \E s \in Passworded \ Creating : Goto(d, s)
        BY <1>15 DEF Qclass
    <2> QED BY <2>1, CreateNameInv
<1>16. ASSUME NEW d \in Desc, AuthAccepted(d) PROVE NameInv'
    <2>1. /\ state[d] \in Creating /\ state[d] \in Passworded /\ Create(d, 1)
          /\ \E s \in Passworded \ Creating : Goto(d, s)
        BY <1>16 DEF AuthAccepted
    <2> QED BY <2>1, CreateNameInv
<1>17. ASSUME NEW d \in Desc, AuthWaiting(d) PROVE NameInv'
    <2>1. TypeOK'
        BY <1>17 DEF AuthWaiting, NEWBIE_REQUEST, NEWBIE_START, Goto, world, flags, grave, conn, NameInv, TypeOK, DialogueOK, KnownOf
    <2>2. KnownOf(d)'
        BY <1>17 DEF AuthWaiting, NEWBIE_REQUEST, NEWBIE_START, Goto, world, conn, NameInv, TypeOK, DialogueOK, KnownOf
    <2> QED
        BY <1>17, <2>1, <2>2, OneConnection DEF AuthWaiting, NEWBIE_REQUEST, NEWBIE_START, Goto, world, conn, NameInv, TypeOK, UniqueName
<1>18. ASSUME NEW d \in Desc, SlctEnter(d) PROVE NameInv'
    <2>1. TypeOK'
        BY <1>18, SavedType DEF SlctEnter, Goto, world, flags, grave, conn, NameInv, TypeOK, DialogueOK, KnownOf
    <2>2. KnownOf(d)'
        BY <1>18, SavedType DEF SlctEnter, Saved, Goto, world, conn, NameInv, TypeOK, DialogueOK, KnownOf
    <2> QED
        BY <1>18, <2>1, <2>2, OneConnection DEF SlctEnter, Saved, Goto, world, conn, NameInv, TypeOK, UniqueName
<1>19. ASSUME NEW d \in Desc, Save(d) PROVE NameInv'
    <2>1. TypeOK'
        BY <1>19, SavedType DEF Save, Goto, world, flags, grave, conn, NameInv, TypeOK, DialogueOK, KnownOf
    <2>2. KnownOf(d)'
        BY <1>19, SavedType DEF Save, Saved, Goto, world, conn, NameInv, TypeOK, DialogueOK, KnownOf
    <2> QED
        BY <1>19, <2>1, <2>2, OneConnection DEF Save, Saved, Goto, world, conn, NameInv, TypeOK, UniqueName
<1>20. ASSUME NEW d \in Desc, Leave(d) PROVE NameInv'
    <2>1. TypeOK'
        BY <1>20, SavedType DEF Leave, Goto, world, flags, grave, conn, NameInv, TypeOK, DialogueOK, KnownOf
    <2>2. KnownOf(d)'
        BY <1>20, SavedType DEF Leave, Saved, Goto, world, conn, NameInv, TypeOK, DialogueOK, KnownOf
    <2> QED
        BY <1>20, <2>1, <2>2, OneConnection DEF Leave, Saved, Goto, world, conn, NameInv, TypeOK, UniqueName
<1>28. ASSUME NEW d \in Desc, Die(d) PROVE NameInv'
    <2>1. TypeOK'
        BY <1>28, SavedType DEF Die, Goto, world, flags, grave, conn, NameInv, TypeOK, DialogueOK, KnownOf
    <2>2. KnownOf(d)'
        BY <1>28, SavedType DEF Die, Saved, Goto, world, conn, NameInv, TypeOK, DialogueOK, KnownOf
    <2> QED
        BY <1>28, <2>1, <2>2, OneConnection DEF Die, Saved, Goto, world, conn, NameInv, TypeOK, UniqueName
<1>21. ASSUME NEW d \in Desc, NEW v \in {NEWBIE_START, NEWBIE_AXE}, DoAuth(d, v) PROVE NameInv'
    BY <1>21 DEF DoAuth, NEWBIE_START, NEWBIE_AXE, NameInv, TypeOK, DialogueOK, KnownOf, UniqueName, Goto, world, flags, grave, conn, vars
<1>22. ASSUME NEW n \in Names, LooseGone(n) PROVE NameInv'
    BY <1>22 DEF LooseGone, NameInv, TypeOK, DialogueOK, KnownOf, UniqueName, Goto, world, flags, grave, conn, vars
<1>23. ASSUME NEW n \in Names, DoGhost(n) PROVE NameInv'
    BY <1>23 DEF DoGhost, NameInv, TypeOK, DialogueOK, KnownOf, UniqueName, Goto, world, flags, grave, conn, vars
<1>24. CASE DoWizlock
    BY <1>24 DEF DoWizlock, NameInv, TypeOK, DialogueOK, KnownOf, UniqueName, Goto, world, flags, grave, conn, vars
<1>25. CASE DoGodIntervenReq
    BY <1>25 DEF DoGodIntervenReq, NameInv, TypeOK, DialogueOK, KnownOf, UniqueName, Goto, world, flags, grave, conn, vars
<1>26. CASE Restart
    <2>1. Cardinality({n \in Names : file[n] # None}) \in Nat
        BY <1>26, FS_Subset, FS_CardinalityType
    <2>2. TypeOK'
        <3>1. playerCount' \in Nat
            BY <1>26, <2>1, AtMostType DEF Restart
        <3>2. corpses' \in [Names -> 0 .. MaxCorpses]
            BY <1>26 DEF Restart
        <3> QED BY <1>26, <3>1, <3>2 DEF Restart, NameInv, TypeOK
    <2>3. DialogueOK' /\ UniqueName'
        BY <1>26 DEF Restart, DialogueOK, KnownOf, UniqueName
    <2> QED BY <2>2, <2>3 DEF NameInv
<1>29. ASSUME NEW n \in Names, CorpseDecays(n) PROVE NameInv'
    BY <1>29 DEF CorpseDecays, NameInv, TypeOK, DialogueOK, KnownOf, UniqueName, flags, conn
<1>30. ASSUME NEW n \in Names, Reincarnate(n) PROVE NameInv'
    <2>1. /\ UNCHANGED <<name, pwd, generic, file, dead, flags, playerCount>>
          /\ corpses' \in [Names -> 0 .. MaxCorpses]
        BY <1>30 DEF Reincarnate, NameInv, TypeOK
    <2>2. CASE UNCHANGED state /\ loose' = [loose EXCEPT ![n] = @ + 1]
        BY <2>1, <2>2 DEF NameInv, TypeOK, DialogueOK, KnownOf, UniqueName, flags
    <2>3. ASSUME NEW d \in Desc, name[d] = n, Goto(d, "PLYNG"), UNCHANGED loose PROVE NameInv'
        <3>1. TypeOK'
            BY <2>1, <2>3 DEF Goto, NameInv, TypeOK, flags
        <3>2. state[d] \notin Creating \cup Unnamed /\ pwd[d] \in Pwds /\ file[n] # None
            BY <1>30, <2>3, StateSets DEF Reincarnate, NameInv, TypeOK, DialogueOK, KnownOf
        <3>3. KnownOf(d)'
            BY <2>1, <2>3, <3>2 DEF KnownOf, Goto, NameInv, TypeOK
        <3> QED
            BY <2>1, <2>3, <3>1, <3>3, OneConnection DEF Goto, NameInv, TypeOK, UniqueName
    <2> QED BY <1>30, <2>2, <2>3 DEF Reincarnate
<1>27. CASE UNCHANGED vars
    BY <1>27 DEF NameInv, TypeOK, DialogueOK, KnownOf, UniqueName, Goto, world, flags, grave, conn, vars
<1> QED
    BY <1>1, <1>2, <1>3, <1>4, <1>5, <1>6, <1>7, <1>8, <1>9, <1>10, <1>11, <1>12, <1>13, <1>14, <1>15, <1>16, <1>17, <1>18, <1>19, <1>20, <1>21, <1>22, <1>23, <1>24, <1>25, <1>26, <1>27, <1>28, <1>29, <1>30
    DEF Next, Login, Creation, MainMenu, InGame, Moves

\* Every value stays of its kind, for any number of connections and players.
THEOREM TypeCorrect == Spec => []TypeOK
<1>1. Spec => []NameInv
    BY InitNameInv, StepNameInv, PTL DEF Spec
<1> QED BY <1>1, PTL DEF NameInv

\* No two connections hold the same player name, whatever wizards do: the proof
\* does not assume that do_ghost is not used.
THEOREM NamesAreUnique == Spec => []UniqueName
<1>1. Spec => []NameInv
    BY InitNameInv, StepNameInv, PTL DEF Spec
<1> QED BY <1>1, PTL DEF NameInv

-----------------------------------------------------------------------------
(* Who writes a player's file.                                             *)

Writes(d) == state[d] \in Passworded \ Creating /\ "PLYNG" \in {state[d], state'[d]}

Makes(d) ==
    /\ file[name[d]] = None
    /\ reqApprove => generic[d] >= NEWBIE_START
    /\ \A n \in Names \ {name[d]} : file'[n] = file[n]

\* A step leaves all files, or is a save of a session in the game, a deletion, or
\* the creation of a player.
LEMMA FilesWritten ==
    ASSUME NameInv, [Next]_vars
    PROVE  \/ UNCHANGED file
           \/ \E d \in Desc : name[d] \in Names /\ (\/ Writes(d) /\ file' = Saved(d)
                                                    \/ file' = [file EXCEPT ![name[d]] = None]
                                                    \/ Makes(d))
<1> DEFINE Goal == \/ UNCHANGED file
                   \/ \E d \in Desc : name[d] \in Names /\ (\/ Writes(d) /\ file' = Saved(d)
                                                            \/ file' = [file EXCEPT ![name[d]] = None]
                                                            \/ Makes(d))
<1> HIDE DEF Goal
<1>1. ASSUME UNCHANGED file
      PROVE  Goal
  BY <1>1 DEF Goal
<1>2. ASSUME NEW d \in Desc, state[d] \in Passworded \ Creating, "PLYNG" \in {state[d], state'[d]},
             file' = Saved(d)
      PROVE  Goal
  <2>1. name[d] \in Names
    BY <1>2, StateSets DEF NameInv, DialogueOK, KnownOf
  <2> QED
    BY <1>2, <2>1 DEF Goal, Writes
<1>3. ASSUME NEW d \in Desc, DeleteYes(d)
      PROVE  Goal
  <2>1. name[d] \in Names
    BY <1>3, SetsOfStates DEF DeleteYes, NameInv, DialogueOK, KnownOf
  <2> QED
    BY <1>3, <2>1 DEF DeleteYes, Goal
<1>4. ASSUME NEW d \in Desc, state[d] \in Creating, NEW more, Create(d, more),
             reqApprove => generic[d] >= NEWBIE_START
      PROVE  Goal
  <2>1. name[d] \in Names /\ file[name[d]] = None
    BY <1>4, StateSets DEF NameInv, DialogueOK, KnownOf
  <2>2. \A n \in Names \ {name[d]} : file'[n] = file[n]
    BY <1>4 DEF Create, NameInv, TypeOK
  <2> QED
    BY <1>4, <2>1, <2>2 DEF Goal, Makes
<1>5. "PLYNG" \in Passworded \ Creating /\ "SLCT" \in Passworded \ Creating
      /\ "QCLASS" \in Creating /\ "AUTH" \in Creating
  BY SetsOfStates DEF Menu, Creating
<1>6. ASSUME NEW d \in Desc, Login(d)
      PROVE  Goal
  BY <1>1, <1>2, <1>5, <1>6 DEF Login, Connect, CloseSocket, LoseLink, NmeRefused, NmeKnown, NmeNew,
     NmecnfYes, NmecnfNo, PwdnrmReconnect, PwdnrmConnect, Move, world
<1>7. ASSUME NEW d \in Desc, Creation(d)
      PROVE  Goal
  <2>1. CASE Qclass(d)
    BY <1>4, <1>5, <2>1 DEF Qclass
  <2>2. CASE AuthAccepted(d)
    BY <1>4, <1>5, <2>2 DEF AuthAccepted
  <2> QED
    BY <1>1, <1>7, <2>1, <2>2 DEF Creation, Pwdget, Pwdcnf, Qrace, QraceHelp, EndHelpRace, Qsex,
       StatList, QclassHelp, EndHelpClass, QclassAuth, AuthWaiting, AuthDenied, CheckMageType,
       Rnewd, Move, world
<1>8. ASSUME NEW d \in Desc, MainMenu(d)
      PROVE  Goal
  <2>1. CASE SlctEnter(d)
    <3>1. state'[d] = "PLYNG"
      BY <2>1 DEF SlctEnter, Goto, NameInv, TypeOK
    <3> QED
      BY <1>1, <1>2, <1>5, <2>1, <3>1 DEF SlctEnter
  <2> QED
    BY <1>1, <1>3, <1>8, <2>1 DEF MainMenu, RmotdGod, ToMenu, SlctDelete, SlctDescribe, SlctStory,
       SlctPassword, EndDescription, DeleteNo, Pwdnew, Pwdncnf, Move, world
<1>9. ASSUME NEW d \in Desc, InGame(d)
      PROVE  Goal
  BY <1>1, <1>2, <1>5, <1>9 DEF InGame, Save, Leave, Die, ForceRent, DoAuth, world
<1>10. ASSUME \/ \E n \in Names : LooseGone(n) \/ CorpseDecays(n) \/ Reincarnate(n) \/ DoGhost(n)
              \/ DoWizlock \/ DoGodIntervenReq \/ Restart \/ UNCHANGED vars
       PROVE  Goal
  BY <1>1, <1>10 DEF LooseGone, CorpseDecays, Reincarnate, DoGhost, DoWizlock, DoGodIntervenReq, Restart, vars
<1> QED
  BY <1>6, <1>7, <1>8, <1>9, <1>10 DEF Next, Goal

LEMMA FilesStep ==
    ASSUME NameInv, [Next]_vars
    PROVE  \A n \in Names :
             /\ file[n] # None /\ file'[n] # None /\ file'[n].pwd # file[n].pwd
                  => \E d \in Desc : name[d] = n /\ "PLYNG" \in {state[d], state'[d]}
             /\ reqApprove /\ playerCount > 0 /\ file[n] = None /\ file'[n] # None
                  => \E d \in Desc : name[d] = n /\ generic[d] >= NEWBIE_START
<1> SUFFICES ASSUME NEW n \in Names, file'[n] # None, file'[n] # file[n]
             PROVE  /\ file[n] # None => \E d \in Desc : name[d] = n /\ "PLYNG" \in {state[d], state'[d]}
                    /\ reqApprove /\ file[n] = None
                         => \E d \in Desc : name[d] = n /\ generic[d] >= NEWBIE_START
  OBVIOUS
<1>1. file \in [Names -> Players \cup {None}]
  BY DEF NameInv, TypeOK
<1>2. PICK d \in Desc : name[d] \in Names /\ (\/ Writes(d) /\ file' = Saved(d)
                                              \/ file' = [file EXCEPT ![name[d]] = None]
                                              \/ Makes(d))
  BY FilesWritten
<1>3. CASE Writes(d) /\ file' = Saved(d)
  <2>1. file[name[d]] # None
    BY <1>3, StateSets DEF Writes, NameInv, DialogueOK, KnownOf
  <2>2. name[d] = n
    BY <1>1, <1>3 DEF Saved
  <2> QED
    BY <1>3, <2>1, <2>2 DEF Writes
<1>4. CASE file' = [file EXCEPT ![name[d]] = None]
  BY <1>1, <1>4
<1>5. CASE Makes(d)
  BY <1>2, <1>5 DEF Makes
<1> QED
  BY <1>2, <1>3, <1>4, <1>5

\* The stored password of a player changes only with a step of a session in the
\* game: what the menu's password dialogue has not confirmed, or has, is not
\* written by anybody else.
THEOREM PasswordsStored == Spec => StoredPassword
<1>1. Spec => []NameInv
    BY InitNameInv, StepNameInv, PTL DEF Spec
<1>2. NameInv /\ [Next]_vars
        => [\A n \in Names :
              file[n] # None /\ file'[n] # None /\ file'[n].pwd # file[n].pwd
                => \E d \in Desc : name[d] = n /\ "PLYNG" \in {state[d], state'[d]}]_vars
    BY FilesStep
<1> QED BY <1>1, <1>2, PTL DEF Spec, StoredPassword

\* While approval is required nobody comes to exist unapproved, but for the first
\* player: not through two connections that create the same character, nor
\* through a session that a god has answered for another.
THEOREM NewcomersApproved == Spec => NewcomerApproved
<1>1. Spec => []NameInv
    BY InitNameInv, StepNameInv, PTL DEF Spec
<1>2. NameInv /\ [Next]_vars
        => [\A n \in Names :
              reqApprove /\ playerCount > 0 /\ file[n] = None /\ file'[n] # None
                => \E d \in Desc : name[d] = n /\ generic[d] >= NEWBIE_START]_vars
    BY FilesStep
<1> QED BY <1>1, <1>2, PTL DEF Spec, NewcomerApproved

-----------------------------------------------------------------------------
(* One body per player, as long as do_ghost is not used on who logs in or lies  *)
(* dead, and no two corpses of one player lie around.                      *)

\* What keeps a player to one body.
FewBodies == ~GhostsAnyTime /\ MaxCorpses <= 1

LEMMA StepNoBodyLeft ==
    ASSUME NannyInv, NameInv', [Next]_vars, FewBodies
    PROVE  NoBodyLeft'
<1> USE SetsOfStates, ConstAssumption DEF NannyInv, FewBodies
<1>1. ASSUME NEW d \in Desc, Moves(d) PROVE NoBodyLeft'
    <2>1. PICK from, to \in States :
            /\ Move(d, from, to)
            /\ to \notin Unnamed \cup {"WIZLOCK", "PWDNRM"}
                 => from \notin Unnamed \cup {"WIZLOCK", "PWDNRM"}
        BY <1>1, MovesAreMoves
    <2> QED BY <2>1 DEF Move, NameInv, TypeOK, DialogueOK, KnownOf, UniqueName, NoBodyLeft, Goto, world, flags, grave, conn, vars
<1>2. ASSUME NEW d \in Desc, CloseSocket(d) PROVE NoBodyLeft'
    BY <1>2 DEF CloseSocket, FreeDescriptor, Saved, Players, NameInv, TypeOK, DialogueOK, KnownOf, UniqueName, NoBodyLeft, Goto, world, flags, grave, conn, vars
<1>3. ASSUME NEW d \in Desc, LoseLink(d) PROVE NoBodyLeft'
    <2>1. name[d] \in Names /\ loose[name[d]] = 0
        BY <1>3 DEF LoseLink, NameInv, DialogueOK, KnownOf, NoBodyLeft
    <2>2. Saved(d)[name[d]] # None
        BY <1>3, SavedType DEF LoseLink
    <2>3. ASSUME NEW k \in Desc, state'[k] \notin Unnamed \cup {"WIZLOCK", "PWDNRM"}
          PROVE  loose'[name'[k]] = 0
        <3>1. k # d /\ state'[k] = state[k] /\ name'[k] = name[k]
            BY <1>3, <2>3 DEF LoseLink, FreeDescriptor, Goto, NameInv, TypeOK
        <3>2. name[k] \in Names /\ name[k] # name[d] /\ loose[name[k]] = 0
            BY <2>1, <2>3, <3>1 DEF NameInv, DialogueOK, KnownOf, UniqueName, NoBodyLeft
        <3> QED BY <1>3, <3>1, <3>2 DEF LoseLink, NameInv, TypeOK
    <2>4. ASSUME NEW n \in Names
          PROVE  loose'[n] <= 1 /\ (file'[n] = None => loose'[n] = 0)
        BY <1>3, <2>1, <2>2 DEF LoseLink, Saved, NameInv, TypeOK, NoBodyLeft
    <2> QED BY <2>3, <2>4 DEF NoBodyLeft
<1>4. ASSUME NEW d \in Desc, ForceRent(d) PROVE NoBodyLeft'
    BY <1>4 DEF ForceRent, FreeDescriptor, Saved, Players, NameInv, TypeOK, DialogueOK, KnownOf, UniqueName, NoBodyLeft, Goto, world, flags, grave, conn, vars
<1>5. ASSUME NEW d \in Desc, DeleteYes(d) PROVE NoBodyLeft'
    BY <1>5 DEF DeleteYes, FreeDescriptor, Saved, Players, NameInv, TypeOK, DialogueOK, KnownOf, UniqueName, NoBodyLeft, Goto, world, flags, grave, conn, vars
<1>6. ASSUME NEW d \in Desc, NEW n \in Names, NmeKnown(d, n) PROVE NoBodyLeft'
    BY <1>6 DEF NmeKnown, NameInv, TypeOK, DialogueOK, KnownOf, UniqueName, NoBodyLeft, Goto, world, flags, grave, conn, vars
<1>7. ASSUME NEW d \in Desc, NEW n \in Names, NmeNew(d, n) PROVE NoBodyLeft'
    BY <1>7 DEF NmeNew, NameInv, TypeOK, DialogueOK, KnownOf, UniqueName, NoBodyLeft, Goto, world, flags, grave, conn, vars
<1>8. ASSUME NEW d \in Desc, NmecnfNo(d) PROVE NoBodyLeft'
    BY <1>8 DEF NmecnfNo, NameInv, TypeOK, DialogueOK, KnownOf, UniqueName, NoBodyLeft, Goto, world, flags, grave, conn, vars
<1>9. ASSUME NEW d \in Desc, PwdnrmReconnect(d) PROVE NoBodyLeft'
    BY <1>9 DEF PwdnrmReconnect, NameInv, TypeOK, DialogueOK, KnownOf, UniqueName, NoBodyLeft, Goto, world, flags, grave, conn, vars
<1>10. ASSUME NEW d \in Desc, PwdnrmConnect(d) PROVE NoBodyLeft'
    BY <1>10 DEF PwdnrmConnect, NameInv, TypeOK, DialogueOK, KnownOf, UniqueName, NoBodyLeft, Goto, world, flags, grave, conn, vars
<1>11. ASSUME NEW d \in Desc, StatList(d) PROVE NoBodyLeft'
    BY <1>11 DEF StatList, NameInv, TypeOK, DialogueOK, KnownOf, UniqueName, NoBodyLeft, Goto, world, flags, grave, conn, vars
<1>12. ASSUME NEW d \in Desc, ToMenu(d) PROVE NoBodyLeft'
    BY <1>12 DEF ToMenu, NameInv, TypeOK, DialogueOK, KnownOf, UniqueName, NoBodyLeft, Goto, world, flags, grave, conn, vars
<1>13. ASSUME NEW d \in Desc, AuthWaiting(d) PROVE NoBodyLeft'
    BY <1>13 DEF AuthWaiting, NameInv, TypeOK, DialogueOK, KnownOf, UniqueName, NoBodyLeft, Goto, world, flags, grave, conn, vars
<1>14. ASSUME NEW d \in Desc, NEW p \in Pwds, Pwdget(d, p) PROVE NoBodyLeft'
    BY <1>14 DEF Pwdget, NameInv, TypeOK, DialogueOK, KnownOf, UniqueName, NoBodyLeft, Goto, world, flags, grave, conn, vars
<1>15. ASSUME NEW d \in Desc, NEW p \in Pwds, Pwdnew(d, p) PROVE NoBodyLeft'
    BY <1>15 DEF Pwdnew, NameInv, TypeOK, DialogueOK, KnownOf, UniqueName, NoBodyLeft, Goto, world, flags, grave, conn, vars
<1>16. ASSUME NEW d \in Desc, Qclass(d) PROVE NoBodyLeft'
    BY <1>16 DEF Qclass, Create, NameInv, TypeOK, DialogueOK, KnownOf, UniqueName, NoBodyLeft, Goto, world, flags, grave, conn, vars
<1>17. ASSUME NEW d \in Desc, AuthAccepted(d) PROVE NoBodyLeft'
    BY <1>17 DEF AuthAccepted, Create, NameInv, TypeOK, DialogueOK, KnownOf, UniqueName, NoBodyLeft, Goto, world, flags, grave, conn, vars
<1>18. ASSUME NEW d \in Desc, SlctEnter(d) PROVE NoBodyLeft'
    BY <1>18 DEF SlctEnter, Saved, NameInv, TypeOK, DialogueOK, KnownOf, UniqueName, NoBodyLeft, Goto, world, flags, grave, conn, vars
<1>19. ASSUME NEW d \in Desc, Save(d) PROVE NoBodyLeft'
    BY <1>19 DEF Save, Saved, NameInv, TypeOK, DialogueOK, KnownOf, UniqueName, NoBodyLeft, Goto, world, flags, grave, conn, vars
<1>20. ASSUME NEW d \in Desc, Leave(d) PROVE NoBodyLeft'
    BY <1>20 DEF Leave, Saved, NameInv, TypeOK, DialogueOK, KnownOf, UniqueName, NoBodyLeft, Goto, world, flags, grave, conn, vars
<1>21. ASSUME NEW d \in Desc, NEW v \in {NEWBIE_START, NEWBIE_AXE}, DoAuth(d, v) PROVE NoBodyLeft'
    BY <1>21 DEF DoAuth, NameInv, TypeOK, DialogueOK, KnownOf, UniqueName, NoBodyLeft, Goto, world, flags, grave, conn, vars
<1>22. ASSUME NEW n \in Names, LooseGone(n) PROVE NoBodyLeft'
    BY <1>22 DEF LooseGone, NameInv, TypeOK, DialogueOK, KnownOf, UniqueName, NoBodyLeft, Goto, world, flags, grave, conn, vars
<1>23. ASSUME NEW n \in Names, DoGhost(n) PROVE NoBodyLeft'
    BY <1>23 DEF DoGhost, NameInv, TypeOK, DialogueOK, KnownOf, UniqueName, NoBodyLeft, Goto, world, flags, grave, conn, vars
<1>24. CASE DoWizlock
    BY <1>24 DEF DoWizlock, NameInv, TypeOK, DialogueOK, KnownOf, UniqueName, NoBodyLeft, Goto, world, flags, grave, conn, vars
<1>25. CASE DoGodIntervenReq
    BY <1>25 DEF DoGodIntervenReq, NameInv, TypeOK, DialogueOK, KnownOf, UniqueName, NoBodyLeft, Goto, world, flags, grave, conn, vars
<1>26. CASE Restart
    BY <1>26 DEF Restart, NameInv, TypeOK, DialogueOK, KnownOf, UniqueName, NoBodyLeft, Goto, world, flags, grave, conn, vars
<1>28. ASSUME NEW d \in Desc, Die(d) PROVE NoBodyLeft'
    BY <1>28 DEF Die, Saved, NameInv, TypeOK, DialogueOK, KnownOf, UniqueName, NoBodyLeft, Goto
<1>29. ASSUME NEW n \in Names, CorpseDecays(n) PROVE NoBodyLeft'
    BY <1>29 DEF CorpseDecays, NoBodyLeft, conn
<1>30. ASSUME NEW n \in Names, Reincarnate(n) PROVE NoBodyLeft'
    <2>1. /\ loose[n] = 0 /\ ~Playing(n) /\ file[n] # None
          /\ UNCHANGED <<name, file>>
        BY <1>30 DEF Reincarnate, DeadHaveNoBody
    <2>2. CASE (\A d \in Desc : name[d] = n => state[d] = "PLYNG")
               /\ UNCHANGED state /\ loose' = [loose EXCEPT ![n] = @ + 1]
        <3>1. \A d \in Desc : name[d] # n
            BY <2>1, <2>2 DEF Playing
        <3>2. loose' = [loose EXCEPT ![n] = 1]
            BY <2>1, <2>2
        <3> QED
            BY <2>1, <2>2, <3>1, <3>2 DEF NoBodyLeft, NameInv, TypeOK, DialogueOK, KnownOf
    <2>3. ASSUME NEW d \in Desc, name[d] = n, Goto(d, "PLYNG"), UNCHANGED loose
          PROVE  NoBodyLeft'
        BY <2>1, <2>3 DEF Goto, NoBodyLeft, NameInv, TypeOK
    <2> QED BY <1>30, <2>2, <2>3 DEF Reincarnate
<1>27. CASE UNCHANGED vars
    BY <1>27 DEF NameInv, TypeOK, DialogueOK, KnownOf, UniqueName, NoBodyLeft, Goto, world, flags, grave, conn, vars
<1> QED
    BY <1>1, <1>2, <1>3, <1>4, <1>5, <1>6, <1>7, <1>8, <1>9, <1>10, <1>11, <1>12, <1>13, <1>14, <1>15, <1>16, <1>17, <1>18, <1>19, <1>20, <1>21, <1>22, <1>23, <1>24, <1>25, <1>26, <1>27, <1>28, <1>29, <1>30
    DEF Next, Login, Creation, MainMenu, InGame, Moves

\* Steps that make no body and nobody dead.
LEMMA NoNewBody ==
    ASSUME NannyInv, NameInv', UNCHANGED <<dead, corpses>>,
           \A n \in Names : file'[n] # None => file[n] # None,
           \A n \in Names : loose'[n] > 0 => loose[n] > 0 \/ Playing(n),
           \A n \in Names : Playing(n)' => loose[n] > 0 \/ Playing(n)
    PROVE  DeadHaveNoBody'
BY DEF NannyInv, NameInv, TypeOK, DeadHaveNoBody

LEMMA StepDeadHaveNoBody ==
    ASSUME NannyInv, NameInv', [Next]_vars, FewBodies
    PROVE  DeadHaveNoBody'
<1> USE SetsOfStates, ConstAssumption DEF NannyInv, FewBodies
<1>1. ASSUME NEW d \in Desc, Moves(d) PROVE DeadHaveNoBody'
    <2>1. PICK from, to \in States : Move(d, from, to) /\ to # "PLYNG"
        BY <1>1, MovesAreMoves
    <2> QED BY <2>1, NoNewBody DEF Move, Goto, world, Playing, NameInv, TypeOK
<1>2. ASSUME NEW d \in Desc, CloseSocket(d) PROVE DeadHaveNoBody'
    BY <1>2, NoNewBody DEF CloseSocket, FreeDescriptor, Goto, world, Playing, NameInv, TypeOK
<1>3. ASSUME NEW d \in Desc, LoseLink(d) PROVE DeadHaveNoBody'
    <2>1. name[d] \in Names /\ Playing(name[d]) /\ file[name[d]] # None
        BY <1>3 DEF LoseLink, Playing, NameInv, DialogueOK, KnownOf
    <2>2. \A n \in Names \ {name[d]} : loose'[n] = loose[n] /\ file'[n] = file[n]
        BY <1>3, <2>1 DEF LoseLink, Saved, NameInv, TypeOK
    <2>3. \A n \in Names : Playing(n)' => Playing(n)
        BY <1>3 DEF LoseLink, FreeDescriptor, Goto, Playing, NameInv, TypeOK
    <2> QED BY <1>3, <2>1, <2>2, <2>3, NoNewBody DEF LoseLink, grave
<1>4. ASSUME NEW d \in Desc, ForceRent(d) PROVE DeadHaveNoBody'
    BY <1>4, NoNewBody
    DEF ForceRent, FreeDescriptor, Goto, Saved, grave, Playing, NameInv, TypeOK, DialogueOK, KnownOf
<1>5. ASSUME NEW d \in Desc, DeleteYes(d) PROVE DeadHaveNoBody'
    BY <1>5, NoNewBody
    DEF DeleteYes, FreeDescriptor, Goto, grave, Playing, NameInv, TypeOK, DialogueOK, KnownOf
<1>6. ASSUME NEW d \in Desc, NEW n \in Names, NmeKnown(d, n) \/ NmeNew(d, n)
      PROVE  DeadHaveNoBody'
    BY <1>6, NoNewBody DEF NmeKnown, NmeNew, Goto, world, Playing, NameInv, TypeOK
<1>7. ASSUME NEW d \in Desc, NmecnfNo(d) PROVE DeadHaveNoBody'
    BY <1>7, NoNewBody DEF NmecnfNo, Goto, world, Playing, NameInv, TypeOK
<1>8. ASSUME NEW d \in Desc, PwdnrmReconnect(d) PROVE DeadHaveNoBody'
    <2>1. name[d] \in Names
        BY <1>8 DEF PwdnrmReconnect, NameInv, DialogueOK, KnownOf
    <2>2. \A n \in Names : Playing(n)' => Playing(n) \/ n = name[d]
        BY <1>8 DEF PwdnrmReconnect, Goto, Playing, NameInv, TypeOK
    <2>3. \A n \in Names : loose'[n] > 0 => loose[n] > 0
        BY <1>8 DEF PwdnrmReconnect, NameInv, TypeOK
    <2> QED BY <1>8, <2>1, <2>2, <2>3, NoNewBody DEF PwdnrmReconnect, grave
<1>9. ASSUME NEW d \in Desc,
             PwdnrmConnect(d) \/ StatList(d) \/ ToMenu(d) \/ AuthWaiting(d)
               \/ \E p \in Pwds : Pwdget(d, p) \/ Pwdnew(d, p)
      PROVE  DeadHaveNoBody'
    <2>1. UNCHANGED <<name, world>> /\ \E s \in States \ {"PLYNG"} : Goto(d, s)
        BY <1>9 DEF PwdnrmConnect, StatList, ToMenu, AuthWaiting, Pwdget, Pwdnew
    <2> QED BY <2>1, NoNewBody DEF Goto, world, Playing, NameInv, TypeOK
<1>10. ASSUME NEW d \in Desc, Qclass(d) \/ AuthAccepted(d) PROVE DeadHaveNoBody'
    <2>1. /\ name[d] \in Names /\ UNCHANGED <<name, corpses, loose>>
          /\ dead' = [dead EXCEPT ![name[d]] = FALSE]
          /\ \E s \in States \ {"PLYNG"} : Goto(d, s)
        BY <1>10 DEF Qclass, AuthAccepted, Create, NameInv, DialogueOK, KnownOf
    <2>2. \A n \in Names \ {name[d]} : file'[n] = file[n] /\ dead'[n] = dead[n]
        BY <1>10, <2>1 DEF Qclass, AuthAccepted, Create, NameInv, TypeOK
    <2>3. \A n \in Names : Playing(n)' => Playing(n)
        BY <2>1 DEF Goto, Playing, NameInv, TypeOK
    <2>4. ~dead'[name[d]]
        BY <2>1 DEF NameInv, TypeOK
    <2> QED BY <2>1, <2>2, <2>3, <2>4 DEF DeadHaveNoBody
<1>11. ASSUME NEW d \in Desc, SlctEnter(d) PROVE DeadHaveNoBody'
    <2>1. /\ name[d] \in Names /\ UNCHANGED <<name, corpses, loose>>
          /\ dead' = [dead EXCEPT ![name[d]] = FALSE]
        BY <1>11 DEF SlctEnter, NameInv, DialogueOK, KnownOf
    <2>2. \A n \in Names \ {name[d]} : file'[n] = file[n] /\ dead'[n] = dead[n]
        BY <1>11, <2>1 DEF SlctEnter, Saved, NameInv, TypeOK
    <2>3. \A n \in Names : Playing(n)' => Playing(n) \/ n = name[d]
        BY <1>11 DEF SlctEnter, Goto, Playing, NameInv, TypeOK
    <2>4. ~dead'[name[d]]
        BY <2>1 DEF NameInv, TypeOK
    <2> QED BY <2>1, <2>2, <2>3, <2>4 DEF DeadHaveNoBody
<1>12. ASSUME NEW d \in Desc, Save(d) PROVE DeadHaveNoBody'
    BY <1>12, NoNewBody
    DEF Save, Saved, conn, grave, Playing, NameInv, TypeOK, DialogueOK, KnownOf
<1>13. ASSUME NEW d \in Desc, Leave(d) PROVE DeadHaveNoBody'
    BY <1>13, NoNewBody
    DEF Leave, Goto, Saved, grave, Playing, NameInv, TypeOK, DialogueOK, KnownOf
<1>14. ASSUME NEW d \in Desc, Die(d) PROVE DeadHaveNoBody'
    <2>1. /\ name[d] \in Names /\ state[d] = "PLYNG" /\ loose[name[d]] = 0
          /\ UNCHANGED <<name, loose>> /\ Goto(d, "SLCT")
        BY <1>14 DEF Die, NameInv, DialogueOK, KnownOf, NoBodyLeft
    <2>2. \A n \in Names \ {name[d]} :
             file'[n] = file[n] /\ dead'[n] = dead[n] /\ corpses'[n] = corpses[n]
        BY <1>14, <2>1 DEF Die, Saved, NameInv, TypeOK
    <2>3. \A n \in Names : Playing(n)' => Playing(n) /\ n # name[d]
        BY <2>1 DEF Goto, Playing, UniqueName, NameInv, TypeOK
    <2> QED BY <2>1, <2>2, <2>3 DEF DeadHaveNoBody
<1>15. ASSUME NEW d \in Desc, NEW v \in {NEWBIE_START, NEWBIE_AXE}, DoAuth(d, v)
       PROVE  DeadHaveNoBody'
    BY <1>15, NoNewBody DEF DoAuth, world, Playing
<1>16. ASSUME NEW n \in Names, LooseGone(n) PROVE DeadHaveNoBody'
    <2>1. \A m \in Names : loose'[m] > 0 => loose[m] > 0
        BY <1>16 DEF LooseGone, NameInv, TypeOK
    <2> QED BY <1>16, <2>1, NoNewBody DEF LooseGone, conn, grave, Playing
<1>17. ASSUME NEW n \in Names, CorpseDecays(n) PROVE DeadHaveNoBody'
    <2>1. \A m \in Names : corpses'[m] > 0 => corpses[m] > 0
        BY <1>17 DEF CorpseDecays, NameInv, TypeOK
    <2> QED BY <1>17, <2>1 DEF CorpseDecays, conn, DeadHaveNoBody, Playing
<1>18. ASSUME NEW n \in Names, Reincarnate(n) PROVE DeadHaveNoBody'
    <2>1. corpses'[n] = 0 /\ \A m \in Names \ {n} : corpses'[m] = corpses[m]
        BY <1>18 DEF Reincarnate, NameInv, TypeOK
    <2>2. \A m \in Names \ {n} : loose'[m] = loose[m]
        BY <1>18 DEF Reincarnate, NameInv, TypeOK
    <2>3. \A m \in Names \ {n} : Playing(m)' => Playing(m)
        BY <1>18 DEF Reincarnate, Goto, Playing, NameInv, TypeOK
    <2> QED BY <1>18, <2>1, <2>2, <2>3 DEF Reincarnate, DeadHaveNoBody
<1>19. ASSUME NEW n \in Names, DoGhost(n) PROVE DeadHaveNoBody'
    BY <1>19 DEF DoGhost, grave, conn, Playing, DeadHaveNoBody, NameInv, TypeOK
<1>20. CASE DoWizlock \/ DoGodIntervenReq \/ UNCHANGED vars
    BY <1>20, NoNewBody DEF DoWizlock, DoGodIntervenReq, vars, conn, grave, Playing
<1>21. CASE Restart
    BY <1>21 DEF Restart, DeadHaveNoBody
<1> QED
    BY <1>1, <1>2, <1>3, <1>4, <1>5, <1>6, <1>7, <1>8, <1>9, <1>10, <1>11, <1>12, <1>13, <1>14, <1>15, <1>16, <1>17, <1>18, <1>19, <1>20, <1>21
    DEF Next, Login, Creation, MainMenu, InGame, Moves

LEMMA InvariantNanny ==
    ASSUME FewBodies
    PROVE  Spec => []NannyInv
<1>1. Init => NannyInv
    <2>1. Init => NoBodyLeft
        BY SetsOfStates DEF Init, NoBodyLeft
    <2>2. Init => DeadHaveNoBody
        BY DEF Init, DeadHaveNoBody
    <2> QED BY <2>1, <2>2, InitNameInv DEF NannyInv
<1>2. NannyInv /\ [Next]_vars => NannyInv'
    BY StepNameInv, StepNoBodyLeft, StepDeadHaveNoBody DEF NannyInv
<1> QED BY <1>1, <1>2, PTL DEF Spec

\* A player has at most one body in the game.  The inductive invariant says
\* more: behind the password prompt no link-dead body is left.
THEOREM BodiesAreUnique ==
    ASSUME FewBodies
    PROVE  Spec => []OneBody
<1>1. NannyInv => OneBody
    BY SetsOfStates DEF NannyInv, NameInv, TypeOK, NoBodyLeft, OneBody, Playing
<1> QED BY <1>1, InvariantNanny, PTL

-----------------------------------------------------------------------------
(* The dialogue implements PlayerSession.                                  *)

\* What Holder and Playing are, in a state where names are unique.
LEMMA HolderIs ==
    ASSUME UniqueName, NEW d \in Desc, NEW n \in Names, name[d] = n
    PROVE  Holder(n) = d /\ (Playing(n) <=> state[d] = "PLYNG")
BY ConstAssumption DEF UniqueName, Holder, Playing

LEMMA HolderIsNext ==
    ASSUME UniqueName', NEW d \in Desc, NEW n \in Names, name'[d] = n
    PROVE  Holder(n)' = d /\ (Playing(n)' <=> state'[d] = "PLYNG")
BY ConstAssumption DEF UniqueName, Holder, Playing

\* A step of connection d leaves the players alone that d does not name.
LEMMA OthersUnchanged ==
    ASSUME NameInv, NameInv', NEW d \in Desc,
           \A k \in Desc \ {d} : name'[k] = name[k] /\ state'[k] = state[k],
           NEW n \in Names, name[d] # n, name'[d] # n, loose'[n] = loose[n]
    PROVE  Holder(n)' = Holder(n) /\ Body(n)' = Body(n)
<1>1. CASE \E k \in Desc : name[k] = n
    <2>1. PICK k \in Desc : name[k] = n
        BY <1>1
    <2>2. k # d /\ name'[k] = n /\ state'[k] = state[k]
        BY <2>1
    <2>3. Holder(n) = k /\ (Playing(n) <=> state[k] = "PLYNG")
        BY <2>1, HolderIs DEF NameInv
    <2>4. Holder(n)' = k /\ (Playing(n)' <=> state'[k] = "PLYNG")
        BY <2>2, HolderIsNext DEF NameInv
    <2> QED BY <2>2, <2>3, <2>4 DEF Body
<1>2. CASE ~\E k \in Desc : name[k] = n
    <2>1. ~\E k \in Desc : name'[k] = n
        BY <1>2
    <2> QED BY <1>2, <2>1 DEF Holder, Body, Playing
<1> QED BY <1>1, <1>2

\* A step that keeps the names, who plays, and the bodies is a stutter.
LEMMA Stutters ==
    ASSUME NameInv, UNCHANGED <<name, loose>>,
           \A d \in Desc : state'[d] = "PLYNG" <=> state[d] = "PLYNG"
    PROVE  UNCHANGED Session!svars
<1>1. \A n \in Names : Playing(n)' = Playing(n)
    BY DEF Playing
<1>2. \A n \in Names : Body(n)' = Body(n)
    BY <1>1 DEF Body
<1>3. \A n \in Names : Holder(n)' = Holder(n)
    BY DEF Holder
<1> QED BY <1>2, <1>3 DEF Session!svars

\* The abstract state before and after a step of d that concerns player n.
LEMMA StepOf ==
    ASSUME NEW d \in Desc, NEW n \in Names, NEW h, NEW b,
           \A m \in Names \ {n} : Holder(m)' = Holder(m) /\ Body(m)' = Body(m),
           Holder(n)' = h, Body(n)' = b
    PROVE  /\ [m \in Names |-> Holder(m)]' = [[m \in Names |-> Holder(m)] EXCEPT ![n] = h]
           /\ [m \in Names |-> Body(m)]' = [[m \in Names |-> Body(m)] EXCEPT ![n] = b]
OBVIOUS

LEMMA ClaimStep ==
    ASSUME NameInv, NameInv', NEW d \in Desc, NEW n \in Names,
           NmeKnown(d, n) \/ NmeNew(d, n)
    PROVE  Session!Claim(d, n)
<1>1. state[d] = "NME" /\ name[d] = None /\ ~NameTaken(d, n)
    BY SetsOfStates DEF NmeKnown, NmeNew, NameInv, DialogueOK, KnownOf
<1>2. /\ name' = [name EXCEPT ![d] = n]
      /\ \E s \in {"PWDNRM", "NMECNF"} : state' = [state EXCEPT ![d] = s]
      /\ loose' = loose
    BY DEF NmeKnown, NmeNew, Goto, world
<1>3. \A k \in Desc : name[k] # n
    BY <1>1, ConstAssumption DEF NameTaken
<1>4. Holder(n) = None /\ ~Playing(n)
    BY <1>3 DEF Holder, Playing
<1>5. name'[d] = n /\ state'[d] # "PLYNG"
    BY <1>2 DEF NameInv, TypeOK
<1>6. Holder(n)' = d /\ ~Playing(n)'
    BY <1>5, HolderIsNext DEF NameInv
<1>7. Body(n)' = Body(n)
    BY <1>2, <1>4, <1>6 DEF Body
<1>8. \A m \in Names \ {n} : Holder(m)' = Holder(m) /\ Body(m)' = Body(m)
    BY <1>1, <1>2, <1>5, OthersUnchanged, ConstAssumption DEF NameInv, TypeOK
<1>9. \A m \in Names : Holder(m) # d
    <2> SUFFICES ASSUME NEW m \in Names, Holder(m) = d PROVE FALSE
        OBVIOUS
    <2>1. PICK k \in Desc : name[k] = m
        BY ConstAssumption DEF Holder
    <2> QED BY <2>1, <1>1, HolderIs, ConstAssumption DEF NameInv
<1> QED
    BY <1>4, <1>6, <1>7, <1>8, <1>9, StepOf DEF Session!Claim, Session!Holds

\* The connection leaves, or drops the name, out of the game.
LEMMA ReleaseStep ==
    ASSUME NameInv, NameInv', NEW d \in Desc, NEW n \in Names,
           name[d] = n, state[d] # "PLYNG",
           name' = [name EXCEPT ![d] = None], loose' = loose,
           \A k \in Desc \ {d} : state'[k] = state[k]
    PROVE  Session!Release(d, n)
<1>1. Holder(n) = d /\ ~Playing(n)
    BY HolderIs DEF NameInv
<1>2. \A k \in Desc : name'[k] # n
    BY ConstAssumption DEF NameInv, TypeOK, UniqueName
<1>3. Holder(n)' = None /\ ~Playing(n)'
    BY <1>2 DEF Holder, Playing
<1>4. Body(n)' = Body(n)
    BY <1>1, <1>3 DEF Body
<1>5. \A m \in Names \ {n} : Holder(m)' = Holder(m) /\ Body(m)' = Body(m)
    BY OthersUnchanged, ConstAssumption DEF NameInv, TypeOK
<1>6. Body(n) # "playing"
    BY <1>1 DEF Body
<1> QED
    BY <1>1, <1>3, <1>4, <1>5, <1>6, StepOf DEF Session!Release, Session!Holds

\* The connection keeps the name, the body comes or goes.
LEMMA BodyStep ==
    ASSUME NameInv, NameInv', NEW d \in Desc, NEW n \in Names,
           name[d] = n, name' = name,
           \A k \in Desc \ {d} : state'[k] = state[k],
           \A m \in Names \ {n} : loose'[m] = loose[m]
    PROVE  /\ [m \in Names |-> Holder(m)][n] = d
           /\ UNCHANGED [m \in Names |-> Holder(m)]
           /\ [m \in Names |-> Body(m)]'
                = [[m \in Names |-> Body(m)] EXCEPT ![n] = Body(n)']
           /\ Playing(n) <=> state[d] = "PLYNG"
           /\ Playing(n)' <=> state'[d] = "PLYNG"
<1>1. Holder(n) = d /\ (Playing(n) <=> state[d] = "PLYNG")
    BY HolderIs DEF NameInv
<1>2. Holder(n)' = d /\ (Playing(n)' <=> state'[d] = "PLYNG")
    BY HolderIsNext DEF NameInv
<1>3. \A m \in Names \ {n} : Holder(m)' = Holder(m) /\ Body(m)' = Body(m)
    BY OthersUnchanged
<1> QED BY <1>1, <1>2, <1>3

\* The connection goes while its player is in the game.
LEMMA LossStep ==
    ASSUME NameInv, NameInv', NEW d \in Desc, NEW n \in Names,
           name[d] = n, state[d] = "PLYNG", FreeDescriptor(d),
           \A m \in Names \ {n} : loose'[m] = loose[m]
    PROVE  /\ [m \in Names |-> Holder(m)][n] = d /\ [m \in Names |-> Body(m)][n] = "playing"
           /\ [m \in Names |-> Holder(m)]'
                = [[m \in Names |-> Holder(m)] EXCEPT ![n] = None]
           /\ [m \in Names |-> Body(m)]'
                = [[m \in Names |-> Body(m)]
                     EXCEPT ![n] = IF loose'[n] > 0 THEN "linkdead" ELSE "absent"]
<1>1. Holder(n) = d /\ Playing(n)
    BY HolderIs DEF NameInv
<1>2. \A k \in Desc : name'[k] # n
    BY ConstAssumption DEF NameInv, TypeOK, UniqueName, FreeDescriptor
<1>3. Holder(n)' = None /\ ~Playing(n)'
    BY <1>2 DEF Holder, Playing
<1>4. \A m \in Names \ {n} : Holder(m)' = Holder(m) /\ Body(m)' = Body(m)
    BY OthersUnchanged, ConstAssumption DEF NameInv, TypeOK, FreeDescriptor, Goto
<1>5. Body(n) = "playing" /\ Body(n)' = IF loose'[n] > 0 THEN "linkdead" ELSE "absent"
    BY <1>1, <1>3 DEF Body
<1> QED BY <1>1, <1>3, <1>4, <1>5

LEMMA StepSession ==
    ASSUME NannyInv, NannyInv', [Next]_vars, FewBodies
    PROVE  [Session!SNext]_(Session!svars)
<1> DEFINE Goal == [Session!SNext]_(Session!svars)
<1> USE SetsOfStates, ConstAssumption DEF NannyInv, FewBodies
<1>1. ASSUME NEW d \in Desc, Moves(d) PROVE Goal
    <2>1. PICK from, to \in States :
            Move(d, from, to) /\ (to = "PLYNG" <=> from = "PLYNG")
        BY <1>1 DEF Moves, Connect, NmeRefused, NmecnfYes, Qrace, QraceHelp, EndHelpRace,
            Qsex, QclassHelp, EndHelpClass, QclassAuth, AuthDenied, CheckMageType, Rnewd,
            RmotdGod, SlctDelete, SlctDescribe, SlctStory, SlctPassword, EndDescription,
            DeleteNo, Pwdcnf, Pwdncnf, States, Creating, Menu
    <2> QED BY <2>1, Stutters DEF Move, Goto, world, NameInv, TypeOK
<1>2. ASSUME NEW d \in Desc, CloseSocket(d) PROVE Goal
    <2>1. CASE name[d] = None
        <3>1. name' = name
            BY <1>2, <2>1 DEF CloseSocket, FreeDescriptor, NameInv, TypeOK
        <3> QED BY <1>2, <3>1, Stutters
            DEF CloseSocket, FreeDescriptor, Goto, world, NameInv, TypeOK
    <2>2. CASE name[d] # None
        <3>1. name[d] \in Names
            BY <2>2 DEF NameInv, TypeOK
        <3>2. Session!Release(d, name[d])
            BY <1>2, <3>1, ReleaseStep
            DEF CloseSocket, FreeDescriptor, Goto, world, NameInv, TypeOK
        <3> QED BY <3>1, <3>2 DEF Session!SNext
    <2> QED BY <2>1, <2>2
<1>3. ASSUME NEW d \in Desc, NmecnfNo(d) PROVE Goal
    <2>1. name[d] \in Names
        BY <1>3 DEF NmecnfNo, NameInv, DialogueOK, KnownOf
    <2>2. Session!Release(d, name[d])
        BY <1>3, <2>1, ReleaseStep DEF NmecnfNo, Goto, world, NameInv, TypeOK
    <2> QED BY <2>1, <2>2 DEF Session!SNext
<1>4. ASSUME NEW d \in Desc, DeleteYes(d) PROVE Goal
    <2>1. name[d] \in Names
        BY <1>4 DEF DeleteYes, NameInv, DialogueOK, KnownOf
    <2>2. Session!Release(d, name[d])
        BY <1>4, <2>1, ReleaseStep DEF DeleteYes, FreeDescriptor, Goto, world, NameInv, TypeOK
    <2> QED BY <2>1, <2>2 DEF Session!SNext
<1>5. ASSUME NEW d \in Desc, NEW n \in Names, NmeKnown(d, n) \/ NmeNew(d, n) PROVE Goal
    BY <1>5, ClaimStep DEF Session!SNext
<1>6. ASSUME NEW d \in Desc, PwdnrmReconnect(d) PROVE Goal
    <2>1. PICK n \in Names : name[d] = n
        BY <1>6 DEF PwdnrmReconnect, NameInv, DialogueOK, KnownOf
    <2>2. /\ name' = name
          /\ \A k \in Desc \ {d} : state'[k] = state[k]
          /\ \A m \in Names \ {n} : loose'[m] = loose[m]
          /\ state[d] # "PLYNG" /\ state'[d] = "PLYNG" /\ loose[n] > 0
        BY <1>6, <2>1 DEF PwdnrmReconnect, Goto, flags, NameInv, TypeOK, NoBodyLeft
    <2>4. /\ [m \in Names |-> Holder(m)][n] = d
          /\ UNCHANGED [m \in Names |-> Holder(m)]
          /\ [m \in Names |-> Body(m)]'
                = [[m \in Names |-> Body(m)] EXCEPT ![n] = Body(n)']
          /\ Playing(n) <=> state[d] = "PLYNG"
          /\ Playing(n)' <=> state'[d] = "PLYNG"
        BY <2>1, <2>2, BodyStep
    <2>5. Body(n) = "linkdead" /\ Body(n)' = "playing"
        BY <2>2, <2>4 DEF Body
    <2>6. Session!Resume(d, n)
        BY <2>1, <2>4, <2>5 DEF Session!Resume, Session!Holds
    <2> QED BY <2>1, <2>6 DEF Session!SNext
<1>7. ASSUME NEW d \in Desc, SlctEnter(d) PROVE Goal
    <2>1. PICK n \in Names : name[d] = n
        BY <1>7 DEF SlctEnter, NameInv, DialogueOK, KnownOf
    <2>2. /\ name' = name
          /\ \A k \in Desc \ {d} : state'[k] = state[k]
          /\ \A m \in Names \ {n} : loose'[m] = loose[m]
          /\ state[d] # "PLYNG" /\ state'[d] = "PLYNG" /\ loose[n] = 0
        BY <1>7, <2>1 DEF SlctEnter, Goto, flags, NameInv, TypeOK, NoBodyLeft
    <2>4. /\ [m \in Names |-> Holder(m)][n] = d
          /\ UNCHANGED [m \in Names |-> Holder(m)]
          /\ [m \in Names |-> Body(m)]'
                = [[m \in Names |-> Body(m)] EXCEPT ![n] = Body(n)']
          /\ Playing(n) <=> state[d] = "PLYNG"
          /\ Playing(n)' <=> state'[d] = "PLYNG"
        BY <2>1, <2>2, BodyStep
    <2>5. Body(n) = "absent" /\ Body(n)' = "playing"
        BY <2>2, <2>4 DEF Body
    <2>6. Session!Enter(d, n)
        BY <2>1, <2>4, <2>5 DEF Session!Enter, Session!Holds
    <2> QED BY <2>1, <2>6 DEF Session!SNext
<1>8. ASSUME NEW d \in Desc, Leave(d) PROVE Goal
    <2>1. PICK n \in Names : name[d] = n
        BY <1>8 DEF Leave, NameInv, DialogueOK, KnownOf
    <2>2. /\ name' = name
          /\ \A k \in Desc \ {d} : state'[k] = state[k]
          /\ \A m \in Names \ {n} : loose'[m] = loose[m]
          /\ state[d] = "PLYNG" /\ state'[d] # "PLYNG" /\ loose'[n] = 0
        BY <1>8, <2>1 DEF Leave, Goto, flags, NameInv, TypeOK, NoBodyLeft
    <2>4. /\ [m \in Names |-> Holder(m)][n] = d
          /\ UNCHANGED [m \in Names |-> Holder(m)]
          /\ [m \in Names |-> Body(m)]'
                = [[m \in Names |-> Body(m)] EXCEPT ![n] = Body(n)']
          /\ Playing(n) <=> state[d] = "PLYNG"
          /\ Playing(n)' <=> state'[d] = "PLYNG"
        BY <2>1, <2>2, BodyStep
    <2>5. Body(n) = "playing" /\ Body(n)' = "absent"
        BY <2>2, <2>4 DEF Body
    <2>6. Session!Leave(d, n)
        BY <2>1, <2>4, <2>5 DEF Session!Leave, Session!Holds
    <2> QED BY <2>1, <2>6 DEF Session!SNext
<1>9. ASSUME NEW d \in Desc, LoseLink(d) PROVE Goal
    <2>1. name[d] \in Names /\ state[d] = "PLYNG" /\ FreeDescriptor(d)
        BY <1>9 DEF LoseLink, NameInv, DialogueOK, KnownOf
    <2>2. loose'[name[d]] > 0 /\ \A m \in Names \ {name[d]} : loose'[m] = loose[m]
        BY <1>9, <2>1 DEF LoseLink, NameInv, TypeOK, NoBodyLeft
    <2>3. ~(loose'[name[d]] > 0) <=> loose'[name[d]] = 0
        BY <2>1 DEF NameInv, TypeOK
    <2>4. Session!Drop(d, name[d])
        BY <2>1, <2>2, <2>3, LossStep DEF Session!Drop, Session!Holds
    <2> QED BY <2>1, <2>4 DEF Session!SNext
<1>10. ASSUME NEW d \in Desc, ForceRent(d) PROVE Goal
    <2>1. name[d] \in Names /\ state[d] = "PLYNG" /\ FreeDescriptor(d)
        BY <1>10 DEF ForceRent, NameInv, DialogueOK, KnownOf
    <2>2. loose'[name[d]] = 0 /\ \A m \in Names \ {name[d]} : loose'[m] = loose[m]
        BY <1>10, <2>1 DEF ForceRent, NameInv, TypeOK, NoBodyLeft
    <2>3. ~(loose'[name[d]] > 0) <=> loose'[name[d]] = 0
        BY <2>1 DEF NameInv, TypeOK
    <2>4. Session!Eject(d, name[d])
        BY <2>1, <2>2, <2>3, LossStep DEF Session!Eject, Session!Holds
    <2> QED BY <2>1, <2>4 DEF Session!SNext
<1>11. ASSUME NEW d \in Desc, PwdnrmConnect(d) PROVE Goal
    BY <1>11, Stutters DEF PwdnrmConnect, Goto, world, conn, flags, NameInv, TypeOK
<1>12. ASSUME NEW d \in Desc, StatList(d) PROVE Goal
    BY <1>12, Stutters DEF StatList, Goto, world, conn, flags, NameInv, TypeOK
<1>13. ASSUME NEW d \in Desc, ToMenu(d) PROVE Goal
    BY <1>13, Stutters DEF ToMenu, Goto, world, conn, flags, NameInv, TypeOK
<1>14. ASSUME NEW d \in Desc, AuthWaiting(d) PROVE Goal
    BY <1>14, Stutters DEF AuthWaiting, Goto, world, conn, flags, NameInv, TypeOK
<1>15. ASSUME NEW d \in Desc, Save(d) PROVE Goal
    BY <1>15, Stutters DEF Save, Goto, world, conn, flags, NameInv, TypeOK
<1>16. ASSUME NEW d \in Desc, Qclass(d) PROVE Goal
    BY <1>16, Stutters DEF Qclass, Create, Goto, flags, NameInv, TypeOK
<1>17. ASSUME NEW d \in Desc, AuthAccepted(d) PROVE Goal
    BY <1>17, Stutters DEF AuthAccepted, Create, Goto, flags, NameInv, TypeOK
<1>18. ASSUME NEW d \in Desc, NEW p \in Pwds, Pwdget(d, p) PROVE Goal
    BY <1>18, Stutters DEF Pwdget, Goto, world, NameInv, TypeOK
<1>19. ASSUME NEW d \in Desc, NEW p \in Pwds, Pwdnew(d, p) PROVE Goal
    BY <1>19, Stutters DEF Pwdnew, Goto, world, NameInv, TypeOK
<1>20. ASSUME NEW d \in Desc, NEW v \in {NEWBIE_START, NEWBIE_AXE}, DoAuth(d, v) PROVE Goal
    BY <1>20, Stutters DEF DoAuth, world, NameInv, TypeOK
<1>21. ASSUME NEW n \in Names, LooseGone(n) PROVE Goal
    <2>0. loose[n] \in Nat /\ loose[n] <= 1 /\ loose[n] > 0
        BY <1>21 DEF LooseGone, NameInv, TypeOK, NoBodyLeft
    <2>1. loose[n] = 1 /\ loose' = [loose EXCEPT ![n] = 0] /\ UNCHANGED <<name, state>>
        <3>1. loose[n] = 1 /\ loose[n] - 1 = 0
            BY <2>0
        <3> QED BY <1>21, <3>1 DEF LooseGone, conn
    <2>2. \A m \in Names : Playing(m)' = Playing(m) /\ Holder(m)' = Holder(m)
        BY <2>1 DEF Playing, Holder
    <2>3. ~Playing(n)
        BY <2>1 DEF Playing, NameInv, TypeOK, NoBodyLeft
    <2>4. Body(n) = "linkdead" /\ Body(n)' = "absent"
        BY <2>1, <2>2, <2>3 DEF Body, NameInv, TypeOK
    <2>5. \A m \in Names \ {n} : Body(m)' = Body(m)
        BY <2>1, <2>2 DEF Body, NameInv, TypeOK
    <2>6. Session!Vanish(n)
        BY <2>2, <2>4, <2>5 DEF Session!Vanish
    <2> QED BY <2>6 DEF Session!SNext
<1>22. ASSUME NEW n \in Names, DoGhost(n) PROVE Goal
    <2>1. /\ \A d \in Desc : name[d] # n
          /\ ~Playing(n) /\ loose[n] = 0
          /\ loose' = [loose EXCEPT ![n] = 1] /\ UNCHANGED <<name, state>>
        BY <1>22 DEF DoGhost, conn
    <2>2. \A m \in Names : Holder(m)' = Holder(m) /\ (Playing(m)' <=> Playing(m))
        BY <2>1 DEF Holder, Playing
    <2>3. loose'[n] = 1 /\ \A m \in Names \ {n} : loose'[m] = loose[m]
        BY <2>1 DEF NameInv, TypeOK
    <2>4. Holder(n) = None /\ Body(n) = "absent" /\ Body(n)' = "linkdead"
        BY <2>1, <2>2, <2>3 DEF Holder, Body
    <2>5. \A m \in Names \ {n} : Body(m)' = Body(m)
        BY <2>2, <2>3 DEF Body
    <2>6. Session!Appear(n)
        BY <2>2, <2>4, <2>5 DEF Session!Appear
    <2> QED BY <2>6 DEF Session!SNext
<1>23. CASE DoWizlock
    BY <1>23, Stutters DEF DoWizlock, conn, NameInv, TypeOK
<1>24. CASE DoGodIntervenReq
    BY <1>24, Stutters DEF DoGodIntervenReq, conn, NameInv, TypeOK
<1>25. CASE Restart
    <2>1. \A m \in Names : ~Playing(m)' /\ loose'[m] = 0 /\ Holder(m)' = None
        BY <1>25 DEF Restart, Playing, Holder
    <2>2. \A m \in Names : Body(m)' = "absent"
        BY <2>1 DEF Body
    <2> QED BY <2>1, <2>2 DEF Session!SNext, Session!Restart
<1>26. CASE UNCHANGED vars
    BY <1>26, Stutters DEF vars, NameInv, TypeOK
<1>27. ASSUME NEW d \in Desc, Die(d) PROVE Goal
    <2>1. PICK n \in Names : name[d] = n
        BY <1>27 DEF Die, NameInv, DialogueOK, KnownOf
    <2>2. /\ name' = name
          /\ \A k \in Desc \ {d} : state'[k] = state[k]
          /\ \A m \in Names \ {n} : loose'[m] = loose[m]
          /\ state[d] = "PLYNG" /\ state'[d] # "PLYNG" /\ loose'[n] = 0
        BY <1>27, <2>1 DEF Die, Goto, flags, NameInv, TypeOK, NoBodyLeft
    <2>4. /\ [m \in Names |-> Holder(m)][n] = d
          /\ UNCHANGED [m \in Names |-> Holder(m)]
          /\ [m \in Names |-> Body(m)]'
                = [[m \in Names |-> Body(m)] EXCEPT ![n] = Body(n)']
          /\ Playing(n) <=> state[d] = "PLYNG"
          /\ Playing(n)' <=> state'[d] = "PLYNG"
        BY <2>1, <2>2, BodyStep
    <2>5. Body(n) = "playing" /\ Body(n)' = "absent"
        BY <2>2, <2>4 DEF Body
    <2>6. Session!Leave(d, n)
        BY <2>1, <2>4, <2>5 DEF Session!Leave, Session!Holds
    <2> QED BY <2>1, <2>6 DEF Session!SNext
<1>28. ASSUME NEW n \in Names, CorpseDecays(n) PROVE Goal
    BY <1>28, Stutters DEF CorpseDecays, conn, NameInv, TypeOK
<1>29. ASSUME NEW n \in Names, Reincarnate(n) PROVE Goal
    <2>1. loose[n] = 0 /\ ~Playing(n) /\ name' = name
        BY <1>29 DEF Reincarnate, DeadHaveNoBody
    <2>2. ASSUME NEW d \in Desc, name[d] = n, Goto(d, "PLYNG"), UNCHANGED loose PROVE Goal
        <3>1. /\ [m \in Names |-> Holder(m)][n] = d
              /\ UNCHANGED [m \in Names |-> Holder(m)]
              /\ [m \in Names |-> Body(m)]'
                    = [[m \in Names |-> Body(m)] EXCEPT ![n] = Body(n)']
              /\ Playing(n)' <=> state'[d] = "PLYNG"
            BY <2>1, <2>2, BodyStep DEF Goto, NameInv, TypeOK
        <3>2. Body(n) = "absent" /\ Body(n)' = "playing"
            BY <2>1, <2>2, <3>1 DEF Body, Goto, NameInv, TypeOK
        <3>3. Session!Enter(d, n)
            BY <3>1, <3>2 DEF Session!Enter, Session!Holds
        <3> QED BY <3>3 DEF Session!SNext
    <2>3. CASE /\ \A d \in Desc : name[d] = n => state[d] = "PLYNG"
               /\ loose' = [loose EXCEPT ![n] = @ + 1] /\ UNCHANGED state
        <3>1. \A d \in Desc : name[d] # n
            BY <2>1, <2>3 DEF Playing
        <3>2. \A m \in Names : Holder(m)' = Holder(m) /\ (Playing(m)' <=> Playing(m))
            BY <2>1, <2>3 DEF Holder, Playing
        <3>3. loose'[n] = 1 /\ \A m \in Names \ {n} : loose'[m] = loose[m]
            BY <2>1, <2>3 DEF NameInv, TypeOK
        <3>4. Holder(n) = None /\ Body(n) = "absent" /\ Body(n)' = "linkdead"
            BY <2>1, <3>1, <3>2, <3>3 DEF Holder, Body
        <3>5. \A m \in Names \ {n} : Body(m)' = Body(m)
            BY <3>2, <3>3 DEF Body
        <3>6. Session!Appear(n)
            BY <3>2, <3>4, <3>5 DEF Session!Appear
        <3> QED BY <3>6 DEF Session!SNext
    <2> QED BY <1>29, <2>2, <2>3 DEF Reincarnate
<1> QED
    BY <1>1, <1>2, <1>3, <1>4, <1>5, <1>6, <1>7, <1>8, <1>9, <1>10, <1>11, <1>12, <1>13, <1>14, <1>15, <1>16, <1>17, <1>18, <1>19, <1>20, <1>21, <1>22, <1>23, <1>24, <1>25, <1>26, <1>27, <1>28, <1>29
    DEF Next, Login, Creation, MainMenu, InGame, Moves

LEMMA InitSession == Init => Session!SInit
BY SetsOfStates, ConstAssumption DEF Init, Session!SInit, Holder, Body, Playing

\* The login dialogue implements the abstract sessions: one holder per name and
\* one body per player, entered, resumed, left and dropped as PlayerSession says.
THEOREM NannyImplementsSession ==
    ASSUME FewBodies
    PROVE  Spec => ImplementsSession
<1>1. NannyInv /\ NannyInv' /\ [Next]_vars => [Session!SNext]_(Session!svars)
    BY StepSession
<1> QED
    BY <1>1, InitSession, InvariantNanny, PTL DEF Spec, ImplementsSession, Session!SSpec
=============================================================================
