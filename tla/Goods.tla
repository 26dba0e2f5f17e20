-------------------------------- MODULE Goods --------------------------------
(***************************************************************************)
(* What survives a crash.  Objects and coins live in memory; on disk there *)
(* are, of each player, the rent file with the objects and the character   *)
(* file with the coins, further the files of the rooms that save their     *)
(* contents and of the guilds' treasuries.  The game writes them command   *)
(* by command (NODUPLICATES), each file after the other, and whenever it   *)
(* stops it goes on from what they hold.                                   *)
(*                                                                         *)
(* A command changes the memory and queues the files it writes, with what  *)
(* it writes, in the order the code writes them; no other command runs     *)
(* before they are written, but the game may stop between any two writes.  *)
(* What is worn, contained or junk (module Rent) is not told apart here:    *)
(* an object is in a player's possession or it is not.  held[i] is the set *)
(* of all who have a copy of object i, so that duplicates can be seen.     *)
(***************************************************************************)
EXTENDS Naturals, FiniteSets, Sequences, FiniteSetsExt

CONSTANTS Players,
          Items,
          Purse,         \* coins each player begins with
          MaxMade        \* bound: coins that may come into doubt (see made)

ASSUME GoodsAssumption ==
    /\ Players \cap {"floor", "store", "mobile"} = {}
    /\ IsFiniteSet(Players)
    /\ Purse \in Nat /\ MaxMade \in Nat

Holders == Players \cup {"floor",    \* somewhere in a room, also in a corpse
                         "store",    \* a room with SAVE_ROOM
                         "mobile"}   \* shopkeepers and other mobiles

Record == [gold: Nat, bank: Nat]

Writes == [to: {"rent"}, who: Players, what: SUBSET Items]
          \cup [to: {"char"}, who: Players, what: Record]
          \cup [to: {"room"}, who: {"store"}, what: SUBSET Items]

VARIABLES held,          \* who has a copy of the object, in memory
          coins,         \* GET_GOLD and GET_BANK
          loose,         \* coins lying in rooms and corpses
          online,        \* players in the game
          linked,        \* those of them that have a descriptor
          todo,          \* the writes the current command has still to do
          vault,         \* the objects in RENT_DIR/player
          file,          \* the coins in PLAYERS_DIR/player.dat
          shelf,         \* the objects in world/room
          guild,         \* the coins in GUILD_DIR/guild
          hasty,         \* history: objects moved by a command that does
                         \* not write all it changed, or in the wrong order
          made           \* history: coins moved so, and coins mobiles paid

memory == <<held, coins, loose, online, linked>>
disk == <<vault, file, shelf, guild>>
vars == <<held, coins, loose, online, linked, todo, vault, file, shelf, guild,
          hasty, made>>

TypeOK == /\ held \in [Items -> SUBSET Holders]
          /\ coins \in [Players -> Record]
          /\ loose \in Nat
          /\ online \subseteq Players
          /\ linked \subseteq online
          /\ todo \in Seq(Writes)
          /\ vault \in [Players -> SUBSET Items]
          /\ file \in [Players -> Record]
          /\ shelf \subseteq Items
          /\ guild \in Nat
          /\ hasty \subseteq Items
          /\ made \in Nat

\* The game starts with some objects in the room that is saved.
Init == /\ shelf \in SUBSET Items
        /\ held = [i \in Items |-> IF i \in shelf THEN {"store"} ELSE {"floor"}]
        /\ coins = [p \in Players |-> [gold |-> 0, bank |-> 0]]
        /\ loose = 0
        /\ online = {}
        /\ linked = {}
        /\ todo = <<>>
        /\ vault = [p \in Players |-> {}]
        /\ file = [p \in Players |-> [gold |-> Purse, bank |-> 0]]
        /\ guild = 0
        /\ hasty = {}
        /\ made = 0

-----------------------------------------------------------------------------
(* What commands are made of.                                              *)

Had(h, x) == {i \in Items : x \in h[i]}

Moved(S, a, b) ==
    [i \in Items |-> IF i \in S THEN (held[i] \ {a}) \cup {b} ELSE held[i]]

Lost(S, a) == [i \in Items |-> IF i \in S THEN held[i] \ {a} ELSE held[i]]

Spend(c, p, n) == [c EXCEPT ![p].gold = @ - n]
Earn(c, p, n) == [c EXCEPT ![p].gold = @ + n]

\* save_obj: all the player has, in the rent file.
SaveObj(p, h) == <<[to |-> "rent", who |-> p, what |-> Had(h, p)]>>

\* ZeroRent: an empty rent file.
ZeroRent(p) == <<[to |-> "rent", who |-> p, what |-> {}]>>

\* save_char: returns without writing when there is no descriptor.
SaveChar(p, c, L) ==
    IF p \in L THEN <<[to |-> "char", who |-> p, what |-> c[p]]>> ELSE <<>>

DoSave(p, h, c) == SaveObj(p, h) \o SaveChar(p, c, linked)

\* save_room: the file is left alone when the room is empty.
SaveRoom(h) ==
    IF Had(h, "store") = {} THEN <<>>
    ELSE <<[to |-> "room", who |-> "store", what |-> Had(h, "store")]>>

\* Commands run one after the other, and only players in the game have them
\* carried out.
Commands(p) == todo = <<>> /\ p \in linked

-----------------------------------------------------------------------------
(* Getting, dropping, giving.                                              *)

\* do_get from a room, a corpse or a container in a room.
Get(p, S) ==
    /\ Commands(p)
    /\ S # {} /\ S \subseteq Had(held, "floor")
    /\ held' = Moved(S, "floor", p)
    /\ todo' = DoSave(p, Moved(S, "floor", p), coins)
    /\ UNCHANGED <<coins, loose, online, linked, disk, hasty, made>>

\* do_get in a room that is saved: obj_from_room saves the room first, but
\* when this was the last object in it the old file stays.
GetStored(p, i) ==
    /\ Commands(p)
    /\ "store" \in held[i]
    /\ held' = Moved({i}, "store", p)
    /\ todo' = SaveRoom(Moved({i}, "store", p))
               \o DoSave(p, Moved({i}, "store", p), coins)
    /\ hasty' = IF Had(held, "store") = {i} THEN hasty \cup {i} ELSE hasty
    /\ UNCHANGED <<coins, loose, online, linked, disk, made>>

GetCoins(p) ==
    /\ Commands(p)
    /\ loose > 0
    /\ coins' = Earn(coins, p, loose)
    /\ loose' = 0
    /\ todo' = DoSave(p, held, Earn(coins, p, loose))
    /\ UNCHANGED <<held, online, linked, disk, hasty, made>>

Drop(p, S) ==
    /\ Commands(p)
    /\ S # {} /\ S \subseteq Had(held, p)
    /\ held' = Moved(S, p, "floor")
    /\ todo' = DoSave(p, Moved(S, p, "floor"), coins)
    /\ UNCHANGED <<coins, loose, online, linked, disk, hasty, made>>

\* do_drop in a room that is saved: obj_to_room writes the room's file before
\* the player's.
DropStored(p, i) ==
    /\ Commands(p)
    /\ p \in held[i]
    /\ held' = Moved({i}, p, "store")
    /\ todo' = SaveRoom(Moved({i}, p, "store"))
               \o DoSave(p, Moved({i}, p, "store"), coins)
    /\ hasty' = hasty \cup {i}
    /\ UNCHANGED <<coins, loose, online, linked, disk, made>>

\* do_drop of coins saves nobody.
DropCoins(p, n) ==
    /\ Commands(p)
    /\ n \in 1..coins[p].gold /\ made + n <= MaxMade
    /\ coins' = Spend(coins, p, n)
    /\ loose' = loose + n
    /\ made' = made + n
    /\ UNCHANGED <<held, online, linked, todo, disk, hasty>>

\* do_get and do_put of several things end with a return when a trap goes off,
\* a second corpse is taken hold of, or something cannot be let go: nobody is
\* saved for what has been moved by then.
GetSome(p, S) ==
    /\ Commands(p)
    /\ S # {} /\ S \subseteq Had(held, "floor")
    /\ held' = Moved(S, "floor", p)
    /\ hasty' = hasty \cup S
    /\ UNCHANGED <<coins, loose, online, linked, todo, disk, made>>

PutSome(p, S) ==
    /\ Commands(p)
    /\ S # {} /\ S \subseteq Had(held, p)
    /\ held' = Moved(S, p, "floor")
    /\ hasty' = hasty \cup S
    /\ UNCHANGED <<coins, loose, online, linked, todo, disk, made>>

\* Mutants of do_give: the one who takes is saved first, or not at all.
GiveTakerFirst(p, q, S) ==
    /\ Commands(p)
    /\ q \in online \ {p}
    /\ S # {} /\ S \subseteq Had(held, p)
    /\ held' = Moved(S, p, q)
    /\ todo' = DoSave(q, Moved(S, p, q), coins) \o DoSave(p, Moved(S, p, q), coins)
    /\ UNCHANGED <<coins, loose, online, linked, disk, hasty, made>>

GiveSavesGiver(p, q, S) ==
    /\ Commands(p)
    /\ q \in online \ {p}
    /\ S # {} /\ S \subseteq Had(held, p)
    /\ held' = Moved(S, p, q)
    /\ todo' = DoSave(p, Moved(S, p, q), coins)
    /\ UNCHANGED <<coins, loose, online, linked, disk, hasty, made>>

\* do_give: the giver is saved before the one who takes.
Give(p, q, S) ==
    /\ Commands(p)
    /\ q \in online \ {p}
    /\ S # {} /\ S \subseteq Had(held, p)
    /\ held' = Moved(S, p, q)
    /\ todo' = DoSave(p, Moved(S, p, q), coins) \o DoSave(q, Moved(S, p, q), coins)
    /\ UNCHANGED <<coins, loose, online, linked, disk, hasty, made>>

\* do_give to a mobile: do_save returns at once for it.
GiveMobile(p, S) ==
    /\ Commands(p)
    /\ S # {} /\ S \subseteq Had(held, p)
    /\ held' = Moved(S, p, "mobile")
    /\ todo' = DoSave(p, Moved(S, p, "mobile"), coins)
    /\ UNCHANGED <<coins, loose, online, linked, disk, hasty, made>>

\* do_give all, or more than there are: the loop ends with a return when there
\* is no further object, or when one is refused, and nobody is saved.
GiveAll(p, q, S) ==
    /\ Commands(p)
    /\ q \in (online \cup {"mobile"}) \ {p}
    /\ S # {} /\ S \subseteq Had(held, p)
    /\ held' = Moved(S, p, q)
    /\ hasty' = hasty \cup S
    /\ UNCHANGED <<coins, loose, online, linked, todo, disk, made>>

\* Mutant: the wrong character is saved.
GiveCoinsSavesTaker(p, q, n) ==
    /\ Commands(p)
    /\ q \in online \ {p}
    /\ n \in 1..coins[p].gold
    /\ coins' = Earn(Spend(coins, p, n), q, n)
    /\ todo' = SaveChar(q, Earn(Spend(coins, p, n), q, n), linked)
    /\ UNCHANGED <<held, loose, online, linked, disk, hasty, made>>

\* do_give of coins saves the giver's character only.
GiveCoins(p, q, n) ==
    /\ Commands(p)
    /\ q \in online \ {p}
    /\ n \in 1..coins[p].gold
    /\ coins' = Earn(Spend(coins, p, n), q, n)
    /\ todo' = SaveChar(p, Spend(coins, p, n), linked)
    /\ UNCHANGED <<held, loose, online, linked, disk, hasty, made>>

\* An object that is drunk, eaten, junked or worn out is extracted.
UseUp(p, i) ==
    /\ Commands(p)
    /\ p \in held[i]
    /\ held' = Lost({i}, p)
    /\ UNCHANGED <<coins, loose, online, linked, todo, disk, hasty, made>>

-----------------------------------------------------------------------------
(* Thieves, fighters, shops, banks and guilds.                             *)

\* do_steal: the thief is saved before the victim.
Steal(p, q, i) ==
    /\ Commands(p)
    /\ q \in linked \ {p}
    /\ q \in held[i]
    /\ held' = Moved({i}, q, p)
    /\ todo' = DoSave(p, Moved({i}, q, p), coins) \o DoSave(q, Moved({i}, q, p), coins)
    /\ hasty' = hasty \cup {i}
    /\ UNCHANGED <<coins, loose, online, linked, disk, made>>

\* do_steal of coins saves nobody.
StealCoins(p, q, n) ==
    /\ Commands(p)
    /\ q \in linked \ {p}
    /\ n \in 1..coins[q].gold /\ made + n <= MaxMade
    /\ coins' = Earn(Spend(coins, q, n), p, n)
    /\ made' = made + n
    /\ UNCHANGED <<held, loose, online, linked, todo, disk, hasty>>

\* do_disarm: the weapon falls to the floor, and nobody is saved.
Disarm(p, i) ==
    /\ todo = <<>>
    /\ p \in online
    /\ p \in held[i]
    /\ held' = Moved({i}, p, "floor")
    /\ hasty' = hasty \cup {i}
    /\ UNCHANGED <<coins, loose, online, linked, todo, disk, made>>

\* shopping_sell saves nobody; the keeper's coins come from the zone files.
Sell(p, i, price) ==
    /\ Commands(p)
    /\ p \in held[i]
    /\ made + price <= MaxMade
    /\ held' = Moved({i}, p, "mobile")
    /\ coins' = Earn(coins, p, price)
    /\ made' = made + price
    /\ UNCHANGED <<loose, online, linked, todo, disk, hasty>>

\* shopping_buy of an object that the shop does not produce saves nobody.
Buy(p, i, price) ==
    /\ Commands(p)
    /\ "mobile" \in held[i]
    /\ price <= coins[p].gold
    /\ held' = Moved({i}, "mobile", p)
    /\ coins' = Spend(coins, p, price)
    /\ hasty' = hasty \cup {i}
    /\ UNCHANGED <<loose, online, linked, todo, disk, made>>

\* bank: save_char comes before the coins move.
Deposit(p, n) ==
    /\ Commands(p)
    /\ n \in 1..coins[p].gold
    /\ coins' = [coins EXCEPT ![p].gold = @ - n, ![p].bank = @ + n]
    /\ todo' = SaveChar(p, coins, linked)
    /\ UNCHANGED <<held, loose, online, linked, disk, hasty, made>>

Withdraw(p, n) ==
    /\ Commands(p)
    /\ n \in 1..coins[p].bank
    /\ coins' = [coins EXCEPT ![p].gold = @ + n, ![p].bank = @ - n]
    /\ todo' = SaveChar(p, coins, linked)
    /\ UNCHANGED <<held, loose, online, linked, disk, hasty, made>>

\* GuildDeposit and GuildWithdraw write the guild's file at once, and the
\* player's not at all.
GuildDeposit(p, n) ==
    /\ Commands(p)
    /\ n \in 1..coins[p].gold /\ made + n <= MaxMade
    /\ guild' = guild + n
    /\ coins' = Spend(coins, p, n)
    /\ made' = made + n
    /\ UNCHANGED <<held, loose, online, linked, todo, vault, file, shelf, hasty>>

GuildWithdraw(p, n) ==
    /\ Commands(p)
    /\ n \in 1..guild
    /\ guild' = guild - n
    /\ coins' = Earn(coins, p, n)
    /\ UNCHANGED <<held, loose, online, linked, todo, vault, file, shelf, hasty, made>>

-----------------------------------------------------------------------------
(* Entering and leaving the game.                                          *)

\* load_char_objs: the rent is charged, and who cannot pay it loses all.
Enter(p, charge) ==
    /\ todo = <<>>
    /\ p \notin online
    /\ online' = online \cup {p}
    /\ linked' = linked \cup {p}
    /\ IF charge > file[p].gold
         THEN /\ coins' = [coins EXCEPT ![p] = [file[p] EXCEPT !.gold = 0]]
              /\ todo' = ZeroRent(p) \o SaveChar(p, coins', linked')
              /\ UNCHANGED held
         ELSE /\ coins' = [coins EXCEPT ![p] = [file[p] EXCEPT !.gold = @ - charge]]
              /\ held' = [i \in Items |-> IF i \in vault[p] THEN held[i] \cup {p}
                                          ELSE held[i]]
              /\ todo' = SaveChar(p, coins', linked')
    /\ UNCHANGED <<loose, disk, hasty, made>>

Leaves(p) == /\ online' = online \ {p}
             /\ linked' = linked \ {p}

Broke(p) == [coins EXCEPT ![p] = [gold |-> 0, bank |-> 0]]

\* do_save by command or on becoming idle.
Save(p) ==
    /\ todo = <<>>
    /\ p \in online
    /\ todo' = DoSave(p, held, coins)
    /\ UNCHANGED <<memory, disk, hasty, made>>

\* close_socket saves the player that it leaves linkdead.
LoseLink(p) ==
    /\ Commands(p)
    /\ todo' = DoSave(p, held, coins)
    /\ linked' = linked \ {p}
    /\ UNCHANGED <<held, coins, loose, online, disk, hasty, made>>

Reconnect(p) ==
    /\ todo = <<>>
    /\ p \in online \ linked
    /\ linked' = linked \cup {p}
    /\ UNCHANGED <<held, coins, loose, online, todo, disk, hasty, made>>

\* receptionist
Rent(p) ==
    /\ Commands(p)
    /\ held' = Lost(Had(held, p), p)
    /\ coins' = Broke(p)
    /\ Leaves(p)
    /\ todo' = SaveObj(p, held) \o SaveChar(p, coins, linked)
    /\ UNCHANGED <<loose, disk, hasty, made>>

\* check_idling: the link is cut, which saves the player, before the rent is
\* forced, so the character is not saved again.
ForceRent(p) ==
    /\ todo = <<>>
    /\ p \in online
    /\ held' = Lost(Had(held, p), p)
    /\ coins' = Broke(p)
    /\ Leaves(p)
    /\ todo' = (IF p \in linked THEN DoSave(p, held, coins) ELSE <<>>)
               \o SaveObj(p, held)
    /\ UNCHANGED <<loose, disk, hasty, made>>

\* The same when recep_offer refuses: what the player has stays on the floor,
\* and the rent file stays as it is.
EvictedWithoutRent(p) ==
    /\ todo = <<>>
    /\ p \in online
    /\ held' = Moved(Had(held, p), p, "floor")
    /\ coins' = Broke(p)
    /\ Leaves(p)
    /\ todo' = IF p \in linked THEN DoSave(p, held, coins) ELSE <<>>
    /\ hasty' = hasty \cup Had(held, p)
    /\ UNCHANGED <<loose, disk, made>>

\* do_quit: the rent file is emptied before extract_char drops everything.
Quit(p) ==
    /\ Commands(p)
    /\ held' = Moved(Had(held, p), p, "floor")
    /\ coins' = Broke(p)
    /\ Leaves(p)
    /\ todo' = ZeroRent(p) \o SaveChar(p, coins, linked)
               \o SaveObj(p, Moved(Had(held, p), p, "floor"))
               \o SaveChar(p, coins, linked)
    /\ UNCHANGED <<loose, disk, hasty, made>>

\* raw_kill: objects and coins go into the corpse, then the rent file is
\* emptied and, if there is a link, the character saved without the coins.
Killed(p) == Spend(coins, p, coins[p].gold)

Die(p) ==
    /\ todo = <<>>
    /\ p \in online
    /\ p \notin linked => made + coins[p].gold <= MaxMade
    /\ held' = Moved(Had(held, p), p, "floor")
    /\ loose' = loose + coins[p].gold
    /\ coins' = Broke(p)
    /\ Leaves(p)
    /\ todo' = ZeroRent(p) \o SaveChar(p, Killed(p), linked)
               \o SaveObj(p, Moved(Had(held, p), p, "floor"))
               \o SaveChar(p, Killed(p), linked)
    /\ made' = IF p \in linked THEN made ELSE made + coins[p].gold
    /\ UNCHANGED <<disk, hasty>>

-----------------------------------------------------------------------------
(* The files, the crash and the restart.                                   *)

WriteFile ==
    /\ todo # <<>>
    /\ LET w == Head(todo)
       IN \/ /\ w.to = "rent"
             /\ vault' = [vault EXCEPT ![w.who] = w.what]
             /\ UNCHANGED <<file, shelf>>
          \/ /\ w.to = "char"
             /\ file' = [file EXCEPT ![w.who] = w.what]
             /\ UNCHANGED <<vault, shelf>>
          \/ /\ w.to = "room"
             /\ shelf' = w.what
             /\ UNCHANGED <<vault, file>>
    /\ todo' = Tail(todo)
    /\ UNCHANGED <<memory, guild, hasty, made>>

\* The game stops at any moment and starts again; ReloadRooms puts what the
\* rooms' files hold back into the rooms.
Crash ==
    /\ held' = [i \in Items |-> IF i \in shelf THEN {"store"} ELSE {}]
    /\ coins' = [p \in Players |-> [gold |-> 0, bank |-> 0]]
    /\ loose' = 0
    /\ online' = {}
    /\ linked' = {}
    /\ todo' = <<>>
    /\ UNCHANGED <<disk, hasty, made>>

Prices == 0..Purse

Next ==
    \/ \E p \in Players :
        \/ \E S \in SUBSET Items : \/ Get(p, S) \/ Drop(p, S) \/ GiveMobile(p, S)
                                \/ GetSome(p, S) \/ PutSome(p, S)
        \/ \E i \in Items : \/ GetStored(p, i) \/ DropStored(p, i)
                            \/ Disarm(p, i) \/ UseUp(p, i)
                            \/ \E c \in Prices : Sell(p, i, c) \/ Buy(p, i, c)
        \/ \E n \in 1..MaxMade : \/ DropCoins(p, n) \/ GuildDeposit(p, n)
                                 \/ GuildWithdraw(p, n)
                                 \/ Deposit(p, n) \/ Withdraw(p, n)
        \/ \E q \in Players \cup {"mobile"}, S \in SUBSET Items : GiveAll(p, q, S)
        \/ \E q \in Players : \/ \E S \in SUBSET Items : Give(p, q, S)
                              \/ \E i \in Items : Steal(p, q, i)
                              \/ \E n \in 1..MaxMade : GiveCoins(p, q, n) \/ StealCoins(p, q, n)
        \/ \E c \in Prices : Enter(p, c)
        \/ GetCoins(p) \/ Save(p) \/ LoseLink(p) \/ Reconnect(p)
        \/ Rent(p) \/ ForceRent(p) \/ EvictedWithoutRent(p) \/ Quit(p) \/ Die(p)
    \/ WriteFile
    \/ Crash

Spec == Init /\ [][Next]_vars

-----------------------------------------------------------------------------
(* Properties.  They speak of the moments at which no write is pending,    *)
(* which include the one after every crash.                                *)

AtRest == todo = <<>>

Owners(i) == held[i] \cup {p \in Players \ online : i \in vault[p]}

\* "To modify some commands to make item duplication near impossible"
\* (src/src/Makefile:66): wherever the game stops between two writes, an object
\* that no hasty command moved never has two owners, in the game or in the
\* files of players that are out of it.
OneOwner == AtRest => \A i \in Items \ hasty : Cardinality(Owners(i)) <= 1

\* Nor is it lost: what a player has in the game, and no hasty command moved,
\* is in the player's file, so that a crash leaves it to the player.
KeptIsSaved ==
    AtRest => \A i \in Items \ hasty : \A p \in online :
                  p \in held[i] => i \in vault[p]

\* The coins of the players, the loose ones and those of the guild.
Wealth(r) == r.gold + r.bank
Purses == [p \in Players |-> Wealth(IF p \in online THEN coins[p] ELSE file[p])]
Worth == MapThenSumSet(LAMBDA p : Purses[p], Players) + loose + guild

\* No command, save or crash doubles coins: between two commands there are
\* never more of them than there were at first, mobiles paid, and commands
\* moved that write only one of the files they change.
CoinsNotDoubled == AtRest => Worth <= Cardinality(Players) * Purse + made

=============================================================================
