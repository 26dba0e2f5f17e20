# A verification project for OpenLeu

OpenLeu (BenemMUD) is a multi-player text game server in C: one process, one
thread, a `select` loop that makes four passes a second, and some 115 000 lines
in `src/src`. It has no tests. What can go wrong without anybody noticing is
where two pieces of state must agree: the pointers between connections and
bodies, lists that are edited while they are walked, relations kept at both
ends, sums kept beside lists, files that are written by some commands and read
years later. This project models those parts in TLA+, checks them with TLC on
small instances, and proves most of what the runs check with TLAPS for every
instance.

The process is single-threaded, so the interleaving that matters is not one of
threads: it is the order in which the game loop serves connections, commands and
timers, and in which links break and the process dies. One action of a module is
one uninterrupted run of a handler (one line of input, one pulse of a timer, one
turn of a loop), or one write to a file where the process may die in between.

Contents: [1 The system](#1-the-system) · [2 The modules](#2-the-modules) ·
[3 The runs](#3-the-runs) · [4 The proofs](#4-the-proofs) ·
[5 What the work found](#5-what-the-work-found) ·
[6 What is not modelled](#6-what-is-not-modelled) · [7 The plan](#7-the-plan)

## 1 The system

```
 sockets            comm.c                interpreter.c              the game
 ───────  game_loop ──────── descriptor ── nanny (CON_* states) ── command_interpreter
            │  close_socket   d->character     │                        │
            │  new_descriptor d->original      │ load_char, save_char   │ handler.c: obj_to_char,
            │                 d->snoop         │ load_char_objs         │   equip_char, extract_char
            │                     ▲            ▼                        ▼
            │                 ch->desc, ch->orig          character_list, object_list, combat_list
            └─ pulses: perform_violence, point_update (check_idling), zone_update, affect_update
                                   │
            files: player file (db.c) and rent file (reception.c) of each player, mail, treasuries
```

| Component | Source | State | Correct when | Module |
|---|---|---|---|---|
| Login dialogue | `interpreter.c` nanny, `comm.c`, `db.c` | `d->connected`, `d->character`, `d->pwd`, approval counter, player file | a name is held by one connection, a player has one body, passwords and approvals are respected | `Nanny` |
| Connections and bodies | `comm.c`, `act.wizard.c`, `handler.c`, `limits.c` | `d->character`, `d->original`, `ch->desc`, `ch->orig`, `d->snoop` | the pointers are inverse to each other; the player finds the body it left | `Link` |
| Game loop | `comm.c` | `descriptor_list`, `next_to_process`, input queues, `wait` | the loop's pointers lead to nobody freed, or back into the list; nobody is skipped or repeated; lines are served | `GameLoop` |
| Objects | `handler.c`, `act.obj1.c`, `act.obj2.c` | four lists and their back pointers, weights and counters | an object is in one place, lists and pointers agree, nothing weighs too little | `Objects` |
| Rent | `reception.c` | the rent file, `MAX_OBJ_SAVE` elements | nothing is duplicated or lost, everything comes back where it was or, refused, lies at the player's feet | `Rent` |
| Player persistence | `db.c`, `act.other.c` and all commands that move goods | player file, rent file, treasuries | a crash between two writes duplicates nothing and loses nothing that was settled | `Goods` |
| Combat | `fight.c`, `act.off.c` | `combat_list`, `fighting`, `attackers`, positions | the list is exactly the fighters; the dead are gone; a round ends | `Fights`, `Combat` |
| Followers, charm, mounts | `utility.c`, `handler.c` | `master`, `followers`, `mounted_on`, `ridden_by` | both ends agree through every death, flight and fall | `Fights`, `Combat` |
| Zone reset | `db.c`, `act.move.c` | reset tables, queue, ages, population and rarity counters, doors | limits are respected, both sides of a door agree, zones are reset | `Zone` |
| Affects | `handler.c`, `db.c` | affect list, worn objects, scores, bits | what is added is taken away again | `Affects` |
| Spells | `magic*.c`, `mindskills1.c`, `spells*.c`, `spell_parser.c` | everything above of all in a room | a spell leaves no loose tie, nobody goes on with the dead, friends are spared | `Spells` ... `Deeds` |
| Mail | `mail.c` | a file of chained blocks, a free list, an index | a set of mailboxes | `Mail` |
| Shops, guilds | `shop.c`, `gilde.c` | goods, coins, treasury | as for persistence | partly, in `Goods` |
| Boards, mobile behaviour, skills, weather, editors, traps, process support | see `PROJECT.json` | – | mostly content | – |

They interact in three ways. **Pointers**: a descriptor and a body point to each
other, and `close_socket`, `do_return`, `extract_char` and the reconnection in
`nanny` each change one end and trust the others for the rest; the same holds
for fights, followers, mounts and objects. **Calls from below**: killing a mobile
(`fight.c`) extracts a body (`handler.c`), which stops fights, dismisses
followers, drops objects, and sends a connection back to its own body
(`act.wizard.c`) or to the menu (`interpreter.c`). **Files**: what a session leaves
behind meets the next one through the player file and the rent file only.

What is hard is therefore (a) a fact read at one prompt and used at another one,
much later; (b) two ends of a relation changed in different files; (c) lists
edited while they are walked; (d) something left behind when its owner is
destroyed; (e) a file written at some moments and read at others. The `hazards` of
`PROJECT.json` list them by line, with the properties that cover each. Two have none
that a run checks: a password change given up in the menu, which is proved instead
(`PasswordsStored`), and the extraction of the body of a switched player
(`handler.c:1941`), where the code does not keep what one would state (section 5).

## 2 The modules

| Module | What it is | Proofs |
|---|---|---|
| `PlayerSession` | abstract: a name has one holder, a player one body, and how the two may change | |
| `Nanny` | the login dialogue; implements `PlayerSession` | `NannyProofs` |
| `Link` | connections and bodies; implements `PlayerSession` too, from the other side | `LinkAffectsProofs` |
| `GameLoop` | the walks of the server over `descriptor_list` | `LoopRentProofs` |
| `Objects` | places, back pointers, weights, hands | `ObjectsProofs` |
| `Rent` | possessions and the rent file | `LoopRentProofs` |
| `Goods` | what survives a crash | `GoodsProofs` |
| `Fights` | fights, followers and mounts as operators on a world | `CombatProofs` |
| `Combat` | the commands, events and rounds over `Fights` | `CombatProofs` |
| `Zone` | resets, populations, rare objects, doors | `ZoneProofs` |
| `Affects` | the scores of one character through wearing, casting, saving | `LinkAffectsProofs` |
| `Mailboxes`, `Mail` | abstract mailboxes; the block file that implements them | `MailProofs` |
| `Spells` | what spells are made of, over `Fights` | |
| `Magic1`, `Magic2`, `Magic3`, `Mind` | the spells of `magic.c`, `magic2.c`, `magic3.c`, `mindskills1.c` | |
| `Casting`, `SpellBook` | the rows of `spell_info`, the wrappers, which spell each calls | |
| `Items`, `Deeds` | potions, scrolls, wands and staffs of the world's files; casting and using them | |

`MC...` modules give the constants their values for TLC. Operators with `Mutant:`
above them are variants of the operator that follows, as a plausible slip in the code
would make it: `PROJECT.json` names, for every property, the variant under which TLC
finds it violated. No specification uses them.

Two styles are used. `Nanny`, `Link`, `GameLoop`, `Goods` and `Mail` have a
variable for each piece of state. In `Objects`, `Rent`, `Fights`, `Zone`, `Affects` and the
spells the state of memory is one record (`world`), and the functions of the code are operators
from worlds to worlds (or to sets of worlds, where dice are thrown), so that a command
is the composition of the calls it makes, in the order it makes them.

**PlayerSession.** Two functions from player names: `holder`, the connection that logs
in or plays under the name, and `body`: absent, link-dead, or playing. A name can be
claimed only if nobody holds it, a body entered only if there is none, resumed only if
it is link-dead. It has no counterpart in one place of the code; it is what `nanny`'s
comment "Check if already playing" and the reconnection code achieve together.

**Nanny.** One connection is `state`, `name`, `pwd` and `generic` (`d->connected`, the name
of `d->character`, `d->pwd`, and the approval counter `d->character->generic`). Every
CON_* state the code assigns is a state, every outcome of its prompt an action named
after it (`NmeKnown`, `Pwdcnf`, `AuthWaiting`, `SlctEnter`, ...). A player's file is
its password and whether it is a god; `dead` is `talks[2]`; `loose[n]` counts the
bodies of a player in the game that no connection commands. Outside the dialogue the
module has saving, quitting, dying, idling out, link loss, reincarnation, `do_auth`,
`do_wizlock`, `do_god_interven`, `do_ghost` and the restart. Race, sex, statistics and class
are reduced to the states they pass through; a wrong answer that repeats the question
is no step.

**Link.** The four pointers, the two of the snoop structure, and `inGame`. `older[m]` is the
set of players behind the mobile `m` in `character_list`, the only thing the order of
that list matters for (the reconnection takes the first body that fits). The dialogue
up to the password is one step, `Claim`. `Extract(gone)` is what `extract_char_smarter`
does to the world, `BackToMenu` and `Free` what becomes of the connection; the departures
combine them as the callers do. `Unsnoop` follows `snooping->desc` as the code does,
without a test.

**GameLoop.** The linked list itself: `descriptor_list`, `next`, and `live`, the allocated
descriptors. `phase` is the loop that runs, `point` the descriptor it looks at,
`next_to_process` the global of that name, `walker` the local of the two other loops
that close descriptors. One action is one turn of a loop, but where two loops read `d->next`
after `close_socket( d )` has freed `d` (`comm.c:1282-1286`, `act.wizard.c:3459-3461`) the
free (`Evict`, `Purge`) and the read (`EvictOn`, `PurgeOn`) are two: in between `walker` is a
descriptor that is not in `live`. What the read finds is undefined. Nothing is allocated
in between, so either the memory still says what it said, or the process dies
(`FreedLost`). `WalkIsSafe` says of the two other pointers that they are never freed ones, and
of `walker` that it may be, in these two loops only, and then leads back to a live one.

**Objects.** Each of the thirteen fields of `world` is a list, a pointer or a count of the
code. The operators are the functions of `handler.c` and what is built on them
(`MakeScrap`, `MakeCorpse`, falling in the air, decay); where the code loops over the
objects of one place the operator takes the set of them. Of the wear positions those
four are kept that compete for two hands. Wear-out, ego formulas and messages are left
out; what is worn by whom changes affects in `Affects`.

**Rent.** `world` is where the objects are: `carrying`, `worn` and `contains` are the forest of a
player's possessions, `floor` the rest of the game. `file` is the rent file: each object's depth
and position, in the order `save_obj` writes. `obj_to_store` calls itself for what an object
contains and then for the next object; `Storing` is that recursion as a loop over the calls still
to be made, `ObjToStore` one of them, and `StoreTurns` as many as there can be. `Restored` is
one turn of the loop of `obj_store_to_char`, whose limit of 60 levels is `MaxDepth`. The code
stores the position of a worn object in the next free element *before* it knows whether the
object is written; `wearpos` in the state of the loop is that element's. Junk is skipped but its
contents are not, one level deeper.
`equip_char` may refuse an object, for its ego or alignment (`Affects` says when); here `Fickle`
is what may be refused, at any time. Refused, it falls to the room and `do_save` is called from
within: with what has been made of the file so far when the player comes back, with what is on
again (`Below`) when a save dresses it again. That needs a room: `load_room` is what
`save_char` wrote, and `in_room` what comes of it. It is the room itself after renting
(`reception.c:1094`), while after a crash or a lost link it is `AUTO_RENT`, no room, where
the fall brings the game down.
Costs, attributes and the culling of limited items are left out.

**Goods.** Objects and coins in memory, and per player the rent file and the character
file, further room files and guild treasuries. A command changes the memory and queues
its writes (`todo`) in the order the code makes them; no other command runs before they
are done, but the process may die between any two. `held[i]` is the set of *all* who
have a copy of object `i`, so that a duplicate is a state. Two history variables mark
what commands left in doubt that do not write everything they change: `hasty` (an object:
getting the last object out of a saved room, `give all`, `get` and `put` of several things of which
one is refused, `steal`, `disarm`, buying, ...) and
`made` (coins: dropping, stealing, selling, guild deposits, the death of a link-dead
player). The properties are about everything else. None of these marks is there without need:
dropping one makes a property fail. What is in a container counts as being where the container is.

**Fights, Combat.** `fighting`, `attackers`, `combat_list`, `master`, `followers`, `mount`, `rider`,
positions and three grades of hit points. A blow is a call of `hit()` with all it calls:
fire shields that strike back, falls from the saddle, flights (also those of who is wounded and
`ACT_WIMPY`, in `DamageMessages`), deaths.
`combat_list` is a set; of its order only who comes from `combat_next_dude` on matters:
`ahead`, which `set_fighting` does not add to and every turn of a round shrinks.

**Zone.** `ResetZone` runs a zone's table as one step, each command with its `if_flag` and the
limits of `reset_zone` (letters M, E, G, O, P, D). Mobiles and objects are members of
finite pools of each kind, `world.number` is the counter of `mob_index`/`obj_index`,
`stored[p]` the number of objects of each kind in the rent file of `p`. A rare object
(cost at least `LIM_ITEM_COST_MIN`) stays counted while it lies in a file. An object on
the floor, in a corpse or in a box that lies there is in its room; of `object_list` the
order of the containers is kept. `zone_update` first ages and queues, then resets the
zones whose turn has come. Doors have two sides, set one by one by resets and in pairs by
commands. Left out: letters C, H, F, Z and the kill file; the zones reset at boot.

**Affects.** One player through the game, the menu, its two files and crashes. One quantity
stands for each treatment the code knows: `hitroll` for what `reset_char` clears, `saves`
for what only `store_to_char` clears, `hp` for what is written as it is, `stat` for an
ability score, `bits` for `affected_by`. `DoSave` takes everything off, writes, and puts
everything back through `equip_char`, which may refuse an object, drop it and save again
from within the saving. The objects of the rent file are put on through `equip_char` too, at the
login as from the menu: `in_room` tells whether it tests (it does unless that is
`NOWHERE`), and whether a refused object has a room to fall to, `ground`, or brings the game down
(`AUTO_RENT`, a number that is no room). `Quit`, renting, link loss and crashes differ in the
`room` they leave in the record. A loop of the code is `Turns`: what it makes of the struct, turn by turn.
No spell changes `hp`: the growth spells, the only ones with `APPLY_HIT`, refuse players
(`magic3.c:891`, `960`, `1581`). `reset_char` would count such a spell twice.

**Spells to Deeds.** `Spells` adds an object (`Thing`) and *faults* to the world of `Fights`: a failed
assertion, a spell that goes on with somebody it has taken out of the game, an affect
laid twice, an object in no place. Each spell is an operator; `Casting` has the row of
`spell_info` and the wrapper of each, `Items` the combinations in the values of the
potions, scrolls, wands and staffs of `leudata.obj`; `Deeds` lets two players do one deed
after the other in given scenes. `spell_animal_summon` makes up to four servants, as many as there
are mobiles to make. Levels, saves and dice are left open; mana, points and
texts are left out.

**Mail.** `file` is the array of blocks, `index` and `free_list` what `scan_file` builds and the
commands maintain. A command queues its block writes; if `Torn` the process may also die
between two of them. `Mailboxes` says what the post office promises; the refinement reads
the file as it will be when the pending writes are done (`Settle`).

## 3 The runs

| Run | Distinct states | Properties | What it shows |
|---|---|---|---|
| `nanny` | 657 000 | `UniqueName` `OneBody` `NewcomerApproved` `ImplementsSession` `ApprovalEnds` | names and bodies stay unique on every path of two dialogues, though the code looks once; approval is respected and always decided |
| `link` | 190 000 | `BodyOfOne` `SnoopAgrees` `ImplementsSession` | a body has one connection, the untested dereferences of `close_socket` are safe, who lost the link gets *that* body back |
| `game_loop` | 182 000 | `WalkIsSafe` `NobodySkipped` `LineHandled` | whoever is closed during a walk, no pointer dangles but the one two loops have just freed, and that one leads back into the list; each turn leaves exactly those behind it, a line read is handled |
| `objects` | 121 000 | `PlacesAgree` `NothingKept` `ContainerWeight` `TwoHands` | lists and pointers agree; nothing points to a freed body; no container is too light; four commands never fill a third hand |
| `rent` | 161 000 | `OneCopy` `RestoredAsSaved` `NothingLost` `RentedIsStored` | nothing is in two places, on disk included; a file of gentle depths comes back as it was, but for what is refused, which lies on the floor with all that is in it; what the receptionist accepts is written |
| `goods` | 1 410 000 | `OneOwner` `KeptIsSaved` `CoinsNotDoubled` | wherever the process dies, what no hasty command moved has one owner, is in its file, and coins do not multiply |
| `combat` | 124 000 | `FightsAgree` `BondsAgree` `DeadAreGone` `RoundShrinks` | both ends of fights, companies and rides agree, nobody dead stays, a round ends however many it draws in |
| `zone` | 9 300 | `DoorsAgree` `EmptyZonesReset` | resets, players and mobiles keep both sides of a door equal; a zone is reset when it should be |
| `stock` | 98 000 | `RareStaysRare` `CountersSuffice` `ResetsKeepOff` | counters never forget what exists in the game or in files; limits hold; no reset reaches into a player's hands |
| `affects` | 209 000 | `Balanced` | scores are what is worn and active, through saves, falls, deaths, logins and refusals in each of them |
| `deeds` | 554 000 | `TiesAgree` `NothingAstray` `NoneDoubled` `NoDeadLeft` `GroupSpared` | of all spells and items: which keep the ties, and which do not (named in the module) |
| `mail` | 150 000 | `IndexAgrees` `NoBlockLost` `ImplementsMailboxes` | the block file, with reuse and restarts, is a set of mailboxes |

Bounds, and why they are enough:

* `nanny`: two connections, two names (one also the guest): a race needs two parties, and
  the second name is there so that a claim can go to the wrong one. One password, so
  that the run stays small; password changes are proved. `MaxCount` caps the player
  count at 4: the code only asks whether it is zero. `MaxCorpses` 1, no `do_ghost`: see
  section 5. No symmetry, since `ApprovalEnds` is liveness.
* `link`: three connections (snooper, victim, third party), a player of each rank the guards
  tell apart, a mobile weak enough for a god and one only an implementor may take.
* `game_loop`: three descriptors, also all there is room for: the one served, the next and
  the one after. Two lines per queue, delays of at most two pulses.
* `objects`: two worlds in one run, by the constraint `TwoWorlds`: containers, decay and
  theft between a player and a dog; or all that hands can hold. Corpses and bags give
  three levels of nesting.
* `rent`: two containers, perishable (so that contents are written without them) and refusable, room
  for three objects in the file, and a limit of two levels so that it is met. Two worlds in one
  run, by the constraint `TwoWorlds`: one thing to put into them, a corpse for a third level, and
  two positions to wear something at; or two things, so that the file overflows, and one position.
* `goods`: two players, two objects and a coin each; the constraint `OneDoubt` follows one
  thing in doubt at a time, since a hasty move of one thing does not touch the others.
* `combat`: a player, a wolf, a horse; two rooms and a death trap. The constraint `Calm` admits
  two troubles at a time and at most three fights.
* `zone`, `stock`: one table for doors and one for stock; two zones, one reset only when
  empty; limits of one and two; pools of two. Counters are bounded by the pools.
* `affects`: two spells (one of two affects) and two objects, one of which cannot be worn
  without what the other lends, and the other not by the evil; `MAX_AFFECT` 3 as there are three affects,
  `MaxSaves` bounds how often saving throws may double.
* `deeds`: two players, a wolf, an imp and a rat not yet called, seven scenes (grouped, fighting,
  led, charmed, mounted, following, ill); two deeds in a row. The run ends after two
  deeds: the only one with `CHECK_DEADLOCK FALSE`.
* `mail`: two players, letters of two and three blocks, so that a freed letter fits or does
  not fit the next one.

**Fairness.** Three properties are liveness. `LineHandled` assumes weak fairness of the
server's loop: it runs on (`select` is called with a timeout). `ApprovalEnds` assumes
weak fairness of `Answer(d)`, the outcomes of a line of input at CON_AUTH; that a line is
answered is what `NobodySkipped` and `LineHandled` show. `EmptyZonesReset` assumes weak
fairness of `ZoneUpdate`, which the heartbeat calls every `PULSE_ZONE` pulses. Nothing is
assumed of players, gods or links. `ImplementsMailboxes` is safety only.

## 4 The proofs

`tlapm` checks every obligation of the eight modules with theorems. They assume nothing
but the named assumptions on the constants (`ConstAssumption`,
`LinkAssumption`, `LoopAssumption`, `RentAssumption`, `CombatAssumption`, `ObjectsAssumption`,
`GoodsAssumption`, `ZoneAssumption`, `AffectsAssumption`, `MailAssumption`, which TLC evaluates on the runs) and the hypotheses written in the theorem. All sets (finite ones where
something is counted), limits, weights and tables are arbitrary: any number of
connections, players, rooms, objects, any reset table.

| Theorem | Property | Hypothesis |
|---|---|---|
| `TypeCorrect` `NamesAreUnique` `NewcomersApproved` `PasswordsStored` (Nanny) | `TypeOK` `UniqueName` `NewcomerApproved` `StoredPassword` | |
| `BodiesAreUnique` `NannyImplementsSession` | `OneBody` `ImplementsSession` | `FewBodies`: no `do_ghost`, at most one corpse |
| `LinkTypeCorrect` `OneConnectionOfABody` `SnoopsAgree` `SnoopersAreThemselves` `LinkImplementsSession` | `TypeOK` `BodyOfOne` `SnoopAgrees` `SnooperIsItself` `ImplementsSession` | `~StaleSwitch` |
| `LoopTypeCorrect` `WalksAreSafe` `ListIsAlwaysLive` `NobodyIsSkipped` | `TypeOK` `WalkIsSafe` `ListIsLive` `NobodySkipped` | |
| `RentInvariant` `TypeCorrect` `OneCopyHolds` `RestoredAsSavedHolds` `NothingLostHolds` `RentedIsStoredHolds` (Rent) | `RentTypeOK` (no run) `OneCopy` `RestoredAsSaved` `NothingLost` `RentedIsStored` | `~RefusedRent` |
| `WorldSound` `CombatTyped` `FightsAlwaysAgree` `BondsAlwaysAgree` `RoundsShrink` | `TypeOK` `FightsAgree` `BondsAgree` `RoundShrinks` | |
| `TheDeadAreGone` | `DeadAreGone` | `NoFlames`: nobody has a fire shield |
| `ObjectsTyped` `PlacesAlwaysAgree` `NothingEverKept` `OnlyTwoHands` `ContainersWeighEnough` | `TypeOK` `PlacesAgree` `NothingKept` `TwoHands` `ContainerWeight` | |
| `GoodsInvariant` `GoodsTyped` `NoDuplicates` `NothingLost` `CoinsNeverDoubled` | `TypeOK` `OneOwner` `KeptIsSaved` `CoinsNotDoubled` | |
| `ZoneTyped` `CountersAlwaysSuffice` | `TypeOK` `CountersSuffice` | |
| `RareAlwaysRare` | `RareStaysRare` | `~Breakable` |
| `DoorsAlwaysAgree` `ResetsAlwaysKeepOff` | `DoorsAgree` `ResetsKeepOff` | `DoorsPaired`; `PutsFollow` |
| `ZonesAlwaysWaitOnce` | `WaitsOnce` (of `ZoneProofs`; no run) | `~ReloadQueued` |
| `AffectsTypeCorrect` `BalancedHolds` | `AffectsTypeOK` (no run) `Balanced` | `[]FitsTheFile`: never more than `MAX_AFFECT` affects |
| `MailTyped` `IndexAlwaysAgrees` `NoBlockEverLost` `MailImplementsMailboxes` | `TypeOK` (of `Mail`; no run) `IndexAgrees` `NoBlockLost` `ImplementsMailboxes` | `~Torn` |

A hypothesis is there where the code breaks the property without it (section 5), and the
runs are instances that satisfy it.

**Nanny.** `UniqueName` is not inductive: `save_char` writes `d->pwd` into the file, so one must
know that a connection past the password prompt has a password, a name and (unless it
is still creating the character) a file. `DialogueOK` says that state by state; `NameInv`
is the three together. From it follow the two action properties: `FilesWritten`
says which steps touch a file. One remark came out of `PasswordsStored`: a player who is
reincarnated while the menu asks to confirm a new password is put into the game with the
unconfirmed one in `d->pwd`, and the next save stores it; the property, which asks for a
step of a session in the game, holds. `BodiesAreUnique` needs `NoBodyLeft` (past the password
no link-dead body is left: menu entry '1' does not look again) and `DeadHaveNoBody`.

**Link.** `LinkInv`: pointers according to the state, one connection per player, mobiles that
remember a player have no connection (`IdleMobs`, what `StaleSwitch` breaks), and the
properties. Two halves meet in `Parts`: `Linked`, one lemma for each way the pointers change,
and `Snooped`, one for each way a snoop ends. `LinkImplementsSession` needs one more
invariant, `MenuIsAway`: a player in the menu has no body in the game. The code never says
so, since the password prompt took the body there was; without it `Enter` could be a
second body. The steps are grouped by what they do to the abstract state (nothing, a
claim, a link lost, a departure), with one lemma each.

**GameLoop.** `LoopInv`: pointers lead to live descriptors, none to the head, no two to the same
one, and which pointers are in use in which phase. `Before(x)`, what a walk at `x` has still
before it, is the smallest set that holds `x` and is closed under `next`; three lemmas carry
the weight: there is no cycle, a turn takes the visited descriptor out of `Before`, and
closing one takes it out of every `Before`. Of a freed `walker` the invariant says that its `next` is
live or nobody, which `WalksAreSafe` needs and `close_socket` provides, as it unlinks `d` without
touching `d->next`.

**Rent.** `RentInv`: the possessions are a `Forest` (nothing in two places or twice in one, and nothing
inside itself however deep: no set of objects has each of its members inside another of them,
`Founded`), the file is `OnDisk` (`Filed`: it fits, no object and no position twice; `Described`:
it says of each object where it was when the file was written), and for a player that is out
nothing is on the body and nothing of the file in the world. Each command has a lemma that it
keeps the forest; that objects fall and that only some are on again keep it too (`FallenForest`,
`BelowForest`), so what a nested `do_save` writes is a file like any other. The weight is in the two loops, which are shown to keep an invariant turn by
turn. *Storing* (`Storage`): what is called or below what is called, and has had no turn yet, and what has had one, make up
the possessions, each once (`Seen`, `Kept`); no position is both in the file and still to come
(`Wears`); after `StoreTurns` turns no call is left, because each turn has used up an object or an
empty position (`Counted`); nothing is left out while there is room (`Full`); and calls
come in falling depth, so that the object one less deep that was written *last* is the
container (`CallShape`, `Shape`). *Restoring*: what has been made of the first `i` elements is a
forest again (`Made`), all of it is on the player or with something refused on the floor (`Somewhere`), and if the depths are gentle
`into[d]` is the latest element of depth `d` and everything but the refused is where the file says (`Exact`).
Storing and restoring meet in `Latest`, the last element of a depth before another element;
`RestoredAsSaved` is that both say the same of it. `~RefusedRent` is needed by all of them: a
refused rent leaves in the game what its file still has (section 5).

**Combat.** The operators are total functions on worlds, so the lemmas are about any world
`w` in which everything agrees (`Sound(w)`), up the call graph of `fight.c`: assignments,
`stop_fighting`, `damage`, `hit`, then the actions. `Leads(w, x, S)` is what every function
promises: `x` is sound again, the round is not longer, and only members of `S` may have got
a deadly wound without having left yet. With it `TheDeadAreGone` and `RoundsShrink` come out
of the same lemmas.

**Objects.** One lemma per function of `handler.c`: it keeps `Sound` when its callers respect its
asserts; the actions compose them. `IInv` adds `NothingKept`, as what decays in somebody's hands
falls to the room of its bearer. For `TwoHands` it matters that nothing makes a worn object
heavier, since a weapon is two-handed by its weight. `ContainerWeight` is inductive only
together with the counters of what everybody carries (`Weighed`: `carrying_w` and
`carrying_n` count at least what is carried), because `make_corpse` gives the corpse
`carrying_w` as its weight; and it needs that the containers players reach into are in no
container themselves (`get_obj_vis_accessible`), since `obj_to_obj` and `obj_from_obj` adjust
one path only.

**Goods.** The properties speak of moments without pending writes. In between `Consistent` holds: if
all writes of `todo` were done, files and memory would agree (`Settled`), and in the queue
a file that loses an object comes before the one that gains it (`LosersFirst`), which is
why a crash can lose but not double. For coins, whose number matters and not who has
which, every player is given a share: `lo` covers memory and the file as it will be, `hi`
the file at every point where the process may die; neither sum exceeds what there is
(`CInv`).

**Zone.** `ZInv` has as its core `Enough`: a counter is at least what exists plus, of rare kinds, what
files of those who are away hold. A reset is handled as a growth relation (`Grows`:
nothing that exists is moved, what appears is counted), which commands, zones and whole
queues of zones compose. `RareStaysRare` needs `RInv` too: no counter is over its limit
(`Capped`) and no file has more rare things than its player, if that player is in the
game (`Filed`); that is why a restart, which counts the files anew, never counts more than
was counted before. `DoorsPaired` and `PutsFollow` are hypotheses on the *tables*, evaluated
on the instances by `MCTables`; how the world's data violates them is in section 5.
`WaitsOnce` (the queue has no zone twice, and has those of age `ZO_DEAD`) is inductive with
one more fact, that a waiting zone has been started: else `char_to_room` could
start it, set its age to 0, and `zone_update` would queue it again, which is what
`do_zload` does.

**Affects.** `AInv`: what the character has is what its objects and spells give (`Ledger`), at any time and
not only in the game; objects are where they belong and none is both worn and carried
(`Placed`); the record has the bare quantities and the rent file is placed too (`Filed`); and
outside of the game nothing is worn or carried, so that a refused object is made once. The sums run over sequences, in the order the code
adds; `Splits(all, part, rest)` says that `all` sums to `part` and `rest` and has the bits of both, and
it is shown for an object at any position (`WornSplits`), a spell at the head (`HeadSplits`)
and one taken out anywhere (`RemoveSplits`). What begins leaves the ledger in order (`Gained`).
What ends does not quite: `affect_modify` clears a bit although something else gives
it too, and only `affect_total`, which applies everything again, repairs that (`Diminished`).
`WrittenIs` is the heart of saving: stripped and without spells the quantities are zero and the
bits racial, *if* all affects were taken off, which is `FitsTheFile`. The ten loops
(`PutOn`, `TryOn`, `Stripped`, `Walked` ...) have an invariant of their turns each; for `TryOn`, whose
turn may save from within, it is that the positions still to come are empty.

**Mail.** A command computes everything in memory and leaves its writes in `todo`, so `MailInv` is
about the file as it *will* be, `Settle(file, todo)`: it is in `Order` (each header begins a
whole letter, the blocks of two letters are disjoint, every block of no letter is free), the
index and the free list agree with it, and the writes `Fit` what the file holds when their
turn comes. Three facts carry the proof. A list of blocks each of which holds the address of
the next is exactly what `read_delete` follows (`ChainIs`), so chains can be reasoned about
as lists. `WriteToFile` changes nothing of the settled file (`SettleStep`). And the commands
have one lemma each on what they do to an `Order`: a stored letter adds a chain in
blocks that were free (`OrderMore`), a delivery clears the chains of one player
(`OrderLess`). The refinement then reads the letters off the chains. With `Torn` a crash forgets
`todo`, the file as it will be is suddenly another one, and the invariant fails at that step.

**Induction.** Sums over finite sets (`MapThenSumSet`) are recursive functions whose equation the
provers do not know. `GoodsProofs` and `ObjectsProofs` derive it, from the library's theorems on
finite sets and well-founded orders: if there were a set without the property there would be
a smallest one. `ZoneProofs` and `MailProofs` do the same on initial segments of the naturals, for
folds, for the filter `Kept`, and for following a chain, `LoopRentProofs` and `LinkAffectsProofs` for the turns of a loop (`RecursionRuns`; `SumRuns` to `WalkRuns`) and
for what is inside of what. The induction is stated with a *set* in place of the
predicate, as the installed provers cannot instantiate operator parameters.

**Only model-checked**, and why:

* `ApprovalEnds`, `LineHandled`, `EmptyZonesReset`: liveness.
* The mail file when the game stops between two writes (`Torn`): the properties fail there (section 5).
* `TiesAgree` and the others of Deeds: some 200 spells and as many items, named one by one; the
  lemmas of `CombatProofs` on `Fight` and `Bonds` would serve, one spell at a time.

## 5 What the work found

What follows holds in the code as modelled; each can be reproduced by the change of a
constant, of an exception or of the property named here. They are not runs, because most are
not promised otherwise by any document of the repository, and those that are (`EnteredIsStored`
and `SavesBalanced`, stated in their modules, and `MAX_AFFECT`) are a change of one line to `Rent.cfg` or `Affects.cfg`.

*Sessions.* `do_ghost` refuses a player who is "online" but asks only whether it is in the
game: one in the menu gets a second body (`GhostsAnyTime`, `act.wizard.c:5508`).
`spell_reincarnate` writes the dead bit back as set, so two corpses give two bodies
(`MaxCorpses = 2`, `magic3.c:1370`). `create_entry` is "never called" (`db.c:3114`) and counts
approved newcomers twice. A reconnection takes the mobile the link was lost in without
asking whether a wizard switched into it meanwhile (`StaleSwitch`, `interpreter.c:1815`).
The stored body of a polymorphed player is extracted while its mobile fights: `do_return`
refuses, the body is gone, the descriptor still points to it (`OriginalLost`,
`handler.c:1941`).

*Objects and rent.* A fighter who dies on a fire shield during the second attack leaves the
weapon that `PCAttacks` holds in a local nowhere (`fight.c:2813`). When the depth falls by two,
`obj_store_to_char` goes up by one: what follows a bag in a bag comes back inside
(`reception.c:425`). A forced rent that is refused leaves everything on the floor *and* in the
file (`RefusedRent`, `limits.c:1166`). `AUTO_RENT`, which `do_save` leaves for a room and `in_room` is
after a lost link, is the number of no room: an object refused at the login then has none to fall to
(`handler.c:1148`), and the game goes down. Where there is a room the `do_save` that follows from
within writes a rent file of what has been made by then; `load_char_objs` saves at its end "to avoid
strange data if crashing", but only the character (`reception.c:565`), so that until the next `do_save`
the rest is in memory alone (`EnteredIsStored` fails). `hasty` and `made` of Goods list the commands that can
double objects or coins if the process dies at the wrong moment.

*Combat.* A blow that kills a fire-shielded target while the flames kill the attacker leaves
the target in the game, dead (`Shielded`, `fight.c:1764`).

*Zones.* `G` and `E` leave `nLastCmd` as it was when they make nothing (`db.c:2666`): a P behind
them puts things into the newest container of its kind anywhere, a player's bag
included. 43 of the 409 P commands of the world's data are exposed to that (`PutsFollow`).
In the same data 66 D commands set one side of a door only and 16 set the two
differently (`DoorsPaired`). `do_open_exit` ignores `EX_LOCKED` (`act.move.c:1150`). A rare thing that
breaks in a player's hands while its file still has it makes room for one too many
(`Breakable`). `do_zload` on a queued zone queues it twice (`ReloadQueued`). A `C` command's
limit is never applied (`db.c:2582`). Who cannot pay loses rare things that stay counted until the next boot.

*Affects.* `reset_char` adds spells to saving throws that have them already (`db.c:3757`), so a visit to the
menu doubles them (`SavesBalanced` fails; `Balanced` is about the scores that are cleared). Affects
beyond `MAX_AFFECT` stay in the bare quantities that are written (`db.c:2987`, where the
warning's test is off by one too): `Balanced` fails with `MAX_AFFECT = 2`. An object that is worn only thanks to another is dropped at each save.

*Mail.* A stop between two writes cross-links letters, or makes the next scan loop (`Torn`); the
theorems on the mail file are about games that stop only between commands.
`sizeof == BLOCK_SIZE` holds only where `long` has 32 bits.

*Spells.* Named in `Deeds`, with lines: seven spells, five staffs and some wands and scrolls that
go on with somebody who is gone, fail an assertion or lose an object (`KnownAstray`), twelve that
lay an affect twice (`Doubling`: they do not ask whether it is there, or for another spell), two that leave a tie loose (`Tangling`), one that leaves the
dead standing, two that strike friends.

## 6 What is not modelled

* Freed memory, beyond what section 2 says of descriptors, objects and combat.
* In `Goods`, an early return from putting several things into a container in a room that is saved:
  the room's file is written and the player's is not, of objects that are `hasty` there anyway.
* Content: special procedures, scripts, skills beyond those that move objects, open doors
  and start fights; traps, prisons, sounds, weather. Each is a formula or a text with
  conditions of its own.
* The online editors and the files they write; boards.
* Text: parsing, colours, prompts, Telnet; output queues and what snoopers see of them.
* Process support: signals, hashing, logging; `daemonleu` is what `Restart` stands for.
* Rent costs, prices, the moods of shopkeepers, ranks in guilds.
* `src/src/inutili` is not compiled.

## 7 The plan

Done: all modules of section 2, their runs, and the theorems of section 4. Left, in the order of
what they would say about the system:

1. `TiesAgree` for the spells, reusing the lemmas of `CombatProofs` one spell at a time.
2. Mobile behaviour: scripts and special procedures as further deeds over `Fights`.
