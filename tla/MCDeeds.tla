------------------------------- MODULE MCDeeds -------------------------------
(* Two players, a wolf, and an imp and a rat that are not yet in the game.  *)
EXTENDS Deeds, SpellBook
CONSTANTS hero, friend, wolf, imp, rat, street, wood, pit, limbo

Alone ==
    [Nobody EXCEPT !.where = [c \in Chars |-> IF c \in {imp, rat} THEN None ELSE street],
                   !.pos = [c \in Chars |-> IF c \in {imp, rat} THEN "dead" ELSE "standing"]]

Fights(w, c, v) == Begins(Begins(w, c, v), v, c)
Mounted(w, c, h) ==
    [w EXCEPT !.mount = Put(@, c, h), !.rider = Put(@, h, c), !.pos = Put(@, c, "mounted")]

\* The friend follows the hero, who fights the wolf or not, or is ill and has
\* spat a swarm of insects; or the friend leads; the wolf is charmed by the
\* hero, or ridden, or the hero follows it.
MCScenes ==
    LET grouped == AddFollower(Alone, friend, hero)
        led == AddFollower(Alone, hero, friend)
        ill == [grouped EXCEPT !.under = Put(@, hero, {"poison", "creeping death"})]
        charmed == [AddFollower(grouped, wolf, hero) EXCEPT
                       !.under = Put(@, wolf, {"charm person"}), !.charmed = {wolf},
                       !.where = Put(@, friend, wood)]
    IN  {grouped, ill, Fights(grouped, hero, wolf), Fights(led, friend, wolf), charmed,
         Mounted(led, hero, wolf), AddFollower(Alone, hero, wolf)}
=============================================================================
