-------------------------------- MODULE Mind --------------------------------
(* The powers of the mind: mindskills1.c, in its order.                    *)
EXTENDS Magic3

MindBurn(w, c, v) == SpellBurningHands(w, c, v)
MindTeleport(w, c, v) == IF v \in Chars THEN SpellTeleport(w, c, v) ELSE {w}
MindProbabilityTravel(w, c, v) == SpellAstralWalk(w, c, v)
MindDangerSense(w, c, v) == Guarded(w, v, "danger sense")
MindClairvoyance(w, c, v) == Guarded(w, v, "clairvoyance")
MindDisintegrate(w, c, v) == SpellDisintegrate(w, c, v)

\* Away from a fight it pushes the victim out of the room, or is struck for
\* it; in a fight it throws it down.
MindTelekinesis(w, c, v) ==
    IF v \notin Chars THEN {w}
    ELSE IF w.fighting[c] = None
    THEN Hit(w, v, c) \cup {w} \cup
         (IF MayMove(w, v) /\ ~ Loyal(w, v) /\ w.fighting[v] = None /\ w.rider[v] = None
          THEN {IF r \in DeathTraps THEN Extract(w, v) ELSE Moved(w, {v}, r) :
                r \in Rooms \ {w.where[v]}} ELSE {})
    ELSE {w} \cup Attack(Placed(w, v, "sitting"), v, c)

MindLevitation(w, c, v) == Guarded(w, v, "levitation")

\* It heals only oneself, and costs a mortal its strength.
MindCellAdjustment(w, c, v) ==
    IF v # c THEN {w}
    ELSE {IF c \in Immortals THEN x ELSE Placed(x, c, "stunned") : x \in {Wounded(w, c, "fit")}}

MindChameleon(w, c, v) == {w}
MindPsiStrength(w, c, v) == GuardedIfAny(w, v, "psi strength")
MindMindOverBody(w, c, v) == Guarded(w, v, "mind over body")
MindMindWipe(w, c, v) == SpellFeeblemind(w, c, v)
MindTowerIronWill(w, c, v) == Guarded(w, v, "tower of iron will")
MindMindblank(w, c, v) == Guarded(w, v, "mind blank")
MindPsychicImpersonation(w, c, v) == Guarded(w, v, "psychic impersonation")

\* A save halves the blast, for all that come after too.
MindUltraBlast(w, c, v) == SpellEarthquake(w, c, v)
MindPsychicCrush(w, c, v) == Hurled(w, c, v)
MindIntensify(w, c, v) == {w}
MindDomination(w, c, v) == {w}
=============================================================================
