------------------------------ MODULE MCAffects ------------------------------
EXTENDS Affects

Mod(hitroll, saves, hp, stat, bits) ==
    [hitroll |-> hitroll, saves |-> saves, hp |-> hp, stat |-> stat, bits |-> bits]

MCSpells == {"bless", "fly"}
MCItems == {"crown", "sword"}

\* spell_bless makes two affects; the crown lends wisdom, health and wings.
MCEffects == [x \in MCSpells \cup MCItems |->
    CASE x = "bless" -> <<Mod(1, 0, 0, 0, {}), Mod(0, -1, 0, 0, {})>>
      [] x = "fly"   -> <<Mod(0, 0, 0, 0, {"flying"})>>
      [] x = "crown" -> <<Mod(0, 0, 1, 1, {"flying"})>>
      [] x = "sword" -> <<Mod(2, 0, 0, 0, {}), Mod(0, 0, 0, -1, {})>>]

\* The sword is put on first, and bears only the wise, and the good.
MCSlot == [i \in MCItems |-> IF i = "sword" THEN 1 ELSE 2]
MCNeeds == [i \in MCItems |-> IF i = "sword" THEN 5 ELSE 0]
==============================================================================
