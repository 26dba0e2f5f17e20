----------------------------- MODULE GoodsProofs -----------------------------
(***************************************************************************)
(* OneOwner, KeptIsSaved and CoinsNotDoubled for any number of players,    *)
(* objects and coins.                                                      *)
(*                                                                         *)
(* They speak of the moments at which no write is pending.  What makes the *)
(* first two true in between is Consistent: if all pending writes were     *)
(* done, then the files would agree with the memory (Settled), and in the  *)
(* queue a file that loses an object comes before the file that gains it   *)
(* (LosersFirst).  For the coins, whose number matters and not who has     *)
(* which, the second part gives every player a share that covers both.     *)
(***************************************************************************)
EXTENDS Goods, FiniteSetTheorems, WellFoundedInduction, TLAPS

\* What has a file with objects: every player and the room that is saved.
Stores == Players \cup {"store"}

Disk(x) == IF x = "store" THEN shelf ELSE vault[x]

\* The k-th pending write is one of the objects of x.
Pending(k, x) ==
    k \in DOMAIN todo /\ todo[k].to # "char" /\ todo[k].who = x

\* Object i will be in the file of x when nothing is pending.
Settled(i, x) == IF \E k \in DOMAIN todo : Pending(k, x)
                 THEN \E k \in DOMAIN todo : Pending(k, x) /\ i \in todo[k].what
                 ELSE i \in Disk(x)

SameWrites == \A x \in Stores : \A j, k \in DOMAIN todo :
                  Pending(j, x) /\ Pending(k, x) => todo[j].what = todo[k].what

OfflineHaveNothing == \A p \in Players \ online : \A i \in Items : p \notin held[i]

OneFile == \A i \in Items \ hasty : \A x, y \in Stores :
               i \in Disk(x) /\ i \in Disk(y) => x = y

OneSettled == \A i \in Items \ hasty : \A x, y \in Stores :
                  Settled(i, x) /\ Settled(i, y) => x = y

\* (A mobile may have sold goods of which the seller's file does not know yet.)
SettledIsHeld == \A i \in Items \ hasty : \A x, y \in Stores :
                     Settled(i, x) /\ y \in held[i] => x = y

FloorIsUnsaved == \A i \in Items \ hasty : \A x \in Stores :
                      "floor" \in held[i] => ~Settled(i, x)

\* Only one who has a link has sold goods that the file still holds.
SoldByLinked == \A i \in Items \ hasty : \A x \in Stores :
                    Settled(i, x) /\ "mobile" \in held[i] => x \in linked

OneHolder == \A i \in Items \ hasty : \A x, y \in Holders :
                 x \in held[i] /\ y \in held[i] => x = y

HeldIsSettled == \A i \in Items \ hasty : \A p \in online :
                     p \in held[i] => Settled(i, p)

LosersFirst == \A i \in Items \ hasty : \A x, y \in Stores : \A k \in DOMAIN todo :
                   Pending(k, x) /\ i \in todo[k].what /\ i \in Disk(y) /\ x # y
                       => \E j \in DOMAIN todo : j < k /\ Pending(j, y)

Consistent == /\ SameWrites
              /\ OfflineHaveNothing
              /\ OneFile
              /\ OneSettled
              /\ SettledIsHeld
              /\ FloorIsUnsaved
              /\ SoldByLinked
              /\ OneHolder
              /\ HeldIsSettled
              /\ LosersFirst

GInv == TypeOK /\ Consistent

-----------------------------------------------------------------------------
(* The queues that commands make.                                          *)

\* Every object file in s is the one of p, and gets W.
OneWriter(s, p, W) ==
    \A k \in DOMAIN s : s[k].to # "char" =>
        s[k].who = p /\ s[k].what = W

LEMMA OneWriterConcat ==
    ASSUME NEW s \in Seq(Writes), NEW t \in Seq(Writes), NEW p, NEW W,
           OneWriter(s, p, W), OneWriter(t, p, W)
    PROVE  s \o t \in Seq(Writes) /\ OneWriter(s \o t, p, W)
<1>1. s \o t \in Seq(Writes)
  OBVIOUS
<1>2. ASSUME NEW k \in DOMAIN (s \o t)
      PROVE  \/ k \in DOMAIN s /\ (s \o t)[k] = s[k]
             \/ k - Len(s) \in DOMAIN t /\ (s \o t)[k] = t[k - Len(s)]
  OBVIOUS
<1> QED
  BY <1>1, <1>2 DEF OneWriter

LEMMA SaveObjType ==
    ASSUME NEW p \in Players, NEW h \in [Items -> SUBSET Holders]
    PROVE  /\ Had(h, p) \in SUBSET Items
           /\ SaveObj(p, h) \in Seq(Writes) /\ ZeroRent(p) \in Seq(Writes)
           /\ OneWriter(SaveObj(p, h), p, Had(h, p)) /\ OneWriter(ZeroRent(p), p, {})
           /\ Len(SaveObj(p, h)) = 1 /\ Len(ZeroRent(p)) = 1
           /\ SaveObj(p, h)[1] = [to |-> "rent", who |-> p, what |-> Had(h, p)]
           /\ ZeroRent(p)[1] = [to |-> "rent", who |-> p, what |-> {}]
<1>1. Had(h, p) \in SUBSET Items
  BY DEF Had
<1>2. /\ [to |-> "rent", who |-> p, what |-> Had(h, p)] \in Writes
      /\ [to |-> "rent", who |-> p, what |-> {}] \in Writes
  BY <1>1 DEF Writes
<1> QED
  BY <1>1, <1>2 DEF SaveObj, ZeroRent, OneWriter

LEMMA SaveCharType ==
    ASSUME NEW p \in Players, NEW c \in [Players -> Record], NEW L, NEW q, NEW W
    PROVE  /\ SaveChar(p, c, L) \in Seq(Writes)
           /\ OneWriter(SaveChar(p, c, L), q, W)
           /\ \A k \in DOMAIN SaveChar(p, c, L) : SaveChar(p, c, L)[k].to = "char"
<1>1. [to |-> "char", who |-> p, what |-> c[p]] \in Writes
  BY DEF Writes
<1>2. CASE p \in L
  BY <1>1, <1>2 DEF SaveChar, OneWriter
<1>3. CASE p \notin L
  BY <1>3 DEF SaveChar, OneWriter
<1> QED
  BY <1>2, <1>3

LEMMA DoSaveType ==
    ASSUME NEW p \in Players, NEW h \in [Items -> SUBSET Holders],
           NEW c \in [Players -> Record]
    PROVE  /\ Had(h, p) \in SUBSET Items
           /\ DoSave(p, h, c) \in Seq(Writes)
           /\ OneWriter(DoSave(p, h, c), p, Had(h, p))
           /\ 1 \in DOMAIN DoSave(p, h, c)
           /\ DoSave(p, h, c)[1] = [to |-> "rent", who |-> p, what |-> Had(h, p)]
<1>1. /\ Had(h, p) \in SUBSET Items
      /\ SaveObj(p, h) \in Seq(Writes)
      /\ OneWriter(SaveObj(p, h), p, Had(h, p))
      /\ Len(SaveObj(p, h)) = 1
      /\ SaveObj(p, h)[1] = [to |-> "rent", who |-> p, what |-> Had(h, p)]
  BY SaveObjType
<1>2. /\ SaveChar(p, c, linked) \in Seq(Writes)
      /\ OneWriter(SaveChar(p, c, linked), p, Had(h, p))
  BY SaveCharType
<1>3. DoSave(p, h, c) \in Seq(Writes) /\ OneWriter(DoSave(p, h, c), p, Had(h, p))
  BY <1>1, <1>2, OneWriterConcat DEF DoSave
<1>4. /\ 1 \in DOMAIN (SaveObj(p, h) \o SaveChar(p, c, linked))
      /\ (SaveObj(p, h) \o SaveChar(p, c, linked))[1] = SaveObj(p, h)[1]
  <2>1. ASSUME NEW s \in Seq(Writes), NEW t \in Seq(Writes), Len(s) = 1
        PROVE  1 \in DOMAIN (s \o t) /\ (s \o t)[1] = s[1]
    BY <2>1
  <2> QED
    BY <1>1, <1>2, <2>1
<1> QED
  BY <1>1, <1>3, <1>4 DEF DoSave

\* The first write of s is that of objects.
Starts(s) == 1 \in DOMAIN s /\ s[1].to # "char"

LEMMA StartsConcat ==
    ASSUME NEW s \in Seq(Writes), NEW t \in Seq(Writes), Starts(s)
    PROVE  Starts(s \o t)
<1>1. 1 \in DOMAIN (s \o t) /\ (s \o t)[1] = s[1]
  BY DEF Starts
<1> QED
  BY <1>1 DEF Starts

\* Room files, then a player's.
LEMMA SaveRoomType ==
    ASSUME NEW h \in [Items -> SUBSET Holders]
    PROVE  /\ Had(h, "store") \in SUBSET Items
           /\ SaveRoom(h) \in Seq(Writes)
           /\ OneWriter(SaveRoom(h), "store", Had(h, "store"))
           /\ Had(h, "store") # {} =>
                  /\ 1 \in DOMAIN SaveRoom(h)
                  /\ SaveRoom(h)[1] = [to |-> "room", who |-> "store",
                                       what |-> Had(h, "store")]
<1>1. Had(h, "store") \in SUBSET Items
  BY DEF Had
<1>2. [to |-> "room", who |-> "store", what |-> Had(h, "store")] \in Writes
  BY <1>1 DEF Writes
<1>3. CASE Had(h, "store") = {}
  BY <1>1, <1>3 DEF SaveRoom, OneWriter
<1>4. CASE Had(h, "store") # {}
  BY <1>1, <1>2, <1>4 DEF SaveRoom, OneWriter
<1> QED
  BY <1>3, <1>4

\* In s the object file of a gets A, and after it that of b gets B.
TwoWriters(s, a, A, b, B) ==
    /\ \E k \in DOMAIN s : s[k].to # "char" /\ s[k].who = a
    /\ \E k \in DOMAIN s : s[k].to # "char" /\ s[k].who = b
    /\ \A k \in DOMAIN s : s[k].to # "char" =>
          \/ s[k].who = a /\ s[k].what = A
          \/ /\ s[k].who = b /\ s[k].what = B
             /\ \E j \in DOMAIN s : j < k /\ s[j].to # "char" /\ s[j].who = a

LEMMA TwoWritersConcat ==
    ASSUME NEW s \in Seq(Writes), NEW t \in Seq(Writes),
           NEW a, NEW A, NEW b, NEW B,
           OneWriter(s, a, A), OneWriter(t, b, B),
           1 \in DOMAIN s, s[1].to # "char", 1 \in DOMAIN t, t[1].to # "char"
    PROVE  s \o t \in Seq(Writes) /\ TwoWriters(s \o t, a, A, b, B)
<1>1. s \o t \in Seq(Writes)
  OBVIOUS
<1>2. ASSUME NEW k \in DOMAIN (s \o t)
      PROVE  \/ k \in DOMAIN s /\ (s \o t)[k] = s[k]
             \/ /\ k - Len(s) \in DOMAIN t /\ (s \o t)[k] = t[k - Len(s)]
                /\ 1 < k
  OBVIOUS
<1>3. /\ 1 \in DOMAIN (s \o t) /\ (s \o t)[1] = s[1]
      /\ Len(s) + 1 \in DOMAIN (s \o t) /\ (s \o t)[Len(s) + 1] = t[1]
  OBVIOUS
<1>4. ASSUME NEW k \in DOMAIN (s \o t), (s \o t)[k].to # "char"
      PROVE  \/ (s \o t)[k].who = a /\ (s \o t)[k].what = A
             \/ (s \o t)[k].who = b /\ (s \o t)[k].what = B /\ 1 < k
  BY <1>2, <1>4 DEF OneWriter
<1>5. (s \o t)[1].who = a /\ (s \o t)[Len(s) + 1].who = b
  BY <1>3 DEF OneWriter
<1> HIDE DEF TwoWriters
<1> QED
  BY <1>1, <1>3, <1>4, <1>5 DEF TwoWriters

-----------------------------------------------------------------------------
(* Commands, by the object files they write.                               *)

\* A command that writes one player's object file.
LEMMA OneWriterStep ==
    ASSUME GInv, todo = <<>>, vault' = vault, shelf' = shelf,
           hasty \subseteq hasty', TypeOK',
           NEW p \in Players, NEW W \in SUBSET Items,
           OneWriter(todo, p, W)',
           \E k \in DOMAIN todo' : todo'[k].to # "char",
           OfflineHaveNothing', OneHolder',
           \A i \in Items \ hasty' : i \in W =>
               /\ i \in vault[p] \/ "floor" \in held[i]
               /\ held'[i] \subseteq {p},
           \A i \in Items \ hasty' :
               /\ p \in held'[i] => i \in W
               /\ \A x \in Stores \ {p} : x \in held'[i] => x \in held[i]
               /\ "floor" \in held'[i] => "floor" \in held[i] \/ p \in held[i]
               /\ "mobile" \in held'[i] => "mobile" \in held[i] \/ p \in held[i],
           linked \ {p} \subseteq linked'
    PROVE  Consistent'
<1>a. "floor" \notin Stores /\ "mobile" \notin Stores /\ "store" \notin Players /\ p \in Stores
  BY GoodsAssumption DEF Stores
<1>b. Stores \subseteq Holders /\ "floor" \in Holders
  BY DEF Stores, Holders
<1>0. \A i \in Items : \A x \in Stores : Settled(i, x) <=> i \in Disk(x)
  BY DEF Settled, Pending
<1>1. \A k, x : Pending(k, x)' =>
          x = p /\ todo'[k].who = p /\ todo'[k].what = W /\ k \in DOMAIN todo'
  BY DEF OneWriter, Pending
<1>2. \E k \in DOMAIN todo' : Pending(k, p)'
  BY DEF OneWriter, Pending
<1>3. \A x \in Stores : Disk(x)' = Disk(x)
  BY DEF Disk
<1>4. \A i : Settled(i, p)' <=> i \in W
  BY <1>1, <1>2 DEF Settled
<1>5. \A i : \A x \in Stores \ {p} : Settled(i, x)' <=> i \in Disk(x)
  BY <1>1, <1>3 DEF Settled
<1>6. \A i \in Items \ hasty' : \A x \in Stores \ {p} :
          i \in W => i \notin Disk(x)
  BY <1>0, <1>a DEF GInv, Consistent, OneFile, FloorIsUnsaved, Disk
<1>7. SameWrites'
  BY <1>1 DEF SameWrites
<1>8. OneFile'
  BY <1>3 DEF OneFile, GInv, Consistent
<1>9. OneSettled'
  BY <1>4, <1>5, <1>6 DEF OneSettled, GInv, Consistent, OneFile
<1>10. SettledIsHeld'
  <2> SUFFICES ASSUME NEW i \in Items, i \notin hasty', NEW x \in Stores, NEW y \in Stores,
                      Settled(i, x)', y \in held'[i], x # y
               PROVE  FALSE
    BY DEF SettledIsHeld
  <2>1. CASE x = p
    BY <2>1, <1>4
  <2>2. CASE x # p /\ y = p
    BY <2>2, <1>5, <1>6
  <2>3. CASE x # p /\ y # p
    <3>1. i \in Disk(x) /\ y \in held[i]
      BY <2>3, <1>5
    <3> QED
      BY <3>1, <1>0 DEF GInv, Consistent, SettledIsHeld
  <2> QED
    BY <2>1, <2>2, <2>3
<1>11. ASSUME NEW i \in Items \ hasty', NEW x \in Stores, "floor" \in held'[i]
       PROVE  ~Settled(i, x)'
  <2>1. CASE x = p
    BY <2>1, <1>4, <1>11, <1>a
  <2>2. CASE x # p /\ "floor" \in held[i]
    BY <2>2, <1>5, <1>0 DEF GInv, Consistent, FloorIsUnsaved
  <2>3. CASE x # p /\ p \in held[i]
    BY <2>3, <1>5, <1>0, <1>a DEF GInv, Consistent, SettledIsHeld
  <2> QED
    BY <2>1, <2>2, <2>3, <1>11
<1>12. HeldIsSettled'
  <2> SUFFICES ASSUME NEW i \in Items, i \notin hasty', NEW q \in online', q \in held'[i]
               PROVE  Settled(i, q)'
    BY DEF HeldIsSettled
  <2>0. q \in Players /\ q \in Stores
    BY DEF TypeOK, Stores
  <2>1. CASE q = p
    BY <2>1, <1>4
  <2>2. CASE q # p
    <3>1. q \in held[i]
      BY <2>0, <2>2
    <3>2. q \in online
      BY <3>1, <2>0 DEF GInv, Consistent, OfflineHaveNothing
    <3> QED
      BY <3>1, <3>2, <2>0, <2>2, <1>0, <1>5 DEF GInv, Consistent, HeldIsSettled
  <2> QED
    BY <2>1, <2>2
<1>13. LosersFirst'
  <2> SUFFICES ASSUME NEW i \in Items, i \notin hasty', NEW x \in Stores, NEW y \in Stores,
                      NEW k \in DOMAIN todo', Pending(k, x)', i \in todo'[k].what,
                      i \in Disk(y)', x # y
               PROVE  FALSE
    BY DEF LosersFirst
  <2> QED
    BY <1>1, <1>3, <1>6
<1>14. SoldByLinked'
  <2> SUFFICES ASSUME NEW i \in Items, i \notin hasty', NEW x \in Stores,
                      Settled(i, x)', "mobile" \in held'[i]
               PROVE  x \in linked'
    BY DEF SoldByLinked
  <2>1. x # p
    BY <1>4, <1>a
  <2>2. i \in Disk(x) /\ Settled(i, x)
    BY <2>1, <1>5, <1>0
  <2>3. "mobile" \in held[i]
    BY <2>1, <2>2, <1>a DEF GInv, Consistent, SettledIsHeld
  <2> QED
    BY <2>1, <2>2, <2>3 DEF GInv, Consistent, SoldByLinked
<1> QED
  BY <1>7, <1>8, <1>9, <1>10, <1>11, <1>12, <1>13, <1>14 DEF Consistent, FloorIsUnsaved

\* A command that writes no object file.
LEMMA NoWriterStep ==
    ASSUME GInv, todo = <<>>, vault' = vault, shelf' = shelf,
           hasty \subseteq hasty', TypeOK',
           \A k \in DOMAIN todo' : todo'[k].to = "char",
           OfflineHaveNothing', OneHolder',
           \A i \in Items \ hasty' :
               /\ \A x \in Stores : x \in held'[i] => x \in held[i] \/ i \in Disk(x)
               /\ "floor" \in held'[i] => "floor" \in held[i]
               /\ "mobile" \in held'[i] =>
                      "mobile" \in held[i] \/ \E q \in linked : q \in held[i],
           linked \subseteq linked'
    PROVE  Consistent'
<1>0. \A i \in Items : \A x \in Stores : Settled(i, x) <=> i \in Disk(x)
  BY DEF Settled, Pending
<1>1. \A k, x : ~Pending(k, x)'
  BY DEF Pending
<1>2. \A i \in Items : \A x \in Stores : Settled(i, x)' <=> i \in Disk(x)
  BY <1>1 DEF Settled, Disk
<1>3. \A x \in Stores : Disk(x)' = Disk(x)
  BY DEF Disk
<1>4. SameWrites' /\ LosersFirst'
  BY <1>1 DEF SameWrites, LosersFirst
<1>5. OneFile'
  BY <1>3 DEF OneFile, GInv, Consistent
<1>6. OneSettled'
  BY <1>2 DEF OneSettled, GInv, Consistent, OneFile
<1>7. SettledIsHeld'
  BY <1>0, <1>2 DEF SettledIsHeld, OneFile, GInv, Consistent
<1>8. FloorIsUnsaved'
  BY <1>0, <1>2 DEF FloorIsUnsaved, GInv, Consistent
<1>9. HeldIsSettled'
  <2> SUFFICES ASSUME NEW i \in Items, i \notin hasty', NEW q \in online', q \in held'[i]
               PROVE  i \in Disk(q)
    BY <1>2 DEF HeldIsSettled, TypeOK, Stores
  <2>0. q \in Players /\ q \in Stores
    BY DEF TypeOK, Stores
  <2>1. CASE q \in held[i]
    <3>1. q \in online
      BY <2>1, <2>0 DEF GInv, Consistent, OfflineHaveNothing
    <3> QED
      BY <2>1, <3>1, <2>0, <1>0 DEF GInv, Consistent, HeldIsSettled
  <2> QED
    BY <2>0, <2>1
<1>10. SoldByLinked'
  <2> SUFFICES ASSUME NEW i \in Items, i \notin hasty', NEW x \in Stores,
                      i \in Disk(x), "mobile" \in held'[i]
               PROVE  x \in linked
    BY <1>2 DEF SoldByLinked
  <2>1. CASE "mobile" \in held[i]
    BY <2>1, <1>0 DEF GInv, Consistent, SoldByLinked
  <2>2. ASSUME NEW q \in linked, q \in held[i]
        PROVE  x = q
    <3>1. q \in Stores
      BY DEF GInv, TypeOK, Stores
    <3> QED
      BY <2>2, <3>1, <1>0 DEF GInv, Consistent, SettledIsHeld
  <2> QED
    BY <2>1, <2>2
<1> QED
  BY <1>4, <1>5, <1>6, <1>7, <1>8, <1>9, <1>10 DEF Consistent

\* A command that writes the object files of two, the loser's first.
LEMMA TwoWritersStep ==
    ASSUME GInv, todo = <<>>, vault' = vault, shelf' = shelf,
           hasty \subseteq hasty', TypeOK',
           NEW a \in Stores, NEW A \in SUBSET Items,
           NEW b \in Stores, NEW B \in SUBSET Items, a # b,
           TwoWriters(todo, a, A, b, B)',
           OfflineHaveNothing', OneHolder',
           \A i \in Items \ hasty' : i \in A =>
               held'[i] \subseteq {a} /\ \A y \in Stores \ {a} : i \notin Disk(y),
           \A i \in Items \ hasty' : i \in B =>
               held'[i] \subseteq {b} /\ \A y \in Stores \ {a, b} : i \notin Disk(y),
           \A i \in Items \ hasty' :
               /\ ~(i \in A /\ i \in B)
               /\ a \in held'[i] => i \in A
               /\ b \in held'[i] => i \in B
               /\ \A x \in Stores \ {a, b} : x \in held'[i] => x \in held[i]
               /\ "floor" \in held'[i] => "floor" \in held[i]
               /\ "mobile" \in held'[i] => "mobile" \in held[i],
           linked \subseteq linked'
    PROVE  Consistent'
<1>a. "floor" \notin Stores /\ "mobile" \notin Stores
  BY GoodsAssumption DEF Stores
<1>0. \A i \in Items : \A x \in Stores : Settled(i, x) <=> i \in Disk(x)
  BY DEF Settled, Pending
<1>1. \A k, x : Pending(k, x)' =>
          /\ k \in DOMAIN todo' /\ todo'[k].who = x
          /\ \/ x = a /\ todo'[k].what = A
             \/ x = b /\ todo'[k].what = B
  BY DEF TwoWriters, Pending
<1>2. /\ \E k \in DOMAIN todo' : Pending(k, a)'
      /\ \E k \in DOMAIN todo' : Pending(k, b)'
  BY DEF TwoWriters, Pending
<1>o. \A k \in DOMAIN todo' : Pending(k, b)' =>
          \E j \in DOMAIN todo' : j < k /\ Pending(j, a)'
  BY DEF TwoWriters, Pending
<1>3. \A x \in Stores : Disk(x)' = Disk(x)
  BY DEF Disk
<1>4. \A i : (Settled(i, a)' <=> i \in A) /\ (Settled(i, b)' <=> i \in B)
  BY <1>1, <1>2 DEF Settled
<1>5. \A i : \A x \in Stores \ {a, b} : Settled(i, x)' <=> i \in Disk(x)
  BY <1>1, <1>3 DEF Settled
<1>7. SameWrites'
  BY <1>1 DEF SameWrites
<1>8. OneFile'
  BY <1>3 DEF OneFile, GInv, Consistent
<1>9. OneSettled'
  <2> SUFFICES ASSUME NEW i \in Items, i \notin hasty', NEW x \in Stores, NEW y \in Stores,
                      Settled(i, x)', Settled(i, y)', x # y
               PROVE  FALSE
    BY DEF OneSettled
  <2>1. CASE x \notin {a, b} /\ y \notin {a, b}
    BY <2>1, <1>5 DEF GInv, Consistent, OneFile
  <2>2. CASE x \in {a, b} \/ y \in {a, b}
    BY <2>2, <1>4, <1>5
  <2> QED
    BY <2>1, <2>2
<1>10. SettledIsHeld'
  <2> SUFFICES ASSUME NEW i \in Items, i \notin hasty', NEW x \in Stores, NEW y \in Stores,
                      Settled(i, x)', y \in held'[i], x # y
               PROVE  FALSE
    BY DEF SettledIsHeld
  <2>1. CASE x \in {a, b}
    BY <2>1, <1>4
  <2>2. CASE x \notin {a, b} /\ y \in {a, b}
    BY <2>2, <1>5
  <2>3. CASE x \notin {a, b} /\ y \notin {a, b}
    <3>1. i \in Disk(x) /\ y \in held[i]
      BY <2>3, <1>5
    <3> QED
      BY <3>1, <1>0 DEF GInv, Consistent, SettledIsHeld
  <2> QED
    BY <2>1, <2>2, <2>3
<1>11. ASSUME NEW i \in Items \ hasty', NEW x \in Stores, "floor" \in held'[i]
       PROVE  ~Settled(i, x)'
  <2>1. CASE x \in {a, b}
    BY <2>1, <1>4, <1>11, <1>a
  <2>2. CASE x \notin {a, b}
    BY <2>2, <1>5, <1>0, <1>11 DEF GInv, Consistent, FloorIsUnsaved
  <2> QED
    BY <2>1, <2>2
<1>12. HeldIsSettled'
  <2> SUFFICES ASSUME NEW i \in Items, i \notin hasty', NEW q \in online', q \in held'[i]
               PROVE  Settled(i, q)'
    BY DEF HeldIsSettled
  <2>0. q \in Players /\ q \in Stores
    BY DEF TypeOK, Stores
  <2>1. CASE q \in {a, b}
    BY <2>1, <1>4
  <2>2. CASE q \notin {a, b}
    <3>1. q \in held[i]
      BY <2>0, <2>2
    <3>2. q \in online
      BY <3>1, <2>0 DEF GInv, Consistent, OfflineHaveNothing
    <3> QED
      BY <3>1, <3>2, <2>0, <2>2, <1>0, <1>5 DEF GInv, Consistent, HeldIsSettled
  <2> QED
    BY <2>1, <2>2
<1>13. LosersFirst'
  <2> SUFFICES ASSUME NEW i \in Items, i \notin hasty', NEW x \in Stores, NEW y \in Stores,
                      NEW k \in DOMAIN todo', Pending(k, x)', i \in todo'[k].what,
                      i \in Disk(y)', x # y
               PROVE  \E j \in DOMAIN todo' : j < k /\ Pending(j, y)'
    BY DEF LosersFirst
  <2>1. x = b /\ y = a
    BY <1>1, <1>3
  <2> QED
    BY <2>1, <1>o
<1>14. SoldByLinked'
  <2> SUFFICES ASSUME NEW i \in Items, i \notin hasty', NEW x \in Stores,
                      Settled(i, x)', "mobile" \in held'[i]
               PROVE  x \in linked'
    BY DEF SoldByLinked
  <2>1. x \notin {a, b}
    BY <1>4, <1>a
  <2>2. Settled(i, x)
    BY <2>1, <1>5, <1>0
  <2> QED
    BY <2>2 DEF GInv, Consistent, SoldByLinked
<1> QED
  BY <1>7, <1>8, <1>9, <1>10, <1>11, <1>12, <1>13, <1>14 DEF Consistent, FloorIsUnsaved

-----------------------------------------------------------------------------
(* What the invariant says when no write is pending, and the types of what *)
(* commands do.                                                            *)

LEMMA RestFacts ==
    ASSUME GInv, todo = <<>>
    PROVE  /\ \A i \in Items \ hasty : \A q \in Players : q \in held[i] => i \in vault[q]
           /\ \A i \in Items \ hasty : \A x, y \in Stores :
                  i \in Disk(x) /\ y \in held[i] => x = y
           /\ \A i \in Items \ hasty : \A x \in Stores : "floor" \in held[i] => i \notin Disk(x)
           /\ \A q \in Players : Disk(q) = vault[q]
<1>0. \A i \in Items : \A x \in Stores : Settled(i, x) <=> i \in Disk(x)
  BY DEF Settled, Pending
<1>1. \A q \in Players : q \in Stores /\ Disk(q) = vault[q]
  BY GoodsAssumption DEF Stores, Disk
<1>2. ASSUME NEW i \in Items \ hasty, NEW q \in Players, q \in held[i]
      PROVE  i \in vault[q]
  <2>1. q \in online
    BY <1>2 DEF GInv, Consistent, OfflineHaveNothing
  <2> QED
    BY <1>0, <1>1, <1>2, <2>1 DEF GInv, Consistent, HeldIsSettled
<1>3. \A i \in Items \ hasty : \A x, y \in Stores : i \in Disk(x) /\ y \in held[i] => x = y
  BY <1>0 DEF GInv, Consistent, SettledIsHeld
<1>4. \A i \in Items \ hasty : \A x \in Stores : "floor" \in held[i] => i \notin Disk(x)
  BY <1>0 DEF GInv, Consistent, FloorIsUnsaved
<1> QED
  BY <1>1, <1>2, <1>3, <1>4

LEMMA CoinsType ==
    ASSUME NEW c \in [Players -> Record], NEW p \in Players, NEW n \in Nat
    PROVE  /\ Earn(c, p, n) \in [Players -> Record]
           /\ n <= c[p].gold => Spend(c, p, n) \in [Players -> Record]
           /\ \A q \in Players : q # p => Spend(c, p, n)[q] = c[q]
<1>1. c[p] \in Record /\ c[p].gold \in Nat /\ c[p].bank \in Nat
  BY DEF Record
<1>2. [c[p] EXCEPT !.gold = @ + n] \in Record
  BY <1>1 DEF Record
<1>3. n <= c[p].gold => [c[p] EXCEPT !.gold = @ - n] \in Record
  BY <1>1 DEF Record
<1> QED
  BY <1>2, <1>3 DEF Earn, Spend

LEMMA HolderFacts ==
    /\ "floor" \in Holders /\ "store" \in Holders /\ "mobile" \in Holders
    /\ "store" \in Stores /\ "floor" \notin Stores /\ "mobile" \notin Stores
    /\ \A p \in Players : /\ p \in Holders /\ p \in Stores
                          /\ p # "floor" /\ p # "store" /\ p # "mobile"
    /\ \A x \in Stores : x \in Holders /\ (x # "store" => x \in Players)
  BY GoodsAssumption DEF Holders, Stores

LEMMA GetStep ==
    ASSUME GInv, NEW p \in Players, NEW S \in SUBSET Items, Get(p, S)
    PROVE  GInv'
<1> USE HolderFacts
<1>a. TypeOK /\ Consistent
  BY DEF GInv
<1>c. coins \in [Players -> Record]
  BY <1>a DEF TypeOK
<1>0. todo = <<>> /\ vault' = vault /\ shelf' = shelf /\ hasty \subseteq hasty'
  BY DEF Get, Commands, disk, memory
<1>r. /\ \A i \in Items \ hasty : \A pl \in Players : pl \in held[i] => i \in vault[pl]
      /\ \A i \in Items \ hasty : \A x, y \in Stores :
             i \in Disk(x) /\ y \in held[i] => x = y
      /\ \A i \in Items \ hasty : \A x \in Stores : "floor" \in held[i] => i \notin Disk(x)
      /\ \A pl \in Players : Disk(pl) = vault[pl]
  BY <1>0, RestFacts
<1>m. /\ Moved(S, "floor", p) \in [Items -> SUBSET Holders]
      /\ Lost(S, "floor") \in [Items -> SUBSET Holders]
      /\ \A i \in Items : Moved(S, "floor", p)[i] =
             IF i \in S THEN (held[i] \ {"floor"}) \cup {p} ELSE held[i]
      /\ \A i \in Items : Lost(S, "floor")[i] = IF i \in S THEN held[i] \ {"floor"} ELSE held[i]
  <2>1. p \in Holders
    OBVIOUS
  <2> QED
    BY <2>1, <1>a DEF TypeOK, Moved, Lost
<1>h. /\ held' = Moved(S, "floor", p) /\ held' \in [Items -> SUBSET Holders]
      /\ \A i \in Items : held'[i] = IF i \in S THEN (held[i] \ {"floor"}) \cup {p} ELSE held[i]
  BY <1>m DEF Get, Commands, disk, memory
<1>w. PICK W : W = Had(held', p)
  OBVIOUS
<1>d. coins \in [Players -> Record]
  BY <1>a DEF TypeOK
<1>1. /\ W \in SUBSET Items /\ todo' \in Seq(Writes)
      /\ OneWriter(todo, p, W)'
      /\ \E k \in DOMAIN todo' : todo'[k].to # "char"
  <2>1. todo' = DoSave(p, held', coins)
    BY <1>h DEF Get, Commands
  <2>2. /\ Had(held', p) \in SUBSET Items
        /\ DoSave(p, held', coins) \in Seq(Writes)
        /\ OneWriter(DoSave(p, held', coins), p, Had(held', p))
        /\ 1 \in DOMAIN DoSave(p, held', coins)
        /\ DoSave(p, held', coins)[1] = [to |-> "rent", who |-> p, what |-> Had(held', p)]
    BY <1>h, <1>c, <1>d, <1>a, DoSaveType DEF TypeOK
  <2> QED
    BY <2>1, <2>2, <1>w, <1>h DEF OneWriter
<1>2. TypeOK'
  BY <1>a, <1>h, <1>1, <1>0 DEF Get, Commands, disk, memory, TypeOK
<1>3. OfflineHaveNothing'
  BY <1>a, <1>h DEF Get, Commands, disk, memory, TypeOK, Consistent, OfflineHaveNothing, Had
<1>4. OneHolder'
  BY <1>a, <1>h, <1>0 DEF Get, Commands, disk, memory, TypeOK, Consistent, OneHolder, Had
<1>5. ASSUME NEW i \in Items \ hasty', i \in W
      PROVE  (i \in vault[p] \/ "floor" \in held[i]) /\ held'[i] \subseteq {p}
  BY <1>a, <1>h, <1>w, <1>r, <1>0, <1>5 DEF Get, Commands, disk, memory, TypeOK, Consistent, OneHolder, Had
<1>6. ASSUME NEW i \in Items \ hasty'
      PROVE  /\ p \in held'[i] => i \in W
             /\ \A x \in Stores \ {p} : x \in held'[i] => x \in held[i]
             /\ "floor" \in held'[i] => "floor" \in held[i] \/ p \in held[i]
             /\ "mobile" \in held'[i] => "mobile" \in held[i] \/ p \in held[i]
  BY <1>a, <1>h, <1>w, <1>0 DEF Get, Commands, disk, memory, Had, TypeOK, Consistent, OfflineHaveNothing
<1>l. linked \ {p} \subseteq linked'
  BY DEF Get, Commands, disk, memory, Leaves
<1>7. Consistent'
  BY <1>l, <1>0, <1>1, <1>2, <1>3, <1>4, <1>5, <1>6, OneWriterStep
<1> QED
  BY <1>2, <1>7 DEF GInv

LEMMA DropStep ==
    ASSUME GInv, NEW p \in Players, NEW S \in SUBSET Items, Drop(p, S)
    PROVE  GInv'
<1> USE HolderFacts
<1>a. TypeOK /\ Consistent
  BY DEF GInv
<1>c. coins \in [Players -> Record]
  BY <1>a DEF TypeOK
<1>0. todo = <<>> /\ vault' = vault /\ shelf' = shelf /\ hasty \subseteq hasty'
  BY DEF Drop, Commands, disk, memory
<1>r. /\ \A i \in Items \ hasty : \A pl \in Players : pl \in held[i] => i \in vault[pl]
      /\ \A i \in Items \ hasty : \A x, y \in Stores :
             i \in Disk(x) /\ y \in held[i] => x = y
      /\ \A i \in Items \ hasty : \A x \in Stores : "floor" \in held[i] => i \notin Disk(x)
      /\ \A pl \in Players : Disk(pl) = vault[pl]
  BY <1>0, RestFacts
<1>m. /\ Moved(S, p, "floor") \in [Items -> SUBSET Holders]
      /\ Lost(S, p) \in [Items -> SUBSET Holders]
      /\ \A i \in Items : Moved(S, p, "floor")[i] =
             IF i \in S THEN (held[i] \ {p}) \cup {"floor"} ELSE held[i]
      /\ \A i \in Items : Lost(S, p)[i] = IF i \in S THEN held[i] \ {p} ELSE held[i]
  <2>1. "floor" \in Holders
    OBVIOUS
  <2> QED
    BY <2>1, <1>a DEF TypeOK, Moved, Lost
<1>h. /\ held' = Moved(S, p, "floor") /\ held' \in [Items -> SUBSET Holders]
      /\ \A i \in Items : held'[i] = IF i \in S THEN (held[i] \ {p}) \cup {"floor"} ELSE held[i]
  BY <1>m DEF Drop, Commands, disk, memory
<1>w. PICK W : W = Had(held', p)
  OBVIOUS
<1>d. coins \in [Players -> Record]
  BY <1>a DEF TypeOK
<1>1. /\ W \in SUBSET Items /\ todo' \in Seq(Writes)
      /\ OneWriter(todo, p, W)'
      /\ \E k \in DOMAIN todo' : todo'[k].to # "char"
  <2>1. todo' = DoSave(p, held', coins)
    BY <1>h DEF Drop, Commands
  <2>2. /\ Had(held', p) \in SUBSET Items
        /\ DoSave(p, held', coins) \in Seq(Writes)
        /\ OneWriter(DoSave(p, held', coins), p, Had(held', p))
        /\ 1 \in DOMAIN DoSave(p, held', coins)
        /\ DoSave(p, held', coins)[1] = [to |-> "rent", who |-> p, what |-> Had(held', p)]
    BY <1>h, <1>c, <1>d, <1>a, DoSaveType DEF TypeOK
  <2> QED
    BY <2>1, <2>2, <1>w, <1>h DEF OneWriter
<1>2. TypeOK'
  BY <1>a, <1>h, <1>1, <1>0 DEF Drop, Commands, disk, memory, TypeOK
<1>3. OfflineHaveNothing'
  BY <1>a, <1>h DEF Drop, Commands, disk, memory, TypeOK, Consistent, OfflineHaveNothing, Had
<1>4. OneHolder'
  BY <1>a, <1>h, <1>0 DEF Drop, Commands, disk, memory, TypeOK, Consistent, OneHolder, Had
<1>5. ASSUME NEW i \in Items \ hasty', i \in W
      PROVE  (i \in vault[p] \/ "floor" \in held[i]) /\ held'[i] \subseteq {p}
  BY <1>a, <1>h, <1>w, <1>r, <1>0, <1>5 DEF Drop, Commands, disk, memory, TypeOK, Consistent, OneHolder, Had
<1>6. ASSUME NEW i \in Items \ hasty'
      PROVE  /\ p \in held'[i] => i \in W
             /\ \A x \in Stores \ {p} : x \in held'[i] => x \in held[i]
             /\ "floor" \in held'[i] => "floor" \in held[i] \/ p \in held[i]
             /\ "mobile" \in held'[i] => "mobile" \in held[i] \/ p \in held[i]
  BY <1>a, <1>h, <1>w, <1>0 DEF Drop, Commands, disk, memory, Had, TypeOK, Consistent, OfflineHaveNothing
<1>l. linked \ {p} \subseteq linked'
  BY DEF Drop, Commands, disk, memory, Leaves
<1>7. Consistent'
  BY <1>l, <1>0, <1>1, <1>2, <1>3, <1>4, <1>5, <1>6, OneWriterStep
<1> QED
  BY <1>2, <1>7 DEF GInv

LEMMA GiveMobileStep ==
    ASSUME GInv, NEW p \in Players, NEW S \in SUBSET Items, GiveMobile(p, S)
    PROVE  GInv'
<1> USE HolderFacts
<1>a. TypeOK /\ Consistent
  BY DEF GInv
<1>c. coins \in [Players -> Record]
  BY <1>a DEF TypeOK
<1>0. todo = <<>> /\ vault' = vault /\ shelf' = shelf /\ hasty \subseteq hasty'
  BY DEF GiveMobile, Commands, disk, memory
<1>r. /\ \A i \in Items \ hasty : \A pl \in Players : pl \in held[i] => i \in vault[pl]
      /\ \A i \in Items \ hasty : \A x, y \in Stores :
             i \in Disk(x) /\ y \in held[i] => x = y
      /\ \A i \in Items \ hasty : \A x \in Stores : "floor" \in held[i] => i \notin Disk(x)
      /\ \A pl \in Players : Disk(pl) = vault[pl]
  BY <1>0, RestFacts
<1>m. /\ Moved(S, p, "mobile") \in [Items -> SUBSET Holders]
      /\ Lost(S, p) \in [Items -> SUBSET Holders]
      /\ \A i \in Items : Moved(S, p, "mobile")[i] =
             IF i \in S THEN (held[i] \ {p}) \cup {"mobile"} ELSE held[i]
      /\ \A i \in Items : Lost(S, p)[i] = IF i \in S THEN held[i] \ {p} ELSE held[i]
  <2>1. "mobile" \in Holders
    OBVIOUS
  <2> QED
    BY <2>1, <1>a DEF TypeOK, Moved, Lost
<1>h. /\ held' = Moved(S, p, "mobile") /\ held' \in [Items -> SUBSET Holders]
      /\ \A i \in Items : held'[i] = IF i \in S THEN (held[i] \ {p}) \cup {"mobile"} ELSE held[i]
  BY <1>m DEF GiveMobile, Commands, disk, memory
<1>w. PICK W : W = Had(held', p)
  OBVIOUS
<1>d. coins \in [Players -> Record]
  BY <1>a DEF TypeOK
<1>1. /\ W \in SUBSET Items /\ todo' \in Seq(Writes)
      /\ OneWriter(todo, p, W)'
      /\ \E k \in DOMAIN todo' : todo'[k].to # "char"
  <2>1. todo' = DoSave(p, held', coins)
    BY <1>h DEF GiveMobile, Commands
  <2>2. /\ Had(held', p) \in SUBSET Items
        /\ DoSave(p, held', coins) \in Seq(Writes)
        /\ OneWriter(DoSave(p, held', coins), p, Had(held', p))
        /\ 1 \in DOMAIN DoSave(p, held', coins)
        /\ DoSave(p, held', coins)[1] = [to |-> "rent", who |-> p, what |-> Had(held', p)]
    BY <1>h, <1>c, <1>d, <1>a, DoSaveType DEF TypeOK
  <2> QED
    BY <2>1, <2>2, <1>w, <1>h DEF OneWriter
<1>2. TypeOK'
  BY <1>a, <1>h, <1>1, <1>0 DEF GiveMobile, Commands, disk, memory, TypeOK
<1>3. OfflineHaveNothing'
  BY <1>a, <1>h DEF GiveMobile, Commands, disk, memory, TypeOK, Consistent, OfflineHaveNothing, Had
<1>4. OneHolder'
  BY <1>a, <1>h, <1>0 DEF GiveMobile, Commands, disk, memory, TypeOK, Consistent, OneHolder, Had
<1>5. ASSUME NEW i \in Items \ hasty', i \in W
      PROVE  (i \in vault[p] \/ "floor" \in held[i]) /\ held'[i] \subseteq {p}
  BY <1>a, <1>h, <1>w, <1>r, <1>0, <1>5 DEF GiveMobile, Commands, disk, memory, TypeOK, Consistent, OneHolder, Had
<1>6. ASSUME NEW i \in Items \ hasty'
      PROVE  /\ p \in held'[i] => i \in W
             /\ \A x \in Stores \ {p} : x \in held'[i] => x \in held[i]
             /\ "floor" \in held'[i] => "floor" \in held[i] \/ p \in held[i]
             /\ "mobile" \in held'[i] => "mobile" \in held[i] \/ p \in held[i]
  BY <1>a, <1>h, <1>w, <1>0 DEF GiveMobile, Commands, disk, memory, Had, TypeOK, Consistent, OfflineHaveNothing
<1>l. linked \ {p} \subseteq linked'
  BY DEF GiveMobile, Commands, disk, memory, Leaves
<1>7. Consistent'
  BY <1>l, <1>0, <1>1, <1>2, <1>3, <1>4, <1>5, <1>6, OneWriterStep
<1> QED
  BY <1>2, <1>7 DEF GInv

LEMMA GetCoinsStep ==
    ASSUME GInv, NEW p \in Players, GetCoins(p)
    PROVE  GInv'
<1> USE HolderFacts
<1>a. TypeOK /\ Consistent
  BY DEF GInv
<1>c. Earn(coins, p, loose) \in [Players -> Record]
  BY <1>a, CoinsType DEF TypeOK
<1>0. todo = <<>> /\ vault' = vault /\ shelf' = shelf /\ hasty \subseteq hasty'
  BY DEF GetCoins, Commands, disk, memory
<1>r. /\ \A i \in Items \ hasty : \A pl \in Players : pl \in held[i] => i \in vault[pl]
      /\ \A i \in Items \ hasty : \A x, y \in Stores :
             i \in Disk(x) /\ y \in held[i] => x = y
      /\ \A i \in Items \ hasty : \A x \in Stores : "floor" \in held[i] => i \notin Disk(x)
      /\ \A pl \in Players : Disk(pl) = vault[pl]
  BY <1>0, RestFacts
<1>h. held' = held /\ held' \in [Items -> SUBSET Holders]
  BY <1>a DEF GetCoins, Commands, disk, memory, TypeOK
<1>w. PICK W : W = Had(held, p)
  OBVIOUS
<1>d. coins \in [Players -> Record]
  BY <1>a DEF TypeOK
<1>1. /\ W \in SUBSET Items /\ todo' \in Seq(Writes)
      /\ OneWriter(todo, p, W)'
      /\ \E k \in DOMAIN todo' : todo'[k].to # "char"
  <2>1. todo' = DoSave(p, held, Earn(coins, p, loose))
    BY <1>h DEF GetCoins, Commands
  <2>2. /\ Had(held, p) \in SUBSET Items
        /\ DoSave(p, held, Earn(coins, p, loose)) \in Seq(Writes)
        /\ OneWriter(DoSave(p, held, Earn(coins, p, loose)), p, Had(held, p))
        /\ 1 \in DOMAIN DoSave(p, held, Earn(coins, p, loose))
        /\ DoSave(p, held, Earn(coins, p, loose))[1] = [to |-> "rent", who |-> p, what |-> Had(held, p)]
    BY <1>h, <1>c, <1>d, <1>a, DoSaveType DEF TypeOK
  <2> QED
    BY <2>1, <2>2, <1>w, <1>h DEF OneWriter
<1>2. TypeOK'
  BY <1>a, <1>h, <1>1, <1>0, <1>c DEF GetCoins, Commands, disk, memory, TypeOK
<1>3. OfflineHaveNothing'
  BY <1>a, <1>h DEF GetCoins, Commands, disk, memory, TypeOK, Consistent, OfflineHaveNothing, Had
<1>4. OneHolder'
  BY <1>a, <1>h, <1>0 DEF GetCoins, Commands, disk, memory, TypeOK, Consistent, OneHolder, Had
<1>5. ASSUME NEW i \in Items \ hasty', i \in W
      PROVE  (i \in vault[p] \/ "floor" \in held[i]) /\ held'[i] \subseteq {p}
  BY <1>a, <1>h, <1>w, <1>r, <1>0, <1>5 DEF GetCoins, Commands, disk, memory, TypeOK, Consistent, OneHolder, Had
<1>6. ASSUME NEW i \in Items \ hasty'
      PROVE  /\ p \in held'[i] => i \in W
             /\ \A x \in Stores \ {p} : x \in held'[i] => x \in held[i]
             /\ "floor" \in held'[i] => "floor" \in held[i] \/ p \in held[i]
             /\ "mobile" \in held'[i] => "mobile" \in held[i] \/ p \in held[i]
  BY <1>a, <1>h, <1>w, <1>0 DEF GetCoins, Commands, disk, memory, Had, TypeOK, Consistent, OfflineHaveNothing
<1>l. linked \ {p} \subseteq linked'
  BY DEF GetCoins, Commands, disk, memory, Leaves
<1>7. Consistent'
  BY <1>l, <1>0, <1>1, <1>2, <1>3, <1>4, <1>5, <1>6, OneWriterStep
<1> QED
  BY <1>2, <1>7 DEF GInv

LEMMA SaveStep ==
    ASSUME GInv, NEW p \in Players, Save(p)
    PROVE  GInv'
<1> USE HolderFacts
<1>a. TypeOK /\ Consistent
  BY DEF GInv
<1>c. coins \in [Players -> Record]
  BY <1>a DEF TypeOK
<1>0. todo = <<>> /\ vault' = vault /\ shelf' = shelf /\ hasty \subseteq hasty'
  BY DEF Save, Commands, disk, memory
<1>r. /\ \A i \in Items \ hasty : \A pl \in Players : pl \in held[i] => i \in vault[pl]
      /\ \A i \in Items \ hasty : \A x, y \in Stores :
             i \in Disk(x) /\ y \in held[i] => x = y
      /\ \A i \in Items \ hasty : \A x \in Stores : "floor" \in held[i] => i \notin Disk(x)
      /\ \A pl \in Players : Disk(pl) = vault[pl]
  BY <1>0, RestFacts
<1>h. held' = held /\ held' \in [Items -> SUBSET Holders]
  BY <1>a DEF Save, Commands, disk, memory, TypeOK
<1>w. PICK W : W = Had(held, p)
  OBVIOUS
<1>d. coins \in [Players -> Record]
  BY <1>a DEF TypeOK
<1>1. /\ W \in SUBSET Items /\ todo' \in Seq(Writes)
      /\ OneWriter(todo, p, W)'
      /\ \E k \in DOMAIN todo' : todo'[k].to # "char"
  <2>1. todo' = DoSave(p, held, coins)
    BY <1>h DEF Save, Commands
  <2>2. /\ Had(held, p) \in SUBSET Items
        /\ DoSave(p, held, coins) \in Seq(Writes)
        /\ OneWriter(DoSave(p, held, coins), p, Had(held, p))
        /\ 1 \in DOMAIN DoSave(p, held, coins)
        /\ DoSave(p, held, coins)[1] = [to |-> "rent", who |-> p, what |-> Had(held, p)]
    BY <1>h, <1>c, <1>d, <1>a, DoSaveType DEF TypeOK
  <2> QED
    BY <2>1, <2>2, <1>w, <1>h DEF OneWriter
<1>2. TypeOK'
  BY <1>a, <1>h, <1>1, <1>0 DEF Save, Commands, disk, memory, TypeOK
<1>3. OfflineHaveNothing'
  BY <1>a, <1>h DEF Save, Commands, disk, memory, TypeOK, Consistent, OfflineHaveNothing, Had
<1>4. OneHolder'
  BY <1>a, <1>h, <1>0 DEF Save, Commands, disk, memory, TypeOK, Consistent, OneHolder, Had
<1>5. ASSUME NEW i \in Items \ hasty', i \in W
      PROVE  (i \in vault[p] \/ "floor" \in held[i]) /\ held'[i] \subseteq {p}
  BY <1>a, <1>h, <1>w, <1>r, <1>0, <1>5 DEF Save, Commands, disk, memory, TypeOK, Consistent, OneHolder, Had
<1>6. ASSUME NEW i \in Items \ hasty'
      PROVE  /\ p \in held'[i] => i \in W
             /\ \A x \in Stores \ {p} : x \in held'[i] => x \in held[i]
             /\ "floor" \in held'[i] => "floor" \in held[i] \/ p \in held[i]
             /\ "mobile" \in held'[i] => "mobile" \in held[i] \/ p \in held[i]
  BY <1>a, <1>h, <1>w, <1>0 DEF Save, Commands, disk, memory, Had, TypeOK, Consistent, OfflineHaveNothing
<1>l. linked \ {p} \subseteq linked'
  BY DEF Save, Commands, disk, memory, Leaves
<1>7. Consistent'
  BY <1>l, <1>0, <1>1, <1>2, <1>3, <1>4, <1>5, <1>6, OneWriterStep
<1> QED
  BY <1>2, <1>7 DEF GInv

LEMMA LoseLinkStep ==
    ASSUME GInv, NEW p \in Players, LoseLink(p)
    PROVE  GInv'
<1> USE HolderFacts
<1>a. TypeOK /\ Consistent
  BY DEF GInv
<1>c. coins \in [Players -> Record]
  BY <1>a DEF TypeOK
<1>0. todo = <<>> /\ vault' = vault /\ shelf' = shelf /\ hasty \subseteq hasty'
  BY DEF LoseLink, Commands, disk, memory
<1>r. /\ \A i \in Items \ hasty : \A pl \in Players : pl \in held[i] => i \in vault[pl]
      /\ \A i \in Items \ hasty : \A x, y \in Stores :
             i \in Disk(x) /\ y \in held[i] => x = y
      /\ \A i \in Items \ hasty : \A x \in Stores : "floor" \in held[i] => i \notin Disk(x)
      /\ \A pl \in Players : Disk(pl) = vault[pl]
  BY <1>0, RestFacts
<1>h. held' = held /\ held' \in [Items -> SUBSET Holders]
  BY <1>a DEF LoseLink, Commands, disk, memory, TypeOK
<1>w. PICK W : W = Had(held, p)
  OBVIOUS
<1>d. coins \in [Players -> Record]
  BY <1>a DEF TypeOK
<1>1. /\ W \in SUBSET Items /\ todo' \in Seq(Writes)
      /\ OneWriter(todo, p, W)'
      /\ \E k \in DOMAIN todo' : todo'[k].to # "char"
  <2>1. todo' = DoSave(p, held, coins)
    BY <1>h DEF LoseLink, Commands
  <2>2. /\ Had(held, p) \in SUBSET Items
        /\ DoSave(p, held, coins) \in Seq(Writes)
        /\ OneWriter(DoSave(p, held, coins), p, Had(held, p))
        /\ 1 \in DOMAIN DoSave(p, held, coins)
        /\ DoSave(p, held, coins)[1] = [to |-> "rent", who |-> p, what |-> Had(held, p)]
    BY <1>h, <1>c, <1>d, <1>a, DoSaveType DEF TypeOK
  <2> QED
    BY <2>1, <2>2, <1>w, <1>h DEF OneWriter
<1>2. TypeOK'
  BY <1>a, <1>h, <1>1, <1>0 DEF LoseLink, Commands, disk, memory, TypeOK
<1>3. OfflineHaveNothing'
  BY <1>a, <1>h DEF LoseLink, Commands, disk, memory, TypeOK, Consistent, OfflineHaveNothing, Had
<1>4. OneHolder'
  BY <1>a, <1>h, <1>0 DEF LoseLink, Commands, disk, memory, TypeOK, Consistent, OneHolder, Had
<1>5. ASSUME NEW i \in Items \ hasty', i \in W
      PROVE  (i \in vault[p] \/ "floor" \in held[i]) /\ held'[i] \subseteq {p}
  BY <1>a, <1>h, <1>w, <1>r, <1>0, <1>5 DEF LoseLink, Commands, disk, memory, TypeOK, Consistent, OneHolder, Had
<1>6. ASSUME NEW i \in Items \ hasty'
      PROVE  /\ p \in held'[i] => i \in W
             /\ \A x \in Stores \ {p} : x \in held'[i] => x \in held[i]
             /\ "floor" \in held'[i] => "floor" \in held[i] \/ p \in held[i]
             /\ "mobile" \in held'[i] => "mobile" \in held[i] \/ p \in held[i]
  BY <1>a, <1>h, <1>w, <1>0 DEF LoseLink, Commands, disk, memory, Had, TypeOK, Consistent, OfflineHaveNothing
<1>l. linked \ {p} \subseteq linked'
  BY DEF LoseLink, Commands, disk, memory, Leaves
<1>7. Consistent'
  BY <1>l, <1>0, <1>1, <1>2, <1>3, <1>4, <1>5, <1>6, OneWriterStep
<1> QED
  BY <1>2, <1>7 DEF GInv

LEMMA DropCoinsStep ==
    ASSUME GInv, NEW p \in Players, NEW n \in Nat, DropCoins(p, n)
    PROVE  GInv'
<1> USE HolderFacts
<1>a. TypeOK /\ Consistent
  BY DEF GInv
<1>c. Spend(coins, p, n) \in [Players -> Record]
  BY <1>a, CoinsType DEF TypeOK, DropCoins
<1>0. todo = <<>> /\ vault' = vault /\ shelf' = shelf /\ hasty \subseteq hasty'
  BY DEF DropCoins, Commands, disk, memory
<1>r. /\ \A i \in Items \ hasty : \A pl \in Players : pl \in held[i] => i \in vault[pl]
      /\ \A i \in Items \ hasty : \A x, y \in Stores :
             i \in Disk(x) /\ y \in held[i] => x = y
      /\ \A i \in Items \ hasty : \A x \in Stores : "floor" \in held[i] => i \notin Disk(x)
      /\ \A pl \in Players : Disk(pl) = vault[pl]
  BY <1>0, RestFacts
<1>h. held' = held /\ held' \in [Items -> SUBSET Holders]
  BY <1>a DEF DropCoins, Commands, disk, memory, TypeOK
<1>1. todo' \in Seq(Writes) /\ \A k \in DOMAIN todo' : todo'[k].to = "char"
  BY <1>0 DEF DropCoins
<1>2. TypeOK'
  BY <1>a, <1>h, <1>1, <1>0, <1>c DEF DropCoins, Commands, disk, memory, TypeOK
<1>3. OfflineHaveNothing'
  BY <1>a, <1>h DEF DropCoins, Commands, disk, memory, TypeOK, Consistent, OfflineHaveNothing, Had
<1>4. OneHolder'
  BY <1>a, <1>h, <1>0 DEF DropCoins, Commands, disk, memory, TypeOK, Consistent, OneHolder, Had
<1>5. ASSUME NEW i \in Items \ hasty'
      PROVE  /\ \A x \in Stores : x \in held'[i] => x \in held[i] \/ i \in Disk(x)
             /\ "floor" \in held'[i] => "floor" \in held[i]
             /\ "mobile" \in held'[i] => "mobile" \in held[i] \/ \E q1 \in linked : q1 \in held[i]
  BY <1>a, <1>h, <1>0, <1>r DEF DropCoins, Commands, disk, memory, TypeOK
<1>l. linked \subseteq linked'
  BY DEF DropCoins, Commands, disk, memory
<1>6. Consistent'
  BY <1>l, <1>0, <1>1, <1>2, <1>3, <1>4, <1>5, NoWriterStep
<1> QED
  BY <1>2, <1>6 DEF GInv

LEMMA GiveAllStep ==
    ASSUME GInv, NEW p \in Players, NEW q \in Holders, NEW S \in SUBSET Items, GiveAll(p, q, S)
    PROVE  GInv'
<1> USE HolderFacts
<1>a. TypeOK /\ Consistent
  BY DEF GInv
<1>c. coins \in [Players -> Record]
  BY <1>a DEF TypeOK
<1>0. todo = <<>> /\ vault' = vault /\ shelf' = shelf /\ hasty \subseteq hasty'
  BY DEF GiveAll, Commands, disk, memory
<1>r. /\ \A i \in Items \ hasty : \A pl \in Players : pl \in held[i] => i \in vault[pl]
      /\ \A i \in Items \ hasty : \A x, y \in Stores :
             i \in Disk(x) /\ y \in held[i] => x = y
      /\ \A i \in Items \ hasty : \A x \in Stores : "floor" \in held[i] => i \notin Disk(x)
      /\ \A pl \in Players : Disk(pl) = vault[pl]
  BY <1>0, RestFacts
<1>m. /\ Moved(S, p, q) \in [Items -> SUBSET Holders]
      /\ Lost(S, p) \in [Items -> SUBSET Holders]
      /\ \A i \in Items : Moved(S, p, q)[i] =
             IF i \in S THEN (held[i] \ {p}) \cup {q} ELSE held[i]
      /\ \A i \in Items : Lost(S, p)[i] = IF i \in S THEN held[i] \ {p} ELSE held[i]
  <2>1. q \in Holders
    OBVIOUS
  <2> QED
    BY <2>1, <1>a DEF TypeOK, Moved, Lost
<1>h. /\ held' = Moved(S, p, q) /\ held' \in [Items -> SUBSET Holders]
      /\ \A i \in Items : held'[i] = IF i \in S THEN (held[i] \ {p}) \cup {q} ELSE held[i]
  BY <1>m DEF GiveAll, Commands, disk, memory
<1>1. todo' \in Seq(Writes) /\ \A k \in DOMAIN todo' : todo'[k].to = "char"
  BY <1>0 DEF GiveAll
<1>2. TypeOK'
  BY <1>a, <1>h, <1>1, <1>0 DEF GiveAll, Commands, disk, memory, TypeOK
<1>3. OfflineHaveNothing'
  BY <1>a, <1>h DEF GiveAll, Commands, disk, memory, TypeOK, Consistent, OfflineHaveNothing, Had
<1>4. OneHolder'
  BY <1>a, <1>h, <1>0 DEF GiveAll, Commands, disk, memory, TypeOK, Consistent, OneHolder, Had
<1>5. ASSUME NEW i \in Items \ hasty'
      PROVE  /\ \A x \in Stores : x \in held'[i] => x \in held[i] \/ i \in Disk(x)
             /\ "floor" \in held'[i] => "floor" \in held[i]
             /\ "mobile" \in held'[i] => "mobile" \in held[i] \/ \E q1 \in linked : q1 \in held[i]
  BY <1>a, <1>h, <1>0, <1>r DEF GiveAll, Commands, disk, memory, TypeOK
<1>l. linked \subseteq linked'
  BY DEF GiveAll, Commands, disk, memory
<1>6. Consistent'
  BY <1>l, <1>0, <1>1, <1>2, <1>3, <1>4, <1>5, NoWriterStep
<1> QED
  BY <1>2, <1>6 DEF GInv

LEMMA GetSomeStep ==
    ASSUME GInv, NEW p \in Players, NEW S \in SUBSET Items, GetSome(p, S)
    PROVE  GInv'
<1> USE HolderFacts
<1>a. TypeOK /\ Consistent
  BY DEF GInv
<1>c. coins \in [Players -> Record]
  BY <1>a DEF TypeOK
<1>0. todo = <<>> /\ vault' = vault /\ shelf' = shelf /\ hasty \subseteq hasty'
  BY DEF GetSome, Commands, disk, memory
<1>r. /\ \A i \in Items \ hasty : \A pl \in Players : pl \in held[i] => i \in vault[pl]
      /\ \A i \in Items \ hasty : \A x, y \in Stores :
             i \in Disk(x) /\ y \in held[i] => x = y
      /\ \A i \in Items \ hasty : \A x \in Stores : "floor" \in held[i] => i \notin Disk(x)
      /\ \A pl \in Players : Disk(pl) = vault[pl]
  BY <1>0, RestFacts
<1>m. /\ Moved(S, "floor", p) \in [Items -> SUBSET Holders]
      /\ \A i \in Items : Moved(S, "floor", p)[i] =
             IF i \in S THEN (held[i] \ {"floor"}) \cup {p} ELSE held[i]
  <2>1. p \in Holders
    OBVIOUS
  <2> QED
    BY <2>1, <1>a DEF TypeOK, Moved
<1>h. /\ held' = Moved(S, "floor", p) /\ held' \in [Items -> SUBSET Holders]
      /\ \A i \in Items : held'[i] = IF i \in S THEN (held[i] \ {"floor"}) \cup {p} ELSE held[i]
  BY <1>m DEF GetSome, Commands, disk, memory
<1>1. todo' \in Seq(Writes) /\ \A k \in DOMAIN todo' : todo'[k].to = "char"
  BY <1>0 DEF GetSome
<1>2. TypeOK'
  BY <1>a, <1>h, <1>1, <1>0 DEF GetSome, Commands, disk, memory, TypeOK
<1>3. OfflineHaveNothing'
  BY <1>a, <1>h DEF GetSome, Commands, disk, memory, TypeOK, Consistent, OfflineHaveNothing, Had
<1>4. OneHolder'
  BY <1>a, <1>h, <1>0 DEF GetSome, Commands, disk, memory, TypeOK, Consistent, OneHolder, Had
<1>5. ASSUME NEW i \in Items \ hasty'
      PROVE  /\ \A x \in Stores : x \in held'[i] => x \in held[i] \/ i \in Disk(x)
             /\ "floor" \in held'[i] => "floor" \in held[i]
             /\ "mobile" \in held'[i] => "mobile" \in held[i] \/ \E q1 \in linked : q1 \in held[i]
  BY <1>a, <1>h, <1>0, <1>r DEF GetSome, Commands, disk, memory, TypeOK
<1>l. linked \subseteq linked'
  BY DEF GetSome, Commands, disk, memory
<1>6. Consistent'
  BY <1>l, <1>0, <1>1, <1>2, <1>3, <1>4, <1>5, NoWriterStep
<1> QED
  BY <1>2, <1>6 DEF GInv

LEMMA PutSomeStep ==
    ASSUME GInv, NEW p \in Players, NEW S \in SUBSET Items, PutSome(p, S)
    PROVE  GInv'
<1> USE HolderFacts
<1>a. TypeOK /\ Consistent
  BY DEF GInv
<1>c. coins \in [Players -> Record]
  BY <1>a DEF TypeOK
<1>0. todo = <<>> /\ vault' = vault /\ shelf' = shelf /\ hasty \subseteq hasty'
  BY DEF PutSome, Commands, disk, memory
<1>r. /\ \A i \in Items \ hasty : \A pl \in Players : pl \in held[i] => i \in vault[pl]
      /\ \A i \in Items \ hasty : \A x, y \in Stores :
             i \in Disk(x) /\ y \in held[i] => x = y
      /\ \A i \in Items \ hasty : \A x \in Stores : "floor" \in held[i] => i \notin Disk(x)
      /\ \A pl \in Players : Disk(pl) = vault[pl]
  BY <1>0, RestFacts
<1>m. /\ Moved(S, p, "floor") \in [Items -> SUBSET Holders]
      /\ \A i \in Items : Moved(S, p, "floor")[i] =
             IF i \in S THEN (held[i] \ {p}) \cup {"floor"} ELSE held[i]
  <2>1. "floor" \in Holders
    OBVIOUS
  <2> QED
    BY <2>1, <1>a DEF TypeOK, Moved
<1>h. /\ held' = Moved(S, p, "floor") /\ held' \in [Items -> SUBSET Holders]
      /\ \A i \in Items : held'[i] = IF i \in S THEN (held[i] \ {p}) \cup {"floor"} ELSE held[i]
  BY <1>m DEF PutSome, Commands, disk, memory
<1>1. todo' \in Seq(Writes) /\ \A k \in DOMAIN todo' : todo'[k].to = "char"
  BY <1>0 DEF PutSome
<1>2. TypeOK'
  BY <1>a, <1>h, <1>1, <1>0 DEF PutSome, Commands, disk, memory, TypeOK
<1>3. OfflineHaveNothing'
  BY <1>a, <1>h DEF PutSome, Commands, disk, memory, TypeOK, Consistent, OfflineHaveNothing, Had
<1>4. OneHolder'
  BY <1>a, <1>h, <1>0 DEF PutSome, Commands, disk, memory, TypeOK, Consistent, OneHolder, Had
<1>5. ASSUME NEW i \in Items \ hasty'
      PROVE  /\ \A x \in Stores : x \in held'[i] => x \in held[i] \/ i \in Disk(x)
             /\ "floor" \in held'[i] => "floor" \in held[i]
             /\ "mobile" \in held'[i] => "mobile" \in held[i] \/ \E q1 \in linked : q1 \in held[i]
  BY <1>a, <1>h, <1>0, <1>r DEF PutSome, Commands, disk, memory, TypeOK
<1>l. linked \subseteq linked'
  BY DEF PutSome, Commands, disk, memory
<1>6. Consistent'
  BY <1>l, <1>0, <1>1, <1>2, <1>3, <1>4, <1>5, NoWriterStep
<1> QED
  BY <1>2, <1>6 DEF GInv

LEMMA UseUpStep ==
    ASSUME GInv, NEW p \in Players, NEW i0 \in Items, UseUp(p, i0)
    PROVE  GInv'
<1> USE HolderFacts
<1>a. TypeOK /\ Consistent
  BY DEF GInv
<1>c. coins \in [Players -> Record]
  BY <1>a DEF TypeOK
<1>0. todo = <<>> /\ vault' = vault /\ shelf' = shelf /\ hasty \subseteq hasty'
  BY DEF UseUp, Commands, disk, memory
<1>r. /\ \A i \in Items \ hasty : \A pl \in Players : pl \in held[i] => i \in vault[pl]
      /\ \A i \in Items \ hasty : \A x, y \in Stores :
             i \in Disk(x) /\ y \in held[i] => x = y
      /\ \A i \in Items \ hasty : \A x \in Stores : "floor" \in held[i] => i \notin Disk(x)
      /\ \A pl \in Players : Disk(pl) = vault[pl]
  BY <1>0, RestFacts
<1>s. PICK S : S = {i0}
  OBVIOUS
<1>m. /\ Moved(S, p, p) \in [Items -> SUBSET Holders]
      /\ Lost(S, p) \in [Items -> SUBSET Holders]
      /\ \A i \in Items : Moved(S, p, p)[i] =
             IF i \in S THEN (held[i] \ {p}) \cup {p} ELSE held[i]
      /\ \A i \in Items : Lost(S, p)[i] = IF i \in S THEN held[i] \ {p} ELSE held[i]
  <2>1. p \in Holders
    OBVIOUS
  <2> QED
    BY <2>1, <1>a DEF TypeOK, Moved, Lost
<1>h. /\ held' = Lost(S, p) /\ held' \in [Items -> SUBSET Holders]
      /\ \A i \in Items : held'[i] = IF i \in S THEN held[i] \ {p} ELSE held[i]
  BY <1>m, <1>s DEF UseUp, Commands, disk, memory
<1>1. todo' \in Seq(Writes) /\ \A k \in DOMAIN todo' : todo'[k].to = "char"
  BY <1>0 DEF UseUp
<1>2. TypeOK'
  BY <1>a, <1>h, <1>1, <1>0, <1>s DEF UseUp, Commands, disk, memory, TypeOK
<1>3. OfflineHaveNothing'
  BY <1>a, <1>h, <1>s DEF UseUp, Commands, disk, memory, TypeOK, Consistent, OfflineHaveNothing, Had
<1>4. OneHolder'
  BY <1>a, <1>h, <1>0, <1>s DEF UseUp, Commands, disk, memory, TypeOK, Consistent, OneHolder, Had
<1>5. ASSUME NEW i \in Items \ hasty'
      PROVE  /\ \A x \in Stores : x \in held'[i] => x \in held[i] \/ i \in Disk(x)
             /\ "floor" \in held'[i] => "floor" \in held[i]
             /\ "mobile" \in held'[i] => "mobile" \in held[i] \/ \E q1 \in linked : q1 \in held[i]
  BY <1>a, <1>h, <1>0, <1>r, <1>s DEF UseUp, Commands, disk, memory, TypeOK
<1>l. linked \subseteq linked'
  BY DEF UseUp, Commands, disk, memory
<1>6. Consistent'
  BY <1>l, <1>0, <1>1, <1>2, <1>3, <1>4, <1>5, NoWriterStep
<1> QED
  BY <1>2, <1>6 DEF GInv

LEMMA StealCoinsStep ==
    ASSUME GInv, NEW p \in Players, NEW q \in Players, NEW n \in Nat, StealCoins(p, q, n)
    PROVE  GInv'
<1> USE HolderFacts
<1>a. TypeOK /\ Consistent
  BY DEF GInv
<1>c. Earn(Spend(coins, q, n), p, n) \in [Players -> Record]
  <2>1. Spend(coins, q, n) \in [Players -> Record]
    BY <1>a, CoinsType DEF TypeOK, StealCoins
  <2> QED
    BY <2>1, CoinsType
<1>0. todo = <<>> /\ vault' = vault /\ shelf' = shelf /\ hasty \subseteq hasty'
  BY DEF StealCoins, Commands, disk, memory
<1>r. /\ \A i \in Items \ hasty : \A pl \in Players : pl \in held[i] => i \in vault[pl]
      /\ \A i \in Items \ hasty : \A x, y \in Stores :
             i \in Disk(x) /\ y \in held[i] => x = y
      /\ \A i \in Items \ hasty : \A x \in Stores : "floor" \in held[i] => i \notin Disk(x)
      /\ \A pl \in Players : Disk(pl) = vault[pl]
  BY <1>0, RestFacts
<1>h. held' = held /\ held' \in [Items -> SUBSET Holders]
  BY <1>a DEF StealCoins, Commands, disk, memory, TypeOK
<1>1. todo' \in Seq(Writes) /\ \A k \in DOMAIN todo' : todo'[k].to = "char"
  BY <1>0 DEF StealCoins
<1>2. TypeOK'
  BY <1>a, <1>h, <1>1, <1>0, <1>c DEF StealCoins, Commands, disk, memory, TypeOK
<1>3. OfflineHaveNothing'
  BY <1>a, <1>h DEF StealCoins, Commands, disk, memory, TypeOK, Consistent, OfflineHaveNothing, Had
<1>4. OneHolder'
  BY <1>a, <1>h, <1>0 DEF StealCoins, Commands, disk, memory, TypeOK, Consistent, OneHolder, Had
<1>5. ASSUME NEW i \in Items \ hasty'
      PROVE  /\ \A x \in Stores : x \in held'[i] => x \in held[i] \/ i \in Disk(x)
             /\ "floor" \in held'[i] => "floor" \in held[i]
             /\ "mobile" \in held'[i] => "mobile" \in held[i] \/ \E q1 \in linked : q1 \in held[i]
  BY <1>a, <1>h, <1>0, <1>r DEF StealCoins, Commands, disk, memory, TypeOK
<1>l. linked \subseteq linked'
  BY DEF StealCoins, Commands, disk, memory
<1>6. Consistent'
  BY <1>l, <1>0, <1>1, <1>2, <1>3, <1>4, <1>5, NoWriterStep
<1> QED
  BY <1>2, <1>6 DEF GInv

LEMMA DisarmStep ==
    ASSUME GInv, NEW p \in Players, NEW i0 \in Items, Disarm(p, i0)
    PROVE  GInv'
<1> USE HolderFacts
<1>a. TypeOK /\ Consistent
  BY DEF GInv
<1>c. coins \in [Players -> Record]
  BY <1>a DEF TypeOK
<1>0. todo = <<>> /\ vault' = vault /\ shelf' = shelf /\ hasty \subseteq hasty'
  BY DEF Disarm, Commands, disk, memory
<1>r. /\ \A i \in Items \ hasty : \A pl \in Players : pl \in held[i] => i \in vault[pl]
      /\ \A i \in Items \ hasty : \A x, y \in Stores :
             i \in Disk(x) /\ y \in held[i] => x = y
      /\ \A i \in Items \ hasty : \A x \in Stores : "floor" \in held[i] => i \notin Disk(x)
      /\ \A pl \in Players : Disk(pl) = vault[pl]
  BY <1>0, RestFacts
<1>s. PICK S : S = {i0}
  OBVIOUS
<1>m. /\ Moved(S, p, "floor") \in [Items -> SUBSET Holders]
      /\ Lost(S, p) \in [Items -> SUBSET Holders]
      /\ \A i \in Items : Moved(S, p, "floor")[i] =
             IF i \in S THEN (held[i] \ {p}) \cup {"floor"} ELSE held[i]
      /\ \A i \in Items : Lost(S, p)[i] = IF i \in S THEN held[i] \ {p} ELSE held[i]
  <2>1. "floor" \in Holders
    OBVIOUS
  <2> QED
    BY <2>1, <1>a DEF TypeOK, Moved, Lost
<1>h. /\ held' = Moved(S, p, "floor") /\ held' \in [Items -> SUBSET Holders]
      /\ \A i \in Items : held'[i] = IF i \in S THEN (held[i] \ {p}) \cup {"floor"} ELSE held[i]
  BY <1>m, <1>s DEF Disarm, Commands, disk, memory
<1>1. todo' \in Seq(Writes) /\ \A k \in DOMAIN todo' : todo'[k].to = "char"
  BY <1>0 DEF Disarm
<1>2. TypeOK'
  BY <1>a, <1>h, <1>1, <1>0, <1>s DEF Disarm, Commands, disk, memory, TypeOK
<1>3. OfflineHaveNothing'
  BY <1>a, <1>h, <1>s DEF Disarm, Commands, disk, memory, TypeOK, Consistent, OfflineHaveNothing, Had
<1>4. OneHolder'
  BY <1>a, <1>h, <1>0, <1>s DEF Disarm, Commands, disk, memory, TypeOK, Consistent, OneHolder, Had
<1>5. ASSUME NEW i \in Items \ hasty'
      PROVE  /\ \A x \in Stores : x \in held'[i] => x \in held[i] \/ i \in Disk(x)
             /\ "floor" \in held'[i] => "floor" \in held[i]
             /\ "mobile" \in held'[i] => "mobile" \in held[i] \/ \E q1 \in linked : q1 \in held[i]
  BY <1>a, <1>h, <1>0, <1>r, <1>s DEF Disarm, Commands, disk, memory, TypeOK
<1>l. linked \subseteq linked'
  BY DEF Disarm, Commands, disk, memory
<1>6. Consistent'
  BY <1>l, <1>0, <1>1, <1>2, <1>3, <1>4, <1>5, NoWriterStep
<1> QED
  BY <1>2, <1>6 DEF GInv

LEMMA SellStep ==
    ASSUME GInv, NEW p \in Players, NEW i0 \in Items, NEW price \in Nat, Sell(p, i0, price)
    PROVE  GInv'
<1> USE HolderFacts
<1>a. TypeOK /\ Consistent
  BY DEF GInv
<1>c. Earn(coins, p, price) \in [Players -> Record]
  BY <1>a, CoinsType DEF TypeOK
<1>0. todo = <<>> /\ vault' = vault /\ shelf' = shelf /\ hasty \subseteq hasty'
  BY DEF Sell, Commands, disk, memory
<1>r. /\ \A i \in Items \ hasty : \A pl \in Players : pl \in held[i] => i \in vault[pl]
      /\ \A i \in Items \ hasty : \A x, y \in Stores :
             i \in Disk(x) /\ y \in held[i] => x = y
      /\ \A i \in Items \ hasty : \A x \in Stores : "floor" \in held[i] => i \notin Disk(x)
      /\ \A pl \in Players : Disk(pl) = vault[pl]
  BY <1>0, RestFacts
<1>s. PICK S : S = {i0}
  OBVIOUS
<1>m. /\ Moved(S, p, "mobile") \in [Items -> SUBSET Holders]
      /\ Lost(S, p) \in [Items -> SUBSET Holders]
      /\ \A i \in Items : Moved(S, p, "mobile")[i] =
             IF i \in S THEN (held[i] \ {p}) \cup {"mobile"} ELSE held[i]
      /\ \A i \in Items : Lost(S, p)[i] = IF i \in S THEN held[i] \ {p} ELSE held[i]
  <2>1. "mobile" \in Holders
    OBVIOUS
  <2> QED
    BY <2>1, <1>a DEF TypeOK, Moved, Lost
<1>h. /\ held' = Moved(S, p, "mobile") /\ held' \in [Items -> SUBSET Holders]
      /\ \A i \in Items : held'[i] = IF i \in S THEN (held[i] \ {p}) \cup {"mobile"} ELSE held[i]
  BY <1>m, <1>s DEF Sell, Commands, disk, memory
<1>1. todo' \in Seq(Writes) /\ \A k \in DOMAIN todo' : todo'[k].to = "char"
  BY <1>0 DEF Sell
<1>e. made' \in Nat /\ coins' \in [Players -> Record]
  BY <1>a, <1>c DEF Sell, TypeOK
<1>2. TypeOK'
  BY <1>a, <1>h, <1>1, <1>0, <1>e DEF Sell, Commands, disk, memory, TypeOK
<1>3. OfflineHaveNothing'
  BY <1>a, <1>h, <1>s DEF Sell, Commands, disk, memory, TypeOK, Consistent, OfflineHaveNothing, Had
<1>4. OneHolder'
  BY <1>a, <1>h, <1>0, <1>s DEF Sell, Commands, disk, memory, TypeOK, Consistent, OneHolder, Had
<1>6h. hasty' = hasty
  BY DEF Sell
<1>5. ASSUME NEW i \in Items \ hasty'
      PROVE  /\ \A x \in Stores : x \in held'[i] => x \in held[i] \/ i \in Disk(x)
             /\ "floor" \in held'[i] => "floor" \in held[i]
             /\ "mobile" \in held'[i] => "mobile" \in held[i] \/ \E q1 \in linked : q1 \in held[i]
  <2>1. held'[i] \subseteq held[i] \cup {"mobile"}
    BY <1>h
  <2>2. "floor" # "mobile"
    OBVIOUS
  <2>3. "mobile" \in held'[i] => "mobile" \in held[i] \/ p \in held[i]
    BY <1>h, <1>s DEF Sell
  <2>4. p \in linked
    BY DEF Sell, Commands
  <2> QED
    BY <2>1, <2>2, <2>3, <2>4
<1>l. linked \subseteq linked'
  BY DEF Sell, Commands, disk, memory
<1>6. Consistent'
  BY <1>l, <1>0, <1>1, <1>2, <1>3, <1>4, <1>5, NoWriterStep
<1> QED
  BY <1>2, <1>6 DEF GInv

LEMMA BuyStep ==
    ASSUME GInv, NEW p \in Players, NEW i0 \in Items, NEW price \in Nat, Buy(p, i0, price)
    PROVE  GInv'
<1> USE HolderFacts
<1>a. TypeOK /\ Consistent
  BY DEF GInv
<1>c. Spend(coins, p, price) \in [Players -> Record]
  BY <1>a, CoinsType DEF TypeOK, Buy
<1>0. todo = <<>> /\ vault' = vault /\ shelf' = shelf /\ hasty \subseteq hasty'
  BY DEF Buy, Commands, disk, memory
<1>r. /\ \A i \in Items \ hasty : \A pl \in Players : pl \in held[i] => i \in vault[pl]
      /\ \A i \in Items \ hasty : \A x, y \in Stores :
             i \in Disk(x) /\ y \in held[i] => x = y
      /\ \A i \in Items \ hasty : \A x \in Stores : "floor" \in held[i] => i \notin Disk(x)
      /\ \A pl \in Players : Disk(pl) = vault[pl]
  BY <1>0, RestFacts
<1>s. PICK S : S = {i0}
  OBVIOUS
<1>m. /\ Moved(S, "mobile", p) \in [Items -> SUBSET Holders]
      /\ Lost(S, "mobile") \in [Items -> SUBSET Holders]
      /\ \A i \in Items : Moved(S, "mobile", p)[i] =
             IF i \in S THEN (held[i] \ {"mobile"}) \cup {p} ELSE held[i]
      /\ \A i \in Items : Lost(S, "mobile")[i] = IF i \in S THEN held[i] \ {"mobile"} ELSE held[i]
  <2>1. p \in Holders
    OBVIOUS
  <2> QED
    BY <2>1, <1>a DEF TypeOK, Moved, Lost
<1>h. /\ held' = Moved(S, "mobile", p) /\ held' \in [Items -> SUBSET Holders]
      /\ \A i \in Items : held'[i] = IF i \in S THEN (held[i] \ {"mobile"}) \cup {p} ELSE held[i]
  BY <1>m, <1>s DEF Buy, Commands, disk, memory
<1>1. todo' \in Seq(Writes) /\ \A k \in DOMAIN todo' : todo'[k].to = "char"
  BY <1>0 DEF Buy
<1>2. TypeOK'
  BY <1>a, <1>h, <1>1, <1>0, <1>s, <1>c DEF Buy, Commands, disk, memory, TypeOK
<1>3. OfflineHaveNothing'
  BY <1>a, <1>h, <1>s DEF Buy, Commands, disk, memory, TypeOK, Consistent, OfflineHaveNothing, Had
<1>4. OneHolder'
  BY <1>a, <1>h, <1>0, <1>s DEF Buy, Commands, disk, memory, TypeOK, Consistent, OneHolder, Had
<1>5. ASSUME NEW i \in Items \ hasty'
      PROVE  /\ \A x \in Stores : x \in held'[i] => x \in held[i] \/ i \in Disk(x)
             /\ "floor" \in held'[i] => "floor" \in held[i]
             /\ "mobile" \in held'[i] => "mobile" \in held[i] \/ \E q1 \in linked : q1 \in held[i]
  BY <1>a, <1>h, <1>0, <1>r, <1>s DEF Buy, Commands, disk, memory, TypeOK
<1>l. linked \subseteq linked'
  BY DEF Buy, Commands, disk, memory
<1>6. Consistent'
  BY <1>l, <1>0, <1>1, <1>2, <1>3, <1>4, <1>5, NoWriterStep
<1> QED
  BY <1>2, <1>6 DEF GInv

LEMMA GiveCoinsStep ==
    ASSUME GInv, NEW p \in Players, NEW q \in Players, NEW n \in Nat, GiveCoins(p, q, n)
    PROVE  GInv'
<1> USE HolderFacts
<1>a. TypeOK /\ Consistent
  BY DEF GInv
<1>c. Spend(coins, p, n) \in [Players -> Record]
  BY <1>a, CoinsType DEF TypeOK, GiveCoins
<1>d. Earn(Spend(coins, p, n), q, n) \in [Players -> Record]
  BY <1>c, CoinsType
<1>0. todo = <<>> /\ vault' = vault /\ shelf' = shelf /\ hasty \subseteq hasty'
  BY DEF GiveCoins, Commands, disk, memory
<1>r. /\ \A i \in Items \ hasty : \A pl \in Players : pl \in held[i] => i \in vault[pl]
      /\ \A i \in Items \ hasty : \A x, y \in Stores :
             i \in Disk(x) /\ y \in held[i] => x = y
      /\ \A i \in Items \ hasty : \A x \in Stores : "floor" \in held[i] => i \notin Disk(x)
      /\ \A pl \in Players : Disk(pl) = vault[pl]
  BY <1>0, RestFacts
<1>h. held' = held /\ held' \in [Items -> SUBSET Holders]
  BY <1>a DEF GiveCoins, Commands, disk, memory, TypeOK
<1>1. todo' \in Seq(Writes) /\ \A k \in DOMAIN todo' : todo'[k].to = "char"
  <2>1. /\ SaveChar(p, Spend(coins, p, n), linked) \in Seq(Writes)
        /\ \A k \in DOMAIN SaveChar(p, Spend(coins, p, n), linked) : SaveChar(p, Spend(coins, p, n), linked)[k].to = "char"
    BY <1>c, SaveCharType
  <2> QED
    BY <2>1 DEF GiveCoins
<1>2. TypeOK'
  BY <1>a, <1>h, <1>1, <1>0, <1>d DEF GiveCoins, Commands, disk, memory, TypeOK
<1>3. OfflineHaveNothing'
  BY <1>a, <1>h DEF GiveCoins, Commands, disk, memory, TypeOK, Consistent, OfflineHaveNothing, Had
<1>4. OneHolder'
  BY <1>a, <1>h, <1>0 DEF GiveCoins, Commands, disk, memory, TypeOK, Consistent, OneHolder, Had
<1>5. ASSUME NEW i \in Items \ hasty'
      PROVE  /\ \A x \in Stores : x \in held'[i] => x \in held[i] \/ i \in Disk(x)
             /\ "floor" \in held'[i] => "floor" \in held[i]
             /\ "mobile" \in held'[i] => "mobile" \in held[i] \/ \E q1 \in linked : q1 \in held[i]
  BY <1>a, <1>h, <1>0, <1>r DEF GiveCoins, Commands, disk, memory, TypeOK
<1>l. linked \subseteq linked'
  BY DEF GiveCoins, Commands, disk, memory
<1>6. Consistent'
  BY <1>l, <1>0, <1>1, <1>2, <1>3, <1>4, <1>5, NoWriterStep
<1> QED
  BY <1>2, <1>6 DEF GInv

LEMMA DepositStep ==
    ASSUME GInv, NEW p \in Players, NEW n \in Nat, Deposit(p, n)
    PROVE  GInv'
<1> USE HolderFacts
<1>a. TypeOK /\ Consistent
  BY DEF GInv
<1>c. coins \in [Players -> Record]
  BY <1>a DEF TypeOK
<1>d. coins' \in [Players -> Record]
  <2>1. coins[p] \in Record /\ coins[p].gold \in Nat /\ coins[p].bank \in Nat
    BY <1>c DEF Record
  <2>2. n <= coins[p].gold
    BY <2>1 DEF Deposit
  <2>3. [gold |-> coins[p].gold - n, bank |-> coins[p].bank + n] \in Record
    BY <2>1, <2>2 DEF Record
  <2>4. coins' = [coins EXCEPT ![p] =
                           [gold |-> coins[p].gold - n, bank |-> coins[p].bank + n]]
    BY <1>c DEF Deposit, Record
  <2> QED
    BY <1>c, <2>3, <2>4
<1>0. todo = <<>> /\ vault' = vault /\ shelf' = shelf /\ hasty \subseteq hasty'
  BY DEF Deposit, Commands, disk, memory
<1>r. /\ \A i \in Items \ hasty : \A pl \in Players : pl \in held[i] => i \in vault[pl]
      /\ \A i \in Items \ hasty : \A x, y \in Stores :
             i \in Disk(x) /\ y \in held[i] => x = y
      /\ \A i \in Items \ hasty : \A x \in Stores : "floor" \in held[i] => i \notin Disk(x)
      /\ \A pl \in Players : Disk(pl) = vault[pl]
  BY <1>0, RestFacts
<1>h. held' = held /\ held' \in [Items -> SUBSET Holders]
  BY <1>a DEF Deposit, Commands, disk, memory, TypeOK
<1>1. todo' \in Seq(Writes) /\ \A k \in DOMAIN todo' : todo'[k].to = "char"
  <2>1. /\ SaveChar(p, coins, linked) \in Seq(Writes)
        /\ \A k \in DOMAIN SaveChar(p, coins, linked) : SaveChar(p, coins, linked)[k].to = "char"
    BY <1>c, SaveCharType
  <2> QED
    BY <2>1 DEF Deposit
<1>2. TypeOK'
  BY <1>a, <1>h, <1>1, <1>0, <1>d DEF Deposit, Commands, disk, memory, TypeOK
<1>3. OfflineHaveNothing'
  BY <1>a, <1>h DEF Deposit, Commands, disk, memory, TypeOK, Consistent, OfflineHaveNothing, Had
<1>4. OneHolder'
  BY <1>a, <1>h, <1>0 DEF Deposit, Commands, disk, memory, TypeOK, Consistent, OneHolder, Had
<1>5. ASSUME NEW i \in Items \ hasty'
      PROVE  /\ \A x \in Stores : x \in held'[i] => x \in held[i] \/ i \in Disk(x)
             /\ "floor" \in held'[i] => "floor" \in held[i]
             /\ "mobile" \in held'[i] => "mobile" \in held[i] \/ \E q1 \in linked : q1 \in held[i]
  BY <1>a, <1>h, <1>0, <1>r DEF Deposit, Commands, disk, memory, TypeOK
<1>l. linked \subseteq linked'
  BY DEF Deposit, Commands, disk, memory
<1>6. Consistent'
  BY <1>l, <1>0, <1>1, <1>2, <1>3, <1>4, <1>5, NoWriterStep
<1> QED
  BY <1>2, <1>6 DEF GInv

LEMMA WithdrawStep ==
    ASSUME GInv, NEW p \in Players, NEW n \in Nat, Withdraw(p, n)
    PROVE  GInv'
<1> USE HolderFacts
<1>a. TypeOK /\ Consistent
  BY DEF GInv
<1>c. coins \in [Players -> Record]
  BY <1>a DEF TypeOK
<1>d. coins' \in [Players -> Record]
  <2>1. coins[p] \in Record /\ coins[p].gold \in Nat /\ coins[p].bank \in Nat
    BY <1>c DEF Record
  <2>2. n <= coins[p].bank
    BY <2>1 DEF Withdraw
  <2>3. [gold |-> coins[p].gold + n, bank |-> coins[p].bank - n] \in Record
    BY <2>1, <2>2 DEF Record
  <2>4. coins' = [coins EXCEPT ![p] =
                           [gold |-> coins[p].gold + n, bank |-> coins[p].bank - n]]
    BY <1>c DEF Withdraw, Record
  <2> QED
    BY <1>c, <2>3, <2>4
<1>0. todo = <<>> /\ vault' = vault /\ shelf' = shelf /\ hasty \subseteq hasty'
  BY DEF Withdraw, Commands, disk, memory
<1>r. /\ \A i \in Items \ hasty : \A pl \in Players : pl \in held[i] => i \in vault[pl]
      /\ \A i \in Items \ hasty : \A x, y \in Stores :
             i \in Disk(x) /\ y \in held[i] => x = y
      /\ \A i \in Items \ hasty : \A x \in Stores : "floor" \in held[i] => i \notin Disk(x)
      /\ \A pl \in Players : Disk(pl) = vault[pl]
  BY <1>0, RestFacts
<1>h. held' = held /\ held' \in [Items -> SUBSET Holders]
  BY <1>a DEF Withdraw, Commands, disk, memory, TypeOK
<1>1. todo' \in Seq(Writes) /\ \A k \in DOMAIN todo' : todo'[k].to = "char"
  <2>1. /\ SaveChar(p, coins, linked) \in Seq(Writes)
        /\ \A k \in DOMAIN SaveChar(p, coins, linked) : SaveChar(p, coins, linked)[k].to = "char"
    BY <1>c, SaveCharType
  <2> QED
    BY <2>1 DEF Withdraw
<1>2. TypeOK'
  BY <1>a, <1>h, <1>1, <1>0, <1>d DEF Withdraw, Commands, disk, memory, TypeOK
<1>3. OfflineHaveNothing'
  BY <1>a, <1>h DEF Withdraw, Commands, disk, memory, TypeOK, Consistent, OfflineHaveNothing, Had
<1>4. OneHolder'
  BY <1>a, <1>h, <1>0 DEF Withdraw, Commands, disk, memory, TypeOK, Consistent, OneHolder, Had
<1>5. ASSUME NEW i \in Items \ hasty'
      PROVE  /\ \A x \in Stores : x \in held'[i] => x \in held[i] \/ i \in Disk(x)
             /\ "floor" \in held'[i] => "floor" \in held[i]
             /\ "mobile" \in held'[i] => "mobile" \in held[i] \/ \E q1 \in linked : q1 \in held[i]
  BY <1>a, <1>h, <1>0, <1>r DEF Withdraw, Commands, disk, memory, TypeOK
<1>l. linked \subseteq linked'
  BY DEF Withdraw, Commands, disk, memory
<1>6. Consistent'
  BY <1>l, <1>0, <1>1, <1>2, <1>3, <1>4, <1>5, NoWriterStep
<1> QED
  BY <1>2, <1>6 DEF GInv

LEMMA GuildDepositStep ==
    ASSUME GInv, NEW p \in Players, NEW n \in Nat, GuildDeposit(p, n)
    PROVE  GInv'
<1> USE HolderFacts
<1>a. TypeOK /\ Consistent
  BY DEF GInv
<1>c. Spend(coins, p, n) \in [Players -> Record]
  BY <1>a, CoinsType DEF TypeOK, GuildDeposit
<1>0. todo = <<>> /\ vault' = vault /\ shelf' = shelf /\ hasty \subseteq hasty'
  BY DEF GuildDeposit, Commands, disk, memory
<1>r. /\ \A i \in Items \ hasty : \A pl \in Players : pl \in held[i] => i \in vault[pl]
      /\ \A i \in Items \ hasty : \A x, y \in Stores :
             i \in Disk(x) /\ y \in held[i] => x = y
      /\ \A i \in Items \ hasty : \A x \in Stores : "floor" \in held[i] => i \notin Disk(x)
      /\ \A pl \in Players : Disk(pl) = vault[pl]
  BY <1>0, RestFacts
<1>h. held' = held /\ held' \in [Items -> SUBSET Holders]
  BY <1>a DEF GuildDeposit, Commands, disk, memory, TypeOK
<1>1. todo' \in Seq(Writes) /\ \A k \in DOMAIN todo' : todo'[k].to = "char"
  BY <1>0 DEF GuildDeposit
<1>2. TypeOK'
  BY <1>a, <1>h, <1>1, <1>0, <1>c DEF GuildDeposit, Commands, disk, memory, TypeOK
<1>3. OfflineHaveNothing'
  BY <1>a, <1>h DEF GuildDeposit, Commands, disk, memory, TypeOK, Consistent, OfflineHaveNothing, Had
<1>4. OneHolder'
  BY <1>a, <1>h, <1>0 DEF GuildDeposit, Commands, disk, memory, TypeOK, Consistent, OneHolder, Had
<1>5. ASSUME NEW i \in Items \ hasty'
      PROVE  /\ \A x \in Stores : x \in held'[i] => x \in held[i] \/ i \in Disk(x)
             /\ "floor" \in held'[i] => "floor" \in held[i]
             /\ "mobile" \in held'[i] => "mobile" \in held[i] \/ \E q1 \in linked : q1 \in held[i]
  BY <1>a, <1>h, <1>0, <1>r DEF GuildDeposit, Commands, disk, memory, TypeOK
<1>l. linked \subseteq linked'
  BY DEF GuildDeposit, Commands, disk, memory
<1>6. Consistent'
  BY <1>l, <1>0, <1>1, <1>2, <1>3, <1>4, <1>5, NoWriterStep
<1> QED
  BY <1>2, <1>6 DEF GInv

LEMMA GuildWithdrawStep ==
    ASSUME GInv, NEW p \in Players, NEW n \in Nat, GuildWithdraw(p, n)
    PROVE  GInv'
<1> USE HolderFacts
<1>a. TypeOK /\ Consistent
  BY DEF GInv
<1>c. Earn(coins, p, n) \in [Players -> Record]
  BY <1>a, CoinsType DEF TypeOK
<1>0. todo = <<>> /\ vault' = vault /\ shelf' = shelf /\ hasty \subseteq hasty'
  BY DEF GuildWithdraw, Commands, disk, memory
<1>r. /\ \A i \in Items \ hasty : \A pl \in Players : pl \in held[i] => i \in vault[pl]
      /\ \A i \in Items \ hasty : \A x, y \in Stores :
             i \in Disk(x) /\ y \in held[i] => x = y
      /\ \A i \in Items \ hasty : \A x \in Stores : "floor" \in held[i] => i \notin Disk(x)
      /\ \A pl \in Players : Disk(pl) = vault[pl]
  BY <1>0, RestFacts
<1>h. held' = held /\ held' \in [Items -> SUBSET Holders]
  BY <1>a DEF GuildWithdraw, Commands, disk, memory, TypeOK
<1>1. todo' \in Seq(Writes) /\ \A k \in DOMAIN todo' : todo'[k].to = "char"
  BY <1>0 DEF GuildWithdraw
<1>2. TypeOK'
  BY <1>a, <1>h, <1>1, <1>0, <1>c DEF GuildWithdraw, Commands, disk, memory, TypeOK
<1>3. OfflineHaveNothing'
  BY <1>a, <1>h DEF GuildWithdraw, Commands, disk, memory, TypeOK, Consistent, OfflineHaveNothing, Had
<1>4. OneHolder'
  BY <1>a, <1>h, <1>0 DEF GuildWithdraw, Commands, disk, memory, TypeOK, Consistent, OneHolder, Had
<1>5. ASSUME NEW i \in Items \ hasty'
      PROVE  /\ \A x \in Stores : x \in held'[i] => x \in held[i] \/ i \in Disk(x)
             /\ "floor" \in held'[i] => "floor" \in held[i]
             /\ "mobile" \in held'[i] => "mobile" \in held[i] \/ \E q1 \in linked : q1 \in held[i]
  BY <1>a, <1>h, <1>0, <1>r DEF GuildWithdraw, Commands, disk, memory, TypeOK
<1>l. linked \subseteq linked'
  BY DEF GuildWithdraw, Commands, disk, memory
<1>6. Consistent'
  BY <1>l, <1>0, <1>1, <1>2, <1>3, <1>4, <1>5, NoWriterStep
<1> QED
  BY <1>2, <1>6 DEF GInv

LEMMA ReconnectStep ==
    ASSUME GInv, NEW p \in Players, Reconnect(p)
    PROVE  GInv'
<1> USE HolderFacts
<1>a. TypeOK /\ Consistent
  BY DEF GInv
<1>c. coins \in [Players -> Record]
  BY <1>a DEF TypeOK
<1>0. todo = <<>> /\ vault' = vault /\ shelf' = shelf /\ hasty \subseteq hasty'
  BY DEF Reconnect, Commands, disk, memory
<1>r. /\ \A i \in Items \ hasty : \A pl \in Players : pl \in held[i] => i \in vault[pl]
      /\ \A i \in Items \ hasty : \A x, y \in Stores :
             i \in Disk(x) /\ y \in held[i] => x = y
      /\ \A i \in Items \ hasty : \A x \in Stores : "floor" \in held[i] => i \notin Disk(x)
      /\ \A pl \in Players : Disk(pl) = vault[pl]
  BY <1>0, RestFacts
<1>h. held' = held /\ held' \in [Items -> SUBSET Holders]
  BY <1>a DEF Reconnect, Commands, disk, memory, TypeOK
<1>1. todo' \in Seq(Writes) /\ \A k \in DOMAIN todo' : todo'[k].to = "char"
  BY <1>0 DEF Reconnect
<1>2. TypeOK'
  BY <1>a, <1>h, <1>1, <1>0 DEF Reconnect, Commands, disk, memory, TypeOK
<1>3. OfflineHaveNothing'
  BY <1>a, <1>h DEF Reconnect, Commands, disk, memory, TypeOK, Consistent, OfflineHaveNothing, Had
<1>4. OneHolder'
  BY <1>a, <1>h, <1>0 DEF Reconnect, Commands, disk, memory, TypeOK, Consistent, OneHolder, Had
<1>5. ASSUME NEW i \in Items \ hasty'
      PROVE  /\ \A x \in Stores : x \in held'[i] => x \in held[i] \/ i \in Disk(x)
             /\ "floor" \in held'[i] => "floor" \in held[i]
             /\ "mobile" \in held'[i] => "mobile" \in held[i] \/ \E q1 \in linked : q1 \in held[i]
  BY <1>a, <1>h, <1>0, <1>r DEF Reconnect, Commands, disk, memory, TypeOK
<1>l. linked \subseteq linked'
  BY DEF Reconnect, Commands, disk, memory
<1>6. Consistent'
  BY <1>l, <1>0, <1>1, <1>2, <1>3, <1>4, <1>5, NoWriterStep
<1> QED
  BY <1>2, <1>6 DEF GInv

LEMMA RentStep ==
    ASSUME GInv, NEW p \in Players, Rent(p)
    PROVE  GInv'
<1> USE HolderFacts
<1>a. TypeOK /\ Consistent
  BY DEF GInv
<1>c. coins \in [Players -> Record] /\ coins' \in [Players -> Record]
  BY <1>a DEF TypeOK, Rent, Broke, Record
<1>0. todo = <<>> /\ vault' = vault /\ shelf' = shelf /\ hasty \subseteq hasty'
  BY DEF Rent, Commands, disk, memory, Leaves
<1>r. /\ \A i \in Items \ hasty : \A pl \in Players : pl \in held[i] => i \in vault[pl]
      /\ \A i \in Items \ hasty : \A x, y \in Stores :
             i \in Disk(x) /\ y \in held[i] => x = y
      /\ \A i \in Items \ hasty : \A x \in Stores : "floor" \in held[i] => i \notin Disk(x)
      /\ \A pl \in Players : Disk(pl) = vault[pl]
  BY <1>0, RestFacts
<1>m. /\ Moved(Had(held, p), p, p) \in [Items -> SUBSET Holders]
      /\ Lost(Had(held, p), p) \in [Items -> SUBSET Holders]
      /\ \A i \in Items : Moved(Had(held, p), p, p)[i] =
             IF i \in Had(held, p) THEN (held[i] \ {p}) \cup {p} ELSE held[i]
      /\ \A i \in Items : Lost(Had(held, p), p)[i] = IF i \in Had(held, p) THEN held[i] \ {p} ELSE held[i]
  <2>1. p \in Holders
    OBVIOUS
  <2> QED
    BY <2>1, <1>a DEF TypeOK, Moved, Lost
<1>h. /\ held' = Lost(Had(held, p), p) /\ held' \in [Items -> SUBSET Holders]
      /\ \A i \in Items : held'[i] = IF i \in Had(held, p) THEN held[i] \ {p} ELSE held[i]
  BY <1>m DEF Rent, Commands, disk, memory, Leaves
<1>w. PICK W : W = Had(held, p)
  OBVIOUS
<1>1. /\ W \in SUBSET Items /\ todo' \in Seq(Writes)
      /\ OneWriter(todo, p, W)'
      /\ \E k \in DOMAIN todo' : todo'[k].to # "char"
  <2>1. SaveObj(p, held) \in Seq(Writes) /\ OneWriter(SaveObj(p, held), p, W) /\ Starts(SaveObj(p, held))
    <3>1. held \in [Items -> SUBSET Holders]
      BY <1>a DEF TypeOK
    <3>2. /\ SaveObj(p, held) \in Seq(Writes) /\ ZeroRent(p) \in Seq(Writes)
          /\ OneWriter(SaveObj(p, held), p, Had(held, p)) /\ OneWriter(ZeroRent(p), p, {})
          /\ Len(SaveObj(p, held)) = 1 /\ Len(ZeroRent(p)) = 1
          /\ SaveObj(p, held)[1] = [to |-> "rent", who |-> p, what |-> Had(held, p)]
          /\ ZeroRent(p)[1] = [to |-> "rent", who |-> p, what |-> {}]
      BY <1>h, <3>1, SaveObjType
    <3> QED
      BY <3>2, <1>w DEF Starts
  <2>2. SaveChar(p, coins, linked) \in Seq(Writes) /\ OneWriter(SaveChar(p, coins, linked), p, W)
    BY <1>c, SaveCharType
  <2>2c. SaveObj(p, held) \o SaveChar(p, coins, linked) \in Seq(Writes) /\ OneWriter(SaveObj(p, held) \o SaveChar(p, coins, linked), p, W) /\ Starts(SaveObj(p, held) \o SaveChar(p, coins, linked))
    BY <2>1, <2>2, OneWriterConcat, StartsConcat
  <2>e. todo' = SaveObj(p, held) \o SaveChar(p, coins, linked)
    BY <1>h DEF Rent
  <2>f. W \in SUBSET Items
    BY <1>w DEF Had
  <2> QED
    BY <2>2c, <2>e, <2>f DEF Starts
<1>2. TypeOK'
  BY <1>a, <1>h, <1>1, <1>0, <1>c DEF Rent, Commands, disk, memory, Leaves, TypeOK
<1>3. OfflineHaveNothing'
  BY <1>a, <1>h DEF Rent, Commands, disk, memory, Leaves, TypeOK, Consistent, OfflineHaveNothing, Had
<1>4. OneHolder'
  BY <1>a, <1>h, <1>0 DEF Rent, Commands, disk, memory, Leaves, TypeOK, Consistent, OneHolder, Had
<1>5. ASSUME NEW i \in Items \ hasty', i \in W
      PROVE  (i \in vault[p] \/ "floor" \in held[i]) /\ held'[i] \subseteq {p}
  BY <1>a, <1>h, <1>w, <1>r, <1>0, <1>5 DEF Rent, Commands, disk, memory, Leaves, TypeOK, Consistent, OneHolder, Had
<1>6. ASSUME NEW i \in Items \ hasty'
      PROVE  /\ p \in held'[i] => i \in W
             /\ \A x \in Stores \ {p} : x \in held'[i] => x \in held[i]
             /\ "floor" \in held'[i] => "floor" \in held[i] \/ p \in held[i]
             /\ "mobile" \in held'[i] => "mobile" \in held[i] \/ p \in held[i]
  BY <1>a, <1>h, <1>w, <1>0 DEF Rent, Commands, disk, memory, Leaves, Had, TypeOK, Consistent, OfflineHaveNothing
<1>l. linked \ {p} \subseteq linked'
  BY DEF Rent, Commands, disk, memory, Leaves, Leaves
<1>7. Consistent'
  BY <1>l, <1>0, <1>1, <1>2, <1>3, <1>4, <1>5, <1>6, OneWriterStep
<1> QED
  BY <1>2, <1>7 DEF GInv

LEMMA QuitStep ==
    ASSUME GInv, NEW p \in Players, Quit(p)
    PROVE  GInv'
<1> USE HolderFacts
<1>a. TypeOK /\ Consistent
  BY DEF GInv
<1>c. coins \in [Players -> Record] /\ coins' \in [Players -> Record]
  BY <1>a DEF TypeOK, Quit, Broke, Record
<1>0. todo = <<>> /\ vault' = vault /\ shelf' = shelf /\ hasty \subseteq hasty'
  BY DEF Quit, Commands, disk, memory, Leaves
<1>r. /\ \A i \in Items \ hasty : \A pl \in Players : pl \in held[i] => i \in vault[pl]
      /\ \A i \in Items \ hasty : \A x, y \in Stores :
             i \in Disk(x) /\ y \in held[i] => x = y
      /\ \A i \in Items \ hasty : \A x \in Stores : "floor" \in held[i] => i \notin Disk(x)
      /\ \A pl \in Players : Disk(pl) = vault[pl]
  BY <1>0, RestFacts
<1>m. /\ Moved(Had(held, p), p, "floor") \in [Items -> SUBSET Holders]
      /\ Lost(Had(held, p), p) \in [Items -> SUBSET Holders]
      /\ \A i \in Items : Moved(Had(held, p), p, "floor")[i] =
             IF i \in Had(held, p) THEN (held[i] \ {p}) \cup {"floor"} ELSE held[i]
      /\ \A i \in Items : Lost(Had(held, p), p)[i] = IF i \in Had(held, p) THEN held[i] \ {p} ELSE held[i]
  <2>1. "floor" \in Holders
    OBVIOUS
  <2> QED
    BY <2>1, <1>a DEF TypeOK, Moved, Lost
<1>h. /\ held' = Moved(Had(held, p), p, "floor") /\ held' \in [Items -> SUBSET Holders]
      /\ \A i \in Items : held'[i] = IF i \in Had(held, p) THEN (held[i] \ {p}) \cup {"floor"} ELSE held[i]
  BY <1>m DEF Quit, Commands, disk, memory, Leaves
<1>z. Had(held', p) = {}
  BY <1>h DEF Had
<1>w. PICK W : W = {}
  OBVIOUS
<1>1. /\ W \in SUBSET Items /\ todo' \in Seq(Writes)
      /\ OneWriter(todo, p, W)'
      /\ \E k \in DOMAIN todo' : todo'[k].to # "char"
  <2>1. ZeroRent(p) \in Seq(Writes) /\ OneWriter(ZeroRent(p), p, W) /\ Starts(ZeroRent(p))
    <3>1. held \in [Items -> SUBSET Holders]
      BY <1>a DEF TypeOK
    <3>2. /\ SaveObj(p, held) \in Seq(Writes) /\ ZeroRent(p) \in Seq(Writes)
          /\ OneWriter(SaveObj(p, held), p, Had(held, p)) /\ OneWriter(ZeroRent(p), p, {})
          /\ Len(SaveObj(p, held)) = 1 /\ Len(ZeroRent(p)) = 1
          /\ SaveObj(p, held)[1] = [to |-> "rent", who |-> p, what |-> Had(held, p)]
          /\ ZeroRent(p)[1] = [to |-> "rent", who |-> p, what |-> {}]
      BY <1>h, <3>1, SaveObjType
    <3> QED
      BY <3>2, <1>w, <1>z DEF Starts
  <2>2. SaveChar(p, coins, linked) \in Seq(Writes) /\ OneWriter(SaveChar(p, coins, linked), p, W)
    BY <1>c, SaveCharType
  <2>2c. ZeroRent(p) \o SaveChar(p, coins, linked) \in Seq(Writes) /\ OneWriter(ZeroRent(p) \o SaveChar(p, coins, linked), p, W) /\ Starts(ZeroRent(p) \o SaveChar(p, coins, linked))
    BY <2>1, <2>2, OneWriterConcat, StartsConcat
  <2>3. SaveObj(p, held') \in Seq(Writes) /\ OneWriter(SaveObj(p, held'), p, W) /\ Starts(SaveObj(p, held'))
    <3>1. held \in [Items -> SUBSET Holders]
      BY <1>a DEF TypeOK
    <3>2. /\ SaveObj(p, held') \in Seq(Writes) /\ ZeroRent(p) \in Seq(Writes)
          /\ OneWriter(SaveObj(p, held'), p, Had(held', p)) /\ OneWriter(ZeroRent(p), p, {})
          /\ Len(SaveObj(p, held')) = 1 /\ Len(ZeroRent(p)) = 1
          /\ SaveObj(p, held')[1] = [to |-> "rent", who |-> p, what |-> Had(held', p)]
          /\ ZeroRent(p)[1] = [to |-> "rent", who |-> p, what |-> {}]
      BY <1>h, <3>1, SaveObjType
    <3> QED
      BY <3>2, <1>w, <1>z DEF Starts
  <2>3c. ZeroRent(p) \o SaveChar(p, coins, linked) \o SaveObj(p, held') \in Seq(Writes) /\ OneWriter(ZeroRent(p) \o SaveChar(p, coins, linked) \o SaveObj(p, held'), p, W) /\ Starts(ZeroRent(p) \o SaveChar(p, coins, linked) \o SaveObj(p, held'))
    BY <2>2c, <2>3, OneWriterConcat, StartsConcat
  <2>4. SaveChar(p, coins, linked) \in Seq(Writes) /\ OneWriter(SaveChar(p, coins, linked), p, W)
    BY <1>c, SaveCharType
  <2>4c. ZeroRent(p) \o SaveChar(p, coins, linked) \o SaveObj(p, held') \o SaveChar(p, coins, linked) \in Seq(Writes) /\ OneWriter(ZeroRent(p) \o SaveChar(p, coins, linked) \o SaveObj(p, held') \o SaveChar(p, coins, linked), p, W) /\ Starts(ZeroRent(p) \o SaveChar(p, coins, linked) \o SaveObj(p, held') \o SaveChar(p, coins, linked))
    BY <2>3c, <2>4, OneWriterConcat, StartsConcat
  <2>e. todo' = ZeroRent(p) \o SaveChar(p, coins, linked) \o SaveObj(p, held') \o SaveChar(p, coins, linked)
    BY <1>h DEF Quit
  <2>f. W \in SUBSET Items
    BY <1>w DEF Had
  <2> QED
    BY <2>4c, <2>e, <2>f DEF Starts
<1>2. TypeOK'
  BY <1>a, <1>h, <1>1, <1>0, <1>c DEF Quit, Commands, disk, memory, Leaves, TypeOK
<1>3. OfflineHaveNothing'
  BY <1>a, <1>h DEF Quit, Commands, disk, memory, Leaves, TypeOK, Consistent, OfflineHaveNothing, Had
<1>4. OneHolder'
  BY <1>a, <1>h, <1>0 DEF Quit, Commands, disk, memory, Leaves, TypeOK, Consistent, OneHolder, Had
<1>5. ASSUME NEW i \in Items \ hasty', i \in W
      PROVE  (i \in vault[p] \/ "floor" \in held[i]) /\ held'[i] \subseteq {p}
  BY <1>a, <1>h, <1>w, <1>r, <1>0, <1>5 DEF Quit, Commands, disk, memory, Leaves, TypeOK, Consistent, OneHolder, Had
<1>6. ASSUME NEW i \in Items \ hasty'
      PROVE  /\ p \in held'[i] => i \in W
             /\ \A x \in Stores \ {p} : x \in held'[i] => x \in held[i]
             /\ "floor" \in held'[i] => "floor" \in held[i] \/ p \in held[i]
             /\ "mobile" \in held'[i] => "mobile" \in held[i] \/ p \in held[i]
  BY <1>a, <1>h, <1>w, <1>0 DEF Quit, Commands, disk, memory, Leaves, Had, TypeOK, Consistent, OfflineHaveNothing
<1>l. linked \ {p} \subseteq linked'
  BY DEF Quit, Commands, disk, memory, Leaves, Leaves
<1>7. Consistent'
  BY <1>l, <1>0, <1>1, <1>2, <1>3, <1>4, <1>5, <1>6, OneWriterStep
<1> QED
  BY <1>2, <1>7 DEF GInv

LEMMA DieStep ==
    ASSUME GInv, NEW p \in Players, Die(p)
    PROVE  GInv'
<1> USE HolderFacts
<1>a. TypeOK /\ Consistent
  BY DEF GInv
<1>c. coins \in [Players -> Record] /\ coins' \in [Players -> Record]
  BY <1>a DEF TypeOK, Die, Broke, Record
<1>0. todo = <<>> /\ vault' = vault /\ shelf' = shelf /\ hasty \subseteq hasty'
  BY DEF Die, Commands, disk, memory, Leaves
<1>r. /\ \A i \in Items \ hasty : \A pl \in Players : pl \in held[i] => i \in vault[pl]
      /\ \A i \in Items \ hasty : \A x, y \in Stores :
             i \in Disk(x) /\ y \in held[i] => x = y
      /\ \A i \in Items \ hasty : \A x \in Stores : "floor" \in held[i] => i \notin Disk(x)
      /\ \A pl \in Players : Disk(pl) = vault[pl]
  BY <1>0, RestFacts
<1>m. /\ Moved(Had(held, p), p, "floor") \in [Items -> SUBSET Holders]
      /\ Lost(Had(held, p), p) \in [Items -> SUBSET Holders]
      /\ \A i \in Items : Moved(Had(held, p), p, "floor")[i] =
             IF i \in Had(held, p) THEN (held[i] \ {p}) \cup {"floor"} ELSE held[i]
      /\ \A i \in Items : Lost(Had(held, p), p)[i] = IF i \in Had(held, p) THEN held[i] \ {p} ELSE held[i]
  <2>1. "floor" \in Holders
    OBVIOUS
  <2> QED
    BY <2>1, <1>a DEF TypeOK, Moved, Lost
<1>h. /\ held' = Moved(Had(held, p), p, "floor") /\ held' \in [Items -> SUBSET Holders]
      /\ \A i \in Items : held'[i] = IF i \in Had(held, p) THEN (held[i] \ {p}) \cup {"floor"} ELSE held[i]
  BY <1>m DEF Die, Commands, disk, memory, Leaves
<1>z. Had(held', p) = {}
  BY <1>h DEF Had
<1>k. Killed(p) \in [Players -> Record]
  <2>1. coins[p] \in Record /\ coins[p].gold \in Nat /\ coins[p].gold <= coins[p].gold
    BY <1>c DEF Record
  <2> QED
    BY <1>c, <2>1, CoinsType DEF Killed
<1>n. coins[p].gold \in Nat
  BY <1>c DEF Record
<1>w. PICK W : W = {}
  OBVIOUS
<1>1. /\ W \in SUBSET Items /\ todo' \in Seq(Writes)
      /\ OneWriter(todo, p, W)'
      /\ \E k \in DOMAIN todo' : todo'[k].to # "char"
  <2>1. ZeroRent(p) \in Seq(Writes) /\ OneWriter(ZeroRent(p), p, W) /\ Starts(ZeroRent(p))
    <3>1. held \in [Items -> SUBSET Holders]
      BY <1>a DEF TypeOK
    <3>2. /\ SaveObj(p, held) \in Seq(Writes) /\ ZeroRent(p) \in Seq(Writes)
          /\ OneWriter(SaveObj(p, held), p, Had(held, p)) /\ OneWriter(ZeroRent(p), p, {})
          /\ Len(SaveObj(p, held)) = 1 /\ Len(ZeroRent(p)) = 1
          /\ SaveObj(p, held)[1] = [to |-> "rent", who |-> p, what |-> Had(held, p)]
          /\ ZeroRent(p)[1] = [to |-> "rent", who |-> p, what |-> {}]
      BY <1>h, <3>1, SaveObjType
    <3> QED
      BY <3>2, <1>w, <1>z DEF Starts
  <2>2. SaveChar(p, Killed(p), linked) \in Seq(Writes) /\ OneWriter(SaveChar(p, Killed(p), linked), p, W)
    BY <1>k, SaveCharType
  <2>2c. ZeroRent(p) \o SaveChar(p, Killed(p), linked) \in Seq(Writes) /\ OneWriter(ZeroRent(p) \o SaveChar(p, Killed(p), linked), p, W) /\ Starts(ZeroRent(p) \o SaveChar(p, Killed(p), linked))
    BY <2>1, <2>2, OneWriterConcat, StartsConcat
  <2>3. SaveObj(p, held') \in Seq(Writes) /\ OneWriter(SaveObj(p, held'), p, W) /\ Starts(SaveObj(p, held'))
    <3>1. held \in [Items -> SUBSET Holders]
      BY <1>a DEF TypeOK
    <3>2. /\ SaveObj(p, held') \in Seq(Writes) /\ ZeroRent(p) \in Seq(Writes)
          /\ OneWriter(SaveObj(p, held'), p, Had(held', p)) /\ OneWriter(ZeroRent(p), p, {})
          /\ Len(SaveObj(p, held')) = 1 /\ Len(ZeroRent(p)) = 1
          /\ SaveObj(p, held')[1] = [to |-> "rent", who |-> p, what |-> Had(held', p)]
          /\ ZeroRent(p)[1] = [to |-> "rent", who |-> p, what |-> {}]
      BY <1>h, <3>1, SaveObjType
    <3> QED
      BY <3>2, <1>w, <1>z DEF Starts
  <2>3c. ZeroRent(p) \o SaveChar(p, Killed(p), linked) \o SaveObj(p, held') \in Seq(Writes) /\ OneWriter(ZeroRent(p) \o SaveChar(p, Killed(p), linked) \o SaveObj(p, held'), p, W) /\ Starts(ZeroRent(p) \o SaveChar(p, Killed(p), linked) \o SaveObj(p, held'))
    BY <2>2c, <2>3, OneWriterConcat, StartsConcat
  <2>4. SaveChar(p, Killed(p), linked) \in Seq(Writes) /\ OneWriter(SaveChar(p, Killed(p), linked), p, W)
    BY <1>k, SaveCharType
  <2>4c. ZeroRent(p) \o SaveChar(p, Killed(p), linked) \o SaveObj(p, held') \o SaveChar(p, Killed(p), linked) \in Seq(Writes) /\ OneWriter(ZeroRent(p) \o SaveChar(p, Killed(p), linked) \o SaveObj(p, held') \o SaveChar(p, Killed(p), linked), p, W) /\ Starts(ZeroRent(p) \o SaveChar(p, Killed(p), linked) \o SaveObj(p, held') \o SaveChar(p, Killed(p), linked))
    BY <2>3c, <2>4, OneWriterConcat, StartsConcat
  <2>e. todo' = ZeroRent(p) \o SaveChar(p, Killed(p), linked) \o SaveObj(p, held') \o SaveChar(p, Killed(p), linked)
    BY <1>h DEF Die
  <2>f. W \in SUBSET Items
    BY <1>w DEF Had
  <2> QED
    BY <2>4c, <2>e, <2>f DEF Starts
<1>2. TypeOK'
  BY SMTT(30), <1>a, <1>h, <1>1, <1>0, <1>c, <1>n DEF Die, Commands, disk, memory, Leaves, TypeOK
<1>3. OfflineHaveNothing'
  BY <1>a, <1>h DEF Die, Commands, disk, memory, Leaves, TypeOK, Consistent, OfflineHaveNothing, Had
<1>4. OneHolder'
  BY <1>a, <1>h, <1>0 DEF Die, Commands, disk, memory, Leaves, TypeOK, Consistent, OneHolder, Had
<1>5. ASSUME NEW i \in Items \ hasty', i \in W
      PROVE  (i \in vault[p] \/ "floor" \in held[i]) /\ held'[i] \subseteq {p}
  BY <1>a, <1>h, <1>w, <1>r, <1>0, <1>5 DEF Die, Commands, disk, memory, Leaves, TypeOK, Consistent, OneHolder, Had
<1>6. ASSUME NEW i \in Items \ hasty'
      PROVE  /\ p \in held'[i] => i \in W
             /\ \A x \in Stores \ {p} : x \in held'[i] => x \in held[i]
             /\ "floor" \in held'[i] => "floor" \in held[i] \/ p \in held[i]
             /\ "mobile" \in held'[i] => "mobile" \in held[i] \/ p \in held[i]
  BY <1>a, <1>h, <1>w, <1>0 DEF Die, Commands, disk, memory, Leaves, Had, TypeOK, Consistent, OfflineHaveNothing
<1>l. linked \ {p} \subseteq linked'
  BY DEF Die, Commands, disk, memory, Leaves, Leaves
<1>7. Consistent'
  BY <1>l, <1>0, <1>1, <1>2, <1>3, <1>4, <1>5, <1>6, OneWriterStep
<1> QED
  BY <1>2, <1>7 DEF GInv

LEMMA ForceRentStep ==
    ASSUME GInv, NEW p \in Players, ForceRent(p)
    PROVE  GInv'
<1> USE HolderFacts
<1>a. TypeOK /\ Consistent
  BY DEF GInv
<1>c. coins \in [Players -> Record] /\ coins' \in [Players -> Record]
  BY <1>a DEF TypeOK, ForceRent, Broke, Record
<1>0. todo = <<>> /\ vault' = vault /\ shelf' = shelf /\ hasty \subseteq hasty'
  BY DEF ForceRent, Commands, disk, memory, Leaves
<1>r. /\ \A i \in Items \ hasty : \A pl \in Players : pl \in held[i] => i \in vault[pl]
      /\ \A i \in Items \ hasty : \A x, y \in Stores :
             i \in Disk(x) /\ y \in held[i] => x = y
      /\ \A i \in Items \ hasty : \A x \in Stores : "floor" \in held[i] => i \notin Disk(x)
      /\ \A pl \in Players : Disk(pl) = vault[pl]
  BY <1>0, RestFacts
<1>m. /\ Moved(Had(held, p), p, p) \in [Items -> SUBSET Holders]
      /\ Lost(Had(held, p), p) \in [Items -> SUBSET Holders]
      /\ \A i \in Items : Moved(Had(held, p), p, p)[i] =
             IF i \in Had(held, p) THEN (held[i] \ {p}) \cup {p} ELSE held[i]
      /\ \A i \in Items : Lost(Had(held, p), p)[i] = IF i \in Had(held, p) THEN held[i] \ {p} ELSE held[i]
  <2>1. p \in Holders
    OBVIOUS
  <2> QED
    BY <2>1, <1>a DEF TypeOK, Moved, Lost
<1>h. /\ held' = Lost(Had(held, p), p) /\ held' \in [Items -> SUBSET Holders]
      /\ \A i \in Items : held'[i] = IF i \in Had(held, p) THEN held[i] \ {p} ELSE held[i]
  BY <1>m DEF ForceRent, Commands, disk, memory, Leaves
<1>w. PICK W : W = Had(held, p)
  OBVIOUS
<1>1. /\ W \in SUBSET Items /\ todo' \in Seq(Writes)
      /\ OneWriter(todo, p, W)'
      /\ \E k \in DOMAIN todo' : todo'[k].to # "char"
  <2>1. DoSave(p, held, coins) \in Seq(Writes) /\ OneWriter(DoSave(p, held, coins), p, W) /\ Starts(DoSave(p, held, coins))
    <3>1. /\ DoSave(p, held, coins) \in Seq(Writes)
          /\ OneWriter(DoSave(p, held, coins), p, Had(held, p))
          /\ 1 \in DOMAIN DoSave(p, held, coins)
          /\ DoSave(p, held, coins)[1] = [to |-> "rent", who |-> p, what |-> Had(held, p)]
      BY <1>a, <1>c, DoSaveType DEF TypeOK
    <3> QED
      BY <3>1, <1>w DEF Starts
  <2>2. SaveObj(p, held) \in Seq(Writes) /\ OneWriter(SaveObj(p, held), p, W) /\ Starts(SaveObj(p, held))
    <3>1. held \in [Items -> SUBSET Holders]
      BY <1>a DEF TypeOK
    <3>2. /\ SaveObj(p, held) \in Seq(Writes) /\ ZeroRent(p) \in Seq(Writes)
          /\ OneWriter(SaveObj(p, held), p, Had(held, p)) /\ OneWriter(ZeroRent(p), p, {})
          /\ Len(SaveObj(p, held)) = 1 /\ Len(ZeroRent(p)) = 1
          /\ SaveObj(p, held)[1] = [to |-> "rent", who |-> p, what |-> Had(held, p)]
          /\ ZeroRent(p)[1] = [to |-> "rent", who |-> p, what |-> {}]
      BY <1>h, <3>1, SaveObjType
    <3> QED
      BY <3>2, <1>w DEF Starts
  <2>2c. DoSave(p, held, coins) \o SaveObj(p, held) \in Seq(Writes) /\ OneWriter(DoSave(p, held, coins) \o SaveObj(p, held), p, W) /\ Starts(DoSave(p, held, coins) \o SaveObj(p, held))
    BY <2>1, <2>2, OneWriterConcat, StartsConcat
  <2>d. CASE p \in linked
    <3>1. todo' = DoSave(p, held, coins) \o SaveObj(p, held)
      BY <2>d DEF ForceRent
    <3> QED
      BY <2>2c, <3>1, <1>w DEF Starts, Had
  <2>e. CASE p \notin linked
    <3>1. todo' = <<>> \o SaveObj(p, held)
      BY <2>e DEF ForceRent
    <3>2. todo' = SaveObj(p, held)
      BY <2>2, <3>1
    <3> QED
      BY <2>2, <3>2, <1>w DEF Starts, Had
  <2> QED
    BY <2>d, <2>e
<1>2. TypeOK'
  BY <1>a, <1>h, <1>1, <1>0, <1>c DEF ForceRent, Commands, disk, memory, Leaves, TypeOK
<1>3. OfflineHaveNothing'
  BY <1>a, <1>h DEF ForceRent, Commands, disk, memory, Leaves, TypeOK, Consistent, OfflineHaveNothing, Had
<1>4. OneHolder'
  BY <1>a, <1>h, <1>0 DEF ForceRent, Commands, disk, memory, Leaves, TypeOK, Consistent, OneHolder, Had
<1>5. ASSUME NEW i \in Items \ hasty', i \in W
      PROVE  (i \in vault[p] \/ "floor" \in held[i]) /\ held'[i] \subseteq {p}
  BY <1>a, <1>h, <1>w, <1>r, <1>0, <1>5 DEF ForceRent, Commands, disk, memory, Leaves, TypeOK, Consistent, OneHolder, Had
<1>6. ASSUME NEW i \in Items \ hasty'
      PROVE  /\ p \in held'[i] => i \in W
             /\ \A x \in Stores \ {p} : x \in held'[i] => x \in held[i]
             /\ "floor" \in held'[i] => "floor" \in held[i] \/ p \in held[i]
             /\ "mobile" \in held'[i] => "mobile" \in held[i] \/ p \in held[i]
  BY <1>a, <1>h, <1>w, <1>0 DEF ForceRent, Commands, disk, memory, Leaves, Had, TypeOK, Consistent, OfflineHaveNothing
<1>l. linked \ {p} \subseteq linked'
  BY DEF ForceRent, Commands, disk, memory, Leaves, Leaves
<1>7. Consistent'
  BY <1>l, <1>0, <1>1, <1>2, <1>3, <1>4, <1>5, <1>6, OneWriterStep
<1> QED
  BY <1>2, <1>7 DEF GInv

LEMMA EvictedLinkedStep ==
    ASSUME GInv, NEW p \in Players, EvictedWithoutRent(p),
           p \in linked
    PROVE  GInv'
<1> USE HolderFacts
<1>a. TypeOK /\ Consistent
  BY DEF GInv
<1>c. coins \in [Players -> Record] /\ coins' \in [Players -> Record]
  BY <1>a DEF TypeOK, EvictedWithoutRent, Broke, Record
<1>0. todo = <<>> /\ vault' = vault /\ shelf' = shelf /\ hasty \subseteq hasty'
  BY DEF EvictedWithoutRent, Commands, disk, memory, Leaves
<1>r. /\ \A i \in Items \ hasty : \A pl \in Players : pl \in held[i] => i \in vault[pl]
      /\ \A i \in Items \ hasty : \A x, y \in Stores :
             i \in Disk(x) /\ y \in held[i] => x = y
      /\ \A i \in Items \ hasty : \A x \in Stores : "floor" \in held[i] => i \notin Disk(x)
      /\ \A pl \in Players : Disk(pl) = vault[pl]
  BY <1>0, RestFacts
<1>m. /\ Moved(Had(held, p), p, "floor") \in [Items -> SUBSET Holders]
      /\ Lost(Had(held, p), p) \in [Items -> SUBSET Holders]
      /\ \A i \in Items : Moved(Had(held, p), p, "floor")[i] =
             IF i \in Had(held, p) THEN (held[i] \ {p}) \cup {"floor"} ELSE held[i]
      /\ \A i \in Items : Lost(Had(held, p), p)[i] = IF i \in Had(held, p) THEN held[i] \ {p} ELSE held[i]
  <2>1. "floor" \in Holders
    OBVIOUS
  <2> QED
    BY <2>1, <1>a DEF TypeOK, Moved, Lost
<1>h. /\ held' = Moved(Had(held, p), p, "floor") /\ held' \in [Items -> SUBSET Holders]
      /\ \A i \in Items : held'[i] = IF i \in Had(held, p) THEN (held[i] \ {p}) \cup {"floor"} ELSE held[i]
  BY <1>m DEF EvictedWithoutRent, Commands, disk, memory, Leaves
<1>w. PICK W : W = Had(held, p)
  OBVIOUS
<1>1. /\ W \in SUBSET Items /\ todo' \in Seq(Writes)
      /\ OneWriter(todo, p, W)'
      /\ \E k \in DOMAIN todo' : todo'[k].to # "char"
  <2>1. DoSave(p, held, coins) \in Seq(Writes) /\ OneWriter(DoSave(p, held, coins), p, W) /\ Starts(DoSave(p, held, coins))
    <3>1. /\ DoSave(p, held, coins) \in Seq(Writes)
          /\ OneWriter(DoSave(p, held, coins), p, Had(held, p))
          /\ 1 \in DOMAIN DoSave(p, held, coins)
          /\ DoSave(p, held, coins)[1] = [to |-> "rent", who |-> p, what |-> Had(held, p)]
      BY <1>a, <1>c, DoSaveType DEF TypeOK
    <3> QED
      BY <3>1, <1>w DEF Starts
  <2>e. todo' = DoSave(p, held, coins)
    BY DEF EvictedWithoutRent
  <2> QED
    BY <2>1, <2>e, <1>w DEF Starts, Had
<1>2. TypeOK'
  BY <1>a, <1>h, <1>1, <1>0, <1>c DEF Had, EvictedWithoutRent, Commands, disk, memory, Leaves, TypeOK
<1>3. OfflineHaveNothing'
  BY <1>a, <1>h DEF EvictedWithoutRent, Commands, disk, memory, Leaves, TypeOK, Consistent, OfflineHaveNothing, Had
<1>4. OneHolder'
  BY <1>a, <1>h, <1>0 DEF EvictedWithoutRent, Commands, disk, memory, Leaves, TypeOK, Consistent, OneHolder, Had
<1>5. ASSUME NEW i \in Items \ hasty', i \in W
      PROVE  (i \in vault[p] \/ "floor" \in held[i]) /\ held'[i] \subseteq {p}
  BY <1>a, <1>h, <1>w, <1>r, <1>0, <1>5 DEF EvictedWithoutRent, Commands, disk, memory, Leaves, TypeOK, Consistent, OneHolder, Had
<1>6. ASSUME NEW i \in Items \ hasty'
      PROVE  /\ p \in held'[i] => i \in W
             /\ \A x \in Stores \ {p} : x \in held'[i] => x \in held[i]
             /\ "floor" \in held'[i] => "floor" \in held[i] \/ p \in held[i]
             /\ "mobile" \in held'[i] => "mobile" \in held[i] \/ p \in held[i]
  BY <1>a, <1>h, <1>w, <1>0 DEF EvictedWithoutRent, Commands, disk, memory, Leaves, Had, TypeOK, Consistent, OfflineHaveNothing
<1>l. linked \ {p} \subseteq linked'
  BY DEF EvictedWithoutRent, Commands, disk, memory, Leaves, Leaves
<1>7. Consistent'
  BY <1>l, <1>0, <1>1, <1>2, <1>3, <1>4, <1>5, <1>6, OneWriterStep
<1> QED
  BY <1>2, <1>7 DEF GInv

LEMMA EvictedLinkdeadStep ==
    ASSUME GInv, NEW p \in Players, EvictedWithoutRent(p),
           p \notin linked
    PROVE  GInv'
<1> USE HolderFacts
<1>a. TypeOK /\ Consistent
  BY DEF GInv
<1>c. coins \in [Players -> Record] /\ coins' \in [Players -> Record]
  BY <1>a DEF TypeOK, EvictedWithoutRent, Broke, Record
<1>0. todo = <<>> /\ vault' = vault /\ shelf' = shelf /\ hasty \subseteq hasty'
  BY DEF EvictedWithoutRent, Commands, disk, memory, Leaves
<1>r. /\ \A i \in Items \ hasty : \A pl \in Players : pl \in held[i] => i \in vault[pl]
      /\ \A i \in Items \ hasty : \A x, y \in Stores :
             i \in Disk(x) /\ y \in held[i] => x = y
      /\ \A i \in Items \ hasty : \A x \in Stores : "floor" \in held[i] => i \notin Disk(x)
      /\ \A pl \in Players : Disk(pl) = vault[pl]
  BY <1>0, RestFacts
<1>m. /\ Moved(Had(held, p), p, "floor") \in [Items -> SUBSET Holders]
      /\ Lost(Had(held, p), p) \in [Items -> SUBSET Holders]
      /\ \A i \in Items : Moved(Had(held, p), p, "floor")[i] =
             IF i \in Had(held, p) THEN (held[i] \ {p}) \cup {"floor"} ELSE held[i]
      /\ \A i \in Items : Lost(Had(held, p), p)[i] = IF i \in Had(held, p) THEN held[i] \ {p} ELSE held[i]
  <2>1. "floor" \in Holders
    OBVIOUS
  <2> QED
    BY <2>1, <1>a DEF TypeOK, Moved, Lost
<1>h. /\ held' = Moved(Had(held, p), p, "floor") /\ held' \in [Items -> SUBSET Holders]
      /\ \A i \in Items : held'[i] = IF i \in Had(held, p) THEN (held[i] \ {p}) \cup {"floor"} ELSE held[i]
  BY <1>m DEF EvictedWithoutRent, Commands, disk, memory, Leaves
<1>1. todo' \in Seq(Writes) /\ \A k \in DOMAIN todo' : todo'[k].to = "char"
  BY <1>0 DEF EvictedWithoutRent
<1>2. TypeOK'
  BY <1>a, <1>h, <1>1, <1>0, <1>c DEF Had, EvictedWithoutRent, Commands, disk, memory, Leaves, TypeOK
<1>3. OfflineHaveNothing'
  BY <1>a, <1>h DEF EvictedWithoutRent, Commands, disk, memory, Leaves, TypeOK, Consistent, OfflineHaveNothing, Had
<1>4. OneHolder'
  BY <1>a, <1>h, <1>0 DEF EvictedWithoutRent, Commands, disk, memory, Leaves, TypeOK, Consistent, OneHolder, Had
<1>5. ASSUME NEW i \in Items \ hasty'
      PROVE  /\ \A x \in Stores : x \in held'[i] => x \in held[i] \/ i \in Disk(x)
             /\ "floor" \in held'[i] => "floor" \in held[i]
             /\ "mobile" \in held'[i] => "mobile" \in held[i] \/ \E q1 \in linked : q1 \in held[i]
  BY <1>a, <1>h, <1>0, <1>r DEF Had, EvictedWithoutRent, Commands, disk, memory, Leaves, TypeOK
<1>l. linked \subseteq linked'
  BY DEF EvictedWithoutRent, Commands, disk, memory, Leaves
<1>6. Consistent'
  BY <1>l, <1>0, <1>1, <1>2, <1>3, <1>4, <1>5, NoWriterStep
<1> QED
  BY <1>2, <1>6 DEF GInv

LEMMA EvictedWithoutRentStep ==
    ASSUME GInv, NEW p \in Players, EvictedWithoutRent(p)
    PROVE  GInv'
  BY EvictedLinkedStep, EvictedLinkdeadStep

LEMMA EnterStep ==
    ASSUME GInv, NEW p \in Players, NEW charge \in Nat, Enter(p, charge)
    PROVE  GInv'
<1> USE HolderFacts
<1>a. TypeOK /\ Consistent
  BY DEF GInv
<1>0. /\ todo = <<>> /\ vault' = vault /\ shelf' = shelf /\ hasty' = hasty
      /\ p \notin online /\ online' = online \cup {p} /\ linked' = linked \cup {p}
      /\ loose' = loose /\ file' = file /\ guild' = guild /\ made' = made
  BY DEF Enter, disk
<1>r. /\ \A i \in Items \ hasty : \A x, y \in Stores :
             i \in Disk(x) /\ y \in held[i] => x = y
      /\ \A i \in Items \ hasty : \A x \in Stores : "floor" \in held[i] => i \notin Disk(x)
      /\ \A pl \in Players : Disk(pl) = vault[pl]
      /\ \A i \in Items \ hasty : \A pl \in Players : pl \in held[i] => i \in vault[pl]
  BY <1>0, RestFacts
<1>f. file[p] \in Record /\ file[p].gold \in Nat /\ file[p].bank \in Nat
  BY <1>a DEF TypeOK, Record
<1>g. \A i \in Items : p \notin held[i]
  BY <1>a, <1>0 DEF Consistent, OfflineHaveNothing
<1>1. CASE charge > file[p].gold
  <2>1. /\ coins' = [coins EXCEPT ![p] = [file[p] EXCEPT !.gold = 0]]
        /\ todo' = ZeroRent(p) \o SaveChar(p, coins', linked')
        /\ held' = held
    BY <1>1 DEF Enter
  <2>2. [file[p] EXCEPT !.gold = 0] \in Record
    BY <1>f DEF Record
  <2>3. coins' \in [Players -> Record]
    BY <1>a, <2>1, <2>2 DEF TypeOK
  <2>4. PICK W : W = {}
    OBVIOUS
  <2>5. /\ ZeroRent(p) \in Seq(Writes) /\ OneWriter(ZeroRent(p), p, W)
        /\ Starts(ZeroRent(p))
    <3>1. held \in [Items -> SUBSET Holders]
      BY <1>a DEF TypeOK
    <3>2. /\ ZeroRent(p) \in Seq(Writes)
          /\ OneWriter(ZeroRent(p), p, {})
          /\ Len(ZeroRent(p)) = 1
          /\ ZeroRent(p)[1] = [to |-> "rent", who |-> p, what |-> {}]
      BY <3>1, SaveObjType
    <3> QED
      BY <3>2, <2>4 DEF Starts
  <2>6. PICK c : c = coins'
    OBVIOUS
  <2>7. PICK L : L = linked'
    OBVIOUS
  <2>8. SaveChar(p, c, L) \in Seq(Writes) /\ OneWriter(SaveChar(p, c, L), p, W)
    BY <2>3, <2>6, SaveCharType
  <2>9. /\ todo' = ZeroRent(p) \o SaveChar(p, c, L)
        /\ todo' \in Seq(Writes) /\ OneWriter(todo', p, W) /\ Starts(todo')
    <3>1. todo' = ZeroRent(p) \o SaveChar(p, c, L)
      BY <2>1, <2>6, <2>7
    <3>2. /\ ZeroRent(p) \o SaveChar(p, c, L) \in Seq(Writes)
          /\ OneWriter(ZeroRent(p) \o SaveChar(p, c, L), p, W)
          /\ Starts(ZeroRent(p) \o SaveChar(p, c, L))
      BY <2>5, <2>8, OneWriterConcat, StartsConcat
    <3> QED
      BY <3>1, <3>2
  <2>10. TypeOK'
    <3>1. linked' \subseteq online' /\ online' \subseteq Players
      BY <1>a, <1>0 DEF TypeOK
    <3>2. held' \in [Items -> SUBSET Holders]
      BY <1>a, <2>1 DEF TypeOK
    <3>3. /\ vault' \in [Players -> SUBSET Items] /\ shelf' \subseteq Items
          /\ hasty' \subseteq Items
          /\ file' \in [Players -> Record] /\ loose' \in Nat /\ guild' \in Nat /\ made' \in Nat
      BY <1>a, <1>0 DEF TypeOK
    <3> QED
      BY <3>1, <3>2, <3>3, <2>3, <2>9 DEF TypeOK
  <2>11. OfflineHaveNothing' /\ OneHolder'
    BY <1>a, <1>0, <2>1 DEF Consistent, OfflineHaveNothing, OneHolder
  <2>12. W \in SUBSET Items /\ OneWriter(todo, p, W)'
         /\ \E k \in DOMAIN todo' : todo'[k].to # "char"
    BY <2>4, <2>9 DEF Starts, OneWriter
  <2>13. ASSUME NEW i \in Items \ hasty', i \in W
         PROVE  (i \in vault[p] \/ "floor" \in held[i]) /\ held'[i] \subseteq {p}
    BY <2>13, <2>4
  <2>14. ASSUME NEW i \in Items \ hasty'
         PROVE  /\ p \in held'[i] => i \in W
                /\ \A x \in Stores \ {p} : x \in held'[i] => x \in held[i]
                /\ "floor" \in held'[i] => "floor" \in held[i] \/ p \in held[i]
                /\ "mobile" \in held'[i] => "mobile" \in held[i] \/ p \in held[i]
    BY <1>g, <2>1
  <2>15. linked \ {p} \subseteq linked' /\ hasty \subseteq hasty'
    BY <1>0
  <2>16. Consistent'
    BY <1>0, <2>10, <2>11, <2>12, <2>13, <2>14, <2>15, OneWriterStep
  <2> QED
    BY <2>10, <2>16 DEF GInv
<1>2. CASE ~(charge > file[p].gold)
  <2>1. /\ coins' = [coins EXCEPT ![p] = [file[p] EXCEPT !.gold = @ - charge]]
        /\ held' = [i \in Items |-> IF i \in vault[p] THEN held[i] \cup {p} ELSE held[i]]
        /\ todo' = SaveChar(p, coins', linked')
    BY <1>2 DEF Enter
  <2>2. [file[p] EXCEPT !.gold = @ - charge] \in Record
    BY <1>2, <1>f DEF Record
  <2>3. coins' \in [Players -> Record]
    BY <1>a, <2>1, <2>2 DEF TypeOK
  <2>h. /\ held' \in [Items -> SUBSET Holders]
        /\ \A i \in Items : held'[i] = IF i \in vault[p] THEN held[i] \cup {p} ELSE held[i]
    BY <1>a, <2>1 DEF TypeOK
  <2>4. PICK c : c = coins'
    OBVIOUS
  <2>5. PICK L : L = linked'
    OBVIOUS
  <2>6. /\ todo' \in Seq(Writes)
        /\ \A k \in DOMAIN todo' : todo'[k].to = "char"
    <3>1. todo' = SaveChar(p, c, L)
      BY <2>1, <2>4, <2>5
    <3>2. /\ SaveChar(p, c, L) \in Seq(Writes)
          /\ \A k \in DOMAIN SaveChar(p, c, L) : SaveChar(p, c, L)[k].to = "char"
      BY <2>3, <2>4, SaveCharType
    <3> QED
      BY <3>1, <3>2
  <2>7. TypeOK'
    <3>1. linked' \subseteq online' /\ online' \subseteq Players
      BY <1>a, <1>0 DEF TypeOK
    <3>2. held' \in [Items -> SUBSET Holders]
      BY <1>a, <2>h DEF TypeOK
    <3>3. /\ vault' \in [Players -> SUBSET Items] /\ shelf' \subseteq Items
          /\ hasty' \subseteq Items
          /\ file' \in [Players -> Record] /\ loose' \in Nat /\ guild' \in Nat /\ made' \in Nat
      BY <1>a, <1>0 DEF TypeOK
    <3> QED
      BY <3>1, <3>2, <3>3, <2>3, <2>6 DEF TypeOK
  <2>8. OfflineHaveNothing'
    BY <1>a, <1>0, <2>h DEF Consistent, OfflineHaveNothing
  <2>9. \A i \in Items \ hasty : i \in vault[p] => held[i] = {}
    <3>1. \A i \in Items : \A x \in Stores : Settled(i, x) <=> i \in Disk(x)
      BY <1>0 DEF Settled, Pending
    <3>2. p \notin linked
      BY <1>a, <1>0 DEF TypeOK
    <3> SUFFICES ASSUME NEW i \in Items, i \notin hasty, i \in vault[p], NEW y \in held[i]
                 PROVE  FALSE
      OBVIOUS
    <3>3. i \in Disk(p) /\ Settled(i, p)
      BY <1>r, <3>1
    <3>4. y # "mobile"
      BY <1>a, <3>2, <3>3 DEF Consistent, SoldByLinked
    <3>5. y \in Holders /\ y # "floor"
      BY <1>a, <1>r, <3>3 DEF TypeOK
    <3>6. y \in Stores
      BY <3>4, <3>5 DEF Holders, Stores
    <3> QED
      BY <1>g, <1>r, <3>3, <3>6
  <2>10. OneHolder'
    BY <1>a, <1>0, <2>h, <2>9 DEF Consistent, OneHolder
  <2>11. ASSUME NEW i \in Items \ hasty'
         PROVE  /\ \A x \in Stores : x \in held'[i] => x \in held[i] \/ i \in Disk(x)
                /\ "floor" \in held'[i] => "floor" \in held[i]
                /\ "mobile" \in held'[i] =>
                       "mobile" \in held[i] \/ \E q1 \in linked : q1 \in held[i]
    BY <1>r, <2>h
  <2>12. linked \subseteq linked' /\ hasty \subseteq hasty'
    BY <1>0
  <2>13. Consistent'
    BY <1>0, <2>6, <2>7, <2>8, <2>10, <2>11, <2>12, NoWriterStep
  <2> QED
    BY <2>7, <2>13 DEF GInv
<1> QED
  BY <1>1, <1>2

LEMMA GiveStep ==
    ASSUME GInv, NEW p \in Players, NEW q \in Players, NEW S \in SUBSET Items, Give(p, q, S)
    PROVE  GInv'
<1> USE HolderFacts
<1>a. TypeOK /\ Consistent
  BY DEF GInv
<1>c. coins \in [Players -> Record]
  BY <1>a DEF TypeOK
<1>0. todo = <<>> /\ vault' = vault /\ shelf' = shelf /\ hasty \subseteq hasty'
  BY DEF Give, Commands, disk, memory
<1>r. /\ \A i \in Items \ hasty : \A pl \in Players : pl \in held[i] => i \in vault[pl]
      /\ \A i \in Items \ hasty : \A x, y \in Stores :
             i \in Disk(x) /\ y \in held[i] => x = y
      /\ \A i \in Items \ hasty : \A x \in Stores : "floor" \in held[i] => i \notin Disk(x)
      /\ \A pl \in Players : Disk(pl) = vault[pl]
  BY <1>0, RestFacts
<1>m. /\ Moved(S, p, q) \in [Items -> SUBSET Holders]
      /\ \A i \in Items : Moved(S, p, q)[i] =
             IF i \in S THEN (held[i] \ {p}) \cup {q} ELSE held[i]
  <2>1. q \in Holders
    OBVIOUS
  <2> QED
    BY <2>1, <1>a DEF TypeOK, Moved
<1>h. /\ held' = Moved(S, p, q) /\ held' \in [Items -> SUBSET Holders]
      /\ \A i \in Items : held'[i] = IF i \in S THEN (held[i] \ {p}) \cup {q} ELSE held[i]
  BY <1>m DEF Give
<1>A. PICK A : A = Had(held', p)
  OBVIOUS
<1>B. PICK B : B = Had(held', q)
  OBVIOUS
<1>3. OfflineHaveNothing'
  BY <1>a, <1>h DEF Give, Commands, TypeOK, Consistent, OfflineHaveNothing
<1>4. OneHolder'
  BY <1>a, <1>h, <1>0 DEF Give, Had, TypeOK, Consistent, OneHolder
<1>l. linked \subseteq linked'
  BY DEF Give
<1>1. /\ A \in SUBSET Items /\ B \in SUBSET Items /\ todo' \in Seq(Writes)
      /\ TwoWriters(todo, p, A, q, B)'
  <2>1. /\ DoSave(p, held', coins) \in Seq(Writes)
        /\ OneWriter(DoSave(p, held', coins), p, A)
        /\ 1 \in DOMAIN DoSave(p, held', coins)
        /\ DoSave(p, held', coins)[1].to # "char"
    <3>1. /\ DoSave(p, held', coins) \in Seq(Writes)
          /\ OneWriter(DoSave(p, held', coins), p, Had(held', p))
          /\ 1 \in DOMAIN DoSave(p, held', coins)
          /\ DoSave(p, held', coins)[1] = [to |-> "rent", who |-> p, what |-> Had(held', p)]
      BY <1>h, <1>c, DoSaveType
    <3> QED
      BY <3>1, <1>A
  <2>2. /\ DoSave(q, held', coins) \in Seq(Writes)
        /\ OneWriter(DoSave(q, held', coins), q, B)
        /\ 1 \in DOMAIN DoSave(q, held', coins)
        /\ DoSave(q, held', coins)[1].to # "char"
    <3>1. /\ DoSave(q, held', coins) \in Seq(Writes)
          /\ OneWriter(DoSave(q, held', coins), q, Had(held', q))
          /\ 1 \in DOMAIN DoSave(q, held', coins)
          /\ DoSave(q, held', coins)[1] = [to |-> "rent", who |-> q, what |-> Had(held', q)]
      BY <1>h, <1>c, DoSaveType
    <3> QED
      BY <3>1, <1>B
  <2>3. todo' = DoSave(p, held', coins) \o DoSave(q, held', coins)
    BY <1>h DEF Give
  <2>4. /\ DoSave(p, held', coins) \o DoSave(q, held', coins) \in Seq(Writes)
        /\ TwoWriters(DoSave(p, held', coins) \o DoSave(q, held', coins), p, A, q, B)
    BY <2>1, <2>2, TwoWritersConcat
  <2>5. A \in SUBSET Items /\ B \in SUBSET Items
    BY <1>A, <1>B DEF Had
  <2> QED
    BY <2>3, <2>4, <2>5
<1>2. TypeOK'
  BY <1>a, <1>h, <1>1, <1>0 DEF Give, disk, TypeOK
<1>n. p # q
  BY DEF Give
<1>5. ASSUME NEW i \in Items \ hasty', i \in A
      PROVE  held'[i] \subseteq {p} /\ \A y \in Stores \ {p} : i \notin Disk(y)
  BY <1>5, <1>a, <1>h, <1>A, <1>r, <1>0, <1>n DEF Give, Had, TypeOK, Consistent, OneHolder
<1>5b. ASSUME NEW i \in Items \ hasty', i \in B
      PROVE  held'[i] \subseteq {q} /\ \A y \in Stores \ {p, q} : i \notin Disk(y)
  BY <1>5b, <1>a, <1>h, <1>B, <1>r, <1>0, <1>n DEF Give, Had, TypeOK, Consistent, OneHolder
<1>5c. ASSUME NEW i \in Items \ hasty'
      PROVE  /\ ~(i \in A /\ i \in B)
             /\ p \in held'[i] => i \in A
             /\ q \in held'[i] => i \in B
             /\ \A x \in Stores \ {p, q} : x \in held'[i] => x \in held[i]
             /\ "floor" \in held'[i] => "floor" \in held[i]
             /\ "mobile" \in held'[i] => "mobile" \in held[i]
  BY <1>a, <1>4, <1>h, <1>A, <1>B, <1>0, <1>n DEF Give, Had, TypeOK, Consistent, OneHolder
<1>6. Consistent'
  BY <1>l, <1>n, <1>0, <1>1, <1>2, <1>3, <1>4, <1>5, <1>5b, <1>5c, TwoWritersStep
<1> QED
  BY <1>2, <1>6 DEF GInv

LEMMA StealStep ==
    ASSUME GInv, NEW p \in Players, NEW q \in Players, NEW i0 \in Items, Steal(p, q, i0)
    PROVE  GInv'
<1> USE HolderFacts
<1>a. TypeOK /\ Consistent
  BY DEF GInv
<1>c. coins \in [Players -> Record]
  BY <1>a DEF TypeOK
<1>0. todo = <<>> /\ vault' = vault /\ shelf' = shelf /\ hasty \subseteq hasty'
  BY DEF Steal, Commands, disk, memory
<1>r. /\ \A i \in Items \ hasty : \A pl \in Players : pl \in held[i] => i \in vault[pl]
      /\ \A i \in Items \ hasty : \A x, y \in Stores :
             i \in Disk(x) /\ y \in held[i] => x = y
      /\ \A i \in Items \ hasty : \A x \in Stores : "floor" \in held[i] => i \notin Disk(x)
      /\ \A pl \in Players : Disk(pl) = vault[pl]
  BY <1>0, RestFacts
<1>s. PICK S : S = {i0}
  OBVIOUS
<1>m. /\ Moved(S, q, p) \in [Items -> SUBSET Holders]
      /\ \A i \in Items : Moved(S, q, p)[i] =
             IF i \in S THEN (held[i] \ {q}) \cup {p} ELSE held[i]
  <2>1. p \in Holders
    OBVIOUS
  <2> QED
    BY <2>1, <1>a DEF TypeOK, Moved
<1>h. /\ held' = Moved(S, q, p) /\ held' \in [Items -> SUBSET Holders]
      /\ \A i \in Items : held'[i] = IF i \in S THEN (held[i] \ {q}) \cup {p} ELSE held[i]
  BY <1>m, <1>s DEF Steal
<1>A. PICK A : A = Had(held', p)
  OBVIOUS
<1>B. PICK B : B = Had(held', q)
  OBVIOUS
<1>3. OfflineHaveNothing'
  BY <1>a, <1>h, <1>s DEF Steal, Commands, TypeOK, Consistent, OfflineHaveNothing
<1>4. OneHolder'
  BY <1>a, <1>h, <1>0, <1>s DEF Steal, Had, TypeOK, Consistent, OneHolder
<1>l. linked \subseteq linked'
  BY DEF Steal
<1>1. /\ A \in SUBSET Items /\ B \in SUBSET Items /\ todo' \in Seq(Writes)
      /\ TwoWriters(todo, p, A, q, B)'
  <2>1. /\ DoSave(p, held', coins) \in Seq(Writes)
        /\ OneWriter(DoSave(p, held', coins), p, A)
        /\ 1 \in DOMAIN DoSave(p, held', coins)
        /\ DoSave(p, held', coins)[1].to # "char"
    <3>1. /\ DoSave(p, held', coins) \in Seq(Writes)
          /\ OneWriter(DoSave(p, held', coins), p, Had(held', p))
          /\ 1 \in DOMAIN DoSave(p, held', coins)
          /\ DoSave(p, held', coins)[1] = [to |-> "rent", who |-> p, what |-> Had(held', p)]
      BY <1>h, <1>c, DoSaveType
    <3> QED
      BY <3>1, <1>A
  <2>2. /\ DoSave(q, held', coins) \in Seq(Writes)
        /\ OneWriter(DoSave(q, held', coins), q, B)
        /\ 1 \in DOMAIN DoSave(q, held', coins)
        /\ DoSave(q, held', coins)[1].to # "char"
    <3>1. /\ DoSave(q, held', coins) \in Seq(Writes)
          /\ OneWriter(DoSave(q, held', coins), q, Had(held', q))
          /\ 1 \in DOMAIN DoSave(q, held', coins)
          /\ DoSave(q, held', coins)[1] = [to |-> "rent", who |-> q, what |-> Had(held', q)]
      BY <1>h, <1>c, DoSaveType
    <3> QED
      BY <3>1, <1>B
  <2>3. todo' = DoSave(p, held', coins) \o DoSave(q, held', coins)
    BY <1>h, <1>s DEF Steal
  <2>4. /\ DoSave(p, held', coins) \o DoSave(q, held', coins) \in Seq(Writes)
        /\ TwoWriters(DoSave(p, held', coins) \o DoSave(q, held', coins), p, A, q, B)
    BY <2>1, <2>2, TwoWritersConcat
  <2>5. A \in SUBSET Items /\ B \in SUBSET Items
    BY <1>A, <1>B DEF Had
  <2> QED
    BY <2>3, <2>4, <2>5
<1>2. TypeOK'
  BY <1>a, <1>h, <1>1, <1>0 DEF Steal, disk, TypeOK
<1>n. p # q
  BY DEF Steal
<1>5. ASSUME NEW i \in Items \ hasty', i \in A
      PROVE  held'[i] \subseteq {p} /\ \A y \in Stores \ {p} : i \notin Disk(y)
  BY <1>5, <1>a, <1>h, <1>A, <1>r, <1>0, <1>n, <1>s DEF Steal, Had, TypeOK, Consistent, OneHolder
<1>5b. ASSUME NEW i \in Items \ hasty', i \in B
      PROVE  held'[i] \subseteq {q} /\ \A y \in Stores \ {p, q} : i \notin Disk(y)
  BY <1>5b, <1>a, <1>h, <1>B, <1>r, <1>0, <1>n, <1>s DEF Steal, Had, TypeOK, Consistent, OneHolder
<1>5c. ASSUME NEW i \in Items \ hasty'
      PROVE  /\ ~(i \in A /\ i \in B)
             /\ p \in held'[i] => i \in A
             /\ q \in held'[i] => i \in B
             /\ \A x \in Stores \ {p, q} : x \in held'[i] => x \in held[i]
             /\ "floor" \in held'[i] => "floor" \in held[i]
             /\ "mobile" \in held'[i] => "mobile" \in held[i]
  BY <1>a, <1>4, <1>h, <1>A, <1>B, <1>0, <1>n, <1>s DEF Steal, Had, TypeOK, Consistent, OneHolder
<1>6. Consistent'
  BY <1>l, <1>n, <1>0, <1>1, <1>2, <1>3, <1>4, <1>5, <1>5b, <1>5c, TwoWritersStep
<1> QED
  BY <1>2, <1>6 DEF GInv

LEMMA DropStoredStep ==
    ASSUME GInv, NEW p \in Players, NEW i0 \in Items, DropStored(p, i0)
    PROVE  GInv'
<1> USE HolderFacts
<1>a. TypeOK /\ Consistent
  BY DEF GInv
<1>c. coins \in [Players -> Record]
  BY <1>a DEF TypeOK
<1>0. todo = <<>> /\ vault' = vault /\ shelf' = shelf /\ hasty \subseteq hasty'
  BY DEF DropStored, Commands, disk, memory
<1>r. /\ \A i \in Items \ hasty : \A pl \in Players : pl \in held[i] => i \in vault[pl]
      /\ \A i \in Items \ hasty : \A x, y \in Stores :
             i \in Disk(x) /\ y \in held[i] => x = y
      /\ \A i \in Items \ hasty : \A x \in Stores : "floor" \in held[i] => i \notin Disk(x)
      /\ \A pl \in Players : Disk(pl) = vault[pl]
  BY <1>0, RestFacts
<1>s. PICK S : S = {i0}
  OBVIOUS
<1>m. /\ Moved(S, p, "store") \in [Items -> SUBSET Holders]
      /\ \A i \in Items : Moved(S, p, "store")[i] =
             IF i \in S THEN (held[i] \ {p}) \cup {"store"} ELSE held[i]
  <2>1. "store" \in Holders
    OBVIOUS
  <2> QED
    BY <2>1, <1>a DEF TypeOK, Moved
<1>h. /\ held' = Moved(S, p, "store") /\ held' \in [Items -> SUBSET Holders]
      /\ \A i \in Items : held'[i] = IF i \in S THEN (held[i] \ {p}) \cup {"store"} ELSE held[i]
  BY <1>m, <1>s DEF DropStored
<1>A. PICK A : A = Had(held', "store")
  OBVIOUS
<1>B. PICK B : B = Had(held', p)
  OBVIOUS
<1>3. OfflineHaveNothing'
  BY <1>a, <1>h, <1>s DEF DropStored, Commands, TypeOK, Consistent, OfflineHaveNothing
<1>4. OneHolder'
  BY <1>a, <1>h, <1>0, <1>s DEF DropStored, Had, TypeOK, Consistent, OneHolder
<1>l. linked \subseteq linked'
  BY DEF DropStored
<1>E. A # {}
  BY <1>A, <1>h, <1>s DEF Had
<1>1. /\ A \in SUBSET Items /\ B \in SUBSET Items /\ todo' \in Seq(Writes)
      /\ TwoWriters(todo, "store", A, p, B)'
  <2>r. /\ Had(held', "store") \in SUBSET Items
        /\ SaveRoom(held') \in Seq(Writes)
        /\ OneWriter(SaveRoom(held'), "store", Had(held', "store"))
        /\ Had(held', "store") # {} =>
               /\ 1 \in DOMAIN SaveRoom(held')
               /\ SaveRoom(held')[1] = [to |-> "room", who |-> "store",
                                        what |-> Had(held', "store")]
    BY <1>h, SaveRoomType
  <2>t. todo' = SaveRoom(held') \o DoSave(p, held', coins)
    BY <1>h, <1>s DEF DropStored
  <2>2. /\ DoSave(p, held', coins) \in Seq(Writes)
        /\ OneWriter(DoSave(p, held', coins), p, B)
        /\ 1 \in DOMAIN DoSave(p, held', coins)
        /\ DoSave(p, held', coins)[1].to # "char"
    <3>1. /\ DoSave(p, held', coins) \in Seq(Writes)
          /\ OneWriter(DoSave(p, held', coins), p, Had(held', p))
          /\ 1 \in DOMAIN DoSave(p, held', coins)
          /\ DoSave(p, held', coins)[1] = [to |-> "rent", who |-> p, what |-> Had(held', p)]
      BY <1>h, <1>c, DoSaveType
    <3> QED
      BY <3>1, <1>B
  <2>3. todo' \in Seq(Writes) /\ TwoWriters(todo', "store", A, p, B)
    <3>1. /\ SaveRoom(held') \in Seq(Writes) /\ OneWriter(SaveRoom(held'), "store", A)
          /\ 1 \in DOMAIN SaveRoom(held') /\ SaveRoom(held')[1].to # "char"
      BY <2>r, <1>A, <1>E
    <3>2. /\ SaveRoom(held') \o DoSave(p, held', coins) \in Seq(Writes)
          /\ TwoWriters(SaveRoom(held') \o DoSave(p, held', coins), "store", A, p, B)
      BY <3>1, <2>2, TwoWritersConcat
    <3> QED
      BY <3>2, <2>t
  <2>5. A \in SUBSET Items /\ B \in SUBSET Items
    BY <1>A, <1>B DEF Had
  <2> QED
    BY <2>3, <2>5
<1>2. TypeOK'
  BY <1>a, <1>h, <1>1, <1>0 DEF DropStored, disk, TypeOK
<1>5. ASSUME NEW i \in Items \ hasty', i \in A
      PROVE  held'[i] \subseteq {"store"} /\ \A y \in Stores \ {"store"} : i \notin Disk(y)
  BY <1>5, <1>a, <1>h, <1>A, <1>r, <1>0, <1>s DEF DropStored, Had, TypeOK, Consistent, OneHolder
<1>5b. ASSUME NEW i \in Items \ hasty', i \in B
      PROVE  held'[i] \subseteq {p} /\ \A y \in Stores \ {"store", p} : i \notin Disk(y)
  BY <1>5b, <1>a, <1>h, <1>B, <1>r, <1>0, <1>s DEF DropStored, Had, TypeOK, Consistent, OneHolder
<1>5c. ASSUME NEW i \in Items \ hasty'
      PROVE  /\ ~(i \in A /\ i \in B)
             /\ "store" \in held'[i] => i \in A
             /\ p \in held'[i] => i \in B
             /\ \A x \in Stores \ {"store", p} : x \in held'[i] => x \in held[i]
             /\ "floor" \in held'[i] => "floor" \in held[i]
             /\ "mobile" \in held'[i] => "mobile" \in held[i]
  BY <1>a, <1>4, <1>h, <1>A, <1>B, <1>0, <1>s DEF DropStored, Had, TypeOK, Consistent, OneHolder
<1>n. "store" # p /\ "store" \in Stores /\ p \in Stores
  OBVIOUS
<1>6. Consistent'
  BY <1>l, <1>n, <1>0, <1>1, <1>2, <1>3, <1>4, <1>5, <1>5b, <1>5c, TwoWritersStep
<1> QED
  BY <1>2, <1>6 DEF GInv

LEMMA GetStoredStep ==
    ASSUME GInv, NEW p \in Players, NEW i0 \in Items, GetStored(p, i0)
    PROVE  GInv'
<1> USE HolderFacts
<1>a. TypeOK /\ Consistent
  BY DEF GInv
<1>c. coins \in [Players -> Record]
  BY <1>a DEF TypeOK
<1>0. todo = <<>> /\ vault' = vault /\ shelf' = shelf /\ hasty \subseteq hasty'
  BY DEF GetStored, Commands, disk, memory
<1>r. /\ \A i \in Items \ hasty : \A pl \in Players : pl \in held[i] => i \in vault[pl]
      /\ \A i \in Items \ hasty : \A x, y \in Stores :
             i \in Disk(x) /\ y \in held[i] => x = y
      /\ \A i \in Items \ hasty : \A x \in Stores : "floor" \in held[i] => i \notin Disk(x)
      /\ \A pl \in Players : Disk(pl) = vault[pl]
  BY <1>0, RestFacts
<1>s. PICK S : S = {i0}
  OBVIOUS
<1>m. /\ Moved(S, "store", p) \in [Items -> SUBSET Holders]
      /\ \A i \in Items : Moved(S, "store", p)[i] =
             IF i \in S THEN (held[i] \ {"store"}) \cup {p} ELSE held[i]
  <2>1. p \in Holders
    OBVIOUS
  <2> QED
    BY <2>1, <1>a DEF TypeOK, Moved
<1>h. /\ held' = Moved(S, "store", p) /\ held' \in [Items -> SUBSET Holders]
      /\ \A i \in Items : held'[i] = IF i \in S THEN (held[i] \ {"store"}) \cup {p} ELSE held[i]
  BY <1>m, <1>s DEF GetStored
<1>A. PICK A : A = Had(held', "store")
  OBVIOUS
<1>B. PICK B : B = Had(held', p)
  OBVIOUS
<1>3. OfflineHaveNothing'
  BY <1>a, <1>h, <1>s DEF GetStored, Commands, TypeOK, Consistent, OfflineHaveNothing
<1>4. OneHolder'
  BY <1>a, <1>h, <1>0, <1>s DEF GetStored, Had, TypeOK, Consistent, OneHolder
<1>l. linked \subseteq linked'
  BY DEF GetStored
<1>f. A = {} => hasty' = hasty \cup {i0}
  <2>1. SUFFICES ASSUME A = {}
                 PROVE  Had(held, "store") = {i0}
    BY DEF GetStored
  <2>2. \A i \in Items : i # i0 => "store" \notin held[i]
    BY <2>1, <1>A, <1>h, <1>s DEF Had
  <2> QED
    BY <2>2 DEF GetStored, Had
<1>5. ASSUME NEW i \in Items \ hasty', i \in A
      PROVE  held'[i] \subseteq {"store"} /\ \A y \in Stores \ {"store"} : i \notin Disk(y)
  <2>1. held'[i] = held[i] /\ "store" \in held[i] /\ i \in Items \ hasty
    BY <1>5, <1>A, <1>h, <1>0 DEF Had
  <2> QED
    BY <2>1, <1>a, <1>r DEF TypeOK, Consistent, OneHolder
<1>5b. ASSUME NEW i \in Items \ hasty', i \in B
      PROVE  /\ held'[i] \subseteq {p}
             /\ \A y \in Stores \ {"store", p} : i \notin Disk(y)
             /\ A = {} => i \in vault[p] \/ "floor" \in held[i]
  <2>1. i \in Items \ hasty /\ p \in held'[i]
    BY <1>5b, <1>B, <1>0 DEF Had
  <2>2. held'[i] \subseteq {p}
    BY <2>1, <1>4, <1>h, <1>a DEF OneHolder, TypeOK
  <2>3. CASE i \in S
    <3>1. "store" \in held[i] /\ (A = {} => FALSE)
      BY <2>3, <2>1, <1>s, <1>f DEF GetStored
    <3> QED
      BY <2>1, <2>2, <3>1, <1>r
  <2>4. CASE i \notin S
    <3>1. p \in held[i]
      BY <2>4, <2>1, <1>h
    <3> QED
      BY <2>1, <2>2, <3>1, <1>r
  <2> QED
    BY <2>3, <2>4
<1>5c. ASSUME NEW i \in Items \ hasty'
      PROVE  /\ ~(i \in A /\ i \in B)
             /\ "store" \in held'[i] => i \in A
             /\ p \in held'[i] => i \in B
             /\ \A x \in Stores \ {"store", p} : x \in held'[i] => x \in held[i]
             /\ \A x \in Stores \ {p} : x \in held'[i] => x \in held[i]
             /\ "floor" \in held'[i] => "floor" \in held[i]
             /\ "mobile" \in held'[i] => "mobile" \in held[i]
  <2>1. /\ "store" \in held'[i] <=> i \in A
        /\ p \in held'[i] <=> i \in B
    BY <1>A, <1>B DEF Had
  <2>2. held'[i] \subseteq held[i] \cup {p}
    BY <1>h
  <2>3. ~("store" \in held'[i] /\ p \in held'[i])
    BY <1>4 DEF OneHolder
  <2> QED
    BY <2>1, <2>2, <2>3
<1>n. "store" # p /\ "store" \in Stores /\ p \in Stores
  OBVIOUS
<1>E1. CASE A # {}
<2>1. /\ A \in SUBSET Items /\ B \in SUBSET Items /\ todo' \in Seq(Writes)
      /\ TwoWriters(todo, "store", A, p, B)'
  <3>r. /\ Had(held', "store") \in SUBSET Items
        /\ SaveRoom(held') \in Seq(Writes)
        /\ OneWriter(SaveRoom(held'), "store", Had(held', "store"))
        /\ Had(held', "store") # {} =>
               /\ 1 \in DOMAIN SaveRoom(held')
               /\ SaveRoom(held')[1] = [to |-> "room", who |-> "store",
                                        what |-> Had(held', "store")]
    BY <1>h, SaveRoomType
  <3>t. todo' = SaveRoom(held') \o DoSave(p, held', coins)
    BY <1>h, <1>s DEF GetStored
  <3>2. /\ DoSave(p, held', coins) \in Seq(Writes)
        /\ OneWriter(DoSave(p, held', coins), p, B)
        /\ 1 \in DOMAIN DoSave(p, held', coins)
        /\ DoSave(p, held', coins)[1].to # "char"
    <4>1. /\ DoSave(p, held', coins) \in Seq(Writes)
          /\ OneWriter(DoSave(p, held', coins), p, Had(held', p))
          /\ 1 \in DOMAIN DoSave(p, held', coins)
          /\ DoSave(p, held', coins)[1] = [to |-> "rent", who |-> p, what |-> Had(held', p)]
      BY <1>h, <1>c, DoSaveType
    <4> QED
      BY <4>1, <1>B
  <3>3. todo' \in Seq(Writes) /\ TwoWriters(todo', "store", A, p, B)
    <4>1. /\ SaveRoom(held') \in Seq(Writes) /\ OneWriter(SaveRoom(held'), "store", A)
          /\ 1 \in DOMAIN SaveRoom(held') /\ SaveRoom(held')[1].to # "char"
      BY <3>r, <1>A, <1>E1
    <4>2. /\ SaveRoom(held') \o DoSave(p, held', coins) \in Seq(Writes)
          /\ TwoWriters(SaveRoom(held') \o DoSave(p, held', coins), "store", A, p, B)
      BY <4>1, <3>2, TwoWritersConcat
    <4> QED
      BY <4>2, <3>t
  <3>5. A \in SUBSET Items /\ B \in SUBSET Items
    BY <1>A, <1>B DEF Had
  <3> QED
    BY <3>3, <3>5
  <2>2. TypeOK'
    BY <1>a, <1>h, <2>1, <1>0 DEF GetStored, disk, TypeOK
  <2>6. Consistent'
    BY <1>l, <1>n, <1>0, <2>1, <2>2, <1>3, <1>4, <1>5, <1>5b, <1>5c, TwoWritersStep
  <2> QED
    BY <2>2, <2>6 DEF GInv
<1>E2. CASE A = {}
  <2>1. /\ B \in SUBSET Items /\ todo' \in Seq(Writes)
        /\ OneWriter(todo, p, B)'
        /\ \E k \in DOMAIN todo' : todo'[k].to # "char"
    <3>1. /\ DoSave(p, held', coins) \in Seq(Writes)
          /\ OneWriter(DoSave(p, held', coins), p, Had(held', p))
          /\ 1 \in DOMAIN DoSave(p, held', coins)
          /\ DoSave(p, held', coins)[1] = [to |-> "rent", who |-> p, what |-> Had(held', p)]
      BY <1>h, <1>c, DoSaveType
    <3>2. SaveRoom(held') = <<>>
      BY <1>E2, <1>A DEF SaveRoom
    <3>3. todo' = <<>> \o DoSave(p, held', coins)
      BY <1>h, <1>s, <3>2 DEF GetStored
    <3>4. todo' = DoSave(p, held', coins)
      BY <3>1, <3>3
    <3> QED
      BY <3>1, <3>4, <1>B DEF Had
  <2>2. TypeOK'
    BY <1>a, <1>h, <2>1, <1>0 DEF GetStored, disk, TypeOK
  <2>3. linked \ {p} \subseteq linked'
    BY <1>l
  <2>6. Consistent'
    BY <2>3, <1>n, <1>0, <2>1, <2>2, <1>3, <1>4, <1>5b, <1>5c, <1>E2, OneWriterStep
  <2> QED
    BY <2>2, <2>6 DEF GInv
<1> QED
  BY <1>E1, <1>E2

LEMMA WriteFileStep == ASSUME GInv, WriteFile PROVE GInv'
<1> USE HolderFacts
<1>a. TypeOK /\ Consistent
  BY DEF GInv
<1> DEFINE w == todo[1]
<1>w. /\ todo # <<>> /\ todo \in Seq(Writes) /\ 1 \in DOMAIN todo /\ w \in Writes
      /\ w = Head(todo)
  BY <1>a DEF WriteFile, TypeOK
<1>t. /\ w.to \in {"rent", "char", "room"}
      /\ w.to = "rent" => w.who \in Players /\ w.what \in SUBSET Items
      /\ w.to = "char" => w.who \in Players /\ w.what \in Record
      /\ w.to = "room" => w.who = "store" /\ w.what \in SUBSET Items
  BY <1>w DEF Writes
<1>q. /\ todo' \in Seq(Writes) /\ Len(todo') = Len(todo) - 1
      /\ \A k \in DOMAIN todo' : k + 1 \in DOMAIN todo /\ todo'[k] = todo[k + 1]
      /\ \A k \in DOMAIN todo : k # 1 => k - 1 \in DOMAIN todo' /\ todo'[k - 1] = todo[k]
  BY <1>w DEF WriteFile
<1>u. /\ held' = held /\ coins' = coins /\ loose' = loose /\ online' = online
      /\ linked' = linked /\ guild' = guild /\ hasty' = hasty /\ made' = made
  BY DEF WriteFile, memory
<1>d. /\ w.to = "rent" => vault' = [vault EXCEPT ![w.who] = w.what] /\ file' = file /\ shelf' = shelf
      /\ w.to = "char" => file' = [file EXCEPT ![w.who] = w.what] /\ vault' = vault /\ shelf' = shelf
      /\ w.to = "room" => shelf' = w.what /\ vault' = vault /\ file' = file
  <2>1. /\ Head(todo).to = "rent" => vault' = [vault EXCEPT ![Head(todo).who] = Head(todo).what] /\ file' = file /\ shelf' = shelf
        /\ Head(todo).to = "char" => file' = [file EXCEPT ![Head(todo).who] = Head(todo).what] /\ vault' = vault /\ shelf' = shelf
        /\ Head(todo).to = "room" => shelf' = Head(todo).what /\ vault' = vault /\ file' = file
    BY DEF WriteFile
  <2> QED
    BY <2>1, <1>w
<1>1. TypeOK'
  BY <1>a, <1>t, <1>q, <1>u, <1>d DEF TypeOK
<1>p. \A x : Pending(1, x) <=> w.to # "char" /\ w.who = x
  BY <1>w DEF Pending
<1> HIDE DEF w
<1>s. /\ \A k \in DOMAIN todo' : \A x : Pending(k, x)' <=> Pending(k + 1, x)
      /\ \A k \in DOMAIN todo : \A x : k # 1 => (Pending(k - 1, x)' <=> Pending(k, x))
  BY <1>q DEF Pending
<1>2. \A x \in Stores : IF Pending(1, x) THEN Disk(x)' = w.what ELSE Disk(x)' = Disk(x)
  <2> SUFFICES ASSUME NEW x \in Stores
               PROVE  IF Pending(1, x) THEN Disk(x)' = w.what ELSE Disk(x)' = Disk(x)
    OBVIOUS
  <2>1. CASE x = "store"
    BY <2>1, <1>t, <1>d, <1>p DEF Disk
  <2>2. CASE x # "store"
    <3>1. x \in Players
      BY <2>2
    <3> QED
      BY <2>2, <3>1, <1>a, <1>t, <1>d, <1>p DEF Disk, TypeOK
  <2> QED
    BY <2>1, <2>2
<1>v. w = todo[1]
  BY DEF w
<1>3. \A i : \A x \in Stores : Settled(i, x)' <=> Settled(i, x)
  <2> SUFFICES ASSUME NEW i, NEW x \in Stores
               PROVE  Settled(i, x)' <=> Settled(i, x)
    OBVIOUS
  <2>e. (\E k \in DOMAIN todo' : Pending(k, x)') <=> \E k \in DOMAIN todo : k # 1 /\ Pending(k, x)
    <3>1. ASSUME NEW k \in DOMAIN todo', Pending(k, x)'
          PROVE  k + 1 \in DOMAIN todo /\ k + 1 # 1 /\ Pending(k + 1, x)
      BY <3>1, <1>q, <1>s
    <3>2. ASSUME NEW k \in DOMAIN todo, k # 1, Pending(k, x)
          PROVE  k - 1 \in DOMAIN todo' /\ Pending(k - 1, x)'
      BY <3>2, <1>q, <1>s
    <3> QED
      BY <3>1, <3>2
  <2>1. CASE \E k \in DOMAIN todo : k # 1 /\ Pending(k, x)
    <3>1. PICK k0 \in DOMAIN todo : k0 # 1 /\ Pending(k0, x)
      BY <2>1
    <3>2. Settled(i, x) <=> i \in todo[k0].what
      BY <3>1, <1>a DEF Settled, Consistent, SameWrites
    <3>3. k0 - 1 \in DOMAIN todo' /\ Pending(k0 - 1, x)' /\ todo'[k0 - 1] = todo[k0]
      BY <3>1, <1>q, <1>s
    <3>4. ASSUME NEW k \in DOMAIN todo', Pending(k, x)'
          PROVE  todo'[k].what = todo[k0].what
      <4>1. k + 1 \in DOMAIN todo /\ Pending(k + 1, x) /\ todo'[k] = todo[k + 1]
        BY <3>4, <1>q, <1>s
      <4> QED
        BY <4>1, <3>1, <1>a DEF Consistent, SameWrites
    <3>5. Settled(i, x)' <=> i \in todo[k0].what
      BY <3>3, <3>4 DEF Settled
    <3> QED
      BY <3>2, <3>5
  <2>2. CASE ~\E k \in DOMAIN todo : k # 1 /\ Pending(k, x)
    <3>1. Settled(i, x)' <=> i \in Disk(x)'
      BY <2>2, <2>e DEF Settled
    <3>2. CASE Pending(1, x)
      <4>1. Disk(x)' = w.what
        BY <3>2, <1>2
      <4>2. Settled(i, x) <=> i \in w.what
        BY <2>2, <3>2, <1>v, <1>w DEF Settled
      <4> QED
        BY <3>1, <4>1, <4>2
    <3>3. CASE ~Pending(1, x)
      <4>1. Disk(x)' = Disk(x)
        BY <3>3, <1>2
      <4>2. Settled(i, x) <=> i \in Disk(x)
        BY <2>2, <3>3 DEF Settled
      <4> QED
        BY <3>1, <4>1, <4>2
    <3> QED
      BY <3>2, <3>3
  <2> QED
    BY <2>1, <2>2
<1>4. SameWrites'
  <2> SUFFICES ASSUME NEW x \in Stores, NEW j \in DOMAIN todo', NEW k \in DOMAIN todo',
                      Pending(j, x)', Pending(k, x)'
               PROVE  todo'[j].what = todo'[k].what
    BY DEF SameWrites
  <2>1. Pending(j + 1, x) /\ Pending(k + 1, x) /\ todo'[j] = todo[j + 1] /\ todo'[k] = todo[k + 1]
        /\ j + 1 \in DOMAIN todo /\ k + 1 \in DOMAIN todo
    BY <1>q, <1>s
  <2> QED
    BY <2>1, <1>a DEF Consistent, SameWrites
<1>5. OfflineHaveNothing' /\ OneHolder'
  BY <1>a, <1>u DEF Consistent, OfflineHaveNothing, OneHolder
<1>6. OneSettled' /\ SettledIsHeld' /\ FloorIsUnsaved' /\ SoldByLinked'
  BY <1>a, <1>u, <1>3 DEF Consistent, OneSettled, SettledIsHeld, FloorIsUnsaved, SoldByLinked
<1>7. HeldIsSettled'
  <2>1. \A q \in online : q \in Stores
    BY <1>a DEF TypeOK, Stores
  <2> QED
    BY <1>a, <1>u, <1>3, <2>1 DEF Consistent, HeldIsSettled
<1>8. ASSUME NEW i \in Items \ hasty, NEW x \in Stores, NEW y \in Stores,
             Pending(1, x), i \in w.what, i \in Disk(y), x # y
      PROVE  FALSE
  <2>1. PICK j \in DOMAIN todo : j < 1 /\ Pending(j, y)
    BY <1>8, <1>a, <1>v, <1>w DEF Consistent, LosersFirst
  <2> QED
    BY <2>1, <1>w
<1>9. OneFile'
  <2> SUFFICES ASSUME NEW i \in Items \ hasty, NEW x \in Stores, NEW y \in Stores,
                      i \in Disk(x)', i \in Disk(y)', x # y
               PROVE  FALSE
    BY <1>u DEF OneFile
  <2>1. ~(Pending(1, x) /\ Pending(1, y))
    BY <1>p
  <2>2. CASE Pending(1, x)
    BY <2>1, <2>2, <1>2, <1>8
  <2>3. CASE Pending(1, y)
    BY <2>1, <2>3, <1>2, <1>8
  <2>4. CASE ~Pending(1, x) /\ ~Pending(1, y)
    BY <2>4, <1>2, <1>a DEF Consistent, OneFile
  <2> QED
    BY <2>2, <2>3, <2>4
<1>10. LosersFirst'
  <2> SUFFICES ASSUME NEW i \in Items \ hasty, NEW x \in Stores, NEW y \in Stores,
                      NEW k \in DOMAIN todo', Pending(k, x)', i \in todo'[k].what,
                      i \in Disk(y)', x # y
               PROVE  \E j \in DOMAIN todo' : j < k /\ Pending(j, y)'
    BY <1>u DEF LosersFirst
  <2>1. k + 1 \in DOMAIN todo /\ Pending(k + 1, x) /\ i \in todo[k + 1].what /\ k \in Nat
    BY <1>q, <1>s
  <2>2. CASE Pending(1, y)
    <3>1. i \in w.what
      BY <2>2, <1>2
    <3>2. Settled(i, y) /\ Settled(i, x)
      BY <2>1, <2>2, <3>1, <1>v, <1>w DEF Settled
    <3> QED
      BY <3>2, <1>a DEF Consistent, OneSettled
  <2>3. CASE ~Pending(1, y)
    <3>1. i \in Disk(y)
      BY <2>3, <1>2
    <3>2. PICK j \in DOMAIN todo : j < k + 1 /\ Pending(j, y)
      BY <2>1, <3>1, <1>a DEF Consistent, LosersFirst
    <3>3. j # 1 /\ j \in Nat
      BY <2>3, <3>2, <1>w
    <3>4. j - 1 \in DOMAIN todo' /\ Pending(j - 1, y)' /\ j - 1 < k
      BY <2>1, <3>2, <3>3, <1>q, <1>s
    <3> QED
      BY <3>4
  <2> QED
    BY <2>2, <2>3
<1> QED
  BY <1>1, <1>4, <1>5, <1>6, <1>7, <1>9, <1>10 DEF GInv, Consistent

LEMMA CrashStep == ASSUME GInv, Crash PROVE GInv'
<1> USE HolderFacts
<1>a. TypeOK /\ Consistent
  BY DEF GInv
<1>h. /\ held' \in [Items -> SUBSET Holders]
      /\ \A i \in Items : held'[i] = IF i \in shelf THEN {"store"} ELSE {}
  BY DEF Crash
<1>0. /\ todo' = <<>> /\ online' = {} /\ linked' = {} /\ loose' = 0
      /\ vault' = vault /\ shelf' = shelf /\ file' = file /\ guild' = guild
      /\ hasty' = hasty /\ made' = made
  BY DEF Crash, disk
<1>c. coins' \in [Players -> Record]
  BY DEF Crash, Record
<1>1. TypeOK'
  BY <1>a, <1>h, <1>0, <1>c DEF TypeOK
<1>2. \A k, x : ~Pending(k, x)'
  BY <1>0 DEF Pending
<1>3. \A i : \A x \in Stores : Settled(i, x)' <=> i \in Disk(x)
  BY <1>0, <1>2 DEF Settled, Disk
<1>4. \A x \in Stores : Disk(x)' = Disk(x)
  BY <1>0 DEF Disk
<1>5. \A i \in Items : \A y : y \in held'[i] => y = "store" /\ i \in Disk("store")
  BY <1>h DEF Disk
<1>6. SameWrites' /\ LosersFirst'
  BY <1>2 DEF SameWrites, LosersFirst
<1>7. OfflineHaveNothing' /\ OneHolder'
  BY <1>5 DEF OfflineHaveNothing, OneHolder
<1>8. OneFile' /\ OneSettled'
  BY <1>a, <1>0, <1>3, <1>4 DEF Consistent, OneFile, OneSettled
<1>9. SettledIsHeld' /\ FloorIsUnsaved' /\ SoldByLinked'
  BY <1>a, <1>0, <1>3, <1>5 DEF Consistent, OneFile, SettledIsHeld, FloorIsUnsaved, SoldByLinked
<1>10. HeldIsSettled'
  BY <1>0 DEF HeldIsSettled
<1> QED
  BY <1>1, <1>6, <1>7, <1>8, <1>9, <1>10 DEF GInv, Consistent

LEMMA GInit == ASSUME Init PROVE GInv
<1> USE HolderFacts
<1>1. TypeOK
  <2>1. \A p \in Players : [gold |-> 0, bank |-> 0] \in Record /\ [gold |-> Purse, bank |-> 0] \in Record
    BY GoodsAssumption DEF Record
  <2> QED
    BY <2>1 DEF Init, TypeOK
<1>2. \A k, x : ~Pending(k, x)
  BY DEF Init, Pending
<1>3. \A i : \A x \in Stores : Settled(i, x) <=> i \in Disk(x)
  BY <1>2 DEF Settled
<1>4. \A i \in Items : \A x \in Stores : i \in Disk(x) => x = "store" /\ i \in shelf
  BY DEF Init, Disk
<1>5. \A i \in Items : held[i] = IF i \in shelf THEN {"store"} ELSE {"floor"}
  BY DEF Init
<1>6. SameWrites /\ LosersFirst
  BY <1>2 DEF SameWrites, LosersFirst
<1>7. OfflineHaveNothing /\ OneHolder
  BY <1>5 DEF OfflineHaveNothing, OneHolder
<1>8. OneFile /\ OneSettled
  BY <1>3, <1>4 DEF OneFile, OneSettled
<1>9. SettledIsHeld /\ FloorIsUnsaved
  BY <1>3, <1>4, <1>5 DEF SettledIsHeld, FloorIsUnsaved
<1>11. SoldByLinked
  BY <1>5 DEF SoldByLinked
<1>10. HeldIsSettled
  BY DEF Init, HeldIsSettled
<1> QED
  BY <1>1, <1>6, <1>7, <1>8, <1>9, <1>10, <1>11 DEF GInv, Consistent

LEMMA GStep == ASSUME GInv, [Next]_vars PROVE GInv'
<1>1. CASE UNCHANGED vars
  <2>1. TypeOK'
    BY <1>1 DEF GInv, TypeOK, vars
  <2>2. \A k, x : Pending(k, x)' <=> Pending(k, x)
    BY <1>1 DEF Pending, vars
  <2>3. \A x : Disk(x)' = Disk(x)
    BY <1>1 DEF Disk, vars
  <2>4. \A i, x : Settled(i, x)' <=> Settled(i, x)
    BY <1>1, <2>2, <2>3 DEF Settled, vars
  <2>5. SameWrites' /\ OfflineHaveNothing' /\ OneHolder' /\ OneFile'
    BY <1>1, <2>2, <2>3 DEF GInv, Consistent, SameWrites, OfflineHaveNothing, OneHolder, OneFile, vars
  <2>6. OneSettled' /\ SettledIsHeld' /\ FloorIsUnsaved' /\ SoldByLinked' /\ HeldIsSettled'
    BY <1>1, <2>4 DEF GInv, Consistent, OneSettled, SettledIsHeld, FloorIsUnsaved, SoldByLinked,
                      HeldIsSettled, vars
  <2>7. LosersFirst'
    BY <1>1, <2>2, <2>3 DEF GInv, Consistent, LosersFirst, vars
  <2> QED
    BY <2>1, <2>5, <2>6, <2>7 DEF GInv, Consistent
<1>2. ASSUME NEW p \in Players, NEW S \in SUBSET Items,
             Get(p, S) \/ Drop(p, S) \/ GiveMobile(p, S) \/ GetSome(p, S) \/ PutSome(p, S)
      PROVE  GInv'
  BY <1>2, GetStep, DropStep, GiveMobileStep, GetSomeStep, PutSomeStep
<1>3. ASSUME NEW p \in Players, NEW i \in Items,
             GetStored(p, i) \/ DropStored(p, i) \/ Disarm(p, i) \/ UseUp(p, i)
      PROVE  GInv'
  BY <1>3, GetStoredStep, DropStoredStep, DisarmStep, UseUpStep
<1>4. \A c \in Prices : c \in Nat
  BY GoodsAssumption DEF Prices
<1>5. ASSUME NEW p \in Players, NEW i \in Items, NEW c \in Prices, Sell(p, i, c) \/ Buy(p, i, c)
      PROVE  GInv'
  BY <1>4, <1>5, SellStep, BuyStep
<1>6. \A n \in 1..MaxMade : n \in Nat
  BY GoodsAssumption
<1>7. ASSUME NEW p \in Players, NEW n \in 1..MaxMade,
             DropCoins(p, n) \/ GuildDeposit(p, n) \/ GuildWithdraw(p, n)
             \/ Deposit(p, n) \/ Withdraw(p, n)
      PROVE  GInv'
  BY <1>6, <1>7, DropCoinsStep, GuildDepositStep, GuildWithdrawStep, DepositStep, WithdrawStep
<1>8. ASSUME NEW p \in Players, NEW q \in Players \cup {"mobile"}, NEW S \in SUBSET Items,
             GiveAll(p, q, S)
      PROVE  GInv'
  <2>1. q \in Holders
    BY DEF Holders
  <2> QED
    BY <1>8, <2>1, GiveAllStep
<1>9. ASSUME NEW p \in Players, NEW q \in Players, NEW S \in SUBSET Items, Give(p, q, S)
      PROVE  GInv'
  BY <1>9, GiveStep
<1>10. ASSUME NEW p \in Players, NEW q \in Players, NEW i \in Items, Steal(p, q, i)
       PROVE  GInv'
  BY <1>10, StealStep
<1>11. ASSUME NEW p \in Players, NEW q \in Players, NEW n \in 1..MaxMade,
              GiveCoins(p, q, n) \/ StealCoins(p, q, n)
       PROVE  GInv'
  BY <1>6, <1>11, GiveCoinsStep, StealCoinsStep
<1>12. ASSUME NEW p \in Players, NEW c \in Prices, Enter(p, c)
       PROVE  GInv'
  BY <1>4, <1>12, EnterStep
<1>13. ASSUME NEW p \in Players,
              GetCoins(p) \/ Save(p) \/ LoseLink(p) \/ Reconnect(p) \/ Rent(p)
              \/ ForceRent(p) \/ EvictedWithoutRent(p) \/ Quit(p) \/ Die(p)
       PROVE  GInv'
  BY <1>13, GetCoinsStep, SaveStep, LoseLinkStep, ReconnectStep, RentStep, ForceRentStep,
     EvictedWithoutRentStep, QuitStep, DieStep
<1> QED
  BY <1>1, <1>2, <1>3, <1>5, <1>7, <1>8, <1>9, <1>10, <1>11, <1>12, <1>13,
     WriteFileStep, CrashStep DEF Next

-----------------------------------------------------------------------------
(* The theorems.                                                           *)

\* The files agree with the memory whatever commands run and wherever the game
\* stops.
THEOREM GoodsInvariant == Spec => []GInv
<1>1. Init => GInv
  BY GInit
<1>2. GInv /\ [Next]_vars => GInv'
  BY GStep
<1> QED
  BY <1>1, <1>2, PTL DEF Spec

\* TypeOK for every number of players, objects and coins.
THEOREM GoodsTyped == Spec => []TypeOK
<1>1. GInv => TypeOK
  BY DEF GInv
<1> QED
  BY <1>1, GoodsInvariant, PTL

\* No object has two owners, wherever the game stops, unless a hasty command
\* moved it.
THEOREM NoDuplicates == Spec => []OneOwner
<1>1. ASSUME GInv PROVE OneOwner
  <2> SUFFICES ASSUME todo = <<>>, NEW i \in Items \ hasty
               PROVE  Cardinality(Owners(i)) <= 1
    BY DEF OneOwner, AtRest
  <2> USE HolderFacts
  <2>1. /\ \A x, y \in Stores : i \in Disk(x) /\ y \in held[i] => x = y
        /\ \A x \in Stores : "floor" \in held[i] => i \notin Disk(x)
        /\ \A q \in Players : Disk(q) = vault[q]
    BY <1>1, RestFacts
  <2>2. \A x \in Stores : Settled(i, x) <=> i \in Disk(x)
    BY DEF Settled, Pending
  <2>3. ASSUME NEW x \in Owners(i), NEW y \in Owners(i)
        PROVE  x = y
    <3>1. CASE x \in held[i] /\ y \in held[i]
      BY <3>1, <1>1 DEF GInv, TypeOK, Consistent, OneHolder
    <3>2. ASSUME NEW p \in Players \ online, i \in vault[p], NEW z \in held[i]
          PROVE  z = p
      <4>1. z \in Holders
        BY <1>1 DEF GInv, TypeOK
      <4>2. z # "floor" /\ i \in Disk(p)
        BY <2>1, <3>2
      <4>3. z # "mobile"
        BY <1>1, <2>2, <3>2, <4>2 DEF GInv, TypeOK, Consistent, SoldByLinked
      <4>4. z \in Stores
        BY <4>1, <4>2, <4>3 DEF Holders, Stores
      <4> QED
        BY <2>1, <4>2, <4>4
    <3>3. CASE x \notin held[i] /\ y \in held[i]
      BY <3>2, <3>3 DEF Owners
    <3>4. CASE x \in held[i] /\ y \notin held[i]
      BY <3>2, <3>4 DEF Owners
    <3>5. CASE x \notin held[i] /\ y \notin held[i]
      <4>1. x \in Players /\ y \in Players /\ i \in Disk(x) /\ i \in Disk(y)
        BY <2>1, <3>5 DEF Owners
      <4> QED
        BY <4>1, <1>1 DEF GInv, Consistent, OneFile
    <3> QED
      BY <3>1, <3>3, <3>4, <3>5
  <2>4. Owners(i) = {} \/ \E x : Owners(i) = {x}
    BY <2>3
  <2>5. CASE Owners(i) = {}
    <3>1. Cardinality(Owners(i)) = 0
      BY <2>5, FS_EmptySet
    <3> QED
      BY <3>1
  <2>6. CASE \E x : Owners(i) = {x}
    <3>1. PICK x : Owners(i) = {x}
      BY <2>6
    <3>2. Cardinality({x}) = 1
      BY FS_Singleton
    <3>3. Cardinality(Owners(i)) = 1
      BY <3>1, <3>2
    <3> QED
      BY <3>3
  <2> QED
    BY <2>4, <2>5, <2>6
<1> QED
  BY <1>1, GoodsInvariant, PTL

\* What players have is in their files, unless a hasty command moved it.
THEOREM NothingLost == Spec => []KeptIsSaved
<1>1. ASSUME GInv PROVE KeptIsSaved
  <2> SUFFICES ASSUME todo = <<>>, NEW i \in Items \ hasty, NEW p \in online, p \in held[i]
               PROVE  i \in vault[p]
    BY DEF KeptIsSaved, AtRest
  <2>1. \A q \in Players : q \in held[i] => i \in vault[q]
    BY <1>1, RestFacts
  <2> QED
    BY <1>1, <2>1 DEF GInv, TypeOK
<1> QED
  BY <1>1, GoodsInvariant, PTL

-----------------------------------------------------------------------------
(* Sums.  MapThenSumSet of the community modules (Worth) is a recursive    *)
(* function that takes any element of the set first.  That there is such a *)
(* function, that it does not matter which element comes first, and what   *)
(* follows from that, are proved by induction on the subsets of a finite   *)
(* set.                                                                    *)

Some(s) == CHOOSE x \in s : TRUE

Adds(g, S, f) ==
    g = [s \in SUBSET S |-> IF s = {} THEN 0 ELSE f[Some(s)] + g[s \ {Some(s)}]]

\* The sum of a function over a set.
Total(f, S) == (CHOOSE g : Adds(g, S, f))[S]

\* Induction over the subsets of a finite set.
LEMMA SubsetInduction ==
    ASSUME NEW S, IsFiniteSet(S), NEW Q,
           \A T \in SUBSET S : (\A U \in SUBSET T : U # T => U \in Q) => T \in Q
    PROVE  \A T \in SUBSET S : T \in Q
<1> DEFINE B == (SUBSET S) \ Q
<1>1. SUFFICES ASSUME B # {} PROVE FALSE
  OBVIOUS
<1>2. IsWellFoundedOn(StrictSubsetOrdering(S), FiniteSubsetsOf(S))
  BY FS_StrictSubsetOrderingWellFounded
<1>3. FiniteSubsetsOf(S) = SUBSET S
  BY FS_FiniteSubsetsOfFinite
<1>4. PICK T \in B : \A U \in B : ~ (<<U, T>> \in StrictSubsetOrdering(S))
  <2>1. B \subseteq FiniteSubsetsOf(S)
    BY <1>3
  <2> HIDE DEF B
  <2>2. \E T \in B : \A U \in B : ~ (<<U, T>> \in StrictSubsetOrdering(S))
    BY <1>1, <1>2, <2>1, WFMin
  <2> QED
    BY <2>2
<1>5. \A U \in SUBSET T : U # T => U \in Q
  BY <1>4 DEF StrictSubsetOrdering
<1> QED
  BY <1>4, <1>5

\* A sum over the subsets of T exists, and there is only one.
SumOn(g, T, f) ==
    /\ DOMAIN g = SUBSET T
    /\ \A s \in SUBSET T : g[s] = IF s = {} THEN 0 ELSE f[Some(s)] + g[s \ {Some(s)}]

\* An element of a set that has one.
LEMMA AnyIn ==
    ASSUME NEW s, s # {}
    PROVE  Some(s) \in s
  BY DEF Some

\* Two sums agree where both are defined.
LEMMA SumsAgree ==
    ASSUME NEW f, NEW A, IsFiniteSet(A), NEW T, NEW U, A \subseteq T, A \subseteq U,
           NEW g, SumOn(g, T, f), NEW h, SumOn(h, U, f)
    PROVE  g[A] = h[A]
<1> DEFINE Q == {s \in SUBSET A : g[s] = h[s]}
<1>1. ASSUME NEW s \in SUBSET A, \A u \in SUBSET s : u # s => u \in Q
      PROVE  s \in Q
  <2>1. CASE s = {}
    BY <1>1, <2>1 DEF SumOn
  <2>2. CASE s # {}
    <3>1. s \ {Some(s)} \in SUBSET s /\ s \ {Some(s)} # s
      BY <2>2, AnyIn
    <3>2. g[s \ {Some(s)}] = h[s \ {Some(s)}]
      BY <1>1, <3>1
    <3>3. s \in SUBSET T /\ s \in SUBSET U
      BY <1>1
    <3>4. g[s] = f[Some(s)] + g[s \ {Some(s)}] /\ h[s] = f[Some(s)] + h[s \ {Some(s)}]
      BY <2>2, <3>3 DEF SumOn
    <3> QED
      BY <1>1, <3>2, <3>4
  <2> QED
    BY <2>1, <2>2
<1> HIDE DEF Q
<1>2. \A s \in SUBSET A : s \in Q
  BY <1>1, SubsetInduction
<1> QED
  BY <1>2 DEF Q

\* There is a sum over any finite set.
LEMMA SumExists ==
    ASSUME NEW f, NEW S, IsFiniteSet(S)
    PROVE  \E g : SumOn(g, S, f)
<1> DEFINE Q == {s \in SUBSET S : \E g : SumOn(g, s, f)}
           V(s) == (CHOOSE g : SumOn(g, s, f))[s]
<1>1. ASSUME NEW T \in SUBSET S, \A u \in SUBSET T : u # T => u \in Q
      PROVE  T \in Q
  <2> DEFINE Up(s) == IF s = {} THEN 0 ELSE f[Some(s)] + V(s \ {Some(s)})
             g == [s \in SUBSET T |-> Up(s)]
  <2>0. \A u \in SUBSET T : u # T => SumOn(CHOOSE h : SumOn(h, u, f), u, f)
    BY <1>1
  <2>1. ASSUME NEW u \in SUBSET T, u # T
        PROVE  V(u) = Up(u)
    <3> DEFINE h == CHOOSE k : SumOn(k, u, f)
    <3>1. SumOn(h, u, f)
      BY <2>0, <2>1
    <3>2. CASE u = {}
      BY <3>1, <3>2 DEF SumOn
    <3>3. CASE u # {}
      <4> DEFINE d == u \ {Some(u)}
      <4>1. d \in SUBSET T /\ d # T /\ d \subseteq u /\ IsFiniteSet(d)
        <5>1. d \subseteq S /\ d \in SUBSET T /\ d # T
          BY <2>1, <3>3, AnyIn
        <5> QED
          BY <5>1, FS_Subset
      <4>2. SumOn(CHOOSE k : SumOn(k, d, f), d, f)
        BY <2>0, <4>1
      <4>3. h[d] = V(d)
        <5> HIDE DEF d, h
        <5> QED
          BY <3>1, <4>1, <4>2, SumsAgree
      <4>4. h[u] = f[Some(u)] + h[d]
        BY <3>1, <3>3 DEF SumOn
      <4> QED
        BY <3>3, <4>3, <4>4
    <3> QED
      BY <3>2, <3>3
  <2>2. ASSUME NEW s \in SUBSET T, s # {}
        PROVE  g[s \ {Some(s)}] = V(s \ {Some(s)})
    <3>1. s \ {Some(s)} \in SUBSET T /\ s \ {Some(s)} # T
      BY <2>2, AnyIn
    <3> QED
      BY <2>1, <3>1
  <2>3. ASSUME NEW s \in SUBSET T
        PROVE  g[s] = IF s = {} THEN 0 ELSE f[Some(s)] + g[s \ {Some(s)}]
    <3>1. g[s] = Up(s)
      OBVIOUS
    <3> HIDE DEF g
    <3>2. CASE s = {}
      BY <3>1, <3>2
    <3>3. CASE s # {}
      <4>1. g[s \ {Some(s)}] = V(s \ {Some(s)})
        BY <2>2, <3>3
      <4>2. Up(s) = f[Some(s)] + V(s \ {Some(s)})
        BY <3>3
      <4> HIDE DEF V, Up
      <4> QED
        BY <3>1, <3>3, <4>1, <4>2
    <3> QED
      BY <3>2, <3>3
  <2> HIDE DEF g
  <2>4. SumOn(g, T, f)
    BY <2>3 DEF SumOn, g
  <2> QED
    BY <2>4
<1> HIDE DEF Q
<1>2. \A s \in SUBSET S : s \in Q
  BY <1>1, SubsetInduction
<1> QED
  BY <1>2 DEF Q

\* Total is one.
LEMMA TotalAdds ==
    ASSUME NEW f, NEW S, IsFiniteSet(S)
    PROVE  \E g : SumOn(g, S, f) /\ Total(f, S) = g[S]
<1>1. PICK g : SumOn(g, S, f)
  BY SumExists
<1>2. ASSUME NEW h
      PROVE  Adds(h, S, f) => SumOn(h, S, f)
  BY DEF Adds, SumOn
<1>3. \E h : Adds(h, S, f)
  <2> DEFINE h == [s \in SUBSET S |-> g[s]]
  <2>1. \A s \in SUBSET S : h[s] = IF s = {} THEN 0 ELSE f[Some(s)] + h[s \ {Some(s)}]
    BY <1>1 DEF SumOn
  <2>2. h = [s \in SUBSET S |-> IF s = {} THEN 0 ELSE f[Some(s)] + h[s \ {Some(s)}]]
    BY <2>1
  <2> HIDE DEF h
  <2> QED
    BY <2>2 DEF Adds
<1>4. Adds(CHOOSE h : Adds(h, S, f), S, f)
  BY <1>3
<1> QED
  BY <1>2, <1>4 DEF Total

\* The sum over the empty set, and what an element adds, whichever comes first.
LEMMA TotalStep ==
    ASSUME NEW f, NEW S, IsFiniteSet(S)
    PROVE  /\ S = {} => Total(f, S) = 0
           /\ S # {} => Total(f, S) = f[Some(S)] + Total(f, S \ {Some(S)})
<1>1. PICK g : SumOn(g, S, f) /\ Total(f, S) = g[S]
  BY TotalAdds
<1>2. S = {} => Total(f, S) = 0
  BY <1>1 DEF SumOn
<1>3. ASSUME S # {}
      PROVE  Total(f, S) = f[Some(S)] + Total(f, S \ {Some(S)})
  <2> DEFINE d == S \ {Some(S)}
  <2>1. d \subseteq S /\ IsFiniteSet(d)
    BY FS_Subset
  <2>2. g[S] = f[Some(S)] + g[d]
    BY <1>1, <1>3 DEF SumOn
  <2> HIDE DEF d
  <2>3. PICK h : SumOn(h, d, f) /\ Total(f, d) = h[d]
    BY <2>1, TotalAdds
  <2>4. g[d] = h[d]
    BY <1>1, <2>1, <2>3, SumsAgree
  <2> QED
    BY <1>1, <2>2, <2>3, <2>4 DEF d
<1> QED
  BY <1>2, <1>3

\* The sum of integers is an integer.
LEMMA TotalType ==
    ASSUME NEW S, IsFiniteSet(S), NEW f, \A x \in S : f[x] \in Int
    PROVE  Total(f, S) \in Int
<1> DEFINE Typed(s) == Total(f, s) \in Int
           Q == {s \in SUBSET S : Typed(s)}
<1>1. ASSUME NEW T \in SUBSET S, \A u \in SUBSET T : u # T => Typed(u)
      PROVE  Typed(T)
  <2>1. IsFiniteSet(T)
    BY FS_Subset
  <2>2. CASE T = {}
    <3>1. Total(f, T) = 0
      <4>1. T = {} => Total(f, T) = 0
        BY <2>1, TotalStep
      <4> QED
        BY <2>2, <4>1
    <3> QED
      BY <3>1
  <2>3. CASE T # {}
    <3>1. Some(T) \in T
      BY <2>3, AnyIn
    <3>2. Total(f, T \ {Some(T)}) \in Int /\ f[Some(T)] \in Int
      BY <1>1, <3>1
    <3>3. Total(f, T) = f[Some(T)] + Total(f, T \ {Some(T)})
      BY <2>1, <2>3, TotalStep
    <3> QED
      BY <3>2, <3>3
  <2> QED
    BY <2>2, <2>3
<1> HIDE DEF Typed
<1>2. \A T \in SUBSET S : (\A u \in SUBSET T : u # T => u \in Q) => T \in Q
  BY <1>1
<1> HIDE DEF Q
<1>3. \A s \in SUBSET S : s \in Q
  BY <1>2, SubsetInduction
<1> QED
  BY <1>3 DEF Q, Typed

\* Any element may be taken first.
LEMMA TotalSplit ==
    ASSUME NEW S, IsFiniteSet(S), NEW f, \A x \in S : f[x] \in Int, NEW a \in S
    PROVE  Total(f, S) = f[a] + Total(f, S \ {a})
<1> DEFINE Q == {s \in SUBSET S : \A x \in s : Total(f, s) = f[x] + Total(f, s \ {x})}
<1>1. ASSUME NEW T \in SUBSET S, \A u \in SUBSET T : u # T => u \in Q
      PROVE  T \in Q
  <2>1. SUFFICES ASSUME NEW x \in T
                 PROVE  Total(f, T) = f[x] + Total(f, T \ {x})
    OBVIOUS
  <2>2. IsFiniteSet(T) /\ IsFiniteSet(T \ {x})
    BY FS_Subset
  <2> DEFINE p == Some(T)
  <2>3. p \in T /\ Total(f, T) = f[p] + Total(f, T \ {p})
    BY <2>1, <2>2, AnyIn, TotalStep
  <2> HIDE DEF p
  <2>4. CASE x = p
    BY <2>3, <2>4
  <2>5. CASE x # p
    <3> DEFINE d == (T \ {p}) \ {x}
    <3>1. T \ {p} \in Q /\ T \ {x} \in Q
      BY <1>1, <2>1, <2>3
    <3>2. Total(f, T \ {p}) = f[x] + Total(f, d)
      BY <2>1, <2>5, <3>1
    <3>3. (T \ {x}) \ {p} = d
      OBVIOUS
    <3>4. Total(f, T \ {x}) = f[p] + Total(f, d)
      BY <2>3, <2>5, <3>1, <3>3
    <3>5. Total(f, d) \in Int /\ f[p] \in Int /\ f[x] \in Int
      <4>1. IsFiniteSet(d) /\ \A y \in d : f[y] \in Int
        BY FS_Subset
      <4> HIDE DEF d
      <4> QED
        BY <2>3, <4>1, TotalType
    <3> HIDE DEF d
    <3> QED
      BY <2>3, <3>2, <3>4, <3>5
  <2> QED
    BY <2>4, <2>5
<1> HIDE DEF Q
<1>2. \A s \in SUBSET S : s \in Q
  BY <1>1, SubsetInduction
<1>3. S \in Q
  BY <1>2
<1> QED
  BY <1>3 DEF Q

\* Nothing adds up to 0.
LEMMA TotalEmpty ==
    ASSUME NEW f
    PROVE  Total(f, {}) = 0
<1>1. ASSUME NEW S, S = {}
      PROVE  Total(f, S) = 0
  <2>1. IsFiniteSet(S)
    BY <1>1, FS_EmptySet
  <2> QED
    BY <1>1, <2>1, TotalStep
<1> QED
  BY <1>1

\* The sum grows with its terms.
LEMMA TotalMonotone ==
    ASSUME NEW S, IsFiniteSet(S), NEW f, NEW g,
           \A x \in S : f[x] \in Int /\ g[x] \in Int /\ f[x] <= g[x]
    PROVE  Total(f, S) <= Total(g, S)
<1> DEFINE Less(s) == Total(f, s) <= Total(g, s)
           Q == {s \in SUBSET S : Less(s)}
<1>1. ASSUME NEW T \in SUBSET S, \A u \in SUBSET T : u # T => Less(u)
      PROVE  Less(T)
  <2>1. IsFiniteSet(T)
    BY FS_Subset
  <2>2. CASE T = {}
    BY <2>2, TotalEmpty
  <2>3. CASE T # {}
    <3> DEFINE a == Some(T)
               d == T \ {a}
    <3>1. a \in T
      BY <2>3, AnyIn
    <3>2. f[a] \in Int /\ g[a] \in Int /\ f[a] <= g[a]
      BY <3>1
    <3>3. IsFiniteSet(d)
      BY <2>1, FS_Subset
    <3>4. Total(f, T) = f[a] + Total(f, d) /\ Total(g, T) = g[a] + Total(g, d)
      BY <2>1, <2>3, TotalStep
    <3>5. Total(f, d) <= Total(g, d)
      BY <1>1, <3>1
    <3>6. Total(f, d) \in Int /\ Total(g, d) \in Int
      <4>1. \A x \in d : f[x] \in Int /\ g[x] \in Int
        OBVIOUS
      <4> HIDE DEF d
      <4> QED
        BY <3>3, <4>1, TotalType
    <3> HIDE DEF a, d
    <3> QED
      BY <3>2, <3>4, <3>5, <3>6
  <2> QED
    BY <2>2, <2>3
<1> HIDE DEF Less
<1>2. \A T \in SUBSET S : (\A u \in SUBSET T : u # T => u \in Q) => T \in Q
  BY <1>1
<1> HIDE DEF Q
<1>3. \A s \in SUBSET S : s \in Q
  BY <1>2, SubsetInduction
<1> QED
  BY <1>3 DEF Q, Less

\* It depends on its terms only.
LEMMA TotalSame ==
    ASSUME NEW S, IsFiniteSet(S), NEW f, NEW g,
           \A x \in S : f[x] \in Int /\ f[x] = g[x]
    PROVE  Total(f, S) = Total(g, S)
<1>1. \A x \in S : f[x] \in Int /\ g[x] \in Int /\ f[x] <= g[x] /\ g[x] <= f[x]
  OBVIOUS
<1>2. Total(f, S) \in Int /\ Total(g, S) \in Int
  BY <1>1, TotalType
<1>3. Total(f, S) <= Total(g, S)
  BY <1>1, TotalMonotone
<1>4. Total(g, S) <= Total(f, S)
  BY <1>1, TotalMonotone
<1> QED
  BY <1>2, <1>3, <1>4

\* One term changes.
LEMMA TotalChange ==
    ASSUME NEW S, IsFiniteSet(S), NEW f, NEW g, NEW a \in S,
           \A x \in S : f[x] \in Int /\ g[x] \in Int,
           \A x \in S \ {a} : f[x] = g[x]
    PROVE  Total(g, S) = Total(f, S) - f[a] + g[a]
<1> DEFINE d == S \ {a}
<1>1. IsFiniteSet(d) /\ \A x \in d : f[x] \in Int /\ f[x] = g[x]
  BY FS_Subset
<1>2. Total(f, S) = f[a] + Total(f, d) /\ Total(g, S) = g[a] + Total(g, d)
  BY TotalSplit
<1> HIDE DEF d
<1>3. Total(f, d) = Total(g, d) /\ Total(f, d) \in Int
  BY <1>1, TotalSame, TotalType
<1>4. f[a] \in Int /\ g[a] \in Int
  OBVIOUS
<1> QED
  BY <1>2, <1>3, <1>4

\* Every term is the same.
LEMMA TotalConstant ==
    ASSUME NEW S, IsFiniteSet(S), NEW n \in Int, NEW f, \A x \in S : f[x] = n
    PROVE  Total(f, S) = Cardinality(S) * n
<1> DEFINE Good(s) == Total(f, s) = Cardinality(s) * n
           Q == {s \in SUBSET S : Good(s)}
<1>1. ASSUME NEW T \in SUBSET S, \A u \in SUBSET T : u # T => Good(u)
      PROVE  Good(T)
  <2>1. IsFiniteSet(T)
    BY FS_Subset
  <2>2. CASE T = {}
    <3>1. Total(f, T) = 0 /\ Cardinality(T) = 0
      BY <2>2, TotalEmpty, FS_EmptySet
    <3> QED
      BY <3>1
  <2>3. CASE T # {}
    <3> DEFINE a == Some(T)
               d == T \ {a}
    <3>1. a \in T /\ f[a] = n
      BY <2>3, AnyIn
    <3>2. Total(f, T) = n + Total(f, d)
      BY <2>1, <2>3, <3>1, TotalStep
    <3>3. Total(f, d) = Cardinality(d) * n
      BY <1>1, <3>1
    <3>4. Cardinality(d) = Cardinality(T) - 1 /\ Cardinality(T) \in Nat
      BY <2>1, <3>1, FS_RemoveElement, FS_CardinalityType
    <3> HIDE DEF a, d
    <3>5. \A k \in Int : n + (k - 1) * n = k * n
      OBVIOUS
    <3> QED
      BY <3>2, <3>3, <3>4, <3>5
  <2> QED
    BY <2>2, <2>3
<1> HIDE DEF Good
<1>2. \A T \in SUBSET S : (\A u \in SUBSET T : u # T => u \in Q) => T \in Q
  BY <1>1
<1> HIDE DEF Q
<1>3. \A s \in SUBSET S : s \in Q
  BY <1>2, SubsetInduction
<1> QED
  BY <1>3 DEF Q, Good

-----------------------------------------------------------------------------
(* Coins.  For each player there is a share `lo` that covers what the      *)
(* player has in the game and what the file will say when no write is      *)
(* pending, and a share `hi` that covers whatever the file may say if the  *)
(* game stops before.  Neither all lo with the loose coins nor all hi, nor *)
(* the guild's coins in addition, are more than there may be.              *)

Shares == [Players -> Nat]
Limit == Cardinality(Players) * Purse + made

\* The character files in the queue s hold no more than lo.
Covered(s, lo) == \A k \in DOMAIN s : s[k].to = "char" => Wealth(s[k].what) <= lo[s[k].who]
Rewrites(s, p) == \E k \in DOMAIN s : s[k].to = "char" /\ s[k].who = p

Low(lo) ==
    /\ \A p \in online : Wealth(coins[p]) <= lo[p]
    /\ \A p \in Players : Wealth(file[p]) <= lo[p] \/ Rewrites(todo, p)
    /\ Covered(todo, lo)
    /\ Total(lo, Players) + loose + guild <= Limit

High(hi) ==
    /\ \A p \in Players : Wealth(file[p]) <= hi[p]
    /\ Covered(todo, hi)
    /\ Total(hi, Players) + guild <= Limit

CInv == GInv /\ (\E lo \in Shares : Low(lo)) /\ (\E hi \in Shares : High(hi))

LEMMA CoveredConcat ==
    ASSUME NEW s \in Seq(Writes), NEW t \in Seq(Writes), NEW lo, NEW p
    PROVE  /\ Covered(s, lo) /\ Covered(t, lo) => Covered(s \o t, lo)
           /\ Rewrites(s, p) \/ Rewrites(t, p) => Rewrites(s \o t, p)
<1>1. ASSUME NEW k \in DOMAIN (s \o t)
      PROVE  \/ k \in DOMAIN s /\ (s \o t)[k] = s[k]
             \/ k - Len(s) \in DOMAIN t /\ (s \o t)[k] = t[k - Len(s)]
  OBVIOUS
<1>2. /\ \A k \in DOMAIN s : k \in DOMAIN (s \o t) /\ (s \o t)[k] = s[k]
      /\ \A k \in DOMAIN t : k + Len(s) \in DOMAIN (s \o t) /\ (s \o t)[k + Len(s)] = t[k]
  OBVIOUS
<1>3. Covered(s, lo) /\ Covered(t, lo) => Covered(s \o t, lo)
  BY <1>1 DEF Covered
<1>4. Rewrites(s, p) \/ Rewrites(t, p) => Rewrites(s \o t, p)
  BY <1>2 DEF Rewrites
<1> QED
  BY <1>3, <1>4

\* Files of objects hold no coins.
LEMMA ObjectFilesCovered ==
    ASSUME NEW p, NEW h, NEW lo
    PROVE  Covered(SaveObj(p, h), lo) /\ Covered(ZeroRent(p), lo) /\ Covered(SaveRoom(h), lo)
<1>1. Covered(SaveObj(p, h), lo) /\ Covered(ZeroRent(p), lo)
  BY DEF Covered, SaveObj, ZeroRent
<1>2. Covered(SaveRoom(h), lo)
  BY DEF Covered, SaveRoom
<1> QED
  BY <1>1, <1>2

LEMMA SaveCharCovered ==
    ASSUME NEW p, NEW c, NEW L, NEW lo, p \in L => Wealth(c[p]) <= lo[p]
    PROVE  /\ Covered(SaveChar(p, c, L), lo)
           /\ p \in L => Rewrites(SaveChar(p, c, L), p)
  BY DEF Covered, Rewrites, SaveChar

LEMMA DoSaveCovered ==
    ASSUME NEW p \in Players, NEW h \in [Items -> SUBSET Holders],
           NEW c \in [Players -> Record], NEW lo, Wealth(c[p]) <= lo[p]
    PROVE  Covered(DoSave(p, h, c), lo) /\ DoSave(p, h, c) \in Seq(Writes)
<1>1. SaveObj(p, h) \in Seq(Writes) /\ SaveChar(p, c, linked) \in Seq(Writes)
  BY SaveObjType, SaveCharType
<1>2. Covered(SaveObj(p, h), lo) /\ Covered(SaveChar(p, c, linked), lo)
  BY ObjectFilesCovered, SaveCharCovered
<1> QED
  BY <1>1, <1>2, CoveredConcat DEF DoSave

\* The moment before a command: one share covers both files and memory.
LEMMA Rest ==
    ASSUME CInv, todo = <<>>
    PROVE  \E lo \in Shares :
               /\ \A p \in Players : Wealth(file[p]) <= lo[p]
               /\ \A p \in online : Wealth(coins[p]) <= lo[p]
               /\ Total(lo, Players) + loose + guild <= Limit
  BY DEF CInv, Low, Rewrites

LEMMA Numbers ==
    ASSUME TypeOK
    PROVE  /\ loose \in Nat /\ guild \in Nat /\ made \in Nat
           /\ \A p \in Players :
                 /\ coins[p].gold \in Nat /\ coins[p].bank \in Nat
                 /\ file[p].gold \in Nat /\ file[p].bank \in Nat
                 /\ Wealth(coins[p]) \in Nat /\ Wealth(file[p]) \in Nat
           /\ Limit \in Nat /\ Purse \in Nat /\ Cardinality(Players) \in Nat
<1>1. Cardinality(Players) \in Nat /\ Purse \in Nat
  BY GoodsAssumption, FS_CardinalityType
<1>2. loose \in Nat /\ guild \in Nat /\ made \in Nat
  BY DEF TypeOK
<1>3. Limit \in Nat
  BY <1>1, <1>2 DEF Limit
<1>4. ASSUME NEW p \in Players
      PROVE  /\ coins[p].gold \in Nat /\ coins[p].bank \in Nat
             /\ file[p].gold \in Nat /\ file[p].bank \in Nat
             /\ Wealth(coins[p]) \in Nat /\ Wealth(file[p]) \in Nat
  BY DEF TypeOK, Record, Wealth
<1> QED
  BY <1>1, <1>2, <1>3, <1>4

LEMMA NumbersAfter ==
    ASSUME GInv'
    PROVE  /\ loose' \in Nat /\ guild' \in Nat /\ made' \in Nat /\ Limit' \in Nat
           /\ coins' \in [Players -> Record] /\ online' \subseteq Players
           /\ \A p \in Players : Wealth(coins'[p]) \in Nat
<1>1. Cardinality(Players) \in Nat /\ Purse \in Nat
  BY GoodsAssumption, FS_CardinalityType
<1>2. /\ loose' \in Nat /\ guild' \in Nat /\ made' \in Nat
      /\ coins' \in [Players -> Record] /\ online' \subseteq Players
  BY DEF GInv, TypeOK
<1>3. Limit' \in Nat
  BY <1>1, <1>2 DEF Limit
<1>4. \A p \in Players : Wealth(coins'[p]) \in Nat
  BY <1>2 DEF Record, Wealth
<1> QED
  BY <1>2, <1>3, <1>4

LEMMA TotalNat ==
    ASSUME NEW lo \in Shares
    PROVE  Total(lo, Players) \in Int
<1>1. \A p \in Players : lo[p] \in Int
  BY DEF Shares
<1> QED
  BY <1>1, GoodsAssumption, TotalType

\* What the shares add up to when one of them changes.
LEMMA ShareChanges ==
    ASSUME NEW lo \in Shares, NEW p \in Players, NEW n \in Nat
    PROVE  /\ [lo EXCEPT ![p] = n] \in Shares
           /\ Total([lo EXCEPT ![p] = n], Players) = Total(lo, Players) - lo[p] + n
<1> DEFINE m == [lo EXCEPT ![p] = n]
<1>1. m \in Shares /\ m[p] = n /\ \A q \in Players \ {p} : lo[q] = m[q]
  BY DEF Shares
<1> HIDE DEF m
<1>2. \A q \in Players : lo[q] \in Int /\ m[q] \in Int
  BY <1>1 DEF Shares
<1>3. Total(m, Players) = Total(lo, Players) - lo[p] + m[p]
  BY <1>1, <1>2, GoodsAssumption, TotalChange
<1> QED
  BY <1>1, <1>3 DEF m

\* A command that does not change who has which coins but may write them.
LEMMA CoinsStay ==
    ASSUME CInv, GInv', todo = <<>>, file' = file, loose' = loose, guild' = guild, made' = made,
           \A p \in online' : Wealth(coins'[p]) <= IF p \in online THEN Wealth(coins[p])
                                                   ELSE Wealth(file[p]),
           \A lo \in Shares :
               (\A p \in online : Wealth(coins[p]) <= lo[p])
               /\ (\A p \in Players : Wealth(file[p]) <= lo[p]) => Covered(todo', lo)
    PROVE  CInv'
<1>1. PICK lo \in Shares : /\ \A p \in Players : Wealth(file[p]) <= lo[p]
                           /\ \A p \in online : Wealth(coins[p]) <= lo[p]
                           /\ Total(lo, Players) + loose + guild <= Limit
  BY Rest
<1>2. Covered(todo', lo)
  BY <1>1
<1>3. online' \subseteq Players /\ TypeOK'
  BY DEF GInv, TypeOK
<1>4. \A p \in online' : Wealth(coins'[p]) <= lo[p]
  <2>1. SUFFICES ASSUME NEW p \in online'
                 PROVE  Wealth(coins'[p]) <= lo[p]
    OBVIOUS
  <2>2. /\ p \in Players /\ Wealth(coins[p]) \in Nat /\ Wealth(file[p]) \in Nat /\ lo[p] \in Nat
        /\ Wealth(coins'[p]) \in Nat
    <3>1. Wealth(coins[p]) \in Nat /\ Wealth(file[p]) \in Nat
      BY <1>3, Numbers DEF CInv, GInv
    <3>2. Wealth(coins'[p]) \in Nat
      BY <1>3 DEF TypeOK, Record, Wealth
    <3> QED
      BY <1>3, <3>1, <3>2 DEF Shares
  <2> QED
    BY <1>1, <2>2
<1>5. Limit' = Limit
  BY DEF Limit
<1>6. Low(lo)'
  BY <1>1, <1>2, <1>4, <1>5 DEF Low
<1>7. Total(lo, Players) + guild <= Limit
  BY <1>1, TotalNat, Numbers DEF CInv, GInv
<1>8. High(lo)'
  BY <1>1, <1>2, <1>5, <1>7 DEF High
<1> QED
  BY <1>6, <1>8 DEF CInv

\* Commands that move objects.
LEMMA ObjectsMove ==
    ASSUME CInv, GInv', NEW p \in Players, NEW q \in Players \cup {"mobile"}, NEW S, NEW i,
           \/ Get(p, S) \/ GetStored(p, i) \/ Drop(p, S) \/ DropStored(p, i)
           \/ q \in Players /\ (Give(p, q, S) \/ Steal(p, q, i))
           \/ GiveMobile(p, S) \/ GiveAll(p, q, S) \/ UseUp(p, i) \/ Disarm(p, i)
           \/ GetSome(p, S) \/ PutSome(p, S) \/ Save(p) \/ LoseLink(p)
    PROVE  CInv'
<1>1. TypeOK /\ TypeOK' /\ linked \subseteq online /\ online \subseteq Players
  BY DEF CInv, GInv, TypeOK
<1>2. held \in [Items -> SUBSET Holders] /\ held' \in [Items -> SUBSET Holders]
      /\ coins \in [Players -> Record]
  BY <1>1 DEF TypeOK
<1>3. /\ file' = file /\ loose' = loose /\ guild' = guild /\ made' = made
      /\ coins' = coins /\ online' = online /\ todo = <<>>
  BY DEF Get, GetStored, Drop, DropStored, Give, Steal, GiveMobile, GiveAll, UseUp, Disarm,
         GetSome, PutSome, Save, LoseLink, Commands, disk, memory
<1>4. ASSUME NEW lo \in Shares, \A x \in online : Wealth(coins[x]) <= lo[x]
      PROVE  Covered(todo', lo)
  <2>0. Covered(<<>>, lo)
    BY DEF Covered
  <2>1. \A x \in online, h \in [Items -> SUBSET Holders] :
            Covered(DoSave(x, h, coins), lo) /\ DoSave(x, h, coins) \in Seq(Writes)
    BY <1>1, <1>2, <1>4, DoSaveCovered
  <2>2. CASE Get(p, S) \/ Drop(p, S) \/ GiveMobile(p, S) \/ Save(p) \/ LoseLink(p)
    <3>1. p \in online
      BY <1>1, <2>2 DEF Get, Drop, GiveMobile, Save, LoseLink, Commands
    <3>2. todo' = DoSave(p, held', coins) \/ todo' = DoSave(p, held, coins)
      BY <2>2 DEF Get, Drop, GiveMobile, Save, LoseLink, Commands
    <3> QED
      BY <1>2, <2>1, <3>1, <3>2
  <2>3. CASE GetStored(p, i) \/ DropStored(p, i)
    <3>1. p \in online /\ todo' = SaveRoom(held') \o DoSave(p, held', coins)
      BY <1>1, <2>3 DEF GetStored, DropStored, Commands
    <3>2. /\ SaveRoom(held') \in Seq(Writes) /\ Covered(SaveRoom(held'), lo)
          /\ DoSave(p, held', coins) \in Seq(Writes) /\ Covered(DoSave(p, held', coins), lo)
      BY <1>2, <2>1, <3>1, SaveRoomType, ObjectFilesCovered
    <3> QED
      BY <3>1, <3>2, CoveredConcat
  <2>4. CASE q \in Players /\ (Give(p, q, S) \/ Steal(p, q, i))
    <3>1. /\ p \in online /\ q \in online
          /\ todo' = DoSave(p, held', coins) \o DoSave(q, held', coins)
      BY <1>1, <2>4 DEF Give, Steal, Commands
    <3> QED
      BY <1>2, <2>1, <3>1, CoveredConcat
  <2>5. CASE GiveAll(p, q, S) \/ UseUp(p, i) \/ Disarm(p, i) \/ GetSome(p, S) \/ PutSome(p, S)
    BY <2>0, <2>5, <1>3 DEF GiveAll, UseUp, Disarm, GetSome, PutSome
  <2> QED
    BY <2>2, <2>3, <2>4, <2>5
<1>5. \A x \in online : Wealth(coins[x]) <= Wealth(coins[x])
  BY <1>1, Numbers
<1> QED
  BY <1>3, <1>4, <1>5, CoinsStay

\* Shops, banks and coming and going.
LEMMA CoinsKept ==
    ASSUME CInv, GInv', NEW p \in Players, NEW i, NEW n \in Nat,
           \/ Buy(p, i, n) \/ Deposit(p, n) \/ Withdraw(p, n) \/ Enter(p, n) \/ Reconnect(p)
    PROVE  CInv'
<1>1. /\ TypeOK /\ TypeOK' /\ linked \subseteq online /\ online \subseteq Players
      /\ coins \in [Players -> Record] /\ coins' \in [Players -> Record]
      /\ file \in [Players -> Record]
  BY DEF CInv, GInv, TypeOK
<1>2. /\ file' = file /\ loose' = loose /\ guild' = guild /\ made' = made /\ todo = <<>>
  BY DEF Buy, Deposit, Withdraw, Enter, Reconnect, Commands, disk, memory
<1>3. CASE Buy(p, i, n) \/ Deposit(p, n) \/ Withdraw(p, n) \/ Reconnect(p)
  <2>1. online' = online /\ \A x \in Players \ {p} : coins'[x] = coins[x]
    BY <1>1, <1>3 DEF Buy, Deposit, Withdraw, Reconnect, Spend
  <2>2. Wealth(coins'[p]) <= Wealth(coins[p])
    <3>1. coins[p].gold \in Nat /\ coins[p].bank \in Nat
      BY <1>1, Numbers
    <3>2. CASE Buy(p, i, n)
      <4>1. coins'[p].gold = coins[p].gold - n /\ coins'[p].bank = coins[p].bank
        BY <1>1, <3>2 DEF Buy, Spend, Record
      <4> QED
        BY <3>1, <4>1 DEF Wealth
    <3>3. CASE Deposit(p, n)
      <4>1. coins'[p].gold = coins[p].gold - n /\ coins'[p].bank = coins[p].bank + n
        BY <1>1, <3>3 DEF Deposit, Record
      <4> QED
        BY <3>1, <4>1 DEF Wealth
    <3>4. CASE Withdraw(p, n)
      <4>1. coins'[p].gold = coins[p].gold + n /\ coins'[p].bank = coins[p].bank - n
        BY <1>1, <3>4 DEF Withdraw, Record
      <4> QED
        BY <3>1, <4>1 DEF Wealth
    <3>5. CASE Reconnect(p)
      BY <1>1, <3>5, Numbers DEF Reconnect
    <3> QED
      BY <1>3, <3>2, <3>3, <3>4, <3>5
  <2>3. \A x \in Players : Wealth(coins'[x]) <= Wealth(coins[x])
    BY <1>1, <2>1, <2>2, Numbers
  <2>4. ASSUME NEW lo \in Shares, \A x \in online : Wealth(coins[x]) <= lo[x]
        PROVE  Covered(todo', lo)
    <3>1. CASE Buy(p, i, n) \/ Reconnect(p)
      BY <1>2, <3>1 DEF Buy, Reconnect, Covered
    <3>2. CASE Deposit(p, n) \/ Withdraw(p, n)
      <4>1. p \in online /\ todo' = SaveChar(p, coins, linked)
        BY <1>1, <3>2 DEF Deposit, Withdraw, Commands
      <4> QED
        BY <2>4, <4>1, SaveCharCovered
    <3> QED
      BY <1>3, <3>1, <3>2
  <2> QED
    BY <1>1, <1>2, <2>1, <2>3, <2>4, CoinsStay
<1>4. CASE Enter(p, n)
  <2>1. /\ p \notin online /\ online' = online \cup {p}
        /\ \A x \in Players \ {p} : coins'[x] = coins[x]
    BY <1>1, <1>4 DEF Enter
  <2>2. Wealth(coins'[p]) <= Wealth(file[p])
    <3>1. file[p].gold \in Nat /\ file[p].bank \in Nat /\ file[p] \in Record
      BY <1>1, Numbers
    <3>2. CASE n > file[p].gold
      <4>1. coins'[p].gold = 0 /\ coins'[p].bank = file[p].bank
        BY <1>1, <1>4, <3>1, <3>2 DEF Enter, Record
      <4> QED
        BY <3>1, <4>1 DEF Wealth
    <3>3. CASE ~(n > file[p].gold)
      <4>1. coins'[p].gold = file[p].gold - n /\ coins'[p].bank = file[p].bank
        BY <1>1, <1>4, <3>1, <3>3 DEF Enter, Record
      <4> QED
        BY <3>1, <4>1 DEF Wealth
    <3> QED
      BY <3>2, <3>3
  <2>3. \A x \in online' : Wealth(coins'[x]) <= IF x \in online THEN Wealth(coins[x])
                                                ELSE Wealth(file[x])
    BY <1>1, <2>1, <2>2, Numbers
  <2>4. ASSUME NEW lo \in Shares, \A x \in Players : Wealth(file[x]) <= lo[x]
        PROVE  Covered(todo', lo)
    <3>1. /\ Wealth(coins'[p]) \in Nat /\ Wealth(file[p]) \in Nat /\ lo[p] \in Nat
          /\ Wealth(file[p]) <= lo[p]
      BY <1>1, <2>4, Numbers DEF Shares, Wealth, Record
    <3>2. Wealth(coins'[p]) <= lo[p]
      BY <2>2, <3>1
    <3>3. PICK L : /\ todo' = ZeroRent(p) \o SaveChar(p, coins', L)
                      \/ todo' = SaveChar(p, coins', L)
      BY <1>4 DEF Enter
    <3>4. /\ ZeroRent(p) \in Seq(Writes) /\ SaveChar(p, coins', L) \in Seq(Writes)
      <4>1. ZeroRent(p) \in Seq(Writes)
        BY <1>1, SaveObjType DEF TypeOK
      <4> QED
        BY <1>1, <4>1, SaveCharType
    <3>5. Covered(ZeroRent(p), lo) /\ Covered(SaveChar(p, coins', L), lo)
      BY <3>2, ObjectFilesCovered, SaveCharCovered
    <3> QED
      BY <3>3, <3>4, <3>5, CoveredConcat
  <2> QED
    BY <1>2, <2>3, <2>4, CoinsStay
<1> QED
  BY <1>3, <1>4

\* Leaving the game: what the player had is written, or lost.
LEMMA CoinsLeft ==
    ASSUME CInv, GInv', NEW p \in Players,
           Rent(p) \/ ForceRent(p) \/ EvictedWithoutRent(p) \/ Quit(p)
    PROVE  CInv'
<1>1. /\ TypeOK /\ TypeOK' /\ linked \subseteq online /\ online \subseteq Players
      /\ coins \in [Players -> Record] /\ held \in [Items -> SUBSET Holders]
      /\ held' \in [Items -> SUBSET Holders]
  BY DEF CInv, GInv, TypeOK
<1>2. /\ file' = file /\ loose' = loose /\ guild' = guild /\ made' = made /\ todo = <<>>
      /\ p \in online /\ online' = online \ {p} /\ coins' = Broke(p)
  BY <1>1 DEF Rent, ForceRent, EvictedWithoutRent, Quit, Leaves, Commands, disk
<1>3. \A x \in online' : x \in online /\ coins'[x] = coins[x]
  BY <1>1, <1>2 DEF Broke
<1>4. \A x \in online' : Wealth(coins'[x]) <= IF x \in online THEN Wealth(coins[x])
                                              ELSE Wealth(file[x])
  BY <1>1, <1>3, Numbers
<1>5. ASSUME NEW lo \in Shares, \A x \in online : Wealth(coins[x]) <= lo[x]
      PROVE  Covered(todo', lo)
  <2> DEFINE a == SaveObj(p, held)
             b == SaveObj(p, held')
             z == ZeroRent(p)
             d == DoSave(p, held, coins)
             c == SaveChar(p, coins, linked)
  <2>1. /\ a \in Seq(Writes) /\ b \in Seq(Writes) /\ z \in Seq(Writes) /\ c \in Seq(Writes)
    <3>1. /\ a \in Seq(Writes) /\ z \in Seq(Writes)
      BY <1>1, SaveObjType
    <3>2. /\ b \in Seq(Writes)
      BY <1>1, SaveObjType
    <3>3. /\ c \in Seq(Writes)
      BY <1>1, SaveCharType
    <3> QED
      BY <3>1, <3>2, <3>3
  <2>2. Covered(a, lo) /\ Covered(b, lo) /\ Covered(z, lo) /\ Covered(c, lo) /\ Covered(<<>>, lo)
        /\ <<>> \in Seq(Writes)
    <3>1. Covered(<<>>, lo)
      BY DEF Covered
    <3> QED
      BY <1>2, <1>5, <3>1, ObjectFilesCovered, SaveCharCovered
  <2>3. Covered(d, lo) /\ d \in Seq(Writes)
    BY <1>1, <1>2, <1>5, DoSaveCovered
  <2>4. \/ todo' = a \o c \/ todo' = d \o a \/ todo' = <<>> \o a
        \/ todo' = d \/ todo' = <<>> \/ todo' = z \o c \o b \o c
    BY DEF Rent, ForceRent, EvictedWithoutRent, Quit
  <2> HIDE DEF a, b, z, c, d
  <2>5. \A s, t \in Seq(Writes) : Covered(s, lo) /\ Covered(t, lo) =>
            s \o t \in Seq(Writes) /\ Covered(s \o t, lo)
    BY CoveredConcat
  <2>6. z \o c \in Seq(Writes) /\ Covered(z \o c, lo)
    BY <2>1, <2>2, <2>5
  <2>7. z \o c \o b \in Seq(Writes) /\ Covered(z \o c \o b, lo)
    BY <2>1, <2>2, <2>5, <2>6
  <2>8. Covered(z \o c \o b \o c, lo)
    BY <2>1, <2>2, <2>5, <2>7
  <2>9. Covered(a \o c, lo) /\ Covered(d \o a, lo) /\ Covered(<<>> \o a, lo)
    BY <2>1, <2>2, <2>3, <2>5
  <2> QED
    BY <2>2, <2>3, <2>4, <2>8, <2>9
<1> QED
  BY <1>2, <1>4, <1>5, CoinsStay

\* Commands that move coins: new shares are found.
LEMMA NewShares ==
    ASSUME GInv', file' = file, NEW m \in Shares, NEW h \in Shares,
           \A x \in online' : Wealth(coins'[x]) <= m[x],
           \A x \in Players : Wealth(file[x]) <= m[x] \/ Rewrites(todo', x),
           Covered(todo', m), Total(m, Players) + loose' + guild' <= Limit',
           \A x \in Players : Wealth(file[x]) <= h[x],
           Covered(todo', h), Total(h, Players) + guild' <= Limit'
    PROVE  CInv'
<1>1. Low(m)'
  BY DEF Low
<1>2. High(h)'
  BY DEF High
<1> QED
  BY <1>1, <1>2 DEF CInv

LEMMA OneShare ==
    ASSUME GInv', file' = file, NEW m \in Shares,
           \A x \in online' : Wealth(coins'[x]) <= m[x],
           \A x \in Players : Wealth(file[x]) <= m[x],
           Covered(todo', m), Total(m, Players) + loose' + guild' <= Limit'
    PROVE  CInv'
<1>1. loose' \in Nat /\ guild' \in Nat /\ Limit' \in Nat
  BY NumbersAfter
<1>2. Total(m, Players) + guild' <= Limit'
  BY <1>1, TotalNat
<1> QED
  BY <1>2, NewShares

\* Coins are got, stolen, earned by selling or withdrawn from the guild:
\* n more for p.
LEMMA ShareGrows ==
    ASSUME CInv, GInv', todo = <<>>, file' = file, online' = online,
           NEW p \in Players, NEW n \in Nat,
           Wealth(coins'[p]) = Wealth(coins[p]) + n,
           \A x \in Players \ {p} : Wealth(coins'[x]) <= Wealth(coins[x]),
           \A lo : Wealth(coins'[p]) <= lo[p] => Covered(todo', lo),
           p \in online,
           loose' + guild' + n + Limit <= loose + guild + Limit'
    PROVE  CInv'
<1>0. TypeOK /\ TypeOK' /\ online \subseteq Players
  BY DEF CInv, GInv, TypeOK
<1>1. PICK lo \in Shares : /\ \A x \in Players : Wealth(file[x]) <= lo[x]
                           /\ \A x \in online : Wealth(coins[x]) <= lo[x]
                           /\ Total(lo, Players) + loose + guild <= Limit
  BY Rest
<1> DEFINE m == [lo EXCEPT ![p] = lo[p] + n]
<1>2. lo[p] \in Nat /\ lo[p] + n \in Nat
  BY DEF Shares
<1>3. m \in Shares /\ Total(m, Players) = Total(lo, Players) - lo[p] + (lo[p] + n)
  <2>1. PICK k \in Nat : k = lo[p] + n
    BY <1>2
  <2> QED
    BY <2>1, ShareChanges
<1>4. m[p] = lo[p] + n /\ \A x \in Players \ {p} : m[x] = lo[x]
  BY DEF Shares
<1> HIDE DEF m
<1>5. /\ \A x \in Players : lo[x] \in Nat /\ m[x] \in Nat
      /\ \A x \in Players : Wealth(coins[x]) \in Nat /\ Wealth(file[x]) \in Nat
      /\ \A x \in Players : Wealth(coins'[x]) \in Nat
  <2>1. \A x \in Players : lo[x] \in Nat /\ m[x] \in Nat
    BY <1>3 DEF Shares
  <2>2. \A x \in Players : Wealth(coins'[x]) \in Nat
    BY NumbersAfter
  <2> QED
    BY <1>0, <2>1, <2>2, Numbers
<1>6. \A x \in Players : lo[x] <= m[x]
  BY <1>2, <1>4, <1>5
<1>7. \A x \in Players : Wealth(file[x]) <= m[x]
  BY <1>1, <1>5, <1>6
<1>8. Wealth(coins'[p]) <= m[p]
  BY <1>1, <1>4, <1>5
<1>9. \A x \in online' : Wealth(coins'[x]) <= m[x]
  BY <1>0, <1>1, <1>4, <1>5, <1>8
<1>10. Covered(todo', m)
  BY <1>8
<1>11. Total(m, Players) + loose' + guild' <= Limit'
  <2>1. Total(lo, Players) \in Int /\ Total(m, Players) = Total(lo, Players) + n
    BY <1>2, <1>3, TotalNat
  <2>2. loose' \in Nat /\ guild' \in Nat /\ Limit' \in Nat /\ Limit \in Nat
        /\ loose \in Nat /\ guild \in Nat
    <3>1. Limit \in Nat /\ loose \in Nat /\ guild \in Nat
      BY <1>0, Numbers
    <3> QED
      BY <3>1, NumbersAfter
  <2> HIDE DEF Limit
  <2>3. Total(lo, Players) + loose + guild <= Limit
    BY <1>1
  <2>4. \A t, u \in Int, a, b, l, k, g, h \in Nat :
            /\ t + l + g <= a /\ u = t + n /\ k + h + n + a <= l + g + b => u + k + h <= b
    OBVIOUS
  <2>5. loose' + guild' + n + Limit <= loose + guild + Limit'
    OBVIOUS
  <2>6. Total(m, Players) \in Int
    BY <1>3, TotalNat
  <2> QED
    BY <2>1, <2>2, <2>3, <2>4, <2>5, <2>6
<1> QED
  BY <1>3, <1>7, <1>9, <1>10, <1>11, OneShare

LEMMA CoinsGained ==
    ASSUME CInv, GInv', NEW p \in Players, NEW q \in Players, NEW n \in Nat, NEW i,
           GetCoins(p) \/ StealCoins(p, q, n) \/ Sell(p, i, n) \/ GuildWithdraw(p, n)
    PROVE  CInv'
<1>1. /\ TypeOK /\ TypeOK' /\ p \in linked /\ linked \subseteq online /\ todo = <<>>
      /\ file' = file /\ online' = online
      /\ coins \in [Players -> Record] /\ held \in [Items -> SUBSET Holders]
  BY DEF CInv, GInv, TypeOK, GetCoins, StealCoins, Sell, GuildWithdraw, Commands, disk
<1>2. /\ \A x \in Players : coins[x].gold \in Nat /\ coins[x].bank \in Nat /\ Wealth(coins[x]) \in Nat
      /\ loose \in Nat /\ guild \in Nat /\ made \in Nat /\ Limit \in Nat
      /\ Purse \in Nat /\ Cardinality(Players) \in Nat
  BY <1>1, Numbers
<1>3. ASSUME NEW k \in Nat, NEW c \in [Players -> Record]
      PROVE  /\ Earn(c, p, k) \in [Players -> Record]
             /\ Wealth(Earn(c, p, k)[p]) = Wealth(c[p]) + k
             /\ \A x \in Players \ {p} : Earn(c, p, k)[x] = c[x]
  <2>1. Earn(c, p, k)[p].gold = c[p].gold + k /\ Earn(c, p, k)[p].bank = c[p].bank
    BY DEF Earn, Record
  <2>2. c[p].gold \in Nat /\ c[p].bank \in Nat
    BY DEF Record
  <2>3. Earn(c, p, k) \in [Players -> Record] /\ \A x \in Players \ {p} : Earn(c, p, k)[x] = c[x]
    BY <2>2 DEF Earn, Record
  <2> QED
    BY <2>1, <2>2, <2>3 DEF Wealth
<1>4. \A lo : todo' = <<>> => Covered(todo', lo)
  BY DEF Covered
<1>5. CASE GetCoins(p)
  <2>1. /\ coins' = Earn(coins, p, loose) /\ loose' = 0 /\ guild' = guild /\ made' = made
        /\ todo' = DoSave(p, held, coins')
    BY <1>5 DEF GetCoins, disk
  <2>2. Limit' = Limit
    BY <2>1 DEF Limit
  <2>3. /\ coins' \in [Players -> Record] /\ Wealth(coins'[p]) = Wealth(coins[p]) + loose
        /\ \A x \in Players \ {p} : coins'[x] = coins[x]
    BY <1>1, <1>2, <1>3, <2>1
  <2>4. \A lo : Wealth(coins'[p]) <= lo[p] => Covered(todo', lo)
    BY <1>1, <2>1, <2>3, DoSaveCovered
  <2>5. loose' + guild' + loose + Limit <= loose + guild + Limit'
    BY <1>2, <2>1, <2>2
  <2>6. \A x \in Players \ {p} : Wealth(coins'[x]) <= Wealth(coins[x])
    BY <1>2, <2>3
  <2> QED
    BY <1>1, <1>2, <2>3, <2>4, <2>5, <2>6, ShareGrows
<1>6. CASE Sell(p, i, n) \/ GuildWithdraw(p, n)
  <2>1. /\ coins' = Earn(coins, p, n) /\ loose' = loose /\ todo' = <<>>
        /\ \/ made' = made + n /\ guild' = guild
           \/ made' = made /\ guild' = guild - n
    BY <1>1, <1>6 DEF Sell, GuildWithdraw, disk
  <2>2. /\ Wealth(coins'[p]) = Wealth(coins[p]) + n
        /\ \A x \in Players \ {p} : Wealth(coins'[x]) <= Wealth(coins[x])
    BY <1>1, <1>2, <1>3, <2>1
  <2>3. loose' + guild' + n + Limit <= loose + guild + Limit'
    BY SMTT(30), <1>2, <2>1 DEF Limit
  <2> QED
    BY <1>1, <1>4, <2>1, <2>2, <2>3, ShareGrows
<1>7. CASE StealCoins(p, q, n)
  <2> DEFINE s == Spend(coins, q, n)
  <2>1. /\ coins' = Earn(s, p, n) /\ loose' = loose /\ todo' = <<>> /\ guild' = guild
        /\ made' = made + n /\ p # q /\ n <= coins[q].gold
    BY <1>1, <1>7 DEF StealCoins, disk
  <2>2. s[q].gold = coins[q].gold - n /\ s[q].bank = coins[q].bank
        /\ \A x \in Players \ {q} : s[x] = coins[x]
    BY <1>1 DEF Spend, Record
  <2>3. coins[q].gold - n \in Nat /\ coins[q].bank \in Nat
    BY <1>2, <2>1
  <2>4. s \in [Players -> Record]
    BY <1>1, <2>3 DEF Spend, Record
  <2> HIDE DEF s
  <2>5. Wealth(s[q]) <= Wealth(coins[q])
    BY <1>2, <2>2, <2>3 DEF Wealth
  <2>6. /\ Wealth(coins'[p]) = Wealth(coins[p]) + n
        /\ \A x \in Players \ {p} : Wealth(coins'[x]) <= Wealth(coins[x])
    <3>1. s[p] = coins[p]
      BY <2>1, <2>2
    <3>2. Wealth(coins'[p]) = Wealth(s[p]) + n /\ \A x \in Players \ {p} : coins'[x] = s[x]
      BY <1>3, <2>1, <2>4
    <3>3. \A x \in Players \ {p} : Wealth(s[x]) <= Wealth(coins[x])
      BY <1>2, <2>2, <2>5
    <3> QED
      BY <3>1, <3>2, <3>3
  <2>7. loose' + guild' + n + Limit <= loose + guild + Limit'
    BY <1>2, <2>1 DEF Limit
  <2> QED
    BY <1>1, <1>4, <2>1, <2>6, <2>7, ShareGrows
<1> QED
  BY <1>5, <1>6, <1>7

LEMMA CoinsDoubtful ==
    ASSUME CInv, GInv', NEW p \in Players, NEW n \in Nat,
           DropCoins(p, n) \/ GuildDeposit(p, n)
    PROVE  CInv'
<1>1. /\ TypeOK /\ TypeOK' /\ todo = <<>> /\ todo' = <<>> /\ file' = file /\ online' = online
      /\ coins \in [Players -> Record] /\ online \subseteq Players
      /\ coins' = Spend(coins, p, n) /\ n <= coins[p].gold
  BY DEF CInv, GInv, TypeOK, DropCoins, GuildDeposit, Commands, disk
<1>2. PICK lo \in Shares : /\ \A x \in Players : Wealth(file[x]) <= lo[x]
                           /\ \A x \in online : Wealth(coins[x]) <= lo[x]
                           /\ Total(lo, Players) + loose + guild <= Limit
  BY <1>1, Rest
<1>3. \A x \in Players : Wealth(coins'[x]) <= Wealth(coins[x]) /\ Wealth(coins'[x]) \in Nat
                         /\ Wealth(coins[x]) \in Nat
  <2>1. coins'[p].gold = coins[p].gold - n /\ coins'[p].bank = coins[p].bank
        /\ \A x \in Players \ {p} : coins'[x] = coins[x]
    BY <1>1 DEF Spend, Record
  <2>2. \A x \in Players : coins[x].gold \in Nat /\ coins[x].bank \in Nat /\ Wealth(coins[x]) \in Nat
    BY <1>1, Numbers
  <2>3. Wealth(coins'[p]) <= Wealth(coins[p])
    BY <2>1, <2>2 DEF Wealth
  <2>4. \A x \in Players \ {p} : Wealth(coins'[x]) <= Wealth(coins[x])
    BY <2>1, <2>2
  <2> QED
    BY <2>2, <2>3, <2>4, NumbersAfter
<1>4. \A x \in online' : Wealth(coins'[x]) <= lo[x]
  <2>1. \A x \in Players : lo[x] \in Nat
    BY DEF Shares
  <2> QED
    BY <1>1, <1>2, <1>3, <2>1
<1>5. Covered(todo', lo)
  BY <1>1 DEF Covered
<1>6. Total(lo, Players) + loose' + guild' <= Limit'
  <2>1. /\ loose \in Nat /\ guild \in Nat /\ made \in Nat
        /\ Purse \in Nat /\ Cardinality(Players) \in Nat /\ Total(lo, Players) \in Int
    BY <1>1, Numbers, TotalNat
  <2>2. made' = made + n /\ \/ loose' = loose + n /\ guild' = guild
                            \/ loose' = loose /\ guild' = guild + n
    BY DEF DropCoins, GuildDeposit, disk
  <2>3. Limit' = Limit + n /\ Limit \in Int
    BY <2>1, <2>2 DEF Limit
  <2> HIDE DEF Limit
  <2>4. \A t \in Int, a, l, g \in Nat : t + l + g <= a => t + (l + n) + g <= a + n
                                                         /\ t + l + (g + n) <= a + n
    OBVIOUS
  <2>5. Limit \in Nat
    BY <1>1, Numbers
  <2> QED
    BY <1>2, <2>1, <2>2, <2>3, <2>4, <2>5
<1> QED
  BY <1>1, <1>2, <1>4, <1>5, <1>6, OneShare

\* Who gives is written before the coins are somewhere else.
LEMMA GiveCoinsShares ==
    ASSUME CInv, GInv', NEW p \in Players, NEW q \in Players, NEW n \in Nat, GiveCoins(p, q, n)
    PROVE  CInv'
<1> DEFINE s == Spend(coins, p, n)
<1>1. /\ TypeOK /\ TypeOK' /\ todo = <<>> /\ file' = file /\ online' = online
      /\ coins \in [Players -> Record] /\ online \subseteq Players /\ p # q /\ p \in linked
      /\ p \in online /\ q \in online
      /\ coins' = Earn(s, q, n) /\ n <= coins[p].gold
      /\ todo' = SaveChar(p, s, linked)
      /\ loose' = loose /\ guild' = guild /\ made' = made
  BY DEF CInv, GInv, TypeOK, GiveCoins, Commands, disk
<1>2. PICK lo \in Shares : /\ \A x \in Players : Wealth(file[x]) <= lo[x]
                           /\ \A x \in online : Wealth(coins[x]) <= lo[x]
                           /\ Total(lo, Players) + loose + guild <= Limit
  BY <1>1, Rest
<1>3. /\ \A x \in Players : coins[x].gold \in Nat /\ coins[x].bank \in Nat /\ Wealth(coins[x]) \in Nat
      /\ \A x \in Players : Wealth(file[x]) \in Nat
      /\ \A x \in Players : lo[x] \in Nat
      /\ loose \in Nat /\ guild \in Nat /\ Limit \in Nat /\ Total(lo, Players) \in Int
  BY <1>1, Numbers, TotalNat DEF Shares
<1>4. /\ s[p].gold = coins[p].gold - n /\ s[p].bank = coins[p].bank
      /\ \A x \in Players \ {p} : s[x] = coins[x]
      /\ s \in [Players -> Record]
  BY SMTT(30), <1>1, <1>3 DEF Spend, Record
<1> HIDE DEF s
<1>5. /\ coins'[q].gold = coins[q].gold + n /\ coins'[q].bank = coins[q].bank
      /\ \A x \in Players \ {q} : coins'[x] = s[x]
  BY <1>1, <1>4 DEF Earn, Record
<1>6. /\ Wealth(s[p]) = Wealth(coins[p]) - n /\ Wealth(s[p]) \in Nat
      /\ Wealth(coins'[q]) = Wealth(coins[q]) + n
      /\ coins'[p] = s[p]
      /\ \A x \in Players \ {p, q} : coins'[x] = coins[x]
  BY SMTT(30), <1>1, <1>3, <1>4, <1>5 DEF Wealth
<1> DEFINE k == [lo EXCEPT ![p] = lo[p] - n]
           m == [k EXCEPT ![q] = lo[q] + n]
<1>7. Wealth(coins[p]) <= lo[p] /\ lo[p] - n \in Nat /\ lo[q] + n \in Nat
  BY SMTT(30), <1>1, <1>2, <1>3, <1>6
<1>8. k \in Shares /\ Total(k, Players) = Total(lo, Players) - lo[p] + (lo[p] - n)
  <2>1. PICK j \in Nat : j = lo[p] - n
    BY <1>7
  <2> QED
    BY <2>1, ShareChanges
<1>9. k[p] = lo[p] - n /\ \A x \in Players \ {p} : k[x] = lo[x]
  BY DEF Shares
<1> HIDE DEF k
<1>10. m \in Shares /\ Total(m, Players) = Total(k, Players) - k[q] + (lo[q] + n)
  <2>1. PICK j \in Nat : j = lo[q] + n
    BY <1>7
  <2> QED
    BY <1>8, <2>1, ShareChanges
<1>11. m[q] = lo[q] + n /\ m[p] = lo[p] - n /\ \A x \in Players \ {p, q} : m[x] = lo[x]
  BY <1>1, <1>8, <1>9 DEF Shares
<1> HIDE DEF m
<1>12. Total(m, Players) = Total(lo, Players)
  BY <1>1, <1>3, <1>8, <1>9, <1>10
<1>13. \A x \in online' : Wealth(coins'[x]) <= m[x]
  <2>1. Wealth(coins'[p]) <= m[p]
    BY <1>3, <1>6, <1>7, <1>11
  <2>2. Wealth(coins'[q]) <= m[q]
    BY <1>1, <1>2, <1>3, <1>6, <1>11
  <2>3. \A x \in online \ {p, q} : Wealth(coins'[x]) <= m[x]
    BY <1>1, <1>2, <1>6, <1>11
  <2> QED
    BY <1>1, <2>1, <2>2, <2>3
<1>14. Covered(todo', m) /\ Rewrites(todo', p)
  <2>1. Wealth(s[p]) <= m[p]
    BY <1>3, <1>6, <1>7, <1>11
  <2> QED
    BY <1>1, <2>1, SaveCharCovered
<1>15. Covered(todo', lo)
  <2>1. Wealth(s[p]) <= lo[p]
    BY <1>3, <1>6, <1>7
  <2> QED
    BY <1>1, <2>1, SaveCharCovered
<1>16. \A x \in Players : Wealth(file[x]) <= m[x] \/ Rewrites(todo', x)
  <2>1. Wealth(file[q]) <= m[q]
    BY <1>2, <1>3, <1>11
  <2> QED
    BY <1>2, <1>11, <1>14, <2>1
<1>17. Limit' = Limit
  BY <1>1 DEF Limit
<1>18. Total(lo, Players) + guild' <= Limit' /\ Total(m, Players) + loose' + guild' <= Limit'
  <2>1. \A t \in Int, l, g, a \in Nat : t + l + g <= a => t + g <= a
    OBVIOUS
  <2> HIDE DEF Limit
  <2> QED
    BY <1>1, <1>2, <1>3, <1>12, <1>17, <2>1
<1> QED
  BY <1>1, <1>2, <1>10, <1>13, <1>14, <1>15, <1>16, <1>18, NewShares

\* The coins go into the corpse, and out of the file if there is a link.
LEMMA DieShares ==
    ASSUME CInv, GInv', NEW p \in Players, Die(p)
    PROVE  CInv'
<1> DEFINE g == coins[p].gold
           d == Killed(p)
           c == SaveChar(p, d, linked)
           z == ZeroRent(p)
           o == SaveObj(p, held')
<1>1. /\ TypeOK /\ TypeOK' /\ todo = <<>> /\ file' = file /\ online' = online \ {p}
      /\ coins \in [Players -> Record] /\ online \subseteq Players /\ p \in online
      /\ held' \in [Items -> SUBSET Holders] /\ held \in [Items -> SUBSET Holders]
      /\ coins' = Broke(p) /\ loose' = loose + g /\ guild' = guild
      /\ todo' = z \o c \o o \o c
      /\ made' = IF p \in linked THEN made ELSE made + g
  BY DEF CInv, GInv, TypeOK, Die, Leaves, disk
<1>2. PICK lo \in Shares : /\ \A x \in Players : Wealth(file[x]) <= lo[x]
                           /\ \A x \in online : Wealth(coins[x]) <= lo[x]
                           /\ Total(lo, Players) + loose + guild <= Limit
  BY <1>1, Rest
<1>3. /\ g \in Nat /\ coins[p].bank \in Nat /\ Wealth(coins[p]) = g + coins[p].bank
      /\ Wealth(coins[p]) <= lo[p]
      /\ \A x \in Players : lo[x] \in Nat
      /\ loose \in Nat /\ guild \in Nat /\ made \in Nat /\ Limit \in Nat
      /\ Total(lo, Players) \in Int /\ Purse \in Nat /\ Cardinality(Players) \in Nat
  BY <1>1, <1>2, Numbers, TotalNat DEF Shares, Wealth
<1>4. d \in [Players -> Record] /\ Wealth(d[p]) = coins[p].bank
  <2>1. d[p].gold = coins[p].gold - coins[p].gold /\ d[p].bank = coins[p].bank
    BY <1>1 DEF Killed, Spend, Record
  <2>2. d \in [Players -> Record]
    BY <1>1, <1>3 DEF Killed, Spend, Record
  <2> QED
    BY <1>3, <2>1, <2>2 DEF Wealth
<1>5. /\ z \in Seq(Writes) /\ c \in Seq(Writes) /\ o \in Seq(Writes)
  <2>1. z \in Seq(Writes) /\ o \in Seq(Writes)
    BY <1>1, SaveObjType
  <2>2. c \in Seq(Writes)
    BY <1>4, SaveCharType
  <2> QED
    BY <2>1, <2>2
<1>6. \A x \in online' : x # p /\ x \in online /\ coins'[x] = coins[x]
  BY <1>1 DEF Broke
<1>7. ASSUME NEW m, coins[p].bank <= m[p]
      PROVE  Covered(todo', m) /\ (p \in linked => Rewrites(todo', p))
  <2>1. Covered(z, m) /\ Covered(o, m) /\ Covered(c, m) /\ (p \in linked => Rewrites(c, p))
    BY <1>4, <1>7, ObjectFilesCovered, SaveCharCovered
  <2> HIDE DEF z, o, c
  <2>2. z \o c \in Seq(Writes) /\ Covered(z \o c, m) /\ (p \in linked => Rewrites(z \o c, p))
    BY <1>5, <2>1, CoveredConcat
  <2>3. z \o c \o o \in Seq(Writes) /\ Covered(z \o c \o o, m)
        /\ (p \in linked => Rewrites(z \o c \o o, p))
    <3>1. PICK zc \in Seq(Writes) : zc = z \o c
      BY <2>2
    <3>2. /\ Covered(zc, m) /\ Covered(o, m) => Covered(zc \o o, m)
          /\ Rewrites(zc, p) \/ Rewrites(o, p) => Rewrites(zc \o o, p)
      BY <1>5, CoveredConcat
    <3>3. zc \o o \in Seq(Writes)
      BY <1>5
    <3> QED
      BY <2>1, <2>2, <3>1, <3>2, <3>3
  <2>4. Covered(z \o c \o o \o c, m) /\ (p \in linked => Rewrites(z \o c \o o \o c, p))
    BY <1>5, <2>1, <2>3, CoveredConcat
  <2> QED
    BY <1>1, <2>4
<1> HIDE DEF g, d, c, z, o
<1>8. coins[p].bank <= lo[p]
  BY <1>3
<1>9. CASE p \notin linked
  <2>1. Limit' = Limit + g
    BY <1>1, <1>3, <1>9 DEF Limit
  <2>2. \A t \in Int, l, k, a \in Nat : t + l + k <= a => t + (l + g) + k <= a + g
    BY <1>3
  <2>3. Total(lo, Players) + loose' + guild' <= Limit'
    <3> HIDE DEF Limit
    <3> QED
      BY <1>1, <1>2, <1>3, <2>1, <2>2
  <2>4. Covered(todo', lo)
    BY <1>7, <1>8
  <2> QED
    BY <1>1, <1>2, <1>6, <2>3, <2>4, OneShare
<1>10. CASE p \in linked
  <2> DEFINE m == [lo EXCEPT ![p] = lo[p] - g]
  <2>1. lo[p] - g \in Nat /\ coins[p].bank <= lo[p] - g
    BY <1>3
  <2>2. m \in Shares /\ Total(m, Players) = Total(lo, Players) - lo[p] + (lo[p] - g)
    <3>1. PICK j \in Nat : j = lo[p] - g
      BY <2>1
    <3> QED
      BY <3>1, ShareChanges
  <2>3. m[p] = lo[p] - g /\ \A x \in Players \ {p} : m[x] = lo[x]
    BY DEF Shares
  <2> HIDE DEF m
  <2>4. Total(m, Players) = Total(lo, Players) - g
    BY <1>3, <2>2
  <2>5. Limit' = Limit
    BY <1>1, <1>10 DEF Limit
  <2>6. Total(m, Players) + loose' + guild' <= Limit' /\ Total(lo, Players) + guild' <= Limit'
    <3>1. \A t \in Int, l, k, a \in Nat : t + l + k <= a => t - g + (l + g) + k <= a /\ t + k <= a
      BY <1>3
    <3> HIDE DEF Limit
    <3> QED
      BY <1>1, <1>2, <1>3, <2>4, <2>5, <3>1
  <2>7. Covered(todo', m) /\ Covered(todo', lo) /\ Rewrites(todo', p)
    <3>1. coins[p].bank <= m[p]
      BY <2>1, <2>3
    <3> QED
      BY <1>7, <1>8, <1>10, <3>1
  <2>8. \A x \in online' : Wealth(coins'[x]) <= m[x]
    BY <1>1, <1>2, <1>6, <2>3
  <2>9. \A x \in Players : Wealth(file[x]) <= m[x] \/ Rewrites(todo', x)
    BY <1>2, <2>3, <2>7
  <2> QED
    BY <1>1, <1>2, <2>2, <2>6, <2>7, <2>8, <2>9, NewShares
<1> QED
  BY <1>9, <1>10

\* A write makes the file what the queue said it would be.
LEMMA WriteFileShares == ASSUME CInv, GInv', WriteFile PROVE CInv'
<1> DEFINE w == todo[1]
<1>1. /\ todo # <<>> /\ todo \in Seq(Writes) /\ 1 \in DOMAIN todo /\ w \in Writes
      /\ w = Head(todo)
  BY DEF CInv, GInv, WriteFile, TypeOK
<1>2. /\ w.to \in {"rent", "char", "room"}
      /\ w.to = "char" => w.who \in Players /\ w.what \in Record
  BY <1>1 DEF Writes
<1>3. /\ \A k \in DOMAIN todo' : k + 1 \in DOMAIN todo /\ todo'[k] = todo[k + 1]
      /\ \A k \in DOMAIN todo : k # 1 => k - 1 \in DOMAIN todo' /\ todo'[k - 1] = todo[k]
  BY <1>1 DEF WriteFile
<1>4. /\ coins' = coins /\ loose' = loose /\ online' = online /\ guild' = guild /\ made' = made
      /\ file \in [Players -> Record] /\ TypeOK
  BY DEF CInv, GInv, TypeOK, WriteFile, memory
<1>5. file' = IF w.to = "char" THEN [file EXCEPT ![w.who] = w.what] ELSE file
  <2>1. file' = IF Head(todo).to = "char" THEN [file EXCEPT ![Head(todo).who] = Head(todo).what]
                ELSE file
    BY DEF WriteFile
  <2> QED
    BY <1>1, <2>1
<1>w. w = todo[1]
  OBVIOUS
<1> HIDE DEF w
<1>6. Limit' = Limit
  BY <1>4 DEF Limit
<1>7. ASSUME NEW lo, Covered(todo, lo)
      PROVE  Covered(todo', lo) /\ (w.to = "char" => Wealth(w.what) <= lo[w.who])
  BY <1>1, <1>3, <1>7, <1>w DEF Covered
<1>8. \A x \in Players : file'[x] = IF w.to = "char" /\ w.who = x THEN w.what ELSE file[x]
  BY <1>2, <1>4, <1>5
<1>9. ASSUME NEW x \in Players, Rewrites(todo, x)
      PROVE  Rewrites(todo', x) \/ (w.to = "char" /\ w.who = x)
  BY <1>1, <1>3, <1>9, <1>w DEF Rewrites
<1>10. ASSUME NEW lo \in Shares, Low(lo)
       PROVE  Low(lo)'
  <2>1. Covered(todo', lo) /\ (w.to = "char" => Wealth(w.what) <= lo[w.who])
    BY <1>7, <1>10 DEF Low
  <2>2. ASSUME NEW x \in Players
        PROVE  Wealth(file'[x]) <= lo[x] \/ Rewrites(todo', x)
    <3>1. CASE w.to = "char" /\ w.who = x
      BY <1>8, <2>1, <3>1
    <3>2. CASE ~(w.to = "char" /\ w.who = x)
      BY <1>8, <1>9, <1>10, <3>2 DEF Low
    <3> QED
      BY <3>1, <3>2
  <2> QED
    BY <1>4, <1>6, <1>10, <2>1, <2>2 DEF Low
<1>11. ASSUME NEW hi \in Shares, High(hi)
       PROVE  High(hi)'
  <2>1. Covered(todo', hi) /\ (w.to = "char" => Wealth(w.what) <= hi[w.who])
    BY <1>7, <1>11 DEF High
  <2>2. \A x \in Players : Wealth(file'[x]) <= hi[x]
    BY <1>8, <1>11, <2>1 DEF High
  <2> QED
    BY <1>4, <1>6, <1>11, <2>1, <2>2 DEF High
<1> QED
  BY <1>10, <1>11 DEF CInv

\* After a crash the share of a player is what the file may have said.
LEMMA CrashShares == ASSUME CInv, GInv', Crash PROVE CInv'
<1>1. PICK hi \in Shares : High(hi)
  BY DEF CInv
<1>2. /\ todo' = <<>> /\ online' = {} /\ loose' = 0 /\ file' = file /\ guild' = guild
      /\ made' = made
  BY DEF Crash, disk
<1>3. Covered(todo', hi)
  BY <1>2 DEF Covered
<1>4. Limit' = Limit
  BY <1>2 DEF Limit
<1>5. \A x \in Players : Wealth(file[x]) <= hi[x]
  BY <1>1 DEF High
<1>6. Total(hi, Players) + guild <= Limit /\ Total(hi, Players) \in Int
  BY <1>1, TotalNat DEF High
<1>7. Total(hi, Players) + loose' + guild' <= Limit'
  BY <1>2, <1>4, <1>6
<1> QED
  BY <1>2, <1>3, <1>5, <1>7, OneShare

LEMMA CoinsInit == ASSUME Init PROVE CInv
<1>1. GInv
  BY GInit
<1> DEFINE lo == [p \in Players |-> Purse]
<1>2. lo \in Shares /\ \A p \in Players : lo[p] = Purse
  BY GoodsAssumption DEF Shares
<1> HIDE DEF lo
<1>3. Total(lo, Players) = Cardinality(Players) * Purse
  BY <1>2, GoodsAssumption, TotalConstant
<1>4. /\ online = {} /\ todo = <<>> /\ loose = 0 /\ guild = 0 /\ made = 0
      /\ \A p \in Players : Wealth(file[p]) = Purse
  BY GoodsAssumption DEF Init, Wealth
<1>5. Cardinality(Players) * Purse \in Int
  BY GoodsAssumption, FS_CardinalityType
<1>6. Limit = Total(lo, Players)
  BY <1>3, <1>4, <1>5 DEF Limit
<1>7. Covered(todo, lo)
  BY <1>4 DEF Covered
<1>8. Total(lo, Players) \in Int
  BY <1>2, TotalNat
<1>9. Low(lo)
  BY <1>2, <1>4, <1>6, <1>7, <1>8, GoodsAssumption DEF Low
<1>10. High(lo)
  BY <1>2, <1>4, <1>6, <1>7, <1>8, GoodsAssumption DEF High
<1> QED
  BY <1>1, <1>2, <1>9, <1>10 DEF CInv

LEMMA CoinsStep == ASSUME CInv, [Next]_vars PROVE CInv'
<1>1. GInv'
  BY GStep DEF CInv
<1>2. CASE UNCHANGED vars
  <2>1. ASSUME NEW lo \in Shares
        PROVE  (Low(lo) => Low(lo)') /\ (High(lo) => High(lo)')
    BY <1>2 DEF Low, High, Limit, vars
  <2> QED
    BY <1>1, <2>1 DEF CInv
<1>3. \A c \in Prices : c \in Nat
  BY GoodsAssumption DEF Prices
<1>4. \A n \in 1..MaxMade : n \in Nat
  BY GoodsAssumption
<1>5. ASSUME NEW p \in Players, NEW S \in SUBSET Items,
             Get(p, S) \/ Drop(p, S) \/ GiveMobile(p, S) \/ GetSome(p, S) \/ PutSome(p, S)
      PROVE  CInv'
  BY <1>1, <1>5, ObjectsMove
<1>6. ASSUME NEW p \in Players, NEW i \in Items,
             GetStored(p, i) \/ DropStored(p, i) \/ Disarm(p, i) \/ UseUp(p, i)
      PROVE  CInv'
  BY <1>1, <1>6, ObjectsMove
<1>7. ASSUME NEW p \in Players, NEW i \in Items, NEW c \in Prices, Sell(p, i, c) \/ Buy(p, i, c)
      PROVE  CInv'
  BY <1>1, <1>3, <1>7, CoinsGained, CoinsKept
<1>8. ASSUME NEW p \in Players, NEW n \in 1..MaxMade,
             DropCoins(p, n) \/ GuildDeposit(p, n) \/ GuildWithdraw(p, n)
             \/ Deposit(p, n) \/ Withdraw(p, n)
      PROVE  CInv'
  BY <1>1, <1>4, <1>8, CoinsDoubtful, CoinsGained, CoinsKept
<1>9. ASSUME NEW p \in Players, NEW q \in Players \cup {"mobile"}, NEW S \in SUBSET Items,
             GiveAll(p, q, S)
      PROVE  CInv'
  BY <1>1, <1>9, ObjectsMove
<1>10. ASSUME NEW p \in Players, NEW q \in Players, NEW S \in SUBSET Items, Give(p, q, S)
       PROVE  CInv'
  BY <1>1, <1>10, ObjectsMove
<1>11. ASSUME NEW p \in Players, NEW q \in Players, NEW i \in Items, Steal(p, q, i)
       PROVE  CInv'
  BY <1>1, <1>11, ObjectsMove
<1>12. ASSUME NEW p \in Players, NEW q \in Players, NEW n \in 1..MaxMade,
              GiveCoins(p, q, n) \/ StealCoins(p, q, n)
       PROVE  CInv'
  BY <1>1, <1>4, <1>12, GiveCoinsShares, CoinsGained
<1>13. ASSUME NEW p \in Players, NEW c \in Prices, Enter(p, c)
       PROVE  CInv'
  BY <1>1, <1>3, <1>13, CoinsKept
<1>14. ASSUME NEW p \in Players, GetCoins(p)
       PROVE  CInv'
  BY <1>1, <1>14, CoinsGained
<1>15. ASSUME NEW p \in Players, Reconnect(p)
       PROVE  CInv'
  BY <1>1, <1>15, CoinsKept
<1>16. ASSUME NEW p \in Players, Save(p) \/ LoseLink(p)
       PROVE  CInv'
  BY <1>1, <1>16, ObjectsMove
<1>17. ASSUME NEW p \in Players, Rent(p) \/ ForceRent(p) \/ EvictedWithoutRent(p) \/ Quit(p)
       PROVE  CInv'
  BY <1>1, <1>17, CoinsLeft
<1>18. ASSUME NEW p \in Players, Die(p)
       PROVE  CInv'
  BY <1>1, <1>18, DieShares
<1>19. CASE WriteFile \/ Crash
  BY <1>1, <1>19, WriteFileShares, CrashShares
<1> QED
  BY <1>2, <1>5, <1>6, <1>7, <1>8, <1>9, <1>10, <1>11, <1>12, <1>13, <1>14, <1>15, <1>16,
     <1>17, <1>18, <1>19 DEF Next

\* Wherever the game stops, players, rooms and guilds together have no more
\* coins than they had at first and than came into doubt.
THEOREM CoinsNeverDoubled == Spec => []CoinsNotDoubled
<1>1. Init => CInv
  BY CoinsInit
<1>2. CInv /\ [Next]_vars => CInv'
  BY CoinsStep
<1>3. ASSUME CInv PROVE CoinsNotDoubled
  <2>1. SUFFICES ASSUME todo = <<>>
                 PROVE  Worth <= Limit
    BY DEF CoinsNotDoubled, AtRest, Limit
  <2>2. PICK lo \in Shares : /\ \A p \in Players : Wealth(file[p]) <= lo[p]
                             /\ \A p \in online : Wealth(coins[p]) <= lo[p]
                             /\ Total(lo, Players) + loose + guild <= Limit
    BY <1>3, <2>1, Rest
  <2>3. \A p \in Players : Purses[p] \in Int /\ lo[p] \in Int /\ Purses[p] <= lo[p]
    BY <1>3, <2>2, Numbers DEF CInv, GInv, Purses, Shares
  <2>4. PICK f : f = Purses
    OBVIOUS
  <2>5. Total(f, Players) <= Total(lo, Players)
    BY <2>3, <2>4, GoodsAssumption, TotalMonotone
  <2>6. Total(f, Players) \in Int /\ Total(lo, Players) \in Int
    BY <2>3, <2>4, GoodsAssumption, TotalType
  <2>7. Worth = Total(f, Players) + loose + guild
    BY <2>4 DEF Worth, MapThenSumSet, MapThenFoldSet, Total, Adds, Some
  <2>8. loose \in Nat /\ guild \in Nat /\ Limit \in Nat
    BY <1>3, Numbers DEF CInv, GInv
  <2> HIDE DEF Limit
  <2>9. \A t, u \in Int, l, g, a \in Nat : t <= u /\ u + l + g <= a => t + l + g <= a
    OBVIOUS
  <2> QED
    BY <2>2, <2>5, <2>6, <2>7, <2>8, <2>9
<1> QED
  BY <1>1, <1>2, <1>3, PTL DEF Spec

=============================================================================
