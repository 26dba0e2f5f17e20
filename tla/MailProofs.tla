----------------------------- MODULE MailProofs -----------------------------
(***************************************************************************)
(* Proofs about the post office's file, for a game that stops only between *)
(* two commands: the index and the list of free blocks that the commands   *)
(* maintain are what a scan of the file would find, every block in use     *)
(* belongs to one letter, and the whole implements the mailboxes.          *)
(***************************************************************************)
EXTENDS Mail, FiniteSetTheorems, WellFoundedInduction, TLAPS

-----------------------------------------------------------------------------
\* Induction over the subsets of a finite set.
LEMMA SubsetInduction ==
    ASSUME NEW S, IsFiniteSet(S), NEW Q,
           \A T \in SUBSET S : (\A U \in SUBSET T : U # T => U \in Q) => T \in Q
    PROVE  \A T \in SUBSET S : T \in Q
<1> DEFINE B == (SUBSET S) \ Q
<1>1. SUFFICES ASSUME B # {} PROVE FALSE
  OBVIOUS
<1>2. IsWellFoundedOn(StrictSubsetOrdering(S), FiniteSubsetsOf(S))
  BY FS_StrictSubsetOrderingWellFounded
<1>3. FiniteSubsetsOf(S) = SUBSET S
  BY FS_FiniteSubsetsOfFinite
<1>4. PICK T \in B : \A U \in B : ~ (<<U, T>> \in StrictSubsetOrdering(S))
  <2>1. B \subseteq FiniteSubsetsOf(S)
    BY <1>3
  <2> HIDE DEF B
  <2>2. \E T \in B : \A U \in B : ~ (<<U, T>> \in StrictSubsetOrdering(S))
    BY <1>1, <1>2, <2>1, WFMin
  <2> QED
    BY <2>2
<1>5. \A U \in SUBSET T : U # T => U \in Q
  BY <1>4 DEF StrictSubsetOrdering
<1> QED
  BY <1>4, <1>5

-----------------------------------------------------------------------------
(* Lists: recursive functions are defined on an initial segment of the     *)
(* naturals, and what holds of them is proved by induction on it.          *)

\* Induction on an initial segment, with a set for the property.
LEMMA SegmentInduction ==
    ASSUME NEW n \in Nat, NEW Q, 0 \in Q, \A i \in 1..n : i - 1 \in Q => i \in Q
    PROVE  \A i \in 0..n : i \in Q
<1> DEFINE T(i) == 1..i
           R == {s \in SUBSET (1..n) : \A i \in 0..n : s = T(i) => i \in Q}
<1>1. IsFiniteSet(1..n)
  BY FS_Interval
<1>2. ASSUME NEW s \in SUBSET (1..n), \A u \in SUBSET s : u # s => u \in R
      PROVE  s \in R
  <2> SUFFICES ASSUME NEW i \in 0..n, s = T(i) PROVE i \in Q
    OBVIOUS
  <2>1. CASE i = 0
    BY <2>1
  <2>2. CASE i # 0
    <3>1. i - 1 \in 0..n /\ i \in 1..n
      BY <2>2
    <3>2. T(i - 1) \in SUBSET s /\ T(i - 1) # s
      BY <3>1
    <3>3. T(i - 1) \in R
      BY <1>2, <3>2
    <3>4. i - 1 \in Q
      BY <3>1, <3>3
    <3> QED
      BY <3>1, <3>4
  <2> QED
    BY <2>1, <2>2
<1> HIDE DEF R
<1>3. \A s \in SUBSET (1..n) : s \in R
  BY <1>1, <1>2, SubsetInduction
<1>4. \A i \in 0..n : T(i) \in R
  BY <1>3
<1> QED
  BY <1>4 DEF R

\* A function that starts with b and takes the steps F.
Runs(f, n, b, F) == f[0] = b /\ \A i \in 1..n : f[i] = F[i][f[i - 1]]

LEMMA RunExists ==
    ASSUME NEW n \in Nat, NEW W, NEW b \in W, NEW F, \A w \in W, i \in 1..n : F[i][w] \in W
    PROVE  \E f \in [0..n -> W] : Runs(f, n, b, F)
<1> DEFINE Q == {i \in 0..n : \E f \in [0..i -> W] : Runs(f, i, b, F)}
<1>1. 0 \in Q
  <2>1. [j \in 0..0 |-> b] \in [0..0 -> W] /\ Runs([j \in 0..0 |-> b], 0, b, F)
    BY DEF Runs
  <2> QED
    BY <2>1
<1>2. ASSUME NEW i \in 1..n, i - 1 \in Q
      PROVE  i \in Q
  <2>1. PICK f \in [0..(i - 1) -> W] : Runs(f, i - 1, b, F)
    BY <1>2
  <2> DEFINE g == [j \in 0..i |-> IF j = i THEN F[i][f[i - 1]] ELSE f[j]]
  <2>2. g \in [0..i -> W]
    BY <2>1
  <2>3. Runs(g, i, b, F)
    BY <2>1 DEF Runs
  <2> QED
    BY <2>2, <2>3
<1> HIDE DEF Q
<1>3. \A i \in 1..n : i - 1 \in Q => i \in Q
  BY <1>2
<1>4. \A i \in 0..n : i \in Q
  BY <1>1, <1>3, SegmentInduction
<1>5. n \in Q
  BY <1>4
<1> QED
  BY <1>5 DEF Q

\* What stands in two lists one after the other.
LEMMA ConcatSet ==
    ASSUME NEW X, NEW s \in Seq(X), NEW t \in Seq(X)
    PROVE  s \o t \in Seq(X) /\ Range(s \o t) = Range(s) \cup Range(t)
<1>1. s \o t \in Seq(X)
  OBVIOUS
<1> PICK u : u = s \o t
  OBVIOUS
<1> PICK m \in Nat : m = Len(s)
  OBVIOUS
<1> PICK n \in Nat : n = Len(t)
  OBVIOUS
<1>2. /\ DOMAIN s = 1..m /\ DOMAIN t = 1..n /\ DOMAIN u = 1..(m + n)
      /\ \A i \in 1..m : u[i] = s[i]
      /\ \A i \in 1..n : u[m + i] = t[i]
  <2>1. Len(u) = m + n
    OBVIOUS
  <2>2. DOMAIN s = 1..m /\ DOMAIN t = 1..n
    OBVIOUS
  <2>3. DOMAIN u = 1..(m + n)
    BY <1>1, <2>1
  <2>4. \A i \in 1..(m + n) : u[i] = IF i <= m THEN s[i] ELSE t[i - m]
    OBVIOUS
  <2>5. \A i \in 1..m : u[i] = s[i]
    BY <2>4
  <2>6. \A i \in 1..n : m + i \in 1..(m + n) /\ ~ (m + i <= m) /\ (m + i) - m = i
    OBVIOUS
  <2>7. \A i \in 1..n : u[m + i] = t[i]
    BY <2>4, <2>6
  <2> QED
    BY <2>2, <2>3, <2>5, <2>7
<1>3. \A i \in 1..(m + n) : i \in 1..m \/ \E j \in 1..n : i = m + j
  <2>1. ASSUME NEW i \in 1..(m + n), i \notin 1..m
        PROVE  \E j \in 1..n : i = m + j
    <3>1. i - m \in 1..n /\ i = m + (i - m)
      BY <2>1
    <3> QED
      BY <3>1
  <2> QED
    BY <2>1
<1>4. \A i \in 1..m : i \in 1..(m + n)
  OBVIOUS
<1>5. \A i \in 1..n : m + i \in 1..(m + n)
  OBVIOUS
<1>6. {u[i] : i \in 1..(m + n)} = {s[i] : i \in 1..m} \cup {t[i] : i \in 1..n}
  <2>1. ASSUME NEW i \in 1..(m + n)
        PROVE  u[i] \in {s[j] : j \in 1..m} \cup {t[j] : j \in 1..n}
    <3>1. CASE i \in 1..m
      BY <1>2, <3>1
    <3>2. CASE \E j \in 1..n : i = m + j
      BY <1>2, <3>2
    <3> QED
      BY <1>3, <3>1, <3>2
  <2>2. ASSUME NEW j \in 1..m
        PROVE  s[j] \in {u[i] : i \in 1..(m + n)}
    BY <1>2, <1>4
  <2>3. ASSUME NEW j \in 1..n
        PROVE  t[j] \in {u[i] : i \in 1..(m + n)}
    BY <1>2, <1>5
  <2>4. \A y \in {u[i] : i \in 1..(m + n)} : y \in {s[i] : i \in 1..m} \cup {t[i] : i \in 1..n}
    BY <2>1
  <2>5. \A y \in {s[i] : i \in 1..m} \cup {t[i] : i \in 1..n} : y \in {u[i] : i \in 1..(m + n)}
    BY <2>2, <2>3
  <2> QED
    BY <2>4, <2>5, Zenon
<1>7. Range(u) = {u[i] : i \in 1..(m + n)} /\ Range(s) = {s[i] : i \in 1..m}
      /\ Range(t) = {t[i] : i \in 1..n}
  BY <1>2 DEF Range
<1> QED
  BY <1>1, <1>6, <1>7

\* ... and that nothing stands there twice.
LEMMA InjectiveConcat ==
    ASSUME NEW X, NEW s \in Seq(X), NEW t \in Seq(X), IsInjective(s), IsInjective(t),
           Range(s) \cap Range(t) = {}
    PROVE  IsInjective(s \o t)
<1> PICK m \in Nat : m = Len(s)
  OBVIOUS
<1> PICK n \in Nat : n = Len(t)
  OBVIOUS
<1> PICK u : u = s \o t
  OBVIOUS
<1>1. DOMAIN s = 1..m /\ DOMAIN t = 1..n /\ DOMAIN u = 1..(m + n)
  OBVIOUS
<1>2. \A i \in 1..(m + n) : u[i] = IF i <= m THEN s[i] ELSE t[i - m]
  OBVIOUS
<1>3. \A i \in 1..m, j \in 1..n : s[i] # t[j]
  BY <1>1 DEF Range
<1>4. (\A i, j \in 1..m : s[i] = s[j] => i = j) /\ (\A i, j \in 1..n : t[i] = t[j] => i = j)
  BY <1>1 DEF IsInjective
<1>5. ASSUME NEW i \in 1..(m + n), NEW j \in 1..(m + n), u[i] = u[j]
      PROVE  i = j
  <2>1. (i <= m => i \in 1..m) /\ (~ (i <= m) => i - m \in 1..n)
    OBVIOUS
  <2>2. (j <= m => j \in 1..m) /\ (~ (j <= m) => j - m \in 1..n)
    OBVIOUS
  <2>3. CASE i <= m /\ j <= m
    BY <1>2, <1>4, <1>5, <2>1, <2>2, <2>3
  <2>4. CASE ~ (i <= m) /\ ~ (j <= m)
    <3>1. i - m = j - m
      BY <1>2, <1>4, <1>5, <2>1, <2>2, <2>4
    <3> QED
      BY <3>1
  <2>5. CASE (i <= m) # (j <= m)
    BY <1>2, <1>3, <1>5, <2>1, <2>2, <2>5
  <2> QED
    BY <2>3, <2>4, <2>5
<1>6. IsInjective(u)
  BY <1>1, <1>5 DEF IsInjective
<1> QED
  BY <1>6

-----------------------------------------------------------------------------
(* Chains.  A list of blocks each of which holds the address of the next   *)
(* is the chain that read_delete follows from its first block.             *)

Link(c, i) == IF i = Len(c) THEN LAST_BLOCK ELSE c[i + 1]

Linked(f, c) ==
    /\ c \in Seq(DOMAIN f) /\ c # <<>> /\ IsInjective(c)
    /\ \A i \in 1..Len(c) : f[c[i]].next = Link(c, i)

\* The parts of Chain.
After(f) == [k \in DOMAIN f \cup {LAST_BLOCK} |->
                IF k \in DOMAIN f /\ f[k].next \in DOMAIN f THEN f[k].next
                ELSE LAST_BLOCK]
Follows(at, f, pos) ==
    at = [n \in 1 .. Len(f) |-> IF n = 1 THEN pos ELSE After(f)[at[n - 1]]]
Cut(at, f) == [k \in {n \in 1 .. Len(f) : at[n] # LAST_BLOCK} |-> at[k]]

LEMMA ChainOf == \A f, pos : Chain(f, pos) = Cut(CHOOSE at : Follows(at, f, pos), f)
BY DEF Chain, After, Follows, Cut

\* There are no more blocks in a list without repetition than in the file.
LEMMA ShortEnough ==
    ASSUME NEW B, NEW f \in Seq(B), NEW c \in Seq(DOMAIN f), IsInjective(c)
    PROVE  Len(c) <= Len(f)
<1> PICK n \in Nat : n = Len(f)
  OBVIOUS
<1> PICK m \in Nat : m = Len(c)
  OBVIOUS
<1>1. DOMAIN f = 1..n /\ c \in [1..m -> 1..n]
  OBVIOUS
<1>2. c \in Injection(1..m, 1..n)
  BY <1>1 DEF Injection
<1>3. IsFiniteSet(1..n) /\ Cardinality(1..n) = n /\ Cardinality(1..m) = m
  <2>1. ASSUME NEW k \in Nat
        PROVE  IsFiniteSet(1..k) /\ Cardinality(1..k) = k
    <3>1. 1 \in Int /\ k \in Int
      OBVIOUS
    <3>2. IsFiniteSet(1..k) /\ Cardinality(1..k) = IF 1 > k THEN 0 ELSE k - 1 + 1
      BY <3>1, FS_Interval
    <3> QED
      BY <3>2
  <2> QED
    BY <2>1
<1>4. Cardinality(1..m) <= Cardinality(1..n)
  BY <1>2, <1>3, FS_Injection
<1> QED
  BY <1>3, <1>4

LEMMA ChainIs ==
    ASSUME NEW B, NEW f \in Seq(B), NEW c, Linked(f, c)
    PROVE  Chain(f, c[1]) = c
<1> PICK n \in Nat : n = Len(f)
  OBVIOUS
<1>0. c \in Seq(DOMAIN f) /\ c # <<>> /\ IsInjective(c)
  BY DEF Linked
<1> PICK m \in Nat : m = Len(c)
  BY <1>0
<1>1. /\ DOMAIN f = 1..n /\ DOMAIN c = 1..m /\ m >= 1
      /\ \A i \in 1..m : c[i] \in 1..n
  BY <1>0
<1>2. m <= n
  BY <1>0, ShortEnough
<1>3. \A i \in 1..m : f[c[i]].next = IF i = m THEN 0 ELSE c[i + 1]
  BY DEF Linked, Link, LAST_BLOCK
<1> DEFINE A == [i \in 1..n |-> IF i <= m THEN c[i] ELSE 0]
<1>4. \A k \in 0..n : After(f)[k] = IF k \in 1..n /\ f[k].next \in 1..n THEN f[k].next ELSE 0
  <2>1. DOMAIN f \cup {LAST_BLOCK} = 0..n
    BY <1>1 DEF LAST_BLOCK
  <2> QED
    BY <1>1, <2>1 DEF After, LAST_BLOCK
<1>5. A[1] = c[1]
  BY <1>1, <1>2
<1>6. ASSUME NEW i \in 2..n
      PROVE  A[i] = After(f)[A[i - 1]]
  <2>1. i - 1 \in 1..n /\ i \in 1..n
    OBVIOUS
  <2>2. CASE i - 1 <= m
    <3>1. A[i - 1] = c[i - 1] /\ i - 1 \in 1..m
      BY <2>1, <2>2
    <3>2. f[c[i - 1]].next = IF i - 1 = m THEN 0 ELSE c[i]
      BY <1>3, <3>1
    <3>3. c[i - 1] \in 1..n
      BY <1>1, <3>1
    <3>4. CASE i - 1 = m
      BY <1>4, <3>1, <3>2, <3>3, <3>4
    <3>5. CASE i - 1 # m
      <4>1. i \in 1..m
        BY <3>1, <3>5
      <4>2. c[i] \in 1..n /\ A[i] = c[i]
        BY <1>1, <4>1
      <4>3. f[c[i - 1]].next = c[i]
        BY <3>2, <3>5
      <4>4. After(f)[c[i - 1]] = c[i]
        <5>1. c[i - 1] \in 0..n
          BY <3>3
        <5> QED
          BY <1>4, <3>3, <4>2, <4>3, <5>1
      <4> QED
        BY <3>1, <4>2, <4>4, Zenon
    <3> QED
      BY <3>4, <3>5
  <2>3. CASE ~ (i - 1 <= m)
    <3>1. A[i - 1] = 0 /\ A[i] = 0
      BY <2>1, <2>3
    <3> QED
      BY <1>4, <3>1
  <2> QED
    BY <2>2, <2>3
<1>7. Follows(A, f, c[1])
  <2>1. ASSUME NEW i \in 1..n
        PROVE  A[i] = IF i = 1 THEN c[1] ELSE After(f)[A[i - 1]]
    <3>1. CASE i = 1
      BY <1>5, <3>1
    <3>2. CASE i # 1
      <4>1. i \in 2..n
        BY <3>2
      <4>2. A[i] = After(f)[A[i - 1]]
        BY <1>6, <4>1
      <4> QED
        BY <3>2, <4>2, Zenon
    <3> QED
      BY <3>1, <3>2
  <2>2. A = [i \in 1..n |-> A[i]]
    OBVIOUS
  <2> HIDE DEF A
  <2> QED
    BY <2>1, <2>2 DEF Follows
<1> PICK at : at = CHOOSE t : Follows(t, f, c[1])
  OBVIOUS
<1>8. Follows(at, f, c[1])
  <2> HIDE DEF A
  <2> QED
    BY <1>7, Zenon
<1>9. at = [i \in 1..n |-> at[i]] /\ \A i \in 1..n : at[i] = IF i = 1 THEN c[1] ELSE After(f)[at[i - 1]]
  BY <1>8 DEF Follows
<1>10. \A i \in 1..n : at[i] = A[i]
  <2> DEFINE Q == {i \in 0..n : i = 0 \/ at[i] = A[i]}
  <2>1. 0 \in Q
    OBVIOUS
  <2> HIDE DEF A
  <2>2. ASSUME NEW i \in 1..n, i - 1 \in Q
        PROVE  i \in Q
    <3>0. i \in 0..n
      OBVIOUS
    <3>1. CASE i = 1
      <4>1. at[i] = c[1]
        BY <1>9, <3>1
      <4>2. at[i] = A[i]
        BY <1>5, <3>1, <4>1, Zenon
      <4> QED
        BY <3>0, <4>2
    <3>2. CASE i # 1
      <4>1. i - 1 # 0 /\ i \in 2..n
        BY <3>2
      <4>2. at[i - 1] = A[i - 1]
        BY <2>2, <4>1
      <4>3. at[i] = After(f)[at[i - 1]]
        BY <1>9, <3>2
      <4>4. at[i] = A[i]
        BY <1>6, <4>1, <4>2, <4>3
      <4> QED
        BY <3>0, <4>4
    <3> QED
      BY <3>1, <3>2
  <2>3. \A i \in 1..n : i - 1 \in Q => i \in Q
    BY <2>2
  <2> HIDE DEF Q
  <2>4. \A i \in 0..n : i \in Q
    BY <2>1, <2>3, SegmentInduction
  <2> QED
    BY <2>4 DEF Q
<1>11. {i \in 1..n : at[i] # LAST_BLOCK} = 1..m
  <2>1. ASSUME NEW i \in 1..n
        PROVE  at[i] # 0 <=> i <= m
    BY <1>1, <1>10
  <2>2. \A i \in 1..m : i \in 1..n
    BY <1>2
  <2> QED
    BY <2>1, <2>2 DEF LAST_BLOCK
<1>12. \A i \in 1..m : at[i] = c[i]
  BY <1>2, <1>10
<1>13. Cut(at, f) = [i \in 1..m |-> c[i]]
  BY <1>11, <1>12 DEF Cut
<1>14. c = [i \in 1..m |-> c[i]]
  BY <1>0
<1>15. Chain(f, c[1]) = Cut(at, f)
  BY ChainOf
<1> QED
  BY <1>13, <1>14, <1>15, Zenon

-----------------------------------------------------------------------------
(* Letters.  The list c holds the letter l to p, piece by piece.           *)

Spelled(f, c, p, l) ==
    /\ c \in Seq(DOMAIN f) /\ IsInjective(c) /\ Len(c) = Size[l]
    /\ \A i \in 1..Size[l] : f[c[i]] = Put(p, l, c, i, Link(c, i)).block

\* A letter in the file is read from its header, and whole.
LEMMA SpelledIs ==
    ASSUME NEW f \in Seq(Block), NEW c, NEW p, NEW l \in Letters, Spelled(f, c, p, l)
    PROVE  /\ c[1] \in Addresses(f) /\ f[c[1]].to = p /\ f[c[1]].text.letter = l
           /\ Chain(f, c[1]) = c
           /\ Read(f, c[1]) = Whole(l)
           /\ Range(c) \subseteq DOMAIN f \ Deleted(f)
           /\ c[1] \in Range(c)
           /\ \A i \in 1..Len(c) : c[i] \in Addresses(f) => i = 1
<1> PICK m : m = Size[l]
  OBVIOUS
<1>0. m \in Nat \ {0}
  BY MailAssumption
<1>1. /\ c \in Seq(DOMAIN f) /\ IsInjective(c) /\ Len(c) = m /\ DOMAIN c = 1..m
      /\ \A i \in 1..m : f[c[i]] = [type |-> IF i = 1 THEN "header" ELSE "data",
                                    next |-> Link(c, i), to |-> p,
                                    text |-> [letter |-> l, nr |-> i]]
  <2>1. \A i \in 1..m : f[c[i]] = Put(p, l, c, i, Link(c, i)).block
    BY DEF Spelled
  <2> QED
    BY <2>1 DEF Spelled, Put
<1>2. \A i \in 1..m : /\ c[i] \in DOMAIN f
                      /\ f[c[i]].type = IF i = 1 THEN "header" ELSE "data"
                      /\ f[c[i]].next = Link(c, i)
                      /\ f[c[i]].to = p
                      /\ f[c[i]].text = [letter |-> l, nr |-> i]
                      /\ f[c[i]].text.letter = l
  <2> SUFFICES ASSUME NEW i \in 1..m
               PROVE  /\ c[i] \in DOMAIN f
                      /\ f[c[i]].type = IF i = 1 THEN "header" ELSE "data"
                      /\ f[c[i]].next = Link(c, i)
                      /\ f[c[i]].to = p
                      /\ f[c[i]].text = [letter |-> l, nr |-> i]
                      /\ f[c[i]].text.letter = l
    OBVIOUS
  <2>1. c[i] \in DOMAIN f
    BY <1>1
  <2>2. PICK x : x = f[c[i]]
    OBVIOUS
  <2>3. x = [type |-> IF i = 1 THEN "header" ELSE "data", next |-> Link(c, i), to |-> p,
             text |-> [letter |-> l, nr |-> i]]
    BY <1>1, <2>2, Zenon
  <2>4. /\ x.type = IF i = 1 THEN "header" ELSE "data"
        /\ x.next = Link(c, i) /\ x.to = p /\ x.text = [letter |-> l, nr |-> i]
    BY <2>3, Zenon
  <2>5. x.text.letter = l
    BY <2>4
  <2> QED
    BY <2>1, <2>2, <2>4, <2>5, Zenon
<1>3. 1 \in 1..m
  BY <1>0
<1>4. c # <<>>
  BY <1>0, <1>1
<1>5. Linked(f, c)
  BY <1>1, <1>2, <1>4 DEF Linked
<1>6. Chain(f, c[1]) = c
  BY <1>5, ChainIs
<1>7. c[1] \in Addresses(f) /\ f[c[1]].to = p /\ f[c[1]].text.letter = l
  BY <1>2, <1>3 DEF Addresses
<1>8. Read(f, c[1]) = [k \in DOMAIN c |-> f[c[k]].text]
  BY <1>6 DEF Read
<1>9. Read(f, c[1]) = Whole(l)
  <2>1. Whole(l) = [k \in 1..m |-> [letter |-> l, nr |-> k]]
    BY DEF Whole
  <2> QED
    BY <1>1, <1>2, <1>8, <2>1
<1>10. Range(c) \subseteq DOMAIN f \ Deleted(f)
  <2>1. ASSUME NEW i \in 1..m
        PROVE  c[i] \in DOMAIN f \ Deleted(f)
    <3>1. f[c[i]].type # "deleted"
      BY <1>2
    <3> QED
      BY <1>2, <3>1 DEF Deleted
  <2> QED
    BY <1>1, <2>1 DEF Range
<1>11. c[1] \in Range(c)
  BY <1>1, <1>3 DEF Range
<1>12. \A i \in 1..Len(c) : c[i] \in Addresses(f) => i = 1
  BY <1>1, <1>2 DEF Addresses
<1> QED
  BY <1>6, <1>7, <1>9, <1>10, <1>11, <1>12

\* It stays there as long as its blocks are not written.
LEMMA SpelledStays ==
    ASSUME NEW f, NEW g, NEW c, NEW p, NEW l, Spelled(f, c, p, l),
           DOMAIN f \subseteq DOMAIN g,
           \A k \in Range(c) : g[k] = f[k]
    PROVE  Spelled(g, c, p, l)
<1>1. c \in Seq(DOMAIN f) /\ IsInjective(c) /\ Len(c) = Size[l] /\ DOMAIN c = 1..Size[l]
  BY DEF Spelled
<1>2. c \in Seq(DOMAIN g)
  BY <1>1
<1>3. \A i \in 1..Size[l] : c[i] \in Range(c)
  BY <1>1 DEF Range
<1>4. \A i \in 1..Size[l] : g[c[i]] = f[c[i]]
  BY <1>3
<1>5. \A i \in 1..Size[l] : f[c[i]] = Put(p, l, c, i, Link(c, i)).block
  BY DEF Spelled
<1>6. \A i \in 1..Size[l] : g[c[i]] = Put(p, l, c, i, Link(c, i)).block
  BY <1>4, <1>5, Zenon
<1> QED
  BY <1>1, <1>2, <1>6 DEF Spelled

\* The file is in order: each header begins a letter, no block is in two of
\* them, and what is in none is free.
Order(f) ==
    /\ \A a \in Addresses(f) : \E p \in Players, l \in Letters :
           Spelled(f, Chain(f, a), p, l) /\ Chain(f, a)[1] = a
    /\ \A a, b \in Addresses(f) : a # b => Range(Chain(f, a)) \cap Range(Chain(f, b)) = {}
    /\ \A k \in DOMAIN f \ Deleted(f) : \E a \in Addresses(f) : k \in Range(Chain(f, a))

\* The text of a letter says which one it is.
LEMMA WholeIs ==
    ASSUME NEW l \in Letters, NEW m \in Letters, Whole(l) = Whole(m)
    PROVE  l = m
<1>1. 1 \in 1..Size[l] /\ 1 \in 1..Size[m]
  BY MailAssumption
<1>2. Whole(l)[1] = [letter |-> l, nr |-> 1] /\ Whole(m)[1] = [letter |-> m, nr |-> 1]
  BY <1>1 DEF Whole
<1>3. [letter |-> l, nr |-> 1] = [letter |-> m, nr |-> 1]
  BY <1>2, Zenon
<1>4. [letter |-> l, nr |-> 1].letter = [letter |-> m, nr |-> 1].letter
  BY <1>3, Zenon
<1> QED
  BY <1>4

\* A letter more, in blocks that were free or beyond the end.
LEMMA OrderMore ==
    ASSUME NEW f \in Seq(Block), NEW g \in Seq(Block), Order(f),
           NEW c, NEW p \in Players, NEW l \in Letters, Spelled(g, c, p, l),
           DOMAIN g = DOMAIN f \cup Range(c),
           Range(c) \cap (DOMAIN f \ Deleted(f)) = {},
           \A k \in DOMAIN f \ Range(c) : g[k] = f[k]
    PROVE  /\ Order(g)
           /\ Addresses(g) = Addresses(f) \cup {c[1]} /\ c[1] \notin Addresses(f)
           /\ g[c[1]].to = p /\ Read(g, c[1]) = Whole(l)
           /\ \A a \in Addresses(f) : g[a] = f[a] /\ Read(g, a) = Read(f, a)
           /\ Deleted(g) = Deleted(f) \ Range(c)
<1>1. /\ c[1] \in Addresses(g) /\ g[c[1]].to = p /\ Chain(g, c[1]) = c
      /\ Read(g, c[1]) = Whole(l)
      /\ Range(c) \subseteq DOMAIN g \ Deleted(g) /\ c[1] \in Range(c)
      /\ \A i \in 1..Len(c) : c[i] \in Addresses(g) => i = 1
  BY SpelledIs
<1>2. \A k \in Range(c) : k \in Addresses(g) => k = c[1]
  <2>1. c \in Seq(DOMAIN g)
    BY DEF Spelled
  <2>2. DOMAIN c = 1..Len(c)
    BY <2>1
  <2> QED
    BY <1>1, <2>2 DEF Range
<1>3. Addresses(f) \cap Range(c) = {}
  BY DEF Addresses, Deleted
<1>4. Addresses(g) = Addresses(f) \cup {c[1]} /\ c[1] \notin Addresses(f)
  <2>1. \A k \in Addresses(g) : k \in Range(c) \/ k \in Addresses(f)
    BY DEF Addresses
  <2>2. \A k \in Addresses(f) : k \in Addresses(g)
    BY <1>3 DEF Addresses
  <2> QED
    BY <1>1, <1>2, <1>3, <2>1, <2>2
<1>5. ASSUME NEW a \in Addresses(f)
      PROVE  /\ \E q \in Players, m \in Letters :
                    Spelled(g, Chain(f, a), q, m) /\ Chain(f, a)[1] = a
             /\ Chain(g, a) = Chain(f, a) /\ Range(Chain(f, a)) \cap Range(c) = {}
             /\ Read(g, a) = Read(f, a) /\ g[a] = f[a]
  <2>1. PICK q \in Players, m \in Letters : Spelled(f, Chain(f, a), q, m) /\ Chain(f, a)[1] = a
    BY DEF Order
  <2>2. PICK d : d = Chain(f, a)
    OBVIOUS
  <2>3. Spelled(f, d, q, m) /\ d[1] = a
    BY <2>1, <2>2
  <2>4. Range(d) \subseteq DOMAIN f \ Deleted(f) /\ a \in Range(d) /\ Read(f, a) = Whole(m)
    BY <2>3, SpelledIs
  <2>5. Range(d) \cap Range(c) = {}
    BY <2>4
  <2>6. \A k \in Range(d) : g[k] = f[k]
    BY <2>4, <2>5
  <2>7. Spelled(g, d, q, m)
    BY <2>3, <2>6, SpelledStays
  <2>8. Chain(g, a) = d /\ Read(g, a) = Whole(m)
    BY <2>3, <2>7, SpelledIs
  <2> QED
    BY <2>2, <2>3, <2>4, <2>5, <2>6, <2>7, <2>8
<1>6. Deleted(g) = Deleted(f) \ Range(c)
  BY <1>1 DEF Deleted
<1>7. Order(g)
  <2>1. \A a \in Addresses(g) : \E q \in Players, m \in Letters :
            Spelled(g, Chain(g, a), q, m) /\ Chain(g, a)[1] = a
    <3>1. \E q \in Players, m \in Letters :
              Spelled(g, Chain(g, c[1]), q, m) /\ Chain(g, c[1])[1] = c[1]
      BY <1>1
    <3>2. ASSUME NEW a \in Addresses(f)
          PROVE  \E q \in Players, m \in Letters :
                     Spelled(g, Chain(g, a), q, m) /\ Chain(g, a)[1] = a
      <4>1. Chain(g, a) = Chain(f, a)
        BY <1>5
      <4>2. \E q \in Players, m \in Letters :
                Spelled(g, Chain(f, a), q, m) /\ Chain(f, a)[1] = a
        BY <1>5
      <4> QED
        BY <4>1, <4>2, Zenon
    <3> QED
      BY <1>4, <3>1, <3>2
  <2>2. \A a, b \in Addresses(g) : a # b => Range(Chain(g, a)) \cap Range(Chain(g, b)) = {}
    <3> SUFFICES ASSUME NEW a \in Addresses(g), NEW b \in Addresses(g), a # b
                 PROVE  Range(Chain(g, a)) \cap Range(Chain(g, b)) = {}
      OBVIOUS
    <3>1. CASE a \in Addresses(f) /\ b \in Addresses(f)
      <4>1. Range(Chain(f, a)) \cap Range(Chain(f, b)) = {}
        BY <3>1 DEF Order
      <4> QED
        BY <1>5, <3>1, <4>1
    <3>2. CASE a = c[1]
      <4>1. b \in Addresses(f)
        BY <1>4, <3>2
      <4> QED
        BY <1>1, <1>5, <3>2, <4>1
    <3>3. CASE b = c[1]
      <4>1. a \in Addresses(f)
        BY <1>4, <3>3
      <4> QED
        BY <1>1, <1>5, <3>3, <4>1
    <3> QED
      BY <1>4, <3>1, <3>2, <3>3
  <2>3. ASSUME NEW k \in DOMAIN g \ Deleted(g)
        PROVE  \E a \in Addresses(g) : k \in Range(Chain(g, a))
    <3>1. CASE k \in Range(c)
      BY <1>1, <3>1
    <3>2. CASE k \notin Range(c)
      <4>1. k \in DOMAIN f \ Deleted(f)
        BY <1>6, <3>2
      <4>2. PICK a \in Addresses(f) : k \in Range(Chain(f, a))
        BY <4>1 DEF Order
      <4> QED
        BY <1>4, <1>5, <4>2
    <3> QED
      BY <3>1, <3>2
  <2> QED
    BY <2>1, <2>2, <2>3 DEF Order
<1> QED
  BY <1>1, <1>4, <1>5, <1>6, <1>7

\* Some letters fewer.
Cleared(g, f, A, gone) ==
    /\ gone = UNION {Range(Chain(f, a)) : a \in A}
    /\ DOMAIN g = DOMAIN f
    /\ \A k \in gone : g[k] = DELETED
    /\ \A k \in DOMAIN f \ gone : g[k] = f[k]

LEMMA OrderLess ==
    ASSUME NEW f \in Seq(Block), NEW g \in Seq(Block), Order(f),
           NEW A \in SUBSET Addresses(f), NEW gone, Cleared(g, f, A, gone)
    PROVE  /\ Order(g)
           /\ Addresses(g) = Addresses(f) \ A
           /\ \A a \in Addresses(g) : g[a] = f[a] /\ Read(g, a) = Read(f, a)
           /\ Deleted(g) = Deleted(f) \cup gone
           /\ gone \subseteq DOMAIN f \ Deleted(f)
<1>0. /\ gone = UNION {Range(Chain(f, a)) : a \in A}
      /\ DOMAIN g = DOMAIN f
      /\ \A k \in gone : g[k] = DELETED
      /\ \A k \in DOMAIN f \ gone : g[k] = f[k]
  BY DEF Cleared
<1>1. ASSUME NEW a \in Addresses(f)
      PROVE  a \in Range(Chain(f, a)) /\ Range(Chain(f, a)) \subseteq DOMAIN f \ Deleted(f)
  <2>1. PICK q \in Players, m \in Letters : Spelled(f, Chain(f, a), q, m) /\ Chain(f, a)[1] = a
    BY DEF Order
  <2>2. PICK d : d = Chain(f, a)
    OBVIOUS
  <2>3. Spelled(f, d, q, m) /\ d[1] = a
    BY <2>1, <2>2
  <2>4. Range(d) \subseteq DOMAIN f \ Deleted(f) /\ d[1] \in Range(d)
    BY <2>3, SpelledIs
  <2> QED
    BY <2>2, <2>3, <2>4
<1>2. gone \subseteq DOMAIN f \ Deleted(f)
  BY <1>0, <1>1
<1>3. ASSUME NEW a \in Addresses(f) \ A
      PROVE  Range(Chain(f, a)) \cap gone = {}
  <2>1. \A b \in A : Range(Chain(f, a)) \cap Range(Chain(f, b)) = {}
    BY DEF Order
  <2> QED
    BY <1>0, <2>1
<1>4. Addresses(g) = Addresses(f) \ A
  <2>1. A \subseteq gone
    BY <1>0, <1>1
  <2>2. \A k \in gone : g[k].type = "deleted"
    BY <1>0 DEF DELETED
  <2>3. \A a \in Addresses(f) \ A : a \notin gone
    BY <1>1, <1>3
  <2>4. \A k \in Addresses(g) : k \in Addresses(f) \ A
    BY <1>0, <2>1, <2>2 DEF Addresses
  <2>5. \A k \in Addresses(f) \ A : k \in Addresses(g)
    BY <1>0, <2>3 DEF Addresses
  <2> QED
    BY <2>4, <2>5
<1>5. Deleted(g) = Deleted(f) \cup gone
  <2>1. \A k \in gone : k \in Deleted(g)
    BY <1>0, <1>2 DEF Deleted, DELETED
  <2>2. \A k \in DOMAIN f \ gone : k \in Deleted(g) <=> k \in Deleted(f)
    BY <1>0 DEF Deleted
  <2>3. Deleted(f) \subseteq DOMAIN f /\ Deleted(g) \subseteq DOMAIN f
    BY <1>0 DEF Deleted
  <2> QED
    BY <1>2, <2>1, <2>2, <2>3
<1>6. ASSUME NEW a \in Addresses(f) \ A
      PROVE  /\ \E q \in Players, m \in Letters :
                    Spelled(g, Chain(f, a), q, m) /\ Chain(f, a)[1] = a
             /\ Chain(g, a) = Chain(f, a)
             /\ Read(g, a) = Read(f, a) /\ g[a] = f[a]
  <2>1. PICK q \in Players, m \in Letters : Spelled(f, Chain(f, a), q, m) /\ Chain(f, a)[1] = a
    BY DEF Order
  <2>2. PICK d : d = Chain(f, a)
    OBVIOUS
  <2>3. Spelled(f, d, q, m) /\ d[1] = a
    BY <2>1, <2>2
  <2>4. Range(d) \subseteq DOMAIN f \ Deleted(f) /\ a \in Range(d) /\ Read(f, a) = Whole(m)
    BY <2>3, SpelledIs
  <2>5. Range(d) \cap gone = {}
    BY <1>3, <2>2
  <2>6. \A k \in Range(d) : g[k] = f[k]
    BY <1>0, <2>4, <2>5
  <2>7. Spelled(g, d, q, m)
    BY <1>0, <2>3, <2>6, SpelledStays
  <2>8. Chain(g, a) = d /\ Read(g, a) = Whole(m)
    BY <2>3, <2>7, SpelledIs
  <2> QED
    BY <2>2, <2>3, <2>4, <2>6, <2>7, <2>8
<1>7. Order(g)
  <2>1. ASSUME NEW a \in Addresses(g)
        PROVE  \E q \in Players, m \in Letters :
                   Spelled(g, Chain(g, a), q, m) /\ Chain(g, a)[1] = a
    <3>1. a \in Addresses(f) \ A
      BY <1>4
    <3>2. Chain(g, a) = Chain(f, a)
      BY <1>6, <3>1
    <3>3. \E q \in Players, m \in Letters :
              Spelled(g, Chain(f, a), q, m) /\ Chain(f, a)[1] = a
      BY <1>6, <3>1
    <3> QED
      BY <3>2, <3>3, Zenon
  <2>2. \A a, b \in Addresses(g) : a # b => Range(Chain(g, a)) \cap Range(Chain(g, b)) = {}
    BY <1>4, <1>6 DEF Order
  <2>3. ASSUME NEW k \in DOMAIN g \ Deleted(g)
        PROVE  \E a \in Addresses(g) : k \in Range(Chain(g, a))
    <3>1. k \in DOMAIN f \ Deleted(f) /\ k \notin gone
      BY <1>0, <1>5
    <3>2. PICK a \in Addresses(f) : k \in Range(Chain(f, a))
      BY <3>1 DEF Order
    <3>3. a \notin A
      BY <1>0, <3>1, <3>2
    <3> QED
      BY <1>4, <1>6, <3>2, <3>3
  <2> QED
    BY <2>1, <2>2, <2>3 DEF Order
<1> QED
  BY <1>2, <1>4, <1>5, <1>6, <1>7

-----------------------------------------------------------------------------
(* What the file will hold when the writes that wait are done.             *)

Write == [pos: Nat \ {0}, block: Block]

\* j is the last write of block k.
LastWrite(ws, k, j) ==
    /\ j \in DOMAIN ws /\ ws[j].pos = k
    /\ \A i \in DOMAIN ws : ws[i].pos = k => i <= j

LEMMA GreatestIs ==
    ASSUME NEW n \in Nat, NEW t \in SUBSET (1..n), t # {}
    PROVE  \E x \in t : \A y \in t : y <= x
<1> DEFINE Has(u) == u = {} \/ \E x \in u : \A y \in u : y <= x
           Q == {i \in 0..n : \A u \in SUBSET (1..i) : Has(u)}
<1>1. 0 \in Q
  OBVIOUS
<1>2. \A i \in 1..n : i - 1 \in Q => i \in Q
  <2> SUFFICES ASSUME NEW i \in 1..n, i - 1 \in Q, NEW u \in SUBSET (1..i) PROVE Has(u)
    OBVIOUS
  <2>1. CASE i \in u
    BY <2>1
  <2>2. CASE i \notin u
    <3>1. u \in SUBSET (1..(i - 1))
      BY <2>2
    <3> QED
      BY <3>1
  <2> QED
    BY <2>1, <2>2
<1> HIDE DEF Q
<1>3. \A i \in 0..n : i \in Q
  BY <1>1, <1>2, SegmentInduction
<1>4. n \in Q
  BY <1>3
<1> QED
  BY <1>4 DEF Q

Settles(f, ws, s) ==
    /\ DOMAIN s = DOMAIN f \cup {ws[j].pos : j \in DOMAIN ws}
    /\ s = [k \in DOMAIN s |-> s[k]]
    /\ \A k \in DOMAIN f : (\A j \in DOMAIN ws : ws[j].pos # k) => s[k] = f[k]
    /\ \A k \in DOMAIN s : \A j : LastWrite(ws, k, j) => s[k] = ws[j].block
    /\ \A k \in DOMAIN s : (\A j \in DOMAIN ws : ws[j].pos # k) \/ \E j : LastWrite(ws, k, j)

LEMMA SettleIs ==
    ASSUME NEW f, NEW ws \in Seq(Write)
    PROVE  Settles(f, ws, Settle(f, ws))
<1> DEFINE D == DOMAIN f \cup {ws[j].pos : j \in DOMAIN ws}
           L(k) == CHOOSE j \in Writes(ws, k) : \A i \in Writes(ws, k) : i <= j
<1>0. PICK s : s = Settle(f, ws)
  OBVIOUS
<1>1. s = [k \in D |-> IF Writes(ws, k) = {} THEN f[k] ELSE ws[L(k)].block]
  BY <1>0 DEF Settle
<1>2. DOMAIN s = D /\ s = [k \in D |-> s[k]]
  BY <1>1
<1>3. DOMAIN ws = 1..Len(ws) /\ Len(ws) \in Nat
  OBVIOUS
<1> HIDE DEF D
<1>4. \A k \in D : s[k] = IF Writes(ws, k) = {} THEN f[k] ELSE ws[L(k)].block
  BY <1>1
<1>5. ASSUME NEW k \in D, NEW j, LastWrite(ws, k, j)
      PROVE  s[k] = ws[j].block
  <2>1. j \in Writes(ws, k) /\ \A i \in Writes(ws, k) : i <= j
    BY <1>5 DEF Writes, LastWrite
  <2>2. Writes(ws, k) \subseteq Nat
    BY <1>3 DEF Writes
  <2>3. \A i \in Writes(ws, k) : (\A h \in Writes(ws, k) : h <= i) => i = j
    BY <2>1, <2>2
  <2>4. L(k) = j
    BY <2>1, <2>3
  <2>5. Writes(ws, k) # {}
    BY <2>1
  <2> QED
    BY <1>4, <2>4, <2>5, Zenon
<1>6. ASSUME NEW k \in D
      PROVE  (\A j \in DOMAIN ws : ws[j].pos # k) \/ \E j : LastWrite(ws, k, j)
  <2>1. CASE Writes(ws, k) = {}
    BY <2>1 DEF Writes
  <2>2. CASE Writes(ws, k) # {}
    <3>1. Writes(ws, k) \in SUBSET (1..Len(ws))
      BY <1>3 DEF Writes
    <3>2. PICK j \in Writes(ws, k) : \A i \in Writes(ws, k) : i <= j
      BY <1>3, <2>2, <3>1, GreatestIs
    <3>3. LastWrite(ws, k, j)
      BY <3>2 DEF Writes, LastWrite
    <3> QED
      BY <3>3
  <2> QED
    BY <2>1, <2>2
<1>7. ASSUME NEW k \in DOMAIN f, \A j \in DOMAIN ws : ws[j].pos # k
      PROVE  s[k] = f[k]
  <2>1. Writes(ws, k) = {} /\ k \in D
    BY <1>7 DEF Writes, D
  <2> QED
    BY <1>4, <2>1
<1>8. DOMAIN s = DOMAIN f \cup {ws[j].pos : j \in DOMAIN ws}
  BY <1>2 DEF D
<1>9. s = [k \in DOMAIN s |-> s[k]]
  BY <1>2
<1>10. Settles(f, ws, s)
  BY <1>2, <1>5, <1>6, <1>7, <1>8, <1>9 DEF Settles
<1> QED
  BY <1>0, <1>10

LEMMA SettleEmpty ==
    ASSUME NEW B, NEW f \in Seq(B)
    PROVE  Settle(f, <<>>) = f
<1>1. <<>> \in Seq(Write) /\ DOMAIN <<>> = {}
  OBVIOUS
<1>2. PICK s : s = Settle(f, <<>>) /\ Settles(f, <<>>, s)
  BY <1>1, SettleIs
<1>3. DOMAIN s = DOMAIN f /\ s = [k \in DOMAIN s |-> s[k]]
  BY <1>1, <1>2 DEF Settles
<1>4. \A k \in DOMAIN f : s[k] = f[k]
  BY <1>1, <1>2 DEF Settles
<1>5. f = [k \in DOMAIN f |-> f[k]]
  OBVIOUS
<1> QED
  BY <1>2, <1>3, <1>4, <1>5

\* Every write falls into the file, or behind what has been written before.
Fits(f, ws) ==
    \A j \in DOMAIN ws : \A k \in (Len(f) + 1)..(ws[j].pos - 1) :
        \E i \in 1..(j - 1) : ws[i].pos = k

\* A write changes nothing of what the file will hold.
LEMMA SettleStep ==
    ASSUME NEW f \in Seq(Block), NEW ws \in Seq(Write), ws # <<>>, Fits(f, ws)
    PROVE  /\ Written(f, Head(ws)) \in Seq(Block)
           /\ Settle(Written(f, Head(ws)), Tail(ws)) = Settle(f, ws)
           /\ Tail(ws) \in Seq(Write) /\ Fits(Written(f, Head(ws)), Tail(ws))
<1> PICK m \in Nat : m = Len(ws)
  OBVIOUS
<1> PICK n \in Nat : n = Len(f)
  OBVIOUS
<1>0. PICK x : x = Head(ws)
  OBVIOUS
<1>1. /\ m >= 1 /\ DOMAIN ws = 1..m /\ x = ws[1] /\ x \in Write
      /\ x.pos \in Nat \ {0} /\ x.block \in Block
  <2>1. m >= 1 /\ DOMAIN ws = 1..m
    OBVIOUS
  <2>2. x = ws[1] /\ ws[1] \in Write
    BY <1>0, <2>1
  <2>3. x.pos \in Nat \ {0} /\ x.block \in Block
    BY <2>2 DEF Write
  <2> QED
    BY <2>1, <2>2, <2>3
<1>2. PICK t : t = Tail(ws)
  OBVIOUS
<1>3. /\ t \in Seq(Write) /\ DOMAIN t = 1..(m - 1)
      /\ \A j \in 1..(m - 1) : t[j] = ws[j + 1]
  BY <1>1, <1>2
<1>4. x.pos <= n + 1
  <2>1. 1 \in 1..m /\ \A i : i \notin 1..(1 - 1)
    BY <1>1
  <2>2. \A k \in (n + 1)..(x.pos - 1) : \E i \in 1..(1 - 1) : ws[i].pos = k
    BY <1>1, <2>1 DEF Fits
  <2>3. \A k \in (n + 1)..(x.pos - 1) : FALSE
    BY <2>1, <2>2
  <2>4. n + 1 \in (n + 1)..(x.pos - 1) \/ x.pos <= n + 1
    BY <1>1
  <2> QED
    BY <2>3, <2>4
<1>5. PICK g : g = Written(f, x)
  OBVIOUS
<1>6. /\ g \in Seq(Block) /\ DOMAIN g = DOMAIN f \cup {x.pos}
      /\ Len(g) = IF x.pos <= n THEN n ELSE n + 1
      /\ g[x.pos] = x.block /\ \A k \in DOMAIN f : k # x.pos => g[k] = f[k]
  <2>0. DOMAIN f = 1..n
    OBVIOUS
  <2>1. CASE x.pos <= n
    <3>1. g = [f EXCEPT ![x.pos] = x.block]
      BY <1>5, <2>1 DEF Written
    <3>2. x.pos \in DOMAIN f
      BY <1>1, <2>0, <2>1
    <3> QED
      BY <1>1, <2>0, <2>1, <3>1, <3>2
  <2>2. CASE ~ (x.pos <= n)
    <3>1. g = Append(f, x.block) /\ x.pos = n + 1
      BY <1>1, <1>4, <1>5, <2>2 DEF Written
    <3>2. g \in Seq(Block) /\ Len(g) = n + 1 /\ g[n + 1] = x.block
          /\ \A k \in 1..n : g[k] = f[k]
      BY <1>1, <3>1
    <3>3. DOMAIN g = 1..(n + 1)
      BY <3>2
    <3>4. 1..(n + 1) = 1..n \cup {n + 1}
      OBVIOUS
    <3> QED
      BY <2>0, <3>1, <3>2, <3>3, <3>4
  <2> QED
    BY <2>1, <2>2
<1>7. Fits(g, t)
  <2> SUFFICES ASSUME NEW j \in 1..(m - 1), NEW k \in (Len(g) + 1)..(t[j].pos - 1)
               PROVE  \E i \in 1..(j - 1) : t[i].pos = k
    BY <1>3 DEF Fits
  <2>1. j + 1 \in 1..m /\ t[j] = ws[j + 1] /\ ws[j + 1].pos \in Nat
    <3>1. j + 1 \in 1..m /\ t[j] = ws[j + 1]
      BY <1>1, <1>3
    <3>2. ws[j + 1] \in Write
      BY <3>1
    <3> QED
      BY <3>1, <3>2 DEF Write
  <2>2. k \in (n + 1)..(ws[j + 1].pos - 1) /\ k # x.pos
    BY <1>1, <1>4, <1>6, <2>1
  <2>3. PICK i \in 1..((j + 1) - 1) : ws[i].pos = k
    BY <1>1, <2>1, <2>2 DEF Fits
  <2>4. i # 1
    BY <1>1, <2>2, <2>3
  <2>5. i - 1 \in 1..(j - 1) /\ i - 1 \in 1..(m - 1) /\ (i - 1) + 1 = i
    BY <2>3, <2>4
  <2>6. t[i - 1] = ws[i]
    BY <1>3, <2>5
  <2> QED
    BY <2>3, <2>5, <2>6
<1>8. PICK s : s = Settle(f, ws) /\ Settles(f, ws, s)
  BY SettleIs
<1>9. PICK u : u = Settle(g, t) /\ Settles(g, t, u)
  BY <1>3, SettleIs
<1>10. DOMAIN u = DOMAIN s
  <2>1. DOMAIN s = DOMAIN f \cup {ws[j].pos : j \in 1..m}
    BY <1>1, <1>8 DEF Settles
  <2>2. DOMAIN u = DOMAIN g \cup {t[j].pos : j \in 1..(m - 1)}
    BY <1>3, <1>9 DEF Settles
  <2>3. {t[j].pos : j \in 1..(m - 1)} = {ws[j].pos : j \in 2..m}
    <3>1. ASSUME NEW j \in 1..(m - 1)
          PROVE  t[j].pos \in {ws[i].pos : i \in 2..m}
      <4>1. j + 1 \in 2..m
        OBVIOUS
      <4> QED
        BY <1>3, <4>1
    <3>2. ASSUME NEW j \in 2..m
          PROVE  ws[j].pos \in {t[i].pos : i \in 1..(m - 1)}
      <4>1. j - 1 \in 1..(m - 1) /\ (j - 1) + 1 = j
        OBVIOUS
      <4>2. t[j - 1] = ws[j]
        BY <1>3, <4>1
      <4> QED
        BY <4>1, <4>2
    <3> QED
      BY ZenonT(60), <3>1, <3>2
  <2>4. {ws[j].pos : j \in 1..m} = {ws[j].pos : j \in 2..m} \cup {x.pos}
    <3>1. 1..m = 2..m \cup {1}
      BY <1>1
    <3> QED
      BY <1>1, <3>1
  <2> QED
    BY <1>6, <2>1, <2>2, <2>3, <2>4
<1>11. ASSUME NEW k \in DOMAIN s
       PROVE  u[k] = s[k]
  <2>1. CASE \A j \in DOMAIN ws : ws[j].pos # k
    <3>1. k \in DOMAIN f
      BY <1>8, <2>1 DEF Settles
    <3>2. s[k] = f[k]
      BY <1>8, <2>1, <3>1 DEF Settles
    <3>3. k # x.pos /\ k \in DOMAIN g /\ g[k] = f[k]
      BY <1>1, <1>6, <2>1, <3>1
    <3>4. \A j \in DOMAIN t : t[j].pos # k
      <4> SUFFICES ASSUME NEW j \in 1..(m - 1) PROVE t[j].pos # k
        BY <1>3
      <4>1. j + 1 \in DOMAIN ws /\ t[j] = ws[j + 1]
        BY <1>1, <1>3
      <4> QED
        BY <2>1, <4>1
    <3>5. u[k] = g[k]
      BY <1>3, <1>9, <3>3, <3>4 DEF Settles
    <3> QED
      BY <3>2, <3>3, <3>5
  <2>2. ASSUME NEW j, LastWrite(ws, k, j)
        PROVE  u[k] = s[k]
    <3>1. j \in 1..m /\ ws[j].pos = k /\ \A i \in 1..m : ws[i].pos = k => i <= j
      BY <1>1, <2>2 DEF LastWrite
    <3>2. s[k] = ws[j].block
      BY <1>8, <2>2 DEF Settles
    <3>3. CASE j = 1
      <4>1. k = x.pos /\ k \in DOMAIN g /\ g[k] = s[k]
        BY <1>1, <1>6, <3>1, <3>2, <3>3
      <4>2. \A i \in DOMAIN t : t[i].pos # k
        <5> SUFFICES ASSUME NEW i \in 1..(m - 1), t[i].pos = k PROVE FALSE
          BY <1>3
        <5>1. i + 1 \in 1..m /\ ws[i + 1].pos = k
          BY <1>3
        <5>2. i + 1 <= 1
          BY <3>1, <3>3, <5>1
        <5> QED
          BY <5>2
      <4>3. u[k] = g[k]
        BY <1>3, <1>9, <4>1, <4>2 DEF Settles
      <4> QED
        BY <4>1, <4>3
    <3>4. CASE j # 1
      <4>1. j - 1 \in 1..(m - 1) /\ (j - 1) + 1 = j
        BY <3>1, <3>4
      <4>2. t[j - 1] = ws[j]
        BY <1>3, <4>1
      <4>3. \A i \in 1..(m - 1) : t[i].pos = k => i <= j - 1
        <5> SUFFICES ASSUME NEW i \in 1..(m - 1), t[i].pos = k PROVE i <= j - 1
          OBVIOUS
        <5>1. i + 1 \in 1..m /\ ws[i + 1].pos = k
          BY <1>3
        <5>2. i + 1 <= j
          BY <3>1, <5>1
        <5> QED
          BY <3>1, <5>2
      <4>4. LastWrite(t, k, j - 1)
        BY <1>3, <3>1, <4>1, <4>2, <4>3 DEF LastWrite
      <4>5. u[k] = t[j - 1].block
        BY <1>3, <1>9, <1>10, <4>4 DEF Settles
      <4> QED
        BY <3>2, <4>2, <4>5
    <3> QED
      BY <3>3, <3>4
  <2>3. (\A j \in DOMAIN ws : ws[j].pos # k) \/ \E j : LastWrite(ws, k, j)
    BY <1>8 DEF Settles
  <2> QED
    BY <2>1, <2>2, <2>3
<1>12. u = [k \in DOMAIN u |-> u[k]] /\ s = [k \in DOMAIN s |-> s[k]]
  <2>1. u = [k \in DOMAIN u |-> u[k]]
    BY <1>3, <1>9 DEF Settles
  <2>2. s = [k \in DOMAIN s |-> s[k]]
    BY <1>8 DEF Settles
  <2> QED
    BY <2>1, <2>2
<1>13. u = s
  BY <1>10, <1>11, <1>12
<1> QED
  BY <1>0, <1>2, <1>3, <1>5, <1>6, <1>7, <1>8, <1>9, <1>13

-----------------------------------------------------------------------------
(* Storing a letter.  The writes of a letter go to the blocks popped from  *)
(* the free list; a block that is not the last is written twice.           *)

Lists(f, fr) == /\ fr \in Seq(Nat) /\ IsInjective(fr) /\ Range(fr) = Deleted(f)

\* What is left of a list when its first n members are taken.
LEMMA TailIs ==
    ASSUME NEW s \in Seq(Nat), NEW m \in Nat, m = Len(s), NEW n \in Nat, n <= m,
           NEW t, t = SubSeq(s, n + 1, m)
    PROVE  /\ t \in Seq(Nat) /\ DOMAIN t = 1..(m - n)
           /\ \A i \in 1..(m - n) : t[i] = s[i + n]
<1>1. t = [i \in 1..(m - n) |-> s[i + n]]
  OBVIOUS
<1>2. \A i \in 1..(m - n) : s[i + n] \in Nat
  OBVIOUS
<1>3. t \in Seq(Nat)
  OBVIOUS
<1> QED
  BY <1>1, <1>3

\* What pop_free_list yields, and what it leaves.
LEMMA PoppedIs ==
    ASSUME NEW B, file \in Seq(B), Lists(file, free_list), NEW n \in Nat \ {0}
    PROVE  /\ Popped(n) \in Seq(Nat \ {0}) /\ Len(Popped(n)) = n /\ IsInjective(Popped(n))
           /\ \A i \in 1..n : /\ i <= Len(free_list) => Popped(n)[i] \in Deleted(file)
                              /\ i > Len(free_list) => Popped(n)[i] = Len(file) + i - Len(free_list)
           /\ \E z \in Nat : DOMAIN file \cup Range(Popped(n)) = 1..z
           /\ LeftFree(n) \in Seq(Nat) /\ IsInjective(LeftFree(n))
           /\ Range(LeftFree(n)) = Deleted(file) \ Range(Popped(n))
<1> PICK m \in Nat : m = Len(free_list)
  BY DEF Lists
<1> PICK y \in Nat : y = Len(file)
  OBVIOUS
<1>0. PICK fr : fr = free_list
  OBVIOUS
<1>1. /\ fr \in Seq(Nat) /\ DOMAIN fr = 1..m /\ DOMAIN file = 1..y
      /\ \A i, j \in 1..m : fr[i] = fr[j] => i = j
      /\ Deleted(file) = {fr[i] : i \in 1..m}
      /\ \A i \in 1..m : fr[i] \in 1..y
  <2>1. fr \in Seq(Nat) /\ IsInjective(fr) /\ Range(fr) = Deleted(file) /\ Len(fr) = m
    BY <1>0 DEF Lists
  <2>2. DOMAIN fr = 1..m /\ DOMAIN file = 1..y
    BY <2>1
  <2>3. Deleted(file) = {fr[i] : i \in 1..m}
    BY <2>1, <2>2 DEF Range
  <2>4. \A i \in 1..m : fr[i] \in 1..y
    BY <2>2, <2>3 DEF Deleted
  <2>5. \A i, j \in 1..m : fr[i] = fr[j] => i = j
    BY <2>1, <2>2 DEF IsInjective
  <2> QED
    BY <2>1, <2>2, <2>3, <2>4, <2>5
<1>2. PICK at : at = Popped(n)
  OBVIOUS
<1>3. at = [k \in 1..n |-> IF k <= m THEN fr[k] ELSE y + k - m]
  BY <1>0, <1>2 DEF Popped
<1>4. DOMAIN at = 1..n /\ \A k \in 1..n : at[k] = IF k <= m THEN fr[k] ELSE y + k - m
  BY <1>3
<1>5. ASSUME NEW k \in 1..n
      PROVE  /\ k <= m => k \in 1..m /\ at[k] = fr[k] /\ at[k] \in 1..y /\ at[k] \in Deleted(file)
             /\ k > m => at[k] = y + k - m /\ at[k] > y
             /\ at[k] \in Nat \ {0}
  <2>1. CASE k <= m
    <3>1. k \in 1..m /\ at[k] = fr[k]
      BY <1>4, <2>1
    <3>2. at[k] \in 1..y /\ at[k] \in Deleted(file)
      BY <1>1, <3>1
    <3> QED
      BY <2>1, <3>1, <3>2
  <2>2. CASE ~ (k <= m)
    <3>1. at[k] = y + k - m
      BY <1>4, <2>2
    <3> QED
      BY <2>2, <3>1
  <2> QED
    BY <2>1, <2>2
<1>6. at \in Seq(Nat \ {0}) /\ Len(at) = n
  <2>1. at = [k \in 1..n |-> at[k]]
    BY <1>3, <1>4
  <2>2. \A k \in 1..n : at[k] \in Nat \ {0}
    BY <1>5
  <2> QED
    BY <2>1, <2>2
<1>7. IsInjective(at)
  <2> SUFFICES ASSUME NEW i \in 1..n, NEW j \in 1..n, at[i] = at[j] PROVE i = j
    BY <1>4 DEF IsInjective
  <2>1. CASE i <= m /\ j <= m
    BY <1>1, <1>5, <2>1
  <2>2. CASE i > m /\ j > m
    BY <1>5, <2>2
  <2>3. CASE (i <= m) # (j <= m)
    BY <1>5, <2>3
  <2> QED
    BY <2>1, <2>2, <2>3
<1>8. \E z \in Nat : DOMAIN file \cup Range(at) = 1..z
  <2>1. Range(at) = {at[k] : k \in 1..n}
    BY <1>4 DEF Range
  <2>2. CASE n <= m
    <3>1. \A k \in 1..n : at[k] \in 1..y
      BY <1>5, <2>2
    <3>2. DOMAIN file \cup Range(at) = 1..y
      BY <1>1, <2>1, <3>1
    <3> QED
      BY <3>2
  <2>3. CASE ~ (n <= m)
    <3> DEFINE z == y + n - m
    <3>1. z \in Nat /\ z >= y
      BY <2>3
    <3>2. \A k \in 1..n : at[k] \in 1..z
      <4> SUFFICES ASSUME NEW k \in 1..n PROVE at[k] \in 1..z
        OBVIOUS
      <4>1. CASE k <= m
        BY <1>5, <3>1, <4>1
      <4>2. CASE k > m
        BY <1>5, <3>1, <4>2
      <4> QED
        BY <4>1, <4>2
    <3>3. ASSUME NEW k \in 1..z, k \notin 1..y
          PROVE  k \in {at[j] : j \in 1..n}
      <4>1. k - y + m \in 1..n /\ k - y + m > m
        BY <2>3, <3>1, <3>3
      <4>2. at[k - y + m] = k
        BY <1>5, <4>1
      <4> QED
        BY <4>1, <4>2
    <3>4. 1..y \subseteq 1..z
      BY <3>1
    <3>5. DOMAIN file \cup Range(at) = 1..z
      <4> HIDE DEF z
      <4> QED
        BY <1>1, <2>1, <3>2, <3>3, <3>4
    <3> QED
      BY <3>1, <3>5
  <2> QED
    BY <2>2, <2>3
<1>9. PICK lf : lf = LeftFree(n)
  OBVIOUS
<1>10. /\ lf \in Seq(Nat) /\ IsInjective(lf)
       /\ Range(lf) = {fr[i] : i \in (n + 1)..m}
  <2>1. CASE n <= m
    <3>1. lf = SubSeq(fr, n + 1, m)
      BY <1>0, <1>9, <2>1 DEF LeftFree
    <3>2. /\ lf \in Seq(Nat) /\ DOMAIN lf = 1..(m - n)
          /\ \A i \in 1..(m - n) : lf[i] = fr[i + n]
      BY <1>1, <2>1, <3>1, TailIs
    <3>3. IsInjective(lf)
      <4> SUFFICES ASSUME NEW i \in 1..(m - n), NEW j \in 1..(m - n), lf[i] = lf[j] PROVE i = j
        BY <3>2 DEF IsInjective
      <4>1. i + n \in 1..m /\ j + n \in 1..m
        OBVIOUS
      <4>2. fr[i + n] = fr[j + n]
        BY <3>2
      <4>3. i + n = j + n
        BY <1>1, <4>1, <4>2
      <4> QED
        BY <4>3
    <3>4. Range(lf) = {lf[i] : i \in 1..(m - n)}
      BY <3>2 DEF Range
    <3>5. \A i \in 1..(m - n) : lf[i] \in {fr[j] : j \in (n + 1)..m}
      <4> SUFFICES ASSUME NEW i \in 1..(m - n) PROVE lf[i] \in {fr[j] : j \in (n + 1)..m}
        OBVIOUS
      <4>1. i + n \in (n + 1)..m
        OBVIOUS
      <4> QED
        BY <3>2, <4>1
    <3>6. \A j \in (n + 1)..m : fr[j] \in {lf[i] : i \in 1..(m - n)}
      <4> SUFFICES ASSUME NEW j \in (n + 1)..m PROVE fr[j] \in {lf[i] : i \in 1..(m - n)}
        OBVIOUS
      <4>1. j - n \in 1..(m - n) /\ (j - n) + n = j
        OBVIOUS
      <4>2. lf[j - n] = fr[j]
        BY <3>2, <4>1
      <4> QED
        BY <4>1, <4>2
    <3>7. {lf[i] : i \in 1..(m - n)} = {fr[j] : j \in (n + 1)..m}
      BY <3>5, <3>6
    <3>8. lf \in Seq(Nat)
      BY <3>2
    <3> QED
      BY <3>3, <3>4, <3>7, <3>8, ZenonT(60)
  <2>2. CASE ~ (n <= m)
    <3>1. lf = <<>>
      BY <1>9, <2>2 DEF LeftFree
    <3>2. Range(lf) = {} /\ IsInjective(lf)
      BY <3>1 DEF Range, IsInjective
    <3>3. (n + 1)..m = {}
      BY <2>2
    <3> QED
      BY <3>1, <3>2, <3>3
  <2> QED
    BY <2>1, <2>2
<1>11. Range(lf) = Deleted(file) \ Range(at)
  <2>1. Range(at) = {at[k] : k \in 1..n}
    BY <1>4 DEF Range
  <2>2. ASSUME NEW i \in (n + 1)..m
        PROVE  fr[i] \in Deleted(file) /\ fr[i] \notin Range(at)
    <3>1. i \in 1..m
      OBVIOUS
    <3>2. \A k \in 1..n : at[k] # fr[i]
      <4> SUFFICES ASSUME NEW k \in 1..n, at[k] = fr[i] PROVE FALSE
        OBVIOUS
      <4>1. k <= m
        OBVIOUS
      <4>2. k \in 1..m /\ fr[k] = fr[i]
        BY <1>5, <4>1
      <4>3. k = i
        BY <1>1, <3>1, <4>2
      <4> QED
        BY <4>3
    <3> QED
      BY <1>1, <2>1, <3>1, <3>2
  <2>3. ASSUME NEW i \in 1..m, fr[i] \notin Range(at)
        PROVE  fr[i] \in {fr[j] : j \in (n + 1)..m}
    <3>1. CASE i <= n
      <4>1. i \in 1..n /\ at[i] = fr[i]
        BY <1>5, <3>1
      <4> QED
        BY <2>1, <2>3, <4>1
    <3>2. CASE i > n
      <4>1. i \in (n + 1)..m
        BY <3>2
      <4> QED
        BY <4>1
    <3> QED
      BY <3>1, <3>2
  <2> QED
    BY <1>1, <1>10, <2>2, <2>3
<1>12. \A i \in 1..n : /\ i <= Len(free_list) => at[i] \in Deleted(file)
                       /\ i > Len(free_list) => at[i] = Len(file) + i - Len(free_list)
  BY <1>5
<1> QED
  BY <1>2, <1>6, <1>7, <1>8, <1>9, <1>10, <1>11, <1>12

\* The writes number 2 i - 1 and 2 i are those of piece i.
LEMMA Halves ==
    ASSUME NEW i \in Nat \ {0}
    PROVE  /\ ((2 * i - 1) + 1) \div 2 = i /\ (2 * i - 1) % 2 = 1
           /\ ((2 * i) + 1) \div 2 = i /\ (2 * i) % 2 = 0 /\ (2 * i) \div 2 + 1 = i + 1
BY SMT

LEMMA OddOrEven ==
    ASSUME NEW m \in Nat \ {0}, NEW j \in 1..(2 * m - 1)
    PROVE  \/ \E i \in 1..m : j = 2 * i - 1
           \/ \E i \in 1..(m - 1) : j = 2 * i
<1>1. j = 2 * (j \div 2) \/ j = 2 * (j \div 2) + 1
  BY SMT
<1> PICK h \in Int : h = j \div 2
  BY SMT
<1>2. CASE j = 2 * h
  <2>1. h \in 1..(m - 1)
    BY <1>2
  <2> QED
    BY <1>2, <2>1
<1>3. CASE j = 2 * h + 1
  <2>1. h + 1 \in 1..m /\ j = 2 * (h + 1) - 1
    BY <1>3
  <2> QED
    BY <2>1
<1> QED
  BY <1>1, <1>2, <1>3

\* The writes ws put the m pieces of the letter l into the blocks at.
Stores(ws, m, p, l, at) ==
    /\ m \in Nat \ {0} /\ DOMAIN ws = 1..(2 * m - 1) /\ ws \in Seq(Write)
    /\ \A i \in 1..m : /\ ws[2 * i - 1].pos = at[i]
                       /\ ws[2 * i - 1].block = Put(p, l, at, i, LAST_BLOCK).block
    /\ \A i \in 1..(m - 1) : /\ ws[2 * i].pos = at[i]
                             /\ ws[2 * i].block = Put(p, l, at, i, at[i + 1]).block

\* What the writes of a letter are.
LEMMA StoringIs ==
    ASSUME NEW p \in Players, NEW l \in Letters, NEW at \in Seq(Nat \ {0}), Len(at) = Size[l],
           NEW m, m = Size[l], NEW ws, ws = Storing(p, l, at)
    PROVE  Stores(ws, m, p, l, at)
<1>1. m \in Nat \ {0}
  BY MailAssumption
<1>2. \A i \in 1..m : at[i] \in Nat \ {0}
  OBVIOUS
<1>3. ws = [j \in 1 .. 2 * m - 1 |-> Put(p, l, at, (j + 1) \div 2,
               IF j % 2 = 1 THEN LAST_BLOCK ELSE at[j \div 2 + 1])]
  BY DEF Storing
<1>4. ASSUME NEW i \in 1..m
      PROVE  2 * i - 1 \in 1..(2 * m - 1) /\ ws[2 * i - 1] = Put(p, l, at, i, LAST_BLOCK)
  <2>1. 2 * i - 1 \in 1..(2 * m - 1)
    BY <1>1
  <2>2. ((2 * i - 1) + 1) \div 2 = i /\ (2 * i - 1) % 2 = 1
    BY Halves
  <2>3. PICK j : j = 2 * i - 1
    OBVIOUS
  <2>4. ws[j] = Put(p, l, at, (j + 1) \div 2, IF j % 2 = 1 THEN LAST_BLOCK ELSE at[j \div 2 + 1])
    BY <1>3, <2>1, <2>3
  <2>5. (j + 1) \div 2 = i /\ j % 2 = 1
    BY <2>2, <2>3
  <2> QED
    BY <2>1, <2>3, <2>4, <2>5, Zenon
<1>5. ASSUME NEW i \in 1..(m - 1)
      PROVE  2 * i \in 1..(2 * m - 1) /\ ws[2 * i] = Put(p, l, at, i, at[i + 1])
  <2>1. 2 * i \in 1..(2 * m - 1)
    BY <1>1
  <2>2. ((2 * i) + 1) \div 2 = i /\ (2 * i) % 2 = 0 /\ (2 * i) \div 2 + 1 = i + 1
    BY Halves
  <2>3. PICK j : j = 2 * i
    OBVIOUS
  <2>4. ws[j] = Put(p, l, at, (j + 1) \div 2, IF j % 2 = 1 THEN LAST_BLOCK ELSE at[j \div 2 + 1])
    BY <1>3, <2>1, <2>3
  <2>5. (j + 1) \div 2 = i /\ j % 2 # 1 /\ j \div 2 + 1 = i + 1
    BY <2>2, <2>3
  <2> QED
    BY <2>1, <2>3, <2>4, <2>5, Zenon
<1>6. ASSUME NEW i \in 1..m, NEW next \in Nat
      PROVE  /\ Put(p, l, at, i, next) \in Write
             /\ Put(p, l, at, i, next).pos = at[i]
  <2>1. [letter |-> l, nr |-> i] \in Piece
    BY <1>1 DEF Piece
  <2>2. [type |-> IF i = 1 THEN "header" ELSE "data", next |-> next,
         to |-> p, text |-> [letter |-> l, nr |-> i]] \in Block
    BY <2>1 DEF Block
  <2> QED
    BY <1>2, <2>2 DEF Put, Write
<1>7. ASSUME NEW j \in 1..(2 * m - 1)
      PROVE  ws[j] \in Write
  <2>1. CASE \E i \in 1..m : j = 2 * i - 1
    <3>1. PICK i \in 1..m : j = 2 * i - 1
      BY <2>1
    <3>2. ws[j] = Put(p, l, at, i, LAST_BLOCK) /\ LAST_BLOCK \in Nat
      BY <1>4, <3>1 DEF LAST_BLOCK
    <3> QED
      BY <1>6, <3>2
  <2>2. CASE \E i \in 1..(m - 1) : j = 2 * i
    <3>1. PICK i \in 1..(m - 1) : j = 2 * i
      BY <2>2
    <3>2. ws[j] = Put(p, l, at, i, at[i + 1]) /\ at[i + 1] \in Nat /\ i \in 1..m
      BY SMTT(30), <1>1, <1>2, <1>5, <3>1
    <3> QED
      BY <1>6, <3>2
  <2> QED
    BY <1>1, <2>1, <2>2, OddOrEven
<1>8. ws \in Seq(Write) /\ DOMAIN ws = 1..(2 * m - 1)
  <2>1. DOMAIN ws = 1..(2 * m - 1) /\ ws = [j \in 1 .. 2 * m - 1 |-> ws[j]]
    BY <1>3
  <2>2. PICK n \in Nat : n = 2 * m - 1
    BY <1>1
  <2>3. ws = [j \in 1..n |-> ws[j]] /\ \A j \in 1..n : ws[j] \in Write
    BY <1>7, <2>1, <2>2
  <2>4. ws \in Seq(Write)
    BY <2>3
  <2> QED
    BY <2>1, <2>4
<1>9. \A i \in 1..m : /\ ws[2 * i - 1].pos = at[i]
                       /\ ws[2 * i - 1].block = Put(p, l, at, i, LAST_BLOCK).block
  BY <1>4, <1>6 DEF LAST_BLOCK
<1>10. \A i \in 1..(m - 1) : /\ ws[2 * i].pos = at[i]
                              /\ ws[2 * i].block = Put(p, l, at, i, at[i + 1]).block
  <2> SUFFICES ASSUME NEW i \in 1..(m - 1)
               PROVE  /\ ws[2 * i].pos = at[i]
                      /\ ws[2 * i].block = Put(p, l, at, i, at[i + 1]).block
    OBVIOUS
  <2>1. i \in 1..m /\ at[i + 1] \in Nat
    BY <1>1, <1>2
  <2> QED
    BY <1>5, <1>6, <2>1
<1> QED
  BY <1>1, <1>8, <1>9, <1>10 DEF Stores

\* The file once the letter has been stored.
Stored(F, f, at, p, l) ==
    /\ F \in Seq(Block) /\ DOMAIN F = DOMAIN f \cup Range(at)
    /\ Spelled(F, at, p, l)
    /\ \A k \in DOMAIN f \ Range(at) : F[k] = f[k]

LEMMA StoringSettles ==
    ASSUME NEW f \in Seq(Block), NEW p \in Players, NEW l \in Letters,
           NEW at \in Seq(Nat \ {0}), Len(at) = Size[l], IsInjective(at),
           \E z \in Nat : DOMAIN f \cup Range(at) = 1..z
    PROVE  Stored(Settle(f, Storing(p, l, at)), f, at, p, l)
<1>z. PICK z \in Nat : DOMAIN f \cup Range(at) = 1..z
  OBVIOUS
<1>F. PICK F : F = Settle(f, Storing(p, l, at))
  OBVIOUS
<1>0. PICK ws : ws = Storing(p, l, at)
  OBVIOUS
<1>1. PICK m : m = Size[l]
  OBVIOUS
<1>2. /\ m \in Nat \ {0} /\ DOMAIN ws = 1..(2 * m - 1) /\ ws \in Seq(Write)
      /\ \A i \in 1..m : /\ ws[2 * i - 1].pos = at[i]
                         /\ ws[2 * i - 1].block = Put(p, l, at, i, LAST_BLOCK).block
      /\ \A i \in 1..(m - 1) : /\ ws[2 * i].pos = at[i]
                               /\ ws[2 * i].block = Put(p, l, at, i, at[i + 1]).block
  <2>1. Stores(ws, m, p, l, at)
    BY <1>0, <1>1, StoringIs
  <2> QED
    BY <2>1 DEF Stores
<1>3. Settles(f, ws, F)
  BY <1>F, <1>0, <1>2, SettleIs
<1>4. DOMAIN at = 1..m /\ \A i, j \in 1..m : at[i] = at[j] => i = j
  <2>1. DOMAIN at = 1..m
    BY <1>1, <1>2
  <2> QED
    BY <2>1 DEF IsInjective
<1>5. Range(at) = {at[i] : i \in 1..m}
  BY <1>4 DEF Range
<1>6. ASSUME NEW j \in DOMAIN ws
      PROVE  \E i \in 1..m : ws[j].pos = at[i] /\ (j = 2 * i - 1 \/ (j = 2 * i /\ i # m))
  <2>1. CASE \E i \in 1..m : j = 2 * i - 1
    BY <1>2, <2>1
  <2>2. CASE \E i \in 1..(m - 1) : j = 2 * i
    <3>1. PICK i \in 1..(m - 1) : j = 2 * i
      BY <2>2
    <3>2. i \in 1..m /\ i # m /\ ws[j].pos = at[i]
      BY SMTT(30), <1>2, <3>1
    <3> QED
      BY <3>1, <3>2
  <2> QED
    BY <1>2, <2>1, <2>2, OddOrEven
<1>7. {ws[j].pos : j \in DOMAIN ws} = Range(at)
  <2>1. ASSUME NEW i \in 1..m
        PROVE  at[i] \in {ws[j].pos : j \in DOMAIN ws}
    <3>1. 2 * i - 1 \in DOMAIN ws
      BY <1>2
    <3> QED
      BY <1>2, <3>1
  <2> QED
    BY <1>5, <1>6, <2>1
<1>8. DOMAIN F = DOMAIN f \cup Range(at)
  BY <1>3, <1>7 DEF Settles
<1>9. \A k \in DOMAIN f \ Range(at) : F[k] = f[k]
  BY <1>3, <1>7 DEF Settles
<1>10. ASSUME NEW i \in 1..m
       PROVE  /\ at[i] \in DOMAIN F
              /\ F[at[i]] = Put(p, l, at, i, Link(at, i)).block
              /\ Link(at, i) \in Nat
  <2>0. at[i] \in DOMAIN F
    BY <1>5, <1>8
  <2>1. \A j \in DOMAIN ws : ws[j].pos = at[i] => j = 2 * i - 1 \/ (j = 2 * i /\ i # m)
    <3> SUFFICES ASSUME NEW j \in DOMAIN ws, ws[j].pos = at[i]
                 PROVE  j = 2 * i - 1 \/ (j = 2 * i /\ i # m)
      OBVIOUS
    <3>1. PICK h \in 1..m : ws[j].pos = at[h] /\ (j = 2 * h - 1 \/ (j = 2 * h /\ h # m))
      BY <1>6
    <3>2. h = i
      BY <1>4, <3>1
    <3> QED
      BY <3>1, <3>2
  <2>2. CASE i = m
    <3>1. 2 * i - 1 \in DOMAIN ws /\ \A j \in DOMAIN ws : ws[j].pos = at[i] => j <= 2 * i - 1
      BY <1>2, <2>1, <2>2
    <3>2. LastWrite(ws, at[i], 2 * i - 1)
      BY <1>2, <3>1 DEF LastWrite
    <3>3. F[at[i]] = Put(p, l, at, i, LAST_BLOCK).block
      <4>1. F[at[i]] = ws[2 * i - 1].block
        BY <1>3, <2>0, <3>2 DEF Settles
      <4> QED
        BY <1>2, <4>1
    <3>4. Link(at, i) = LAST_BLOCK /\ LAST_BLOCK \in Nat
      BY <1>1, <2>2 DEF Link, LAST_BLOCK
    <3> QED
      BY <2>0, <3>3, <3>4
  <2>3. CASE i # m
    <3>0. i \in 1..(m - 1)
      BY <1>2, <2>3
    <3>1. 2 * i \in DOMAIN ws /\ \A j \in DOMAIN ws : ws[j].pos = at[i] => j <= 2 * i
      <4>1. 2 * i \in DOMAIN ws
        BY <1>2, <3>0
      <4>2. 2 * i - 1 <= 2 * i /\ 2 * i <= 2 * i
        OBVIOUS
      <4> QED
        BY <2>1, <4>1, <4>2
    <3>2. LastWrite(ws, at[i], 2 * i)
      BY <1>2, <3>0, <3>1 DEF LastWrite
    <3>3. F[at[i]] = Put(p, l, at, i, at[i + 1]).block
      <4>1. F[at[i]] = ws[2 * i].block
        BY <1>3, <2>0, <3>2 DEF Settles
      <4> QED
        BY <1>2, <3>0, <4>1
    <3>4. Link(at, i) = at[i + 1] /\ at[i + 1] \in Nat
      <4>1. i + 1 \in 1..m
        BY <1>2, <3>0
      <4>2. \A h \in 1..m : at[h] \in Nat
        <5>1. \A h \in DOMAIN at : at[h] \in Nat \ {0}
          OBVIOUS
        <5> QED
          BY <1>4, <5>1
      <4>3. at[i + 1] \in Nat
        BY <4>1, <4>2
      <4> QED
        BY <1>1, <2>3, <4>3 DEF Link
    <3> QED
      BY <2>0, <3>3, <3>4
  <2> QED
    BY <2>2, <2>3
<1>11. Spelled(F, at, p, l)
  <2>1. at \in Seq(DOMAIN F)
    BY <1>1, <1>4, <1>10
  <2>2. \A i \in 1..Size[l] : F[at[i]] = Put(p, l, at, i, Link(at, i)).block
    BY <1>1, <1>10
  <2> QED
    BY <2>1, <2>2 DEF Spelled
<1>12. F \in Seq(Block)
  <2>1. ASSUME NEW k \in 1..z
        PROVE  F[k] \in Block
    <3>1. CASE k \in Range(at)
      <4>1. PICK i \in 1..m : k = at[i]
        BY <1>5, <3>1
      <4>2. F[k] = Put(p, l, at, i, Link(at, i)).block /\ Link(at, i) \in Nat
        BY <1>10, <4>1
      <4>3. [letter |-> l, nr |-> i] \in Piece
        BY <1>2 DEF Piece
      <4> QED
        BY <4>2, <4>3 DEF Put, Block
    <3>2. CASE k \notin Range(at)
      <4>1. k \in DOMAIN f /\ F[k] = f[k]
        BY <1>z, <1>9, <3>2
      <4> QED
        BY <4>1
    <3> QED
      BY <3>1, <3>2
  <2>2. F = [k \in 1..z |-> F[k]]
    <3>1. F = [k \in DOMAIN F |-> F[k]]
      BY <1>3 DEF Settles
    <3>2. DOMAIN F = 1..z
      BY <1>z, <1>8
    <3> QED
      BY <3>1, <3>2, Zenon
  <2> HIDE DEF Block
  <2> QED
    BY SMTT(30), <1>z, <2>1, <2>2
<1> QED
  BY <1>F, <1>8, <1>9, <1>11, <1>12 DEF Stored

LEMMA StoringFits ==
    ASSUME NEW B, NEW f \in Seq(B), NEW p \in Players, NEW l \in Letters,
           NEW at \in Seq(Nat \ {0}), Len(at) = Size[l], NEW n \in Nat,
           \A i \in 1..Size[l] : /\ i <= n => at[i] \in DOMAIN f
                                 /\ i > n => at[i] = Len(f) + i - n
    PROVE  Fits(f, Storing(p, l, at))
<1>0. PICK ws : ws = Storing(p, l, at)
  OBVIOUS
<1>1. PICK m : m = Size[l]
  OBVIOUS
<1>2. /\ m \in Nat \ {0} /\ DOMAIN ws = 1..(2 * m - 1)
      /\ \A i \in 1..m : ws[2 * i - 1].pos = at[i]
      /\ \A i \in 1..(m - 1) : ws[2 * i].pos = at[i]
  <2>1. Stores(ws, m, p, l, at)
    BY <1>0, <1>1, StoringIs
  <2> QED
    BY <2>1 DEF Stores
<1> PICK y \in Nat : y = Len(f)
  OBVIOUS
<1>3. \A i \in 1..m : /\ i <= n => at[i] \in 1..y
                      /\ i > n => at[i] = y + i - n
  BY <1>1
<1>4. ASSUME NEW j \in DOMAIN ws
      PROVE  \E i \in 1..m : ws[j].pos = at[i] /\ j >= 2 * i - 1
  <2>1. CASE \E i \in 1..m : j = 2 * i - 1
    BY <1>2, <2>1
  <2>2. CASE \E i \in 1..(m - 1) : j = 2 * i
    <3>1. PICK i \in 1..(m - 1) : j = 2 * i
      BY <2>2
    <3>2. i \in 1..m /\ ws[j].pos = at[i]
      BY <1>2, <3>1
    <3> QED
      BY <3>1, <3>2
  <2> QED
    BY <1>2, <2>1, <2>2, OddOrEven
<1>5. ASSUME NEW j \in DOMAIN ws, NEW k \in (y + 1)..(ws[j].pos - 1)
      PROVE  \E i \in 1..(j - 1) : ws[i].pos = k
  <2>1. PICK i \in 1..m : ws[j].pos = at[i] /\ j >= 2 * i - 1
    BY <1>4
  <2>2. PICK x : x = at[i]
    OBVIOUS
  <2>3. k \in (y + 1)..(x - 1)
    BY <2>1, <2>2
  <2>4. i > n /\ x = y + i - n
    BY <1>3, <2>2, <2>3
  <2> DEFINE h == k - y + n
  <2>5. h \in 1..m /\ h > n /\ h < i
    <3>1. i \in Nat /\ i <= m /\ k \in Int /\ k >= y + 1 /\ k <= x - 1
      BY <1>2, <2>3, <2>4
    <3> QED
      BY <1>2, <2>4, <3>1
  <2>6. at[h] = k
    <3>1. at[h] = y + h - n
      <4> HIDE DEF h
      <4> QED
        BY <1>3, <2>5
    <3> QED
      BY <3>1
  <2> HIDE DEF h
  <2>7. j \in 1..(2 * m - 1)
    BY <1>2
  <2>8. 2 * h - 1 \in 1..(j - 1)
    BY <1>2, <2>1, <2>5, <2>7
  <2>9. ws[2 * h - 1].pos = k
    BY <1>2, <2>5, <2>6
  <2> QED
    BY <2>8, <2>9
<1> QED
  BY <1>0, <1>5 DEF Fits

-----------------------------------------------------------------------------
(* Deleting letters                                                        *)

LEMMA DeletingSettles ==
    ASSUME NEW f \in Seq(Block), NEW c \in Seq(DOMAIN f), NEW F, F = Settle(f, Deleting(c))
    PROVE  /\ Deleting(c) \in Seq(Write) /\ Fits(f, Deleting(c))
           /\ F \in Seq(Block) /\ DOMAIN F = DOMAIN f
           /\ \A k \in Range(c) : F[k] = DELETED
           /\ \A k \in DOMAIN f \ Range(c) : F[k] = f[k]
<1>0. PICK ws : ws = Deleting(c)
  OBVIOUS
<1> PICK n \in Nat : n = Len(f)
  OBVIOUS
<1> PICK m \in Nat : m = Len(c)
  OBVIOUS
<1>1. /\ DOMAIN f = 1..n /\ DOMAIN c = 1..m /\ \A i \in 1..m : c[i] \in 1..n
      /\ Range(c) = {c[i] : i \in 1..m}
  BY DEF Range
<1>2. ws = [k \in 1..m |-> [pos |-> c[k], block |-> DELETED]]
  BY <1>0, <1>1 DEF Deleting
<1>3. DOMAIN ws = 1..m /\ \A i \in 1..m : ws[i].pos = c[i] /\ ws[i].block = DELETED
  BY <1>2
<1>4. DELETED \in Block
  BY DEF Block
<1>5. ws \in Seq(Write)
  <2>1. \A i \in 1..m : [pos |-> c[i], block |-> DELETED] \in Write
    <3> HIDE DEF DELETED
    <3> QED
      BY <1>1, <1>4 DEF Write
  <2> QED
    BY <1>2, <2>1
<1>6. Fits(f, ws)
  BY <1>1, <1>3 DEF Fits
<1>7. Settles(f, ws, F)
  BY <1>0, <1>5, SettleIs
<1>8. {ws[j].pos : j \in DOMAIN ws} = Range(c)
  BY <1>1, <1>3
<1>9. DOMAIN F = DOMAIN f
  <2>1. DOMAIN F = DOMAIN f \cup Range(c)
    BY <1>7, <1>8 DEF Settles
  <2>2. Range(c) \subseteq DOMAIN f
    BY <1>1
  <2> QED
    BY <2>1, <2>2
<1>10. ASSUME NEW k \in Range(c)
       PROVE  F[k] = DELETED
  <2>1. k \in DOMAIN F
    BY <1>1, <1>9
  <2>2. ~ \A j \in DOMAIN ws : ws[j].pos # k
    BY <1>8
  <2>3. PICK j : LastWrite(ws, k, j)
    BY <1>7, <2>1, <2>2 DEF Settles
  <2>4. F[k] = ws[j].block
    BY <1>7, <2>1, <2>3 DEF Settles
  <2>5. j \in 1..m
    BY <1>3, <2>3 DEF LastWrite
  <2> QED
    BY <1>3, <2>4, <2>5
<1>11. \A k \in DOMAIN f \ Range(c) : F[k] = f[k]
  BY <1>7, <1>8 DEF Settles
<1>12. F \in Seq(Block)
  <2>1. \A k \in 1..n : F[k] \in Block
    <3> HIDE DEF Block, DELETED
    <3> QED
      BY <1>1, <1>4, <1>10, <1>11
  <2>2. F = [k \in 1..n |-> F[k]]
    BY <1>1, <1>7, <1>9 DEF Settles
  <2> HIDE DEF Block
  <2> QED
    BY <2>1, <2>2
<1> QED
  BY <1>0, <1>5, <1>6, <1>9, <1>10, <1>11, <1>12

\* The function by which Emptied is defined.
Collects(r, s, S, f) ==
    r = [n \in 0 .. Len(s) |->
            IF n = 0 THEN <<>>
            ELSE LET pos == s[Len(s) + 1 - n]
                 IN  IF pos \in S THEN r[n - 1] \o Chain(f, pos) ELSE r[n - 1]]

Collected(s, S, f) == (CHOOSE r : Collects(r, s, S, f))[Len(s)]

\* It goes through the list of headers once and collects each chain once.
LEMMA CollectsIs ==
    ASSUME NEW f, NEW s, NEW S, NEW n \in Nat, s \in [1..n -> S], IsInjective(s), n = Len(s),
           \A a \in S : /\ Chain(f, a) \in Seq(DOMAIN f) /\ IsInjective(Chain(f, a)),
           \A a, b \in S : a # b => Range(Chain(f, a)) \cap Range(Chain(f, b)) = {},
           NEW e, e = Collected(s, S, f)
    PROVE  /\ e \in Seq(DOMAIN f) /\ IsInjective(e)
           /\ Range(e) = UNION {Range(Chain(f, a)) : a \in Range(s)}
<1> DEFINE W == Seq(DOMAIN f)
           a(i) == s[n + 1 - i]
           Step == [i \in 1..n |-> [w \in W |-> w \o Chain(f, a(i))]]
<1>0. DOMAIN s = 1..n /\ \A i \in 1..n : a(i) \in S /\ n + 1 - i \in 1..n
  OBVIOUS
<1>1. \A i \in 1..n : Chain(f, a(i)) \in W
  BY <1>0
<1>2. \A i \in 1..n, w \in W : Step[i][w] = w \o Chain(f, a(i))
  OBVIOUS
<1>3. \A w \in W, i \in 1..n : Step[i][w] \in W
  BY <1>1, <1>2
<1>4. <<>> \in W
  OBVIOUS
<1> HIDE DEF Step
<1>5. PICK g \in [0..n -> W] : Runs(g, n, <<>>, Step)
  <2> HIDE DEF W
  <2> QED
    BY <1>3, <1>4, RunExists
<1>6. Collects(g, s, S, f)
  <2>1. ASSUME NEW i \in 0..n
        PROVE  g[i] = IF i = 0 THEN <<>>
                      ELSE IF a(i) \in S THEN g[i - 1] \o Chain(f, a(i)) ELSE g[i - 1]
    <3>1. CASE i = 0
      BY <1>5, <3>1 DEF Runs
    <3>2. CASE i # 0
      <4>1. i \in 1..n /\ i - 1 \in 0..n
        BY <3>2
      <4>2. g[i] = Step[i][g[i - 1]] /\ g[i - 1] \in W
        BY <1>5, <4>1 DEF Runs
      <4>3. g[i] = g[i - 1] \o Chain(f, a(i))
        BY <1>2, <4>1, <4>2
      <4> QED
        BY <1>0, <3>2, <4>1, <4>3, Zenon
    <3> QED
      BY <3>1, <3>2
  <2>2. g = [i \in 0..n |-> g[i]]
    OBVIOUS
  <2> QED
    BY <2>1, <2>2 DEF Collects
<1>7. PICK r : r = CHOOSE t : Collects(t, s, S, f)
  OBVIOUS
<1>8. Collects(r, s, S, f)
  BY <1>6, <1>7, Zenon
<1>9. r[0] = <<>> /\ \A i \in 1..n : r[i] = r[i - 1] \o Chain(f, a(i))
  <2>1. \A i \in 0..n : r[i] = IF i = 0 THEN <<>>
            ELSE IF a(i) \in S THEN r[i - 1] \o Chain(f, a(i)) ELSE r[i - 1]
    BY <1>8 DEF Collects
  <2>2. r[0] = <<>>
    BY <2>1
  <2>3. ASSUME NEW i \in 1..n
        PROVE  r[i] = r[i - 1] \o Chain(f, a(i))
    <3>1. i \in 0..n /\ i # 0 /\ a(i) \in S
      BY <1>0
    <3> HIDE DEF a
    <3> QED
      BY <2>1, <3>1
  <2> QED
    BY <2>2, <2>3
<1> DEFINE All(i) == UNION {Range(Chain(f, a(j))) : j \in 1..i}
           Good(w, i) == w \in W /\ IsInjective(w) /\ Range(w) = All(i)
           Q == {i \in 0..n : Good(r[i], i)}
<1>10. 0 \in Q
  <2>1. IsInjective(<<>>) /\ Range(<<>>) = {}
    BY DEF IsInjective, Range
  <2>2. All(0) = {}
    OBVIOUS
  <2>3. Good(<<>>, 0)
    BY <1>4, <2>1, <2>2
  <2> HIDE DEF Good
  <2> QED
    BY <1>9, <2>3
<1>11. ASSUME NEW i \in 1..n, i - 1 \in Q
       PROVE  i \in Q
  <2>1. Good(r[i - 1], i - 1)
    BY <1>11
  <2>2. PICK w : w = r[i - 1]
    OBVIOUS
  <2>3. PICK c : c = Chain(f, a(i))
    OBVIOUS
  <2>4. w \in W /\ IsInjective(w) /\ Range(w) = All(i - 1)
    BY <2>1, <2>2
  <2>5. c \in W /\ IsInjective(c)
    BY <1>0, <2>3
  <2>6. ASSUME NEW j \in 1..(i - 1)
        PROVE  Range(Chain(f, a(j))) \cap Range(c) = {}
    <3>1. j \in 1..n /\ n + 1 - j # n + 1 - i
      OBVIOUS
    <3>2. a(j) # a(i)
      BY <1>0, <3>1 DEF IsInjective
    <3> QED
      BY <1>0, <2>3, <3>1, <3>2
  <2>7. Range(w) \cap Range(c) = {}
    <3> HIDE DEF a
    <3> QED
      BY <2>4, <2>6
  <2>8. w \o c \in W /\ IsInjective(w \o c) /\ Range(w \o c) = Range(w) \cup Range(c)
    BY <2>4, <2>5, <2>7, ConcatSet, InjectiveConcat
  <2>9. All(i) = All(i - 1) \cup Range(c)
    <3> HIDE DEF a
    <3>1. \A j \in 1..i : j \in 1..(i - 1) \/ j = i
      OBVIOUS
    <3>2. i \in 1..i /\ \A j \in 1..(i - 1) : j \in 1..i
      OBVIOUS
    <3>3. \A x : x \in All(i) <=> \E j \in 1..i : x \in Range(Chain(f, a(j)))
      OBVIOUS
    <3>4. \A x : x \in All(i - 1) <=> \E j \in 1..(i - 1) : x \in Range(Chain(f, a(j)))
      OBVIOUS
    <3> HIDE DEF All
    <3>5. \A x : x \in All(i) <=> x \in All(i - 1) \/ x \in Range(Chain(f, a(i)))
      BY <3>1, <3>2, <3>3, <3>4, Zenon
    <3> QED
      BY <2>3, <3>5, Zenon
  <2>10. r[i] = w \o c
    BY <1>9, <2>2, <2>3
  <2> HIDE DEF W, All, a
  <2>11. Good(w \o c, i)
    BY <2>4, <2>8, <2>9
  <2> HIDE DEF Good
  <2>12. i \in 0..n
    OBVIOUS
  <2>13. Good(r[i], i)
    BY <2>10, <2>11, Zenon
  <2> QED
    BY <2>12, <2>13
<1>12. \A i \in 1..n : i - 1 \in Q => i \in Q
  BY <1>11
<1> HIDE DEF Q
<1>13. \A i \in 0..n : i \in Q
  BY <1>10, <1>12, SegmentInduction
<1>14. n \in Q
  BY <1>13
<1>15. Good(e, n)
  <2>1. e = r[n]
    BY <1>7, Zenon DEF Collected
  <2>2. Good(r[n], n)
    BY <1>14 DEF Q
  <2> HIDE DEF Good
  <2> QED
    BY <2>1, <2>2, Zenon
<1>16. All(n) = UNION {Range(Chain(f, b)) : b \in Range(s)}
  <2>1. \A i \in 1..n : a(i) \in Range(s)
    BY <1>0 DEF Range
  <2>2. ASSUME NEW b \in Range(s)
        PROVE  \E i \in 1..n : b = a(i)
    <3>1. PICK j \in 1..n : b = s[j]
      BY <1>0 DEF Range
    <3>2. n + 1 - j \in 1..n /\ n + 1 - (n + 1 - j) = j
      OBVIOUS
    <3> QED
      BY <3>1, <3>2
  <2> HIDE DEF a
  <2> QED
    BY <2>1, <2>2
<1> QED
  BY <1>15, <1>16

\* What is read when a player's index holds headers of letters only.
LEMMA EmptiedIs ==
    ASSUME NEW p, Order(file), index[p] \in Seq(Nat), IsInjective(index[p]),
           Range(index[p]) \subseteq Addresses(file), file \in Seq(Block)
    PROVE  /\ Readable(p) = Range(index[p])
           /\ Emptied(p) \in Seq(DOMAIN file) /\ IsInjective(Emptied(p))
           /\ Range(Emptied(p)) = UNION {Range(Chain(file, a)) : a \in Range(index[p])}
<1>1. Readable(p) = Range(index[p])
  BY DEF Readable, Addresses
<1>2. PICK s : s = index[p]
  OBVIOUS
<1>3. PICK S : S = Range(s)
  OBVIOUS
<1>4. PICK f : f = file
  OBVIOUS
<1>5. s \in [1..Len(s) -> S] /\ Len(s) \in Nat /\ IsInjective(s)
  <2>1. s \in Seq(Nat)
    BY <1>2
  <2> QED
    BY <1>2, <1>3, <2>1 DEF Range
<1>6. /\ \A a \in S : Chain(f, a) \in Seq(DOMAIN f) /\ IsInjective(Chain(f, a))
      /\ \A a, b \in S : a # b => Range(Chain(f, a)) \cap Range(Chain(f, b)) = {}
  <2>1. S \subseteq Addresses(f) /\ Order(f)
    BY <1>2, <1>3, <1>4
  <2>2. \A a \in S : Chain(f, a) \in Seq(DOMAIN f) /\ IsInjective(Chain(f, a))
    BY <2>1 DEF Order, Spelled
  <2> QED
    BY <2>1, <2>2 DEF Order
<1>7. Emptied(p) = Collected(s, S, f)
  BY <1>1, <1>2, <1>3, <1>4 DEF Emptied, Collects, Collected
<1>8. PICK e : e = Emptied(p)
  OBVIOUS
<1>9. /\ e \in Seq(DOMAIN f) /\ IsInjective(e)
      /\ Range(e) = UNION {Range(Chain(f, a)) : a \in Range(s)}
  <2>1. PICK n \in Nat : n = Len(s)
    BY <1>5
  <2>2. s \in [1..n -> S] /\ e = Collected(s, S, f)
    BY <1>5, <1>7, <1>8, <2>1, Zenon
  <2> QED
    BY <1>5, <1>6, <2>1, <2>2, CollectsIs
<1> QED
  BY <1>1, <1>2, <1>4, <1>8, <1>9

-----------------------------------------------------------------------------
(* The scan.  A list made by putting each found block at its head holds    *)
(* every one of them once: the blocks have different ranks in it.          *)

LEMMA FallingIs ==
    ASSUME NEW n \in Nat, NEW S \in SUBSET (1..n)
    PROVE  Falling(S) \in Seq(Nat) /\ IsInjective(Falling(S)) /\ Range(Falling(S)) = S
<1> DEFINE Above(x) == {y \in S : y > x}
           rank(x) == Cardinality(Above(x))
<1>1. IsFiniteSet(S)
  <2>1. IsFiniteSet(1..n)
    BY FS_Interval
  <2> QED
    BY <2>1, FS_Subset
<1> PICK N \in Nat : N = Cardinality(S)
  BY <1>1, FS_CardinalityType
<1>2. \A x \in S : IsFiniteSet(Above(x)) /\ rank(x) \in Nat
  <2> SUFFICES ASSUME NEW x \in S PROVE IsFiniteSet(Above(x)) /\ rank(x) \in Nat
    OBVIOUS
  <2>1. IsFiniteSet(Above(x))
    BY <1>1, FS_Subset
  <2> QED
    BY <2>1, FS_CardinalityType
<1>3. ASSUME NEW x \in S
      PROVE  rank(x) \in 0..(N - 1)
  <2>1. IsFiniteSet(S \ {x}) /\ Cardinality(S \ {x}) = N - 1
    BY <1>1, FS_RemoveElement
  <2>2. Above(x) \in SUBSET (S \ {x})
    OBVIOUS
  <2> HIDE DEF Above
  <2>3. rank(x) <= N - 1
    BY <2>1, <2>2, FS_Subset
  <2> QED
    BY <1>2, <2>3
<1>4. ASSUME NEW x \in S, NEW y \in S, x < y
      PROVE  rank(y) < rank(x)
  <2>1. y \in Above(x)
    BY <1>4
  <2>2. Above(y) \in SUBSET (Above(x) \ {y})
    <3>1. ASSUME NEW z \in S, z > y
          PROVE  z > x /\ z # y
      <4>1. x \in Nat /\ y \in Nat /\ z \in Nat
        OBVIOUS
      <4>2. x < y
        BY <1>4
      <4> QED
        BY <3>1, <4>1, <4>2
    <3> QED
      BY <3>1
  <2> HIDE DEF Above
  <2>3. IsFiniteSet(Above(x) \ {y}) /\ Cardinality(Above(x) \ {y}) = rank(x) - 1
    BY <1>2, <2>1, FS_RemoveElement
  <2>4. rank(y) <= rank(x) - 1
    BY <2>2, <2>3, FS_Subset
  <2> QED
    BY <1>2, <2>4
<1>5. \A x, y \in S : rank(x) = rank(y) => x = y
  <2> SUFFICES ASSUME NEW x \in S, NEW y \in S, rank(x) = rank(y), x # y PROVE FALSE
    OBVIOUS
  <2>1. x < y \/ y < x
    OBVIOUS
  <2>2. rank(x) \in Nat /\ rank(y) \in Nat
    BY <1>2
  <2> HIDE DEF rank
  <2> QED
    BY <1>4, <2>1, <2>2
<1>6. \A k \in 1..N : \E x \in S : rank(x) = k - 1
  <2> HIDE DEF rank
  <2> DEFINE R == [x \in S |-> rank(x)]
  <2>1. R \in [S -> 0..(N - 1)]
    BY <1>3
  <2>2. IsInjective(R)
    BY <1>5 DEF IsInjective
  <2>3. R \in Injection(S, 0..(N - 1))
    BY <2>1, <2>2 DEF Injection
  <2>4. IsFiniteSet(0..(N - 1)) /\ Cardinality(0..(N - 1)) = IF 0 > N - 1 THEN 0 ELSE N - 1 - 0 + 1
    <3>1. 0 \in Int /\ N - 1 \in Int
      OBVIOUS
    <3> QED
      BY <3>1, FS_Interval
  <2>5. Cardinality(0..(N - 1)) = Cardinality(S)
    BY <2>4
  <2>6. R \in Surjection(S, 0..(N - 1))
    <3> HIDE DEF R
    <3> QED
      BY <2>3, <2>4, <2>5, FS_Injection
  <2>7. \A k \in 0..(N - 1) : \E x \in S : R[x] = k
    <3> HIDE DEF R
    <3> QED
      BY <2>6 DEF Surjection
  <2>8. \A k \in 0..(N - 1) : \E x \in S : rank(x) = k
    BY <2>7
  <2>9. \A k \in 1..N : k - 1 \in 0..(N - 1)
    OBVIOUS
  <2> QED
    BY <2>8, <2>9
<1>7. PICK s : s = Falling(S)
  OBVIOUS
<1>8. s = [k \in 1..N |-> CHOOSE x \in S : rank(x) = k - 1]
  BY <1>7 DEF Falling
<1>9. ASSUME NEW k \in 1..N
      PROVE  s[k] \in S /\ rank(s[k]) = k - 1
  <2> HIDE DEF rank
  <2>1. s[k] = CHOOSE x \in S : rank(x) = k - 1
    BY <1>8
  <2> QED
    BY <1>6, <2>1
<1> HIDE DEF rank
<1>10. DOMAIN s = 1..N /\ s \in Seq(Nat)
  <2>1. DOMAIN s = 1..N /\ s = [k \in 1..N |-> s[k]]
    BY <1>8
  <2>2. \A k \in 1..N : s[k] \in Nat
    <3>1. \A x \in S : x \in Nat
      OBVIOUS
    <3> QED
      BY <1>9, <3>1
  <2> QED
    BY <2>1, <2>2
<1>11. IsInjective(s)
  <2> SUFFICES ASSUME NEW i \in 1..N, NEW j \in 1..N, s[i] = s[j] PROVE i = j
    BY <1>10 DEF IsInjective
  <2>1. i - 1 = j - 1
    BY <1>9
  <2> QED
    BY <2>1
<1>12. Range(s) = S
  <2>1. Range(s) = {s[k] : k \in 1..N}
    BY <1>10 DEF Range
  <2>2. ASSUME NEW x \in S
        PROVE  \E k \in 1..N : x = s[k]
    <3>1. rank(x) \in 0..(N - 1)
      BY <1>3
    <3>2. rank(x) + 1 \in 1..N /\ (rank(x) + 1) - 1 = rank(x)
      BY <3>1
    <3>3. PICK k \in 1..N : k - 1 = rank(x)
      BY <3>2
    <3>4. rank(s[k]) = rank(x) /\ s[k] \in S
      BY <1>9, <3>3
    <3> QED
      BY <1>5, <3>4
  <2> QED
    BY <1>9, <2>1, <2>2
<1> QED
  BY <1>7, <1>10, <1>11, <1>12

-----------------------------------------------------------------------------
(* The invariant.  It is about the file as it will be when the writes that *)
(* wait are done: that file is in order, and the index and the free list   *)
(* agree with it.                                                          *)

Settled == Settle(file, todo)
To(f, p) == {k \in Addresses(f) : f[k].to = p}

Agree(f, ix, fr) ==
    /\ \A p \in Players : IsInjective(ix[p]) /\ Range(ix[p]) = To(f, p)
    /\ Lists(f, fr)

Types ==
    /\ file \in Seq(Block) /\ todo \in Seq(Write)
    /\ index \in [Players -> Seq(Nat)] /\ free_list \in Seq(Nat)
    /\ up \in BOOLEAN /\ no_mail \in BOOLEAN
    /\ writing \in [Players -> Players \cup {NONE}]
    /\ handed.by \subseteq Players

MailInv ==
    /\ Types
    /\ Fits(file, todo)
    /\ Settled \in Seq(Block) /\ Order(Settled)
    /\ up => Agree(Settled, index, free_list)
    /\ ~ up => todo = <<>>

\* The letters that wait, as the mailboxes have them.
Waiting(f) == [p \in Players |-> {Read(f, k) : k \in To(f, p)}]

LEMMA EmptyOrder == Addresses(<<>>) = {} /\ Deleted(<<>>) = {} /\ Order(<<>>)
<1>1. DOMAIN <<>> = {}
  OBVIOUS
<1>2. Addresses(<<>>) = {} /\ Deleted(<<>>) = {}
  BY <1>1 DEF Addresses, Deleted
<1> QED
  BY <1>1, <1>2 DEF Order

LEMMA MailInit == Init => MailInv /\ Boxes!Init
<1> SUFFICES ASSUME Init PROVE MailInv /\ Boxes!Init
  OBVIOUS
<1>1. /\ file = <<>> /\ todo = <<>> /\ index = NoIndex /\ free_list = <<>>
      /\ up = TRUE /\ no_mail = FALSE /\ writing = Nobody /\ handed = [by |-> {}, what |-> {}]
  BY DEF Init
<1>2. IsInjective(<<>>) /\ Range(<<>>) = {}
  BY DEF IsInjective, Range
<1>3. Types
  <2>1. \A X : <<>> \in Seq(X)
    OBVIOUS
  <2>2. index \in [Players -> Seq(Nat)]
    BY <1>1, <2>1 DEF NoIndex
  <2>3. writing \in [Players -> Players \cup {NONE}]
    BY <1>1 DEF Nobody
  <2>4. handed.by = {}
    BY <1>1
  <2> QED
    BY <1>1, <2>1, <2>2, <2>3, <2>4 DEF Types
<1>4. Settled = <<>>
  <2>1. <<>> \in Seq(Block)
    OBVIOUS
  <2> QED
    BY <1>1, <2>1, SettleEmpty DEF Settled
<1>5. Fits(file, todo)
  BY <1>1 DEF Fits
<1>6. Agree(<<>>, index, free_list)
  <2>1. \A p \in Players : index[p] = <<>> /\ To(<<>>, p) = {}
    BY <1>1, EmptyOrder DEF NoIndex, To
  <2>2. Lists(<<>>, <<>>)
    <3>1. <<>> \in Seq(Nat)
      OBVIOUS
    <3> QED
      BY <1>2, <3>1, EmptyOrder DEF Lists
  <2> QED
    BY <1>1, <1>2, <2>1, <2>2 DEF Agree
<1>7. <<>> \in Seq(Block)
  OBVIOUS
<1>8. MailInv
  BY <1>1, <1>3, <1>4, <1>5, <1>6, <1>7, EmptyOrder DEF MailInv
<1>9. Boxes!Init
  <2>1. Settle(file, todo) = <<>>
    BY <1>4 DEF Settled
  <2>2. Addresses(<<>>) = {}
    BY EmptyOrder
  <2> QED
    BY <1>1, <2>1, <2>2 DEF Boxes!Init
<1> QED
  BY <1>8, <1>9

-----------------------------------------------------------------------------
(* The steps                                                               *)

LEMMA BoxesPost ==
    ASSUME NEW q, NEW t,
           \A r \in Players : t \notin Waiting(Settled)[r],
           Waiting(Settled)' = [Waiting(Settled) EXCEPT ![q] = @ \cup {t}],
           handed' = handed
    PROVE  Boxes!Post(q, t)
BY DEF Boxes!Post, Waiting, Settled, To

LEMMA BoxesCollect ==
    ASSUME NEW q,
           Waiting(Settled)[q] # {},
           handed' = [by |-> {q}, what |-> Waiting(Settled)[q]],
           Waiting(Settled)' = [Waiting(Settled) EXCEPT ![q] = {}]
    PROVE  Boxes!Collect(q)
BY DEF Boxes!Collect, Waiting, Settled, To

\* Between two commands the file is as it will be.
LEMMA QuietIs ==
    ASSUME MailInv, todo = <<>>
    PROVE  file \in Seq(Block) /\ Settled = file /\ Order(file)
           /\ (up => Agree(file, index, free_list))
<1>1. file \in Seq(Block)
  BY DEF MailInv, Types
<1>2. Settled = file
  BY <1>1, SettleEmpty DEF Settled
<1> QED
  BY <1>1, <1>2 DEF MailInv

LEMMA StoreMailStep ==
    ASSUME MailInv, NEW p \in Players, NEW l \in Letters, StoreMail(p, l)
    PROVE  MailInv' /\ \E q \in Players : Boxes!Post(q, Whole(l))
<1>1. /\ up /\ todo = <<>> /\ writing[p] # NONE
      /\ \A k \in DOMAIN file : file[k].type # "deleted" => file[k].text.letter # l
      /\ free_list' = LeftFree(Size[l])
      /\ writing' = [writing EXCEPT ![p] = NONE]
      /\ file' = file /\ up' = up /\ no_mail' = no_mail /\ handed' = handed
  BY DEF StoreMail
<1>2. /\ Types /\ file \in Seq(Block) /\ Settled = file /\ Order(file)
      /\ Agree(file, index, free_list)
  BY <1>1, QuietIs DEF MailInv
<1>3. PICK q \in Players : q = writing[p]
  BY <1>1, <1>2 DEF Types
<1>4. PICK at : at = Popped(Size[l])
  OBVIOUS
<1>5. todo' = Storing(q, l, at) /\ index' = [index EXCEPT ![q] = <<at[1]>> \o @]
  BY <1>3, <1>4 DEF StoreMail
<1>6. PICK f : f = file
  OBVIOUS
<1> PICK n \in Nat : n = Len(free_list)
  BY <1>2 DEF Types
<1>7. /\ Size[l] \in Nat \ {0}
      /\ at \in Seq(Nat \ {0}) /\ Len(at) = Size[l] /\ IsInjective(at)
      /\ \A i \in 1..Size[l] : /\ i <= n => at[i] \in Deleted(f)
                               /\ i > n => at[i] = Len(f) + i - n
      /\ \E z \in Nat : DOMAIN f \cup Range(at) = 1..z
      /\ LeftFree(Size[l]) \in Seq(Nat) /\ IsInjective(LeftFree(Size[l]))
      /\ Range(LeftFree(Size[l])) = Deleted(f) \ Range(at)
  <2>1. Size[l] \in Nat \ {0} /\ Lists(file, free_list)
    BY <1>2, MailAssumption DEF Agree
  <2> QED
    BY <1>2, <1>4, <1>6, <2>1, PoppedIs
<1>8. PICK F : F = Settle(f, Storing(q, l, at))
  OBVIOUS
<1>9. /\ F \in Seq(Block) /\ DOMAIN F = DOMAIN f \cup Range(at)
      /\ Spelled(F, at, q, l)
      /\ \A k \in DOMAIN f \ Range(at) : F[k] = f[k]
  <2>1. f \in Seq(Block)
    BY <1>2, <1>6
  <2>2. Stored(Settle(f, Storing(q, l, at)), f, at, q, l)
    BY <1>7, <2>1, StoringSettles
  <2>3. Stored(F, f, at, q, l)
    BY <1>8, <2>2
  <2> QED
    BY <2>3 DEF Stored
<1>10. Range(at) \cap (DOMAIN f \ Deleted(f)) = {}
  <2>1. DOMAIN at = 1..Size[l] /\ f \in Seq(Block)
    BY <1>2, <1>6, <1>7
  <2>2. ASSUME NEW i \in 1..Size[l]
        PROVE  at[i] \notin DOMAIN f \ Deleted(f)
    <3>1. CASE i <= n
      BY <1>7, <3>1
    <3>2. CASE ~ (i <= n)
      <4>1. at[i] = Len(f) + i - n /\ i > n
        BY <1>7, <3>2
      <4>2. DOMAIN f = 1..Len(f) /\ Len(f) \in Nat
        BY <2>1
      <4> QED
        BY <4>1, <4>2
    <3> QED
      BY <3>1, <3>2
  <2> QED
    BY <2>1, <2>2 DEF Range
<1>11. PICK h : h = at[1]
  OBVIOUS
<1>12. /\ Order(F)
       /\ Addresses(F) = Addresses(f) \cup {h} /\ h \notin Addresses(f)
       /\ F[h].to = q /\ Read(F, h) = Whole(l)
       /\ \A a \in Addresses(f) : F[a] = f[a] /\ Read(F, a) = Read(f, a)
       /\ Deleted(F) = Deleted(f) \ Range(at)
  <2>1. f \in Seq(Block) /\ Order(f)
    BY <1>2, <1>6
  <2> QED
    BY <1>9, <1>10, <1>11, <2>1, OrderMore
<1>13. To(F, q) = To(f, q) \cup {h} /\ \A r \in Players : r # q => To(F, r) = To(f, r)
  BY <1>12 DEF To
<1>14. Settled' = F
  BY <1>1, <1>5, <1>6, <1>8 DEF Settled
<1>15. Agree(F, index', free_list')
  <2>1. Lists(F, free_list')
    BY <1>1, <1>7, <1>12 DEF Lists
  <2>2. ASSUME NEW r \in Players
        PROVE  IsInjective(index'[r]) /\ Range(index'[r]) = To(F, r)
    <3>0. /\ index \in [Players -> Seq(Nat)]
          /\ IsInjective(index[r]) /\ Range(index[r]) = To(f, r)
      BY <1>2, <1>6 DEF Types, Agree
    <3>1. CASE r = q
      <4>1. PICK s \in Seq(Nat) : s = index[q]
        BY <3>0
      <4>2. index'[q] = <<h>> \o s
        BY <1>5, <1>11, <3>0, <4>1
      <4>3. <<h>> \in Seq(Nat) /\ IsInjective(<<h>>) /\ Range(<<h>>) = {h}
        <5>1. h \in Nat
          BY <1>7, <1>11
        <5>2. DOMAIN <<h>> = {1} /\ <<h>>[1] = h
          OBVIOUS
        <5>3. IsInjective(<<h>>) /\ Range(<<h>>) = {h}
          BY <5>2, Zenon DEF IsInjective, Range
        <5> QED
          BY <5>1, <5>3
      <4>4. IsInjective(s) /\ Range(s) = To(f, q)
        BY <3>0, <3>1, <4>1
      <4>5. Range(<<h>>) \cap Range(s) = {}
        BY <1>12, <4>3, <4>4 DEF To
      <4>6. IsInjective(<<h>> \o s)
        BY <4>3, <4>4, <4>5, InjectiveConcat
      <4>7. Range(<<h>> \o s) = Range(<<h>>) \cup Range(s)
        BY ZenonT(60), <4>3, ConcatSet
      <4>8. Range(<<h>> \o s) = To(F, q)
        BY <1>13, <4>3, <4>4, <4>7
      <4> QED
        BY <3>1, <4>2, <4>6, <4>8, Zenon
    <3>2. CASE r # q
      <4>1. index'[r] = index[r]
        BY <1>5, <3>0, <3>2
      <4> QED
        BY <1>13, <3>0, <3>2, <4>1
    <3> QED
      BY <3>1, <3>2
  <2> QED
    BY <2>1, <2>2 DEF Agree
<1>16. Fits(file', todo') /\ todo' \in Seq(Write)
  <2>1. \A i \in 1..Size[l] : /\ i <= n => at[i] \in DOMAIN f
                              /\ i > n => at[i] = Len(f) + i - n
    BY <1>7 DEF Deleted
  <2>2. Fits(f, Storing(q, l, at))
    BY <1>2, <1>6, <1>7, <2>1, StoringFits
  <2>3. Storing(q, l, at) \in Seq(Write)
    <3>1. Stores(Storing(q, l, at), Size[l], q, l, at)
      BY <1>7, StoringIs
    <3> QED
      BY <3>1 DEF Stores
  <2> QED
    BY <1>1, <1>5, <1>6, <2>2, <2>3
<1>17. Types'
  <2>1. index' \in [Players -> Seq(Nat)]
    <3>1. <<at[1]>> \o index[q] \in Seq(Nat)
      <4>1. at[1] \in Nat /\ index[q] \in Seq(Nat)
        BY <1>2, <1>7 DEF Types
      <4> QED
        BY <4>1
    <3> QED
      BY <1>2, <1>5, <3>1 DEF Types
  <2>2. writing' \in [Players -> Players \cup {NONE}]
    BY <1>1, <1>2 DEF Types
  <2> QED
    BY <1>1, <1>2, <1>7, <1>16, <2>1, <2>2 DEF Types
<1>18. MailInv'
  BY <1>1, <1>9, <1>12, <1>14, <1>15, <1>16, <1>17 DEF MailInv
<1>19. \A r \in Players : Whole(l) \notin Waiting(f)[r]
  <2> SUFFICES ASSUME NEW r \in Players, NEW a \in To(f, r), Read(f, a) = Whole(l)
               PROVE  FALSE
    BY DEF Waiting
  <2>1. a \in Addresses(f)
    BY DEF To
  <2>0. PICK c : c = Chain(f, a)
    OBVIOUS
  <2>2. PICK g \in Players, m \in Letters : Spelled(f, c, g, m) /\ c[1] = a
    BY <1>2, <1>6, <2>0, <2>1 DEF Order
  <2>3. f[a].text.letter = m /\ Read(f, a) = Whole(m)
    BY <1>2, <1>6, <2>2, SpelledIs
  <2>4. l = m
    BY <2>3, WholeIs
  <2>5. f[a].type # "deleted" /\ a \in DOMAIN f
    BY <2>1 DEF Addresses
  <2> QED
    BY <1>1, <1>6, <2>3, <2>4, <2>5
<1>20. Waiting(F) = [Waiting(f) EXCEPT ![q] = @ \cup {Whole(l)}]
  <2>1. ASSUME NEW r \in Players
        PROVE  {Read(F, k) : k \in To(f, r)} = {Read(f, k) : k \in To(f, r)}
    BY <1>12 DEF To
  <2>2. {Read(F, k) : k \in To(F, q)} = {Read(f, k) : k \in To(f, q)} \cup {Whole(l)}
    <3>1. {Read(F, k) : k \in To(F, q)} = {Read(F, k) : k \in To(f, q)} \cup {Read(F, h)}
      BY <1>13
    <3> QED
      BY <1>12, <2>1, <3>1
  <2>3. \A r \in Players : r # q => {Read(F, k) : k \in To(F, r)} = {Read(f, k) : k \in To(f, r)}
    BY <1>13, <2>1
  <2> QED
    BY <2>2, <2>3 DEF Waiting
<1>21. Waiting(Settled)' = Waiting(F)
  BY <1>14 DEF Waiting, To
<1>22. Boxes!Post(q, Whole(l))
  <2>1. Waiting(Settled)' = [Waiting(Settled) EXCEPT ![q] = @ \cup {Whole(l)}]
    BY <1>2, <1>6, <1>20, <1>21
  <2> QED
    BY <1>1, <1>2, <1>6, <1>19, <2>1, BoxesPost
<1> QED
  BY <1>18, <1>22

LEMMA ReceiveMailStep ==
    ASSUME MailInv, NEW p \in Players, ReceiveMail(p)
    PROVE  MailInv' /\ Boxes!Collect(p)
<1>1. /\ up /\ todo = <<>> /\ index[p] # <<>>
      /\ handed' = [by |-> {p}, what |-> {Read(file, pos) : pos \in Readable(p)}]
      /\ todo' = Deleting(Emptied(p))
      /\ free_list' = Reverse(Emptied(p)) \o free_list
      /\ no_mail' = (Readable(p) # Range(index[p]))
      /\ index' = [index EXCEPT ![p] = <<>>]
      /\ file' = file /\ up' = up /\ writing' = writing
  BY DEF ReceiveMail, Idle
<1>2. /\ Types /\ file \in Seq(Block) /\ Settled = file /\ Order(file)
      /\ Agree(file, index, free_list)
  BY <1>1, QuietIs DEF MailInv
<1>3. PICK f : f = file
  OBVIOUS
<1>4. index[p] \in Seq(Nat) /\ IsInjective(index[p]) /\ Range(index[p]) = To(f, p)
  BY <1>2, <1>3 DEF Types, Agree
<1>5. To(f, p) \subseteq Addresses(f)
  BY DEF To
<1>6. PICK e : e = Emptied(p)
  OBVIOUS
<1>7. /\ Readable(p) = To(f, p)
      /\ e \in Seq(DOMAIN f) /\ IsInjective(e)
      /\ Range(e) = UNION {Range(Chain(f, a)) : a \in To(f, p)}
  <2>1. /\ Readable(p) = Range(index[p])
        /\ Emptied(p) \in Seq(DOMAIN file) /\ IsInjective(Emptied(p))
        /\ Range(Emptied(p)) = UNION {Range(Chain(file, a)) : a \in Range(index[p])}
    BY <1>2, <1>3, <1>4, <1>5, EmptiedIs
  <2> QED
    BY <1>3, <1>4, <1>6, <2>1
<1>8. PICK F : F = Settle(f, Deleting(e))
  OBVIOUS
<1>9. /\ Deleting(e) \in Seq(Write) /\ Fits(f, Deleting(e))
      /\ F \in Seq(Block) /\ DOMAIN F = DOMAIN f
      /\ \A k \in Range(e) : F[k] = DELETED
      /\ \A k \in DOMAIN f \ Range(e) : F[k] = f[k]
  <2>1. f \in Seq(Block)
    BY <1>2, <1>3
  <2> QED
    BY <1>7, <1>8, <2>1, DeletingSettles
<1>10. /\ Order(F)
       /\ Addresses(F) = Addresses(f) \ To(f, p)
       /\ \A a \in Addresses(F) : F[a] = f[a] /\ Read(F, a) = Read(f, a)
       /\ Deleted(F) = Deleted(f) \cup Range(e)
       /\ Range(e) \subseteq DOMAIN f \ Deleted(f)
  <2>1. f \in Seq(Block) /\ Order(f)
    BY <1>2, <1>3
  <2>2. PICK A : A = To(f, p)
    OBVIOUS
  <2>3. A \in SUBSET Addresses(f) /\ Range(e) = UNION {Range(Chain(f, a)) : a \in A}
    BY <1>5, <1>7, <2>2
  <2>4. PICK gone : gone = Range(e)
    OBVIOUS
  <2>5. F \in Seq(Block) /\ Cleared(F, f, A, gone)
    BY <1>9, <2>3, <2>4 DEF Cleared
  <2>6. /\ Order(F)
        /\ Addresses(F) = Addresses(f) \ A
        /\ \A a \in Addresses(F) : F[a] = f[a] /\ Read(F, a) = Read(f, a)
        /\ Deleted(F) = Deleted(f) \cup gone
        /\ gone \subseteq DOMAIN f \ Deleted(f)
    BY <2>1, <2>3, <2>5, OrderLess
  <2> QED
    BY <2>2, <2>4, <2>6
<1>11. To(F, p) = {} /\ \A r \in Players : r # p => To(F, r) = To(f, r)
  <2>1. To(F, p) = {}
    BY <1>10 DEF To
  <2>2. ASSUME NEW r \in Players, r # p
        PROVE  To(F, r) = To(f, r)
    BY <1>10, <2>2 DEF To
  <2> QED
    BY <2>1, <2>2
<1>12. Settled' = F
  BY <1>1, <1>3, <1>6, <1>8 DEF Settled
<1>13. PICK v : v = Reverse(e)
  OBVIOUS
<1>14. v \in Seq(Nat) /\ IsInjective(v) /\ Range(v) = Range(e)
  <2>1. PICK m \in Nat : m = Len(e)
    BY <1>7
  <2>2. DOMAIN e = 1..m /\ \A i \in 1..m : e[i] \in Nat
    <3>1. DOMAIN f \subseteq Nat
      BY <1>2, <1>3
    <3>2. DOMAIN e = 1..m /\ \A i \in 1..m : e[i] \in DOMAIN f
      BY <1>7, <2>1
    <3> QED
      BY <3>1, <3>2
  <2>3. v = [i \in 1..m |-> e[m - i + 1]]
    BY <1>13, <2>1 DEF Reverse
  <2>4. DOMAIN v = 1..m /\ \A i \in 1..m : v[i] = e[m - i + 1] /\ m - i + 1 \in 1..m
    BY <2>3
  <2>5. v \in Seq(Nat)
    <3>1. \A i \in 1..m : v[i] \in Nat
      BY <2>2, <2>4
    <3>2. v = [i \in 1..m |-> v[i]]
      BY <2>3, <2>4
    <3> QED
      BY <3>1, <3>2
  <2>6. IsInjective(v)
    <3> SUFFICES ASSUME NEW i \in 1..m, NEW j \in 1..m, v[i] = v[j] PROVE i = j
      BY <2>4 DEF IsInjective
    <3>1. m - i + 1 = m - j + 1
      BY <1>7, <2>2, <2>4 DEF IsInjective
    <3> QED
      BY <3>1
  <2>7. Range(v) = Range(e)
    <3>1. Range(v) = {v[i] : i \in 1..m} /\ Range(e) = {e[i] : i \in 1..m}
      BY <2>2, <2>4 DEF Range
    <3>2. ASSUME NEW i \in 1..m
          PROVE  e[i] \in {v[j] : j \in 1..m}
      <4>1. m - i + 1 \in 1..m /\ m - (m - i + 1) + 1 = i
        OBVIOUS
      <4>2. v[m - i + 1] = e[i]
        BY <2>4, <4>1
      <4> QED
        BY <4>1, <4>2
    <3> QED
      BY <2>4, <3>1, <3>2
  <2> QED
    BY <2>5, <2>6, <2>7
<1>15. Lists(F, free_list') /\ free_list' \in Seq(Nat)
  <2>1. PICK s : s = free_list
    OBVIOUS
  <2>2. s \in Seq(Nat) /\ IsInjective(s) /\ Range(s) = Deleted(f)
    BY <1>2, <1>3, <2>1 DEF Agree, Lists
  <2>3. free_list' = v \o s
    BY <1>1, <1>6, <1>13, <2>1
  <2>4. Range(v) \cap Range(s) = {}
    BY <1>10, <1>14, <2>2
  <2>5. IsInjective(v \o s)
    BY <1>14, <2>2, <2>4, InjectiveConcat
  <2>6. v \o s \in Seq(Nat) /\ Range(v \o s) = Range(v) \cup Range(s)
    BY <1>14, <2>2, ConcatSet
  <2>7. Range(v \o s) = Deleted(F)
    BY <1>10, <1>14, <2>2, <2>6
  <2> QED
    BY <2>3, <2>5, <2>6, <2>7, Zenon DEF Lists
<1>16. Agree(F, index', free_list') /\ index' \in [Players -> Seq(Nat)]
  <2>0. index \in [Players -> Seq(Nat)]
    BY <1>2 DEF Types
  <2>1. index'[p] = <<>> /\ \A r \in Players : r # p => index'[r] = index[r]
    BY <1>1, <2>0
  <2>2. index' \in [Players -> Seq(Nat)]
    <3>1. <<>> \in Seq(Nat)
      OBVIOUS
    <3> QED
      BY <1>1, <2>0, <3>1
  <2>3. IsInjective(<<>>) /\ Range(<<>>) = {}
    BY DEF IsInjective, Range
  <2>4. \A r \in Players : IsInjective(index[r]) /\ Range(index[r]) = To(f, r)
    BY <1>2, <1>3 DEF Agree
  <2>5. ASSUME NEW r \in Players
        PROVE  IsInjective(index'[r]) /\ Range(index'[r]) = To(F, r)
    <3>1. CASE r = p
      BY <1>11, <2>1, <2>3, <3>1
    <3>2. CASE r # p
      BY <1>11, <2>1, <2>4, <3>2
    <3> QED
      BY <3>1, <3>2
  <2> QED
    BY <1>15, <2>2, <2>5 DEF Agree
<1>17. Types'
  <2>1. handed'.by = {p} /\ no_mail' \in BOOLEAN
    BY <1>1
  <2>2. todo' \in Seq(Write)
    BY <1>1, <1>6, <1>9
  <2> QED
    BY <1>1, <1>2, <1>15, <1>16, <2>1, <2>2 DEF Types
<1>18. Fits(file', todo')
  BY <1>1, <1>3, <1>6, <1>9
<1>19. MailInv'
  BY <1>1, <1>9, <1>10, <1>12, <1>16, <1>17, <1>18 DEF MailInv
<1>20. Waiting(F) = [Waiting(f) EXCEPT ![p] = {}]
  <2>1. ASSUME NEW r \in Players, r # p
        PROVE  {Read(F, k) : k \in To(F, r)} = {Read(f, k) : k \in To(f, r)}
    <3>1. To(F, r) = To(f, r) /\ To(F, r) \subseteq Addresses(F)
      BY <1>11, <2>1 DEF To
    <3> QED
      BY <1>10, <3>1
  <2>2. {Read(F, k) : k \in To(F, p)} = {}
    BY <1>11
  <2> QED
    BY <2>1, <2>2 DEF Waiting
<1>21. Waiting(f)[p] = {Read(f, k) : k \in To(f, p)}
  BY DEF Waiting
<1>22. Waiting(f)[p] # {}
  <2>1. index[p][1] \in Range(index[p])
    <3>1. 1 \in DOMAIN index[p]
      BY <1>1, <1>4
    <3> QED
      BY <3>1 DEF Range
  <2> QED
    BY <1>4, <1>21, <2>1
<1>23. Waiting(Settled)' = Waiting(F)
  BY <1>12 DEF Waiting, To
<1>24. Boxes!Collect(p)
  <2>1. Waiting(Settled)' = [Waiting(Settled) EXCEPT ![p] = {}]
    BY <1>2, <1>3, <1>20, <1>23
  <2>2. Waiting(Settled)[p] # {}
    BY <1>2, <1>3, <1>22
  <2>3. handed' = [by |-> {p}, what |-> Waiting(Settled)[p]]
    BY <1>1, <1>2, <1>3, <1>7, <1>21
  <2> QED
    BY <2>1, <2>2, <2>3, BoxesCollect
<1> QED
  BY <1>19, <1>24

\* What leaves the file and both lists alone.
LEMMA SameMail ==
    ASSUME MailInv, UNCHANGED <<file, todo, index, free_list, up, no_mail, handed>>,
           writing' \in [Players -> Players \cup {NONE}]
    PROVE  MailInv' /\ Waiting(Settled)' = Waiting(Settled)
<1>1. Settled' = Settled
  BY DEF Settled
<1>2. Types'
  BY DEF MailInv, Types
<1>3. MailInv'
  BY <1>1, <1>2 DEF MailInv
<1> QED
  BY <1>1, <1>3 DEF Waiting, To

LEMMA StartMailStep ==
    ASSUME MailInv, NEW p \in Players, NEW q \in Players, StartMail(p, q)
    PROVE  MailInv' /\ Waiting(Settled)' = Waiting(Settled) /\ handed' = handed
<1>1. writing' \in [Players -> Players \cup {NONE}]
  BY DEF StartMail, MailInv, Types
<1>2. UNCHANGED <<file, todo, index, free_list, up, no_mail, handed>>
  BY DEF StartMail
<1> QED
  BY <1>1, <1>2, SameMail

LEMMA LetterLostStep ==
    ASSUME MailInv, NEW p \in Players, LetterLost(p)
    PROVE  MailInv' /\ Waiting(Settled)' = Waiting(Settled) /\ handed' = handed
<1>1. writing' \in [Players -> Players \cup {NONE}]
  BY DEF LetterLost, MailInv, Types
<1>2. UNCHANGED <<file, todo, index, free_list, up, no_mail, handed>>
  BY DEF LetterLost
<1> QED
  BY <1>1, <1>2, SameMail

LEMMA WriteToFileStep ==
    ASSUME MailInv, WriteToFile
    PROVE  MailInv' /\ Waiting(Settled)' = Waiting(Settled) /\ handed' = handed
<1>1. /\ up /\ todo # <<>> /\ file' = Written(file, Head(todo)) /\ todo' = Tail(todo)
      /\ UNCHANGED <<index, free_list, up, no_mail, writing, handed>>
  BY DEF WriteToFile
<1>2. Types /\ file \in Seq(Block) /\ todo \in Seq(Write) /\ Fits(file, todo)
  BY DEF MailInv, Types
<1>3. /\ file' \in Seq(Block) /\ Settle(file', todo') = Settle(file, todo)
      /\ todo' \in Seq(Write) /\ Fits(file', todo')
  <2>1. /\ Written(file, Head(todo)) \in Seq(Block)
        /\ Settle(Written(file, Head(todo)), Tail(todo)) = Settle(file, todo)
        /\ Tail(todo) \in Seq(Write) /\ Fits(Written(file, Head(todo)), Tail(todo))
    BY <1>1, <1>2, SettleStep
  <2> QED
    BY <1>1, <2>1
<1>4. Settled' = Settled
  BY <1>3 DEF Settled
<1>5. Types'
  BY <1>1, <1>2, <1>3 DEF Types
<1>6. MailInv'
  BY <1>1, <1>3, <1>4, <1>5 DEF MailInv
<1> QED
  BY <1>1, <1>4, <1>6 DEF Waiting, To

LEMMA CrashStep ==
    ASSUME MailInv, ~ Torn, Crash
    PROVE  MailInv' /\ Waiting(Settled)' = Waiting(Settled) /\ handed' = handed
<1>1. /\ up /\ todo = <<>> /\ up' = FALSE /\ todo' = <<>> /\ no_mail' = FALSE
      /\ index' = NoIndex /\ free_list' = <<>> /\ writing' = Nobody
      /\ file' = file /\ handed' = handed
  BY DEF Crash
<1>2. Settled' = Settled
  BY <1>1 DEF Settled
<1>3. Types'
  <2>1. \A X : <<>> \in Seq(X)
    OBVIOUS
  <2>2. NoIndex \in [Players -> Seq(Nat)]
    BY <2>1 DEF NoIndex
  <2>3. Nobody \in [Players -> Players \cup {NONE}]
    BY DEF Nobody
  <2> QED
    BY <1>1, <2>1, <2>2, <2>3 DEF MailInv, Types
<1>4. Fits(file', todo')
  BY <1>1 DEF MailInv
<1>5. MailInv'
  BY <1>1, <1>2, <1>3, <1>4 DEF MailInv
<1> QED
  BY <1>1, <1>2, <1>5 DEF Waiting, To

LEMMA ScanMailFileStep ==
    ASSUME MailInv, ScanMailFile
    PROVE  MailInv' /\ Waiting(Settled)' = Waiting(Settled) /\ handed' = handed
<1>1. /\ ~ up /\ up' = TRUE
      /\ index' = [p \in Players |-> Scanned({k \in Addresses(file) : file[k].to = p})]
      /\ free_list' = Scanned(Deleted(file))
      /\ UNCHANGED <<file, todo, no_mail, writing, handed>>
  BY DEF ScanMailFile
<1>2. todo = <<>>
  BY <1>1 DEF MailInv
<1>3. Types /\ file \in Seq(Block) /\ Settled = file
  BY <1>2, QuietIs DEF MailInv
<1>4. Settled' = file
  BY <1>1, <1>3 DEF Settled
<1> PICK n \in Nat : n = Len(file)
  BY <1>3
<1>5. DOMAIN file = 1..n
  BY <1>3
<1>6. ASSUME NEW S \in SUBSET (1..n)
      PROVE  Scanned(S) \in Seq(Nat) /\ IsInjective(Scanned(S)) /\ Range(Scanned(S)) = S
  BY FallingIs DEF Scanned
<1>7. Lists(file, free_list') /\ free_list' \in Seq(Nat)
  <2>1. Deleted(file) \in SUBSET (1..n)
    BY <1>5 DEF Deleted
  <2> QED
    BY <1>1, <1>6, <2>1 DEF Lists
<1>8. ASSUME NEW p \in Players
      PROVE  /\ index'[p] \in Seq(Nat) /\ IsInjective(index'[p])
             /\ Range(index'[p]) = To(file, p)
  <2>1. To(file, p) \in SUBSET (1..n)
    BY <1>5 DEF To, Addresses
  <2>2. index'[p] = Scanned(To(file, p))
    BY <1>1 DEF To
  <2> QED
    BY <1>6, <2>1, <2>2
<1>9. index' \in [Players -> Seq(Nat)]
  <2>1. index' = [p \in Players |-> index'[p]]
    BY <1>1
  <2> QED
    BY <1>8, <2>1
<1>10. Agree(file, index', free_list')
  BY <1>7, <1>8 DEF Agree
<1>11. Types'
  BY <1>1, <1>3, <1>7, <1>9 DEF Types
<1>12. MailInv'
  <2>1. Fits(file', todo')
    BY <1>1 DEF MailInv
  <2>2. Settled' \in Seq(Block) /\ Order(Settled')
    BY <1>3, <1>4 DEF MailInv
  <2>3. Agree(Settled', index', free_list')
    BY <1>4, <1>10
  <2> QED
    BY <1>1, <1>11, <2>1, <2>2, <2>3 DEF MailInv
<1> QED
  BY <1>1, <1>3, <1>4, <1>12 DEF Waiting, To

\* Every step keeps the invariant, and is a step of the mailboxes or none.
LEMMA MailStep ==
    ASSUME ~ Torn, MailInv, [Next]_vars
    PROVE  /\ MailInv'
           /\ Boxes!Next \/ (Waiting(Settled)' = Waiting(Settled) /\ handed' = handed)
<1>1. ASSUME NEW p \in Players, NEW q \in Players, StartMail(p, q)
      PROVE  MailInv' /\ Waiting(Settled)' = Waiting(Settled) /\ handed' = handed
  BY <1>1, StartMailStep
<1>2. ASSUME NEW p \in Players, NEW l \in Letters, StoreMail(p, l)
      PROVE  MailInv' /\ Boxes!Next
  <2>1. MailInv' /\ \E q \in Players : Boxes!Post(q, Whole(l))
    BY <1>2, StoreMailStep
  <2>2. Whole(l) \in {Whole(m) : m \in Letters}
    OBVIOUS
  <2> QED
    BY <2>1, <2>2 DEF Boxes!Next
<1>3. ASSUME NEW p \in Players, LetterLost(p)
      PROVE  MailInv' /\ Waiting(Settled)' = Waiting(Settled) /\ handed' = handed
  BY <1>3, LetterLostStep
<1>4. ASSUME NEW p \in Players, ReceiveMail(p)
      PROVE  MailInv' /\ Boxes!Next
  <2>1. MailInv' /\ Boxes!Collect(p)
    BY <1>4, ReceiveMailStep
  <2> QED
    BY <2>1 DEF Boxes!Next
<1>5. CASE WriteToFile
  BY <1>5, WriteToFileStep
<1>6. CASE Crash
  BY <1>6, CrashStep
<1>7. CASE ScanMailFile
  BY <1>7, ScanMailFileStep
<1>8. CASE UNCHANGED vars
  <2>1. UNCHANGED <<file, todo, index, free_list, up, no_mail, handed>> /\ writing' = writing
    BY <1>8 DEF vars
  <2>2. writing' \in [Players -> Players \cup {NONE}]
    BY <2>1 DEF MailInv, Types
  <2> QED
    BY <2>1, <2>2, SameMail
<1> QED
  BY <1>1, <1>2, <1>3, <1>4, <1>5, <1>6, <1>7, <1>8 DEF Next

-----------------------------------------------------------------------------
(* The theorems                                                            *)

\* What the invariant says between two commands.
LEMMA MailInvImplies ==
    ASSUME MailInv
    PROVE  TypeOK /\ IndexAgrees /\ NoBlockLost
<1>1. TypeOK
  <2>1. Types
    BY DEF MailInv
  <2>2. \A k \in DOMAIN todo : todo[k].pos \in Nat \ {0} /\ todo[k].block \in Block
    <3> SUFFICES ASSUME NEW k \in DOMAIN todo
                 PROVE  todo[k].pos \in Nat \ {0} /\ todo[k].block \in Block
      OBVIOUS
    <3>1. todo[k] \in Write
      BY <2>1 DEF Types
    <3> QED
      BY <3>1 DEF Write
  <2> QED
    BY <2>1, <2>2 DEF TypeOK, Types
<1>2. IndexAgrees
  <2> SUFFICES ASSUME up, todo = <<>>
               PROVE  /\ \A p \in Players :
                            /\ IsInjective(index[p])
                            /\ Range(index[p]) = {k \in Addresses(file) : file[k].to = p}
                      /\ IsInjective(free_list)
                      /\ Range(free_list) = Deleted(file)
    BY DEF IndexAgrees
  <2>1. Agree(file, index, free_list)
    BY QuietIs
  <2> QED
    BY <2>1 DEF Agree, Lists, To
<1>3. NoBlockLost
  <2> SUFFICES ASSUME todo = <<>> PROVE NoBlockLost
    BY DEF NoBlockLost
  <2>1. PICK f : f = file
    OBVIOUS
  <2>2. f \in Seq(Block) /\ Order(f)
    BY <2>1, QuietIs
  <2>3. \A j, k \in Addresses(f) : j # k => Range(Chain(f, j)) \cap Range(Chain(f, k)) = {}
    BY <2>2 DEF Order
  <2>4. ASSUME NEW a \in Addresses(f)
        PROVE  Range(Chain(f, a)) \subseteq DOMAIN f \ Deleted(f)
    <3>1. PICK c : c = Chain(f, a)
      OBVIOUS
    <3>2. PICK p \in Players, l \in Letters : Spelled(f, c, p, l)
      BY <2>2, <3>1 DEF Order
    <3> QED
      BY <2>2, <3>1, <3>2, SpelledIs
  <2>5. \A k \in DOMAIN f \ Deleted(f) : \E a \in Addresses(f) : k \in Range(Chain(f, a))
    BY <2>2 DEF Order
  <2>6. UNION {Range(Chain(f, a)) : a \in Addresses(f)} = DOMAIN f \ Deleted(f)
    BY <2>4, <2>5
  <2> QED
    BY <2>1, <2>3, <2>6 DEF NoBlockLost
<1> QED
  BY <1>1, <1>2, <1>3

\* In a game that never stops in the middle of a command the state is always
\* of its type.
THEOREM MailTyped == ASSUME ~ Torn PROVE Spec => []TypeOK
<1>1. Init => MailInv
  BY MailInit
<1>2. MailInv /\ [Next]_vars => MailInv'
  BY MailStep
<1>3. MailInv => TypeOK
  BY MailInvImplies
<1> QED
  BY <1>1, <1>2, <1>3, PTL DEF Spec

\* Between two commands the index and the free list are what a scan of the
\* file would find: what store_mail and read_delete do to them in memory and
\* what they write to the file never part.
THEOREM IndexAlwaysAgrees == ASSUME ~ Torn PROVE Spec => []IndexAgrees
<1>1. Init => MailInv
  BY MailInit
<1>2. MailInv /\ [Next]_vars => MailInv'
  BY MailStep
<1>3. MailInv => IndexAgrees
  BY MailInvImplies
<1> QED
  BY <1>1, <1>2, <1>3, PTL DEF Spec

\* Between two commands every block that is not free belongs to one letter.
THEOREM NoBlockEverLost == ASSUME ~ Torn PROVE Spec => []NoBlockLost
<1>1. Init => MailInv
  BY MailInit
<1>2. MailInv /\ [Next]_vars => MailInv'
  BY MailStep
<1>3. MailInv => NoBlockLost
  BY MailInvImplies
<1> QED
  BY <1>1, <1>2, <1>3, PTL DEF Spec

\* The file, its index and its free list are mailboxes: store_mail puts the
\* whole letter into its addressee's box, postmaster_receive_mail takes all
\* there is, and no write, no restart and no other command moves a letter.
THEOREM MailImplementsMailboxes == ASSUME ~ Torn PROVE Spec => ImplementsMailboxes
<1> DEFINE boxes == LET f == Settle(file, todo)
                    IN  [p \in Players |-> {Read(f, k) : k \in {j \in Addresses(f) : f[j].to = p}}]
<1>1. Init => MailInv /\ Boxes!Init
  BY MailInit
<1>2. MailInv /\ [Next]_vars => MailInv' /\ [Boxes!Next]_<<boxes, handed>>
  <2> SUFFICES ASSUME MailInv, [Next]_vars
               PROVE  MailInv' /\ (Boxes!Next \/ <<boxes, handed>>' = <<boxes, handed>>)
    OBVIOUS
  <2>1. /\ MailInv'
        /\ Boxes!Next \/ (Waiting(Settled)' = Waiting(Settled) /\ handed' = handed)
    BY MailStep
  <2>2. boxes = Waiting(Settled) /\ boxes' = Waiting(Settled)'
    BY DEF Waiting, Settled, To
  <2> HIDE DEF boxes
  <2> QED
    BY <2>1, <2>2
<1> QED
  BY <1>1, <1>2, PTL DEF Spec, ImplementsMailboxes, Boxes!Spec

=============================================================================
