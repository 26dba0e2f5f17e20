----------------------------- MODULE ZoneProofs -----------------------------
(***************************************************************************)
(* Proofs about zones and what their resets put into the world.            *)
(***************************************************************************)
EXTENDS Zone, FiniteSetTheorems, WellFoundedInduction, TLAPS

-----------------------------------------------------------------------------
\* Induction over the subsets of a finite set.
LEMMA SubsetInduction ==
    ASSUME NEW S, IsFiniteSet(S), NEW Q,
           \A T \in SUBSET S : (\A U \in SUBSET T : U # T => U \in Q) => T \in Q
    PROVE  \A T \in SUBSET S : T \in Q
<1> DEFINE B == (SUBSET S) \ Q
<1>1. SUFFICES ASSUME B # {} PROVE FALSE
  OBVIOUS
<1>2. IsWellFoundedOn(StrictSubsetOrdering(S), FiniteSubsetsOf(S))
  BY FS_StrictSubsetOrderingWellFounded
<1>3. FiniteSubsetsOf(S) = SUBSET S
  BY FS_FiniteSubsetsOfFinite
<1>4. PICK T \in B : \A U \in B : ~ (<<U, T>> \in StrictSubsetOrdering(S))
  <2>1. B \subseteq FiniteSubsetsOf(S)
    BY <1>3
  <2> HIDE DEF B
  <2>2. \E T \in B : \A U \in B : ~ (<<U, T>> \in StrictSubsetOrdering(S))
    BY <1>1, <1>2, <2>1, WFMin
  <2> QED
    BY <2>2
<1>5. \A U \in SUBSET T : U # T => U \in Q
  BY <1>4 DEF StrictSubsetOrdering
<1> QED
  BY <1>4, <1>5

-----------------------------------------------------------------------------
(* Lists.  Kept and FoldLeft are recursive functions on an initial segment *)
(* of the naturals: that there are such functions, and what holds of their *)
(* values, is proved by induction on these segments.                       *)

\* Induction on an initial segment, with a set for the property.
LEMMA SegmentInduction ==
    ASSUME NEW n \in Nat, NEW Q, 0 \in Q, \A i \in 1..n : i - 1 \in Q => i \in Q
    PROVE  \A i \in 0..n : i \in Q
<1> DEFINE T(i) == 1..i
           R == {s \in SUBSET (1..n) : \A i \in 0..n : s = T(i) => i \in Q}
<1>1. IsFiniteSet(1..n)
  BY FS_Interval
<1>2. ASSUME NEW s \in SUBSET (1..n), \A u \in SUBSET s : u # s => u \in R
      PROVE  s \in R
  <2> SUFFICES ASSUME NEW i \in 0..n, s = T(i) PROVE i \in Q
    OBVIOUS
  <2>1. CASE i = 0
    BY <2>1
  <2>2. CASE i # 0
    <3>1. i - 1 \in 0..n /\ i \in 1..n
      BY <2>2
    <3>2. T(i - 1) \in SUBSET s /\ T(i - 1) # s
      BY <3>1
    <3>3. T(i - 1) \in R
      BY <1>2, <3>2
    <3>4. i - 1 \in Q
      BY <3>1, <3>3
    <3> QED
      BY <3>1, <3>4
  <2> QED
    BY <2>1, <2>2
<1> HIDE DEF R
<1>3. \A s \in SUBSET (1..n) : s \in R
  BY <1>1, <1>2, SubsetInduction
<1>4. \A i \in 0..n : T(i) \in R
  BY <1>3
<1> QED
  BY <1>4 DEF R

\* A function that starts with b and takes the steps F.
Runs(f, n, b, F) == f[0] = b /\ \A i \in 1..n : f[i] = F[i][f[i - 1]]

LEMMA RunExists ==
    ASSUME NEW n \in Nat, NEW W, NEW b \in W, NEW F, \A w \in W, i \in 1..n : F[i][w] \in W
    PROVE  \E f \in [0..n -> W] : Runs(f, n, b, F)
<1> DEFINE Q == {i \in 0..n : \E f \in [0..i -> W] : Runs(f, i, b, F)}
<1>1. 0 \in Q
  <2>1. [j \in 0..0 |-> b] \in [0..0 -> W] /\ Runs([j \in 0..0 |-> b], 0, b, F)
    BY DEF Runs
  <2> QED
    BY <2>1
<1>2. ASSUME NEW i \in 1..n, i - 1 \in Q
      PROVE  i \in Q
  <2>1. PICK f \in [0..(i - 1) -> W] : Runs(f, i - 1, b, F)
    BY <1>2
  <2> DEFINE g == [j \in 0..i |-> IF j = i THEN F[i][f[i - 1]] ELSE f[j]]
  <2>2. g \in [0..i -> W]
    BY <2>1
  <2>3. Runs(g, i, b, F)
    BY <2>1 DEF Runs
  <2> QED
    BY <2>2, <2>3
<1> HIDE DEF Q
<1>3. \A i \in 1..n : i - 1 \in Q => i \in Q
  BY <1>2
<1>4. \A i \in 0..n : i \in Q
  BY <1>1, <1>3, SegmentInduction
<1>5. n \in Q
  BY <1>4
<1> QED
  BY <1>5 DEF Q

\* Kept is a function of that kind.
KeptOf(k, s, S) ==
    k = [i \in 0..Len(s) |->
            IF i = 0 THEN <<>>
            ELSE IF s[i] \in S THEN Append(k[i - 1], s[i]) ELSE k[i - 1]]

LEMMA KeptExists ==
    ASSUME NEW X, NEW s \in Seq(X), NEW S
    PROVE  \E k : KeptOf(k, s, S) /\ Kept(s, S) = k[Len(s)]
<1> DEFINE F == [i \in 1..Len(s) |-> [t \in Seq(X) |-> IF s[i] \in S THEN Append(t, s[i]) ELSE t]]
<1>1. \A w \in Seq(X), i \in 1..Len(s) : F[i][w] = IF s[i] \in S THEN Append(w, s[i]) ELSE w
  OBVIOUS
<1>2. \A w \in Seq(X), i \in 1..Len(s) : F[i][w] \in Seq(X)
  BY <1>1
<1>3. <<>> \in Seq(X) /\ Len(s) \in Nat
  OBVIOUS
<1> HIDE DEF F
<1>4. PICK f \in [0..Len(s) -> Seq(X)] : Runs(f, Len(s), <<>>, F)
  BY <1>2, <1>3, RunExists
<1>5. KeptOf(f, s, S)
  <2>1. f[0] = <<>>
    BY <1>4 DEF Runs
  <2>2. ASSUME NEW i \in 1..Len(s)
        PROVE  f[i] = IF s[i] \in S THEN Append(f[i - 1], s[i]) ELSE f[i - 1]
    <3>1. f[i] = F[i][f[i - 1]]
      BY <1>4 DEF Runs
    <3>2. f[i - 1] \in Seq(X)
      BY <1>3
    <3> QED
      BY <1>1, <3>1, <3>2
  <2>3. ASSUME NEW i \in 0..Len(s)
        PROVE  f[i] = IF i = 0 THEN <<>>
            ELSE IF s[i] \in S THEN Append(f[i - 1], s[i]) ELSE f[i - 1]
    <3>1. CASE i = 0
      BY <2>1, <3>1
    <3>2. CASE i # 0
      <4>1. i \in 1..Len(s)
        BY <1>3, <3>2
      <4> QED
        BY <2>2, <3>2, <4>1
    <3> QED
      BY <3>1, <3>2
  <2> QED
    BY <2>3 DEF KeptOf
<1>6. Kept(s, S) = (CHOOSE k : KeptOf(k, s, S))[Len(s)]
  BY DEF Kept, KeptOf
<1> QED
  BY <1>5, <1>6

LEMMA KeptIs ==
    ASSUME NEW X, NEW s \in Seq(X), NEW S
    PROVE  Kept(s, S) \in Seq(X) /\ ToSet(Kept(s, S)) = ToSet(s) \cap S
<1>1. PICK k : KeptOf(k, s, S) /\ Kept(s, S) = k[Len(s)]
  BY KeptExists
<1> DEFINE Good(i) == k[i] \in Seq(X) /\ ToSet(k[i]) = {s[j] : j \in 1..i} \cap S
           Q == {i \in 0..Len(s) : Good(i)}
<1>2. k[0] = <<>> /\ \A i \in 1..Len(s) : k[i] = IF s[i] \in S THEN Append(k[i - 1], s[i])
                                                 ELSE k[i - 1]
  <2>1. Len(s) \in Nat
    OBVIOUS
  <2>2. \A i \in 0..Len(s) : k[i] = IF i = 0 THEN <<>>
            ELSE IF s[i] \in S THEN Append(k[i - 1], s[i]) ELSE k[i - 1]
    BY <1>1, Zenon DEF KeptOf
  <2> QED
    BY <2>1, <2>2
<1>3. 0 \in Q
  <2>1. Len(s) \in Nat /\ <<>> \in Seq(X)
    OBVIOUS
  <2>2. ToSet(k[0]) = {}
    BY <1>2 DEF ToSet
  <2>3. {s[j] : j \in 1..0} = {}
    OBVIOUS
  <2>4. Good(0)
    BY <1>2, <2>1, <2>2, <2>3
  <2> QED
    BY <2>1, <2>4
<1>4. ASSUME NEW i \in 1..Len(s), i - 1 \in Q
      PROVE  i \in Q
  <2>1. Good(i - 1) /\ s[i] \in X
    BY <1>4
  <2>2. {s[j] : j \in 1..i} = {s[j] : j \in 1..(i - 1)} \cup {s[i]}
    OBVIOUS
  <2>3. CASE s[i] \in S
    <3>1. k[i] = Append(k[i - 1], s[i])
      BY <1>2, <2>3
    <3>2. k[i] \in Seq(X)
      BY <2>1, <3>1
    <3>3. ToSet(k[i]) = ToSet(k[i - 1]) \cup {s[i]}
      <4>1. PICK t \in Seq(X) : t = k[i - 1]
        BY <2>1
      <4>2. /\ Len(k[i]) = Len(t) + 1 /\ DOMAIN k[i] = 1..Len(t) + 1
            /\ \A j \in 1..Len(t) : k[i][j] = t[j]
            /\ k[i][Len(t) + 1] = s[i]
        BY <2>1, <3>1, <4>1
      <4>3. DOMAIN t = 1..Len(t) /\ Len(t) \in Nat
        BY <4>1
      <4>4. ToSet(k[i]) = {k[i][j] : j \in 1..(Len(t) + 1)}
        BY <4>2 DEF ToSet
      <4>5. ToSet(t) = {t[j] : j \in 1..Len(t)}
        BY <4>3 DEF ToSet
      <4>6. PICK n \in Nat : n = Len(t)
        BY <4>3
      <4>7. PICK u : u = k[i]
        OBVIOUS
      <4>8. /\ \A j \in 1..n : u[j] = t[j]
            /\ u[n + 1] = s[i]
        BY <4>2, <4>6, <4>7
      <4>9. {u[j] : j \in 1..(n + 1)} = {t[j] : j \in 1..n} \cup {s[i]}
        <5>1. 1..(n + 1) = 1..n \cup {n + 1}
          OBVIOUS
        <5>2. {u[j] : j \in 1..(n + 1)} = {u[j] : j \in 1..n} \cup {u[n + 1]}
          BY <5>1
        <5> QED
          BY <4>8, <5>2
      <4>10. ToSet(k[i]) = {u[j] : j \in 1..(n + 1)}
        BY <4>4, <4>6, <4>7, Zenon
      <4>11. ToSet(k[i - 1]) = {t[j] : j \in 1..n}
        BY <4>1, <4>5, <4>6, Zenon
      <4> QED
        BY <4>9, <4>10, <4>11, Zenon
    <3> QED
      BY <2>1, <2>2, <2>3, <3>2, <3>3
  <2>4. CASE s[i] \notin S
    BY <1>2, <2>1, <2>2, <2>4
  <2> QED
    BY <2>3, <2>4
<1>5. \A i \in 1..Len(s) : i - 1 \in Q => i \in Q
  BY <1>4
<1> HIDE DEF Q
<1>6. Len(s) \in Q
  <2>1. Len(s) \in Nat
    OBVIOUS
  <2>2. \A i \in 0..Len(s) : i \in Q
    BY <1>3, <1>5, <2>1, SegmentInduction
  <2> QED
    BY <2>1, <2>2
<1>7. ToSet(s) = {s[j] : j \in 1..Len(s)}
  BY DEF ToSet
<1> QED
  BY <1>1, <1>6, <1>7 DEF Q

\* The greatest element of a set of indices.
LEMMA MaxIs ==
    ASSUME NEW n \in Nat, NEW t \in SUBSET (1..n), t # {}
    PROVE  Max(t) \in t /\ \A i \in t : i <= Max(t)
<1> DEFINE Has(u) == u = {} \/ \E x \in u : \A y \in u : x >= y
           Q == {i \in 0..n : \A u \in SUBSET (1..i) : Has(u)}
<1>1. 0 \in Q
  OBVIOUS
<1>2. \A i \in 1..n : i - 1 \in Q => i \in Q
  <2> SUFFICES ASSUME NEW i \in 1..n, i - 1 \in Q, NEW u \in SUBSET (1..i) PROVE Has(u)
    OBVIOUS
  <2>1. CASE i \in u
    BY <2>1
  <2>2. CASE i \notin u
    <3>1. u \in SUBSET (1..(i - 1))
      BY <2>2
    <3> QED
      BY <3>1
  <2> QED
    BY <2>1, <2>2
<1> HIDE DEF Q
<1>3. \A i \in 0..n : i \in Q
  BY <1>1, <1>2, SegmentInduction
<1>4. n \in Q
  BY <1>3
<1>5. \E x \in t : \A y \in t : x >= y
  BY <1>4 DEF Q
<1>6. Max(t) \in t /\ \A y \in t : Max(t) >= y
  BY <1>5 DEF Max
<1> QED
  BY <1>6

\* FoldLeft is defined on all sets of indices, each by its greatest element.
Folds(g, n, b, F) ==
    \A t \in SUBSET (1..n) : g[t] = IF t = {} THEN b ELSE F[Max(t)][g[t \ {Max(t)}]]

LEMMA FoldExists ==
    ASSUME NEW n \in Nat, NEW W, NEW b \in W, NEW F, \A i \in 1..n, w \in W : F[i][w] \in W
    PROVE  \E g \in [SUBSET (1..n) -> W] : Folds(g, n, b, F)
<1> DEFINE S == SUBSET (1..n)
           V == [S -> W]
           Step(i, v) == [t \in S |-> IF i \in t THEN F[i][v[t]] ELSE v[t]]
           G == [i \in 1..n |-> [v \in V |-> Step(i, v)]]
           base == [t \in S |-> b]
<1>1. \A v \in V, i \in 1..n : G[i][v] = Step(i, v) /\ Step(i, v) \in V
  OBVIOUS
<1>2. base \in V /\ \A v \in V, i \in 1..n : G[i][v] \in V
  BY <1>1
<1> HIDE DEF G, base
<1>3. PICK r \in [0..n -> V] : Runs(r, n, base, G)
  <2> HIDE DEF V
  <2> QED
    BY <1>2, RunExists
<1>4. \A i \in 0..n : r[i] \in V
  <2> HIDE DEF V
  <2> QED
    BY <1>3
<1>5. \A t \in S : r[0][t] = b
  <2> HIDE DEF S
  <2> QED
    BY <1>3 DEF Runs, base
<1>6. \A i \in 1..n, t \in S : r[i][t] = IF i \in t THEN F[i][r[i - 1][t]] ELSE r[i - 1][t]
  <2> SUFFICES ASSUME NEW i \in 1..n
               PROVE  \A t \in S : r[i][t] = IF i \in t THEN F[i][r[i - 1][t]] ELSE r[i - 1][t]
    OBVIOUS
  <2>1. r[i] = G[i][r[i - 1]] /\ i - 1 \in 0..n
    BY <1>3 DEF Runs
  <2>2. r[i] = Step(i, r[i - 1])
    BY <1>1, <1>4, <2>1
  <2> HIDE DEF S
  <2> QED
    BY <2>2
<1> DEFINE g == [t \in S |-> r[n][t]]
<1>7. g \in [S -> W]
  <2>0. r[n] \in V
    <3> HIDE DEF V
    <3>1. n \in 0..n
      OBVIOUS
    <3> QED
      BY <1>4, <3>1
  <2>1. r[n] \in [S -> W]
    BY <2>0, Zenon
  <2> HIDE DEF S
  <2> QED
    BY <2>1
<1>8. \A t \in S : g[t] = r[n][t]
  <2> HIDE DEF S
  <2> QED
    OBVIOUS
<1>9. \A t \in S : t \in SUBSET (1..n) /\ \A m : t \ {m} \in S
  OBVIOUS
<1> HIDE DEF V, Step, S, g
\* Indices beyond the greatest one change nothing ...
<1>10. ASSUME NEW t \in S, NEW m \in 0..n, \A i \in t : i <= m
      PROVE  r[n][t] = r[m][t]
  <2> DEFINE Q == {i \in 0..n : i >= m => r[i][t] = r[m][t]}
  <2>1. 0 \in Q
    OBVIOUS
  <2>2. \A i \in 1..n : i - 1 \in Q => i \in Q
    <3> SUFFICES ASSUME NEW i \in 1..n, i - 1 \in Q, i > m PROVE r[i][t] = r[m][t]
      OBVIOUS
    <3>1. i \notin t
      BY <1>10
    <3>2. r[i][t] = r[i - 1][t]
      BY <1>6, <3>1
    <3> QED
      BY <3>2
  <2> HIDE DEF Q
  <2>3. \A i \in 0..n : i \in Q
    BY <2>1, <2>2, SegmentInduction
  <2> QED
    BY <2>3 DEF Q
\* ... and sets that agree up to an index have the same value there.
<1>11. ASSUME NEW t \in S, NEW u \in S, NEW m \in 0..n, \A i \in 1..m : i \in t <=> i \in u
      PROVE  r[m][t] = r[m][u]
  <2> DEFINE Q == {i \in 0..n : i <= m => r[i][t] = r[i][u]}
  <2>1. 0 \in Q
    BY <1>5
  <2>2. \A i \in 1..n : i - 1 \in Q => i \in Q
    <3> SUFFICES ASSUME NEW i \in 1..n, i - 1 \in Q, i <= m PROVE r[i][t] = r[i][u]
      OBVIOUS
    <3>1. i \in t <=> i \in u
      BY <1>11
    <3>2. r[i - 1][t] = r[i - 1][u]
      OBVIOUS
    <3> QED
      BY <1>6, <3>1, <3>2
  <2> HIDE DEF Q
  <2>3. \A i \in 0..n : i \in Q
    BY <2>1, <2>2, SegmentInduction
  <2> QED
    BY <2>3 DEF Q
<1>12. ASSUME NEW t \in S
       PROVE  g[t] = IF t = {} THEN b ELSE F[Max(t)][g[t \ {Max(t)}]]
  <2>1. CASE t = {}
    <3>1. r[n][t] = r[0][t] /\ 0 \in 0..n
      BY <1>10, <2>1
    <3> QED
      BY <1>5, <1>8, <2>1, <3>1
  <2>2. CASE t # {}
    <3> PICK m : m = Max(t)
      OBVIOUS
    <3>1. m \in t /\ (\A i \in t : i <= m) /\ m \in 1..n /\ m - 1 \in 0..n /\ n \in 0..n
      <4>1. t \in SUBSET (1..n)
        BY <1>9
      <4>2. Max(t) \in t /\ \A i \in t : i <= Max(t)
        BY <2>2, <4>1, MaxIs
      <4>3. m \in 1..n
        BY <4>1, <4>2, Zenon
      <4>4. m - 1 \in 0..n /\ n \in 0..n
        BY <4>3
      <4> QED
        BY <4>2, <4>3, <4>4, Zenon
    <3> DEFINE u == t \ {m}
    <3>0. t \in SUBSET (1..n)
      BY <1>9
    <3>2. u \in S /\ \A i \in u : i <= m - 1
      <4>1. u \in S
        BY <1>9
      <4>2. ASSUME NEW i \in u
            PROVE  i <= m - 1
        <5>1. i \in 1..n /\ i # m /\ i <= m
          BY <3>0, <3>1
        <5> QED
          BY <3>1, <5>1
      <4> QED
        BY <4>1, <4>2
    <3>3. r[n][t] = r[m][t]
      <4>1. m \in 0..n
        BY <3>1
      <4> QED
        BY <1>10, <3>1, <4>1
    <3>4. r[n][u] = r[m - 1][u]
      BY <1>10, <3>1, <3>2
    <3>5. r[m - 1][t] = r[m - 1][u]
      <4>1. \A i \in 1..(m - 1) : i \in t <=> i \in u
        BY <3>1
      <4> QED
        BY <1>11, <3>1, <3>2, <4>1
    <3>6. r[m][t] = F[m][r[m - 1][t]]
      BY <1>6, <3>1
    <3> QED
      BY <1>8, <2>2, <3>2, <3>3, <3>4, <3>5, <3>6
  <2> QED
    BY <2>1, <2>2
<1> QED
  BY <1>7, <1>12 DEF Folds, S

-----------------------------------------------------------------------------
(* Resets step by step.                                                    *)

\* The states a reset of zone z goes through, from w on.
ResetRuns(f, w, z, fights) ==
    /\ f[0] = w
    /\ \A i \in 1..Len(Table[z]) : f[i] = Execute(f[i - 1], Table[z][i], fights)

LEMMA TableIs ==
    ASSUME NEW z \in Zones
    PROVE  /\ Len(Table[z]) \in Nat /\ DOMAIN Table[z] = 1..Len(Table[z])
           /\ \A i \in 1..Len(Table[z]) : CommandOK(Table[z][i])
<1> DEFINE C == {c \in ToSet(Table[z]) : CommandOK(c)}
<1>1. Table[z] \in Seq(C)
  BY ZoneAssumption
<1>2. \A c \in C : CommandOK(c)
  OBVIOUS
<1> HIDE DEF C
<1>3. Len(Table[z]) \in Nat /\ DOMAIN Table[z] = 1..Len(Table[z])
  BY <1>1
<1>4. \A i \in 1..Len(Table[z]) : Table[z][i] \in C
  BY <1>1
<1> QED
  BY <1>2, <1>3, <1>4

\* What a reset leaves behind.
Done(x) == [x EXCEPT !.last = TRUE, !.mob = None]

LEMMA ResetExists ==
    ASSUME NEW z \in Zones, NEW fights, NEW V, NEW w \in V,
           \A x \in V, i \in 1..Len(Table[z]) : Execute(x, Table[z][i], fights) \in V
    PROVE  \E f \in [0..Len(Table[z]) -> V] :
               /\ ResetRuns(f, w, z, fights)
               /\ ResetZone(w, z, fights) = Done(f[Len(Table[z])])
<1> DEFINE n == Len(Table[z])
           F == [i \in 1..n |-> [x \in V |-> Execute(x, Table[z][i], fights)]]
           Next1(g, t) == IF t = {} THEN w
                          ELSE Execute(g[t \ {Max(t)}], Table[z][Max(t)], fights)
           Whole(g) == g = [t \in SUBSET DOMAIN Table[z] |-> Next1(g, t)]
<1>1. n \in Nat /\ DOMAIN Table[z] = 1..n
  BY TableIs
<1>2. \A i \in 1..n, x \in V : F[i][x] = Execute(x, Table[z][i], fights)
  OBVIOUS
<1>3. \A i \in 1..n, x \in V : F[i][x] \in V
  BY <1>2
<1> HIDE DEF n, F
<1>4. PICK g \in [SUBSET (1..n) -> V] : Folds(g, n, w, F)
  BY <1>1, <1>3, FoldExists
<1>5. ASSUME NEW t \in SUBSET (1..n)
      PROVE  g[t] = Next1(g, t)
  <2>1. CASE t = {}
    BY <1>4, <2>1 DEF Folds
  <2>2. CASE t # {}
    <3>1. Max(t) \in t
      BY <1>1, <2>2, MaxIs
    <3>2. Max(t) \in 1..n /\ g[t \ {Max(t)}] \in V
      BY <3>1
    <3>3. g[t] = F[Max(t)][g[t \ {Max(t)}]]
      BY <1>4, <2>2 DEF Folds
    <3> QED
      BY <1>2, <2>2, <3>2, <3>3
  <2> QED
    BY <2>1, <2>2
<1>6. Whole(g)
  <2> HIDE DEF Next1
  <2>1. g = [t \in SUBSET (1..n) |-> g[t]]
    OBVIOUS
  <2>2. g = [t \in SUBSET (1..n) |-> Next1(g, t)]
    BY <1>5, <2>1
  <2> QED
    BY <1>1, <2>2
<1>7. ResetZone(w, z, fights)
        = Done((CHOOSE h : Whole(h))[DOMAIN Table[z]])
  BY DEF ResetZone, FoldLeft, MapThenFoldSet, Done
<1> PICK h : h = CHOOSE k : Whole(k)
  OBVIOUS
<1>8. Whole(h)
  BY <1>6
<1>9. ASSUME NEW t \in SUBSET (1..n)
      PROVE  h[t] = Next1(h, t)
  <2> HIDE DEF Next1
  <2> QED
    BY <1>1, <1>8
<1> DEFINE f == [i \in 0..n |-> h[1..i]]
<1>10. f[0] = w
  <2>1. 1..0 = {} /\ f[0] = h[1..0]
    BY <1>1
  <2> QED
    BY <1>9, <2>1
<1>11. ASSUME NEW i \in 1..n
       PROVE  f[i] = Execute(f[i - 1], Table[z][i], fights)
  <2>0. i \in 1..i /\ \A j \in 1..i : j \in 1..n
    BY <1>1
  <2>1. (1..i) \in SUBSET (1..n) /\ 1..i # {} /\ i \in 1..i
    BY <2>0, Zenon
  <2>2. Max(1..i) = i
    <3>1. Max(1..i) \in 1..i /\ \A j \in 1..i : j <= Max(1..i)
      BY <1>1, <2>1, MaxIs
    <3> QED
      BY <2>1, <3>1
  <2>3. (1..i) \ {i} = 1..(i - 1)
    OBVIOUS
  <2>4. f[i] = h[1..i] /\ f[i - 1] = h[1..(i - 1)]
    BY <1>1
  <2>5. h[1..i] = Execute(h[(1..i) \ {Max(1..i)}], Table[z][Max(1..i)], fights)
    BY <1>9, <2>1
  <2> QED
    BY <2>2, <2>3, <2>4, <2>5
<1>12. f \in [0..n -> V]
  <2> DEFINE Q == {i \in 0..n : f[i] \in V}
  <2> HIDE DEF f
  <2>1. 0 \in Q
    BY <1>1, <1>10
  <2>2. ASSUME NEW i \in 1..n, i - 1 \in Q
        PROVE  i \in Q
    <3>1. f[i - 1] \in V
      BY <2>2
    <3>2. Execute(f[i - 1], Table[z][i], fights) \in V
      BY <3>1 DEF n
    <3>3. f[i] \in V
      BY <1>11, <3>2
    <3> QED
      BY <1>1, <3>3
  <2>3. \A i \in 1..n : i - 1 \in Q => i \in Q
    BY <2>2
  <2>4. \A i \in 0..n : f[i] \in V
    <3> HIDE DEF Q
    <3>1. \A i \in 0..n : i \in Q
      BY <1>1, <2>1, <2>3, SegmentInduction
    <3> QED
      BY <3>1 DEF Q
  <2> QED
    BY <2>4 DEF f
<1>13. ResetZone(w, z, fights) = Done(f[n])
  <2>1. f[n] = h[1..n]
    BY <1>1
  <2> QED
    BY <1>1, <1>7, <2>1
<1> HIDE DEF f
<1>14. ResetRuns(f, w, z, fights)
  BY <1>10, <1>11 DEF ResetRuns, n
<1> QED
  BY <1>12, <1>13, <1>14 DEF n

-----------------------------------------------------------------------------
(* What there is of a kind.                                                *)

\* A set of mobiles and objects.
Things == Mobs \cup Objs

LEMMA ThingsFinite == IsFiniteSet(Things)
  BY ZoneAssumption, FS_Union DEF Things

\* How many of a kind are in a set is a number; what leaves and what joins
\* the set changes it by as much.
LEMMA OfIs ==
    ASSUME NEW k, NEW T \in SUBSET Things
    PROVE  Of(k, T) \in SUBSET T /\ IsFiniteSet(Of(k, T)) /\ Cardinality(Of(k, T)) \in Nat
<1>1. Of(k, T) \in SUBSET Things
  BY DEF Of
<1>2. IsFiniteSet(Of(k, T))
  BY <1>1, ThingsFinite, FS_Subset
<1> QED
  BY <1>2, FS_CardinalityType DEF Of

LEMMA OfLess ==
    ASSUME NEW k, NEW T \in SUBSET Things, NEW S \in SUBSET T
    PROVE  Cardinality(Of(k, T \ S)) = Cardinality(Of(k, T)) - Cardinality(Of(k, S))
<1>1. Of(k, T \ S) = Of(k, T) \ Of(k, S) /\ Of(k, T) \cap Of(k, S) = Of(k, S)
  BY DEF Of
<1>2. IsFiniteSet(Of(k, T))
  BY OfIs
<1> QED
  BY <1>1, <1>2, FS_Difference

LEMMA OfMore ==
    ASSUME NEW k, NEW T \in SUBSET Things, NEW S \in SUBSET Things, T \cap S = {}
    PROVE  Cardinality(Of(k, T \cup S)) = Cardinality(Of(k, T)) + Cardinality(Of(k, S))
<1>1. Of(k, T \cup S) = Of(k, T) \cup Of(k, S) /\ Of(k, T) \cap Of(k, S) = {}
  BY DEF Of
<1>2. IsFiniteSet(Of(k, T)) /\ IsFiniteSet(Of(k, S))
  BY OfIs
<1>3. Cardinality(Of(k, T)) \in Nat /\ Cardinality(Of(k, S)) \in Nat
  BY OfIs
<1>4. Cardinality({}) = 0
  BY FS_EmptySet
<1>5. Cardinality(Of(k, T) \cup Of(k, S))
        = Cardinality(Of(k, T)) + Cardinality(Of(k, S)) - Cardinality(Of(k, T) \cap Of(k, S))
  BY <1>2, FS_Union
<1>6. Cardinality(Of(k, T \cup S)) = Cardinality(Of(k, T)) + Cardinality(Of(k, S)) - 0
  BY <1>1, <1>4, <1>5, Zenon
<1>7. \A a, b, c \in Nat : a = b + c - 0 => a = b + c
  OBVIOUS
<1>8. Cardinality(Of(k, T \cup S)) \in Nat
  <2>1. T \cup S \in SUBSET Things
    OBVIOUS
  <2> QED
    BY <2>1, OfIs
<1> QED
  BY <1>3, <1>6, <1>7, <1>8

LEMMA OfPart ==
    ASSUME NEW k, NEW T \in SUBSET Things, NEW S \in SUBSET T
    PROVE  Cardinality(Of(k, S)) <= Cardinality(Of(k, T))
<1>1. Of(k, S) \in SUBSET Of(k, T)
  BY DEF Of
<1>2. IsFiniteSet(Of(k, T))
  BY OfIs
<1> QED
  BY <1>1, <1>2, FS_Subset

\* A mobile or an object is one of its own kind.
LEMMA OfOne ==
    ASSUME NEW k, NEW x \in Things
    PROVE  Cardinality(Of(k, {x})) = IF KindOf[x] = k THEN 1 ELSE 0
<1>1. CASE KindOf[x] = k
  <2>1. Of(k, {x}) = {x}
    BY <1>1 DEF Of
  <2> QED
    BY <1>1, <2>1, FS_Singleton
<1>2. CASE KindOf[x] # k
  <2>1. Of(k, {x}) = {}
    BY <1>2 DEF Of
  <2> QED
    BY <1>2, <2>1, FS_EmptySet
<1> QED
  BY <1>1, <1>2

-----------------------------------------------------------------------------
(* The world: its type, and what exists in it.                             *)

Places == Rooms \cup Players \cup Mobs \cup Objs \cup {None}

Worlds == [room : [Mobs -> Rooms \cup {None}], place : [Objs -> Places],
           listed : Seq(Containers), number : [Kinds -> Int],
           shut : SUBSET Sides, locked : SUBSET Sides,
           last : BOOLEAN, mob : Mobs \cup {None}]

Placed(w) == {o \in Objs : w.place[o] # None}
InWorld(w) == {m \in Mobs : w.room[m] # None} \cup Placed(w)
Count(w, k) == Cardinality(Of(k, InWorld(w)))

\* object_list has the containers that exist.
Listed(w) == ToSet(w.listed) = Containers \cap Placed(w)

Sound(w) == w \in Worlds /\ Listed(w)

LEMMA CountIs ==
    ASSUME NEW w, NEW k
    PROVE  InWorld(w) \in SUBSET Things /\ Count(w, k) \in Nat
<1>1. InWorld(w) \in SUBSET Things
  BY DEF InWorld, Placed, Things
<1> QED
  BY <1>1, OfIs DEF Count

\* A number of things can be taken from any set that has as many.
LEMMA SubsetOfSize ==
    ASSUME NEW S, IsFiniteSet(S), NEW n \in Nat, n <= Cardinality(S)
    PROVE  \E T \in SUBSET S : Cardinality(T) = n
<1> DEFINE Q == {T \in SUBSET S : n <= Cardinality(T)
                     => \E U \in SUBSET S : Cardinality(U) = n}
<1>1. ASSUME NEW T \in SUBSET S, \A U \in SUBSET T : U # T => U \in Q
      PROVE  T \in Q
  <2> SUFFICES ASSUME n <= Cardinality(T) PROVE \E U \in SUBSET S : Cardinality(U) = n
    OBVIOUS
  <2>0. IsFiniteSet(T)
    BY FS_Subset
  <2>1. Cardinality(T) \in Nat
    BY <2>0, FS_CardinalityType
  <2>2. CASE n = Cardinality(T)
    BY <2>2
  <2>3. CASE n < Cardinality(T)
    <3>1. T # {}
      BY <2>3, FS_EmptySet
    <3> PICK x \in T : TRUE
      BY <3>1
    <3>2. Cardinality(T \ {x}) = Cardinality(T) - 1
      BY <2>0, FS_RemoveElement
    <3>3. T \ {x} \in SUBSET T /\ T \ {x} # T
      OBVIOUS
    <3>4. T \ {x} \in Q
      BY <1>1, <3>3
    <3> QED
      BY <2>1, <2>3, <3>2, <3>4
  <2> QED
    BY <2>1, <2>2, <2>3
<1> HIDE DEF Q
<1>2. \A T \in SUBSET S : T \in Q
  BY <1>1, SubsetInduction
<1> QED
  BY <1>2 DEF Q

\* A set as a list.
LEMMA SetToSeqIs ==
    ASSUME NEW S, IsFiniteSet(S)
    PROVE  SetToSeq(S) \in Seq(S) /\ ToSet(SetToSeq(S)) = S
<1> DEFINE n == Cardinality(S)
<1>1. n \in Nat /\ ExistsBijection(1..n, S)
  BY FS_CardinalityType
<1>2. PICK g \in Bijection(1..n, S) : TRUE
  BY <1>1 DEF ExistsBijection
<1>3. g \in [1..n -> S] /\ IsInjective(g)
  BY <1>2 DEF Bijection, Injection, IsInjective
<1> PICK f : f = SetToSeq(S)
  OBVIOUS
<1>4. f \in [1..n -> S] /\ IsInjective(f)
  BY <1>3 DEF SetToSeq
<1>5. f \in Injection(1..n, S)
  BY <1>4 DEF Injection
<1>6. IsFiniteSet(1..n) /\ Cardinality(1..n) = n
  BY <1>1, FS_Interval
<1>7. f \in Surjection(1..n, S)
  BY <1>5, <1>6, FS_Injection
<1>8. \A x \in S : \E i \in 1..n : f[i] = x
  BY <1>7 DEF Surjection
<1>9. f \in Seq(S)
  BY <1>1, <1>4
<1>10. ToSet(f) = {f[i] : i \in 1..n}
  BY <1>4 DEF ToSet
<1>11. ToSet(f) = S
  BY <1>4, <1>8, <1>10
<1> QED
  BY <1>9, <1>11

-----------------------------------------------------------------------------
(* The limits that the tables set.                                         *)

LEMMA ImageFinite ==
    ASSUME NEW S, IsFiniteSet(S), NEW f
    PROVE  IsFiniteSet({f[x] : x \in S})
<1> DEFINE T == {f[x] : x \in S}
           g == [x \in S |-> f[x]]
<1>1. g \in Surjection(S, T)
  BY DEF Surjection
<1> HIDE DEF T, g
<1>2. IsFiniteSet(T)
  BY <1>1, FS_Surjection
<1> QED
  BY <1>2 DEF T

\* The greatest element of a finite set of integers.
LEMMA MaxOf ==
    ASSUME NEW S, IsFiniteSet(S), S \subseteq Int, S # {}
    PROVE  Max(S) \in S /\ \A i \in S : i <= Max(S)
<1> DEFINE Q == {T \in SUBSET S : T # {} => \E x \in T : \A y \in T : x >= y}
<1>1. ASSUME NEW T \in SUBSET S, \A U \in SUBSET T : U # T => U \in Q
      PROVE  T \in Q
  <2> SUFFICES ASSUME NEW a \in T PROVE \E x \in T : \A y \in T : x >= y
    OBVIOUS
  <2>1. T \ {a} \in Q
    BY <1>1
  <2>2. CASE T \ {a} = {}
    BY <2>2
  <2>3. CASE T \ {a} # {}
    <3> PICK b \in T \ {a} : \A y \in T \ {a} : b >= y
      BY <2>1, <2>3
    <3>1. CASE b >= a
      BY <3>1
    <3>2. CASE ~ b >= a
      <4>1. \A y \in T : y \in Int
        OBVIOUS
      <4>2. \A y \in T \ {a} : a >= y
        BY <3>2, <4>1
      <4> QED
        BY <4>1, <4>2
    <3> QED
      BY <3>1, <3>2
  <2> QED
    BY <2>2, <2>3
<1> HIDE DEF Q
<1>2. \A T \in SUBSET S : T \in Q
  BY <1>1, SubsetInduction
<1>3. \E x \in S : \A y \in S : x >= y
  BY <1>2 DEF Q
<1>4. Max(S) \in S /\ \A y \in S : Max(S) >= y
  BY <1>3 DEF Max
<1> QED
  BY <1>4

\* The kinds that RareStaysRare is about.
Limited(k) == k \in Rare \cup MobKinds /\ \A c \in Commands(k) : c.max # 0

LEMMA CommandsFinite ==
    ASSUME NEW k
    PROVE  IsFiniteSet(Commands(k)) /\ \A c \in Commands(k) : CommandOK(c)
<1> PICK t : t = [z \in Zones |-> ToSet(Table[z])]
  OBVIOUS
<1>1. UNION {ToSet(Table[z]) : z \in Zones} = UNION {t[z] : z \in Zones}
  OBVIOUS
<1>2. ASSUME NEW z \in Zones
      PROVE  IsFiniteSet(t[z]) /\ \A c \in t[z] : CommandOK(c)
  <2>1. PICK n : n = Len(Table[z])
    OBVIOUS
  <2>2. n \in Nat /\ DOMAIN Table[z] = 1..n /\ \A i \in 1..n : CommandOK(Table[z][i])
    BY <2>1, TableIs
  <2>3. t[z] = {Table[z][i] : i \in 1..n}
    BY <2>2 DEF ToSet
  <2>4. IsFiniteSet(1..n)
    BY <2>2, FS_Interval
  <2>5. IsFiniteSet({Table[z][i] : i \in 1..n})
    BY <2>4, ImageFinite
  <2> QED
    BY <2>2, <2>3, <2>5
<1>3. IsFiniteSet({t[z] : z \in Zones})
  BY ZoneAssumption, ImageFinite
<1>4. \A T \in {t[z] : z \in Zones} : IsFiniteSet(T)
  BY <1>2
<1>5. IsFiniteSet(UNION {t[z] : z \in Zones})
  BY <1>3, <1>4, FS_UNION
<1>6. Commands(k) \in SUBSET (UNION {t[z] : z \in Zones})
  BY <1>1 DEF Commands
<1>7. IsFiniteSet(Commands(k))
  BY <1>5, <1>6, FS_Subset
<1>8. \A c \in Commands(k) : CommandOK(c)
  BY <1>2, <1>6
<1> QED
  BY <1>7, <1>8

LEMMA LimitIs ==
    ASSUME NEW k
    PROVE  Limit(k) \in Nat /\ \A c \in Commands(k) : c.max <= Limit(k)
<1> DEFINE C == Commands(k)
           S == {c.max : c \in C}
<1>1. IsFiniteSet(C) /\ \A c \in C : CommandOK(c)
  BY CommandsFinite
<1>2. \A c \in C : c.max \in Nat
  BY <1>1 DEF CommandOK
<1> HIDE DEF C
<1>3. IsFiniteSet(S)
  <2> PICK f : f = [c \in C |-> c.max]
    OBVIOUS
  <2>1. S = {f[c] : c \in C}
    OBVIOUS
  <2>2. IsFiniteSet({f[c] : c \in C})
    BY <1>1, ImageFinite
  <2> QED
    BY <2>1, <2>2
<1>4. S \subseteq Nat
  BY <1>2
<1>5. \A c \in C : c.max \in S
  OBVIOUS
<1> HIDE DEF S
<1> PICK T : T = {0} \cup S
  OBVIOUS
<1>6. IsFiniteSet(T)
  <2>1. IsFiniteSet({0})
    BY FS_Singleton
  <2> QED
    BY <1>3, <2>1, FS_Union
<1>7. T \subseteq Int /\ T # {}
  BY <1>4
<1>8. Max(T) \in T /\ \A i \in T : i <= Max(T)
  BY <1>6, <1>7, MaxOf
<1>9. Limit(k) = Max(T)
  BY DEF Limit, C, S
<1>10. T \subseteq Nat /\ \A x \in S : x \in T
  BY <1>4
<1>11. Limit(k) \in Nat
  BY <1>8, <1>9, <1>10
<1>12. \A c \in C : c.max <= Limit(k)
  BY <1>5, <1>8, <1>9, <1>10
<1> QED
  BY <1>11, <1>12 DEF C

\* A command of a table loads no more than its kind may have.
LEMMA CommandLimit ==
    ASSUME NEW z \in Zones, NEW i \in 1..Len(Table[z]), NEW c, c = Table[z][i],
           c.letter # "D", Limited(c.kind)
    PROVE  c.max # 0 /\ c.max <= Limit(c.kind)
<1>1. i \in DOMAIN Table[z]
  BY TableIs
<1>2. c \in ToSet(Table[z])
  BY <1>1 DEF ToSet
<1>3. c \in Commands(c.kind)
  BY <1>2 DEF Commands
<1> QED
  BY <1>3, LimitIs DEF Limited

LEMMA ConcatSet ==
    ASSUME NEW X, NEW s \in Seq(X), NEW t \in Seq(X)
    PROVE  s \o t \in Seq(X) /\ ToSet(s \o t) = ToSet(s) \cup ToSet(t)
<1>1. s \o t \in Seq(X)
  OBVIOUS
<1> PICK u : u = s \o t
  OBVIOUS
<1> PICK m \in Nat : m = Len(s)
  OBVIOUS
<1> PICK n \in Nat : n = Len(t)
  OBVIOUS
<1>2. /\ DOMAIN s = 1..m /\ DOMAIN t = 1..n /\ DOMAIN u = 1..(m + n)
      /\ \A i \in 1..m : u[i] = s[i]
      /\ \A i \in 1..n : u[m + i] = t[i]
  <2>1. Len(u) = m + n
    OBVIOUS
  <2>2. DOMAIN s = 1..m /\ DOMAIN t = 1..n
    OBVIOUS
  <2>3. DOMAIN u = 1..(m + n)
    BY <1>1, <2>1
  <2>4. \A i \in 1..(m + n) : u[i] = IF i <= m THEN s[i] ELSE t[i - m]
    OBVIOUS
  <2>5. \A i \in 1..m : u[i] = s[i]
    BY <2>4
  <2>6. \A i \in 1..n : m + i \in 1..(m + n) /\ ~ (m + i <= m) /\ (m + i) - m = i
    OBVIOUS
  <2>7. \A i \in 1..n : u[m + i] = t[i]
    BY <2>4, <2>6
  <2> QED
    BY <2>2, <2>3, <2>5, <2>7
<1>3. \A i \in 1..(m + n) : i \in 1..m \/ \E j \in 1..n : i = m + j
  <2>1. ASSUME NEW i \in 1..(m + n), i \notin 1..m
        PROVE  \E j \in 1..n : i = m + j
    <3>1. i - m \in 1..n /\ i = m + (i - m)
      BY <2>1
    <3> QED
      BY <3>1
  <2> QED
    BY <2>1
<1>4. \A i \in 1..m : i \in 1..(m + n)
  OBVIOUS
<1>5. \A i \in 1..n : m + i \in 1..(m + n)
  OBVIOUS
<1>6. {u[i] : i \in 1..(m + n)} = {s[i] : i \in 1..m} \cup {t[i] : i \in 1..n}
  <2>1. ASSUME NEW i \in 1..(m + n)
        PROVE  u[i] \in {s[j] : j \in 1..m} \cup {t[j] : j \in 1..n}
    <3>1. CASE i \in 1..m
      BY <1>2, <3>1
    <3>2. CASE \E j \in 1..n : i = m + j
      BY <1>2, <3>2
    <3> QED
      BY <1>3, <3>1, <3>2
  <2>2. ASSUME NEW j \in 1..m
        PROVE  s[j] \in {u[i] : i \in 1..(m + n)}
    BY <1>2, <1>4
  <2>3. ASSUME NEW j \in 1..n
        PROVE  t[j] \in {u[i] : i \in 1..(m + n)}
    BY <1>2, <1>5
  <2>4. \A y \in {u[i] : i \in 1..(m + n)} : y \in {s[i] : i \in 1..m} \cup {t[i] : i \in 1..n}
    BY <2>1
  <2>5. \A y \in {s[i] : i \in 1..m} \cup {t[i] : i \in 1..n} : y \in {u[i] : i \in 1..(m + n)}
    BY <2>2, <2>3
  <2> QED
    BY <2>4, <2>5, Zenon
<1>7. ToSet(u) = {u[i] : i \in 1..(m + n)} /\ ToSet(s) = {s[i] : i \in 1..m}
      /\ ToSet(t) = {t[i] : i \in 1..n}
  BY <1>2 DEF ToSet
<1> QED
  BY <1>1, <1>6, <1>7

-----------------------------------------------------------------------------
(* What a reset may do to the world: add to it, within the limits.         *)

Grows(w, x) ==
    /\ Sound(x)
    /\ \A k \in Kinds : x.number[k] - Count(x, k) = w.number[k] - Count(w, k)
    /\ \A k \in Kinds : Limited(k) /\ w.number[k] <= Limit(k) => x.number[k] <= Limit(k)
    /\ \A o \in Objs : w.place[o] # None => x.place[o] = w.place[o]

LEMMA GrowsTransitive ==
    ASSUME NEW w, NEW x, NEW y, Grows(w, x), Grows(x, y)
    PROVE  Grows(w, y)
<1>1. \A o \in Objs : w.place[o] # None => y.place[o] = w.place[o]
  BY DEF Grows
<1>2. \A k \in Kinds : y.number[k] - Count(y, k) = w.number[k] - Count(w, k)
  BY DEF Grows
<1>3. \A k \in Kinds : Limited(k) /\ w.number[k] <= Limit(k) => y.number[k] <= Limit(k)
  BY DEF Grows
<1> QED
  BY <1>1, <1>2, <1>3 DEF Grows

\* Only the doors, nLastCmd or pLastMob change.
LEMMA SameGrows ==
    ASSUME NEW w, Sound(w), NEW x \in Worlds, x.room = w.room, x.place = w.place,
           x.listed = w.listed, x.number = w.number
    PROVE  Grows(w, x)
<1>1. Placed(x) = Placed(w) /\ InWorld(x) = InWorld(w)
  BY DEF Placed, InWorld
<1>2. \A k : Count(x, k) = Count(w, k)
  BY <1>1 DEF Count
<1>3. Sound(x)
  BY <1>1 DEF Sound, Listed
<1> QED
  BY <1>2, <1>3 DEF Grows

LEMMA MadeGrows ==
    ASSUME NEW w, Sound(w), NEW o \in Objs, w.place[o] = None, NEW at \in Places, at # None,
           Limited(KindOf[o]) => w.number[KindOf[o]] < Limit(KindOf[o])
    PROVE  Grows(w, Made(w, o, at))
<1> PICK x : x = Made(w, o, at)
  OBVIOUS
<1>0. w \in Worlds /\ Listed(w)
  BY DEF Sound
<1>1. /\ w.place \in [Objs -> Places] /\ w.number \in [Kinds -> Int]
      /\ w.listed \in Seq(Containers)
  BY <1>0 DEF Worlds
<1>2. /\ x.room = w.room
      /\ x.place = [q \in Objs |-> IF q = o THEN at ELSE w.place[q]]
      /\ x.listed = IF o \in Containers THEN <<o>> \o w.listed ELSE w.listed
      /\ x.number = More(w.number, {o})
  <2>1. DOMAIN w.place = Objs
    BY <1>1
  <2> QED
    BY <1>0, <2>1 DEF Made, Put, Worlds
<1>3. o \in Things /\ \A k \in Kinds : Cardinality(Of(k, {o})) = IF KindOf[o] = k THEN 1 ELSE 0
  <2>1. o \in Things
    BY DEF Things
  <2> QED
    BY <2>1, OfOne
<1>4. \A k \in Kinds : x.number[k] = w.number[k] + Cardinality(Of(k, {o}))
  BY <1>2 DEF More
<1>5. o \in Containers => <<o>> \o w.listed \in Seq(Containers)
                          /\ ToSet(<<o>> \o w.listed) = {o} \cup ToSet(w.listed)
  <2> SUFFICES ASSUME o \in Containers
               PROVE  <<o>> \o w.listed \in Seq(Containers)
                      /\ ToSet(<<o>> \o w.listed) = {o} \cup ToSet(w.listed)
    OBVIOUS
  <2>1. <<o>> \in Seq(Containers)
    OBVIOUS
  <2>2. ToSet(<<o>>) = {o}
    BY DEF ToSet
  <2> PICK s \in Seq(Containers) : s = <<o>>
    BY <2>1
  <2> PICK t \in Seq(Containers) : t = w.listed
    BY <1>1
  <2>3. s \o t \in Seq(Containers) /\ ToSet(s \o t) = ToSet(s) \cup ToSet(t)
    BY ZenonT(60), ConcatSet
  <2> QED
    BY <2>2, <2>3
<1>6. x \in Worlds
  <2>1. More(w.number, {o}) \in [Kinds -> Int]
    <3>0. \A k \in Kinds : w.number[k] \in Int
      BY <1>1
    <3>1. \A k \in Kinds : Cardinality(Of(k, {o})) \in Int /\ w.number[k] \in Int
      BY <1>3, <3>0
    <3>2. \A k \in Kinds : w.number[k] + Cardinality(Of(k, {o})) \in Int
      BY <3>1
    <3> QED
      BY <3>2 DEF More
  <2>2. [q \in Objs |-> IF q = o THEN at ELSE w.place[q]] \in [Objs -> Places]
    BY <1>1
  <2>3. (IF o \in Containers THEN <<o>> \o w.listed ELSE w.listed) \in Seq(Containers)
    BY <1>1, <1>5
  <2>4. Put(w.place, o, at) = [q \in Objs |-> IF q = o THEN at ELSE w.place[q]]
    BY <1>1 DEF Put
  <2> QED
    BY <1>0, <2>1, <2>2, <2>3, <2>4 DEF Made, Worlds
<1>7. Placed(x) = Placed(w) \cup {o} /\ InWorld(x) = InWorld(w) \cup {o} /\ o \notin InWorld(w)
  <2>1. Placed(x) = Placed(w) \cup {o}
    BY <1>2 DEF Placed
  <2>2. o \notin Mobs
    BY ZoneAssumption
  <2> QED
    BY <1>2, <2>1, <2>2 DEF InWorld, Placed
<1>8. Listed(x)
  BY <1>0, <1>2, <1>5, <1>7 DEF Listed
<1>9. ASSUME NEW k \in Kinds
      PROVE  Count(x, k) = Count(w, k) + Cardinality(Of(k, {o}))
  <2>1. InWorld(w) \in SUBSET Things /\ {o} \in SUBSET Things /\ InWorld(w) \cap {o} = {}
    BY <1>3, <1>7, CountIs
  <2> QED
    BY <1>7, <2>1, OfMore DEF Count
<1>10. ASSUME NEW k \in Kinds
       PROVE  x.number[k] - Count(x, k) = w.number[k] - Count(w, k)
  <2>1. Count(w, k) \in Nat
    BY CountIs
  <2>2. w.number[k] \in Int
    BY <1>1
  <2>3. Cardinality(Of(k, {o})) \in Nat
    BY <1>3
  <2> QED
    BY SMTT(30), <1>4, <1>9, <2>1, <2>2, <2>3
<1>11. ASSUME NEW k \in Kinds, Limited(k), w.number[k] <= Limit(k)
       PROVE  x.number[k] <= Limit(k)
  <2>1. w.number[k] \in Int /\ Limit(k) \in Nat
    BY <1>1, LimitIs
  <2>2. x.number[k] = w.number[k] + IF KindOf[o] = k THEN 1 ELSE 0
    BY <1>3, <1>4
  <2> QED
    BY <1>11, <2>1, <2>2
<1>12. \A q \in Objs : w.place[q] # None => x.place[q] = w.place[q]
  BY <1>2
<1>13. Sound(x)
  BY <1>6, <1>8 DEF Sound
<1> QED
  BY <1>10, <1>11, <1>12, <1>13 DEF Grows

LEMMA ReadMobGrows ==
    ASSUME NEW w, Sound(w), NEW c, c.kind \in MobKinds, c.room \in Rooms,
           FreeMobs(w, c.kind) # {},
           Limited(c.kind) => w.number[c.kind] < Limit(c.kind)
    PROVE  Grows(w, ReadMob(w, c))
<1> PICK x : x = ReadMob(w, c)
  OBVIOUS
<1> PICK m : m = NewMob(w, c.kind)
  OBVIOUS
<1>0. w \in Worlds /\ Listed(w)
  BY DEF Sound
<1>1. /\ w.room \in [Mobs -> Rooms \cup {None}] /\ w.number \in [Kinds -> Int]
      /\ DOMAIN w.room = Mobs
  BY <1>0 DEF Worlds
<1>2. m \in Mobs /\ w.room[m] = None /\ KindOf[m] = c.kind
  <2>1. m \in FreeMobs(w, c.kind)
    BY DEF NewMob
  <2> QED
    BY <2>1 DEF FreeMobs, Of
<1>3. m \in Things /\ \A k \in Kinds : Cardinality(Of(k, {m})) = IF KindOf[m] = k THEN 1 ELSE 0
  <2>1. m \in Things
    BY <1>2 DEF Things
  <2> QED
    BY <2>1, OfOne
<1>4. x = [w EXCEPT !.room = Put(@, m, c.room), !.number = More(@, {m}),
                    !.mob = m, !.last = TRUE]
  BY DEF ReadMob
<1>5. /\ x.place = w.place /\ x.listed = w.listed /\ x.number = More(w.number, {m})
      /\ x.room = [q \in Mobs |-> IF q = m THEN c.room ELSE w.room[q]]
  BY <1>0, <1>1, <1>4 DEF Put, Worlds
<1>6. \A k \in Kinds : x.number[k] = w.number[k] + Cardinality(Of(k, {m}))
  BY <1>5 DEF More
<1>7. x \in Worlds
  <2>1. More(w.number, {m}) \in [Kinds -> Int]
    <3>0. \A k \in Kinds : w.number[k] \in Int
      BY <1>1
    <3>1. \A k \in Kinds : Cardinality(Of(k, {m})) \in Int /\ w.number[k] \in Int
      BY <1>3, <3>0
    <3>2. \A k \in Kinds : w.number[k] + Cardinality(Of(k, {m})) \in Int
      BY <3>1
    <3> QED
      BY <3>2 DEF More
  <2>2. [q \in Mobs |-> IF q = m THEN c.room ELSE w.room[q]] \in [Mobs -> Rooms \cup {None}]
    BY <1>1
  <2>3. Put(w.room, m, c.room) = [q \in Mobs |-> IF q = m THEN c.room ELSE w.room[q]]
    BY <1>1 DEF Put
  <2> PICK n \in [Kinds -> Int] : n = More(w.number, {m})
    BY <2>1
  <2> PICK r \in [Mobs -> Rooms \cup {None}] : r = Put(w.room, m, c.room)
    BY <2>2, <2>3
  <2>4. x = [w EXCEPT !.room = r, !.number = n, !.mob = m, !.last = TRUE]
    BY <1>0, <1>4 DEF Worlds
  <2>5. m \in Mobs \cup {None}
    BY <1>2
  <2> QED
    BY <1>0, <2>4, <2>5 DEF Worlds
<1>8. Placed(x) = Placed(w) /\ InWorld(x) = InWorld(w) \cup {m} /\ m \notin InWorld(w)
  <2>1. Placed(x) = Placed(w)
    BY <1>5 DEF Placed
  <2>2. m \notin Objs /\ c.room # None
    BY <1>2, ZoneAssumption
  <2> QED
    BY <1>2, <1>5, <2>1, <2>2 DEF InWorld, Placed
<1>9. Listed(x)
  BY <1>0, <1>5, <1>8 DEF Listed
<1>10. ASSUME NEW k \in Kinds
      PROVE  Count(x, k) = Count(w, k) + Cardinality(Of(k, {m}))
  <2>1. InWorld(w) \in SUBSET Things /\ {m} \in SUBSET Things /\ InWorld(w) \cap {m} = {}
    BY <1>3, <1>8, CountIs
  <2> QED
    BY <1>8, <2>1, OfMore DEF Count
<1>11. ASSUME NEW k \in Kinds
       PROVE  x.number[k] - Count(x, k) = w.number[k] - Count(w, k)
  <2>1. Count(w, k) \in Nat
    BY CountIs
  <2>2. w.number[k] \in Int
    BY <1>1
  <2>3. Cardinality(Of(k, {m})) \in Nat
    BY <1>3
  <2>4. x.number[k] = w.number[k] + Cardinality(Of(k, {m}))
    BY <1>6
  <2>5. Count(x, k) = Count(w, k) + Cardinality(Of(k, {m}))
    BY <1>10
  <2>6. \A a, b, d \in Int : (a + d) - (b + d) = a - b
    OBVIOUS
  <2> QED
    BY <2>1, <2>2, <2>3, <2>4, <2>5, <2>6
<1>12. ASSUME NEW k \in Kinds, Limited(k), w.number[k] <= Limit(k)
       PROVE  x.number[k] <= Limit(k)
  <2>1. w.number[k] \in Int /\ Limit(k) \in Nat
    BY <1>1, LimitIs
  <2>2. x.number[k] = w.number[k] + IF KindOf[m] = k THEN 1 ELSE 0
    BY <1>3, <1>6
  <2> QED
    BY <1>2, <1>12, <2>1, <2>2
<1>13. Sound(x)
  BY <1>7, <1>9 DEF Sound
<1> QED
  BY <1>5, <1>11, <1>12, <1>13 DEF Grows

\* A free object is one.
LEMMA NewObjIs ==
    ASSUME NEW w, NEW k, FreeObjs(w, k) # {}
    PROVE  NewObj(w, k) \in Objs /\ w.place[NewObj(w, k)] = None /\ KindOf[NewObj(w, k)] = k
<1>1. NewObj(w, k) \in FreeObjs(w, k)
  BY DEF NewObj
<1> QED
  BY <1>1 DEF FreeObjs, Of

\* What a command of a table does.
LEMMA DoGrows ==
    ASSUME NEW w, Sound(w), NEW z \in Zones, NEW i \in 1..Len(Table[z]), NEW c,
           c = Table[z][i], NEW fights
    PROVE  Grows(w, Do(w, c, fights))
<1>0. w \in Worlds /\ Listed(w)
  BY DEF Sound
<1>1. CommandOK(c)
  BY TableIs
<1>2. ASSUME c.letter # "D", Below(w, c), c.kind \in Kinds
      PROVE  Limited(c.kind) => w.number[c.kind] < Limit(c.kind)
  <2> SUFFICES ASSUME Limited(c.kind) PROVE w.number[c.kind] < Limit(c.kind)
    OBVIOUS
  <2>1. c.max # 0 /\ c.max <= Limit(c.kind)
    BY <1>2, CommandLimit
  <2>2. w.number[c.kind] < c.max
    BY <1>2, <2>1 DEF Below
  <2>3. w.number[c.kind] \in Int /\ c.max \in Int /\ Limit(c.kind) \in Int
    BY <1>0, <1>1, <1>2, LimitIs DEF Worlds, CommandOK
  <2> QED
    BY <2>1, <2>2, <2>3
<1>3. ASSUME NEW b \in BOOLEAN
      PROVE  Grows(w, [w EXCEPT !.last = b])
  <2>1. [w EXCEPT !.last = b] \in Worlds
    BY <1>0 DEF Worlds
  <2> QED
    BY <1>0, <2>1, SameGrows DEF Worlds
<1>4. CASE c.letter = "M"
  <2>1. c.kind \in MobKinds /\ c.room \in Rooms /\ c.kind \in Kinds
    BY <1>1, <1>4 DEF CommandOK, Kinds
  <2>2. CASE Below(w, c) /\ c.room \notin fights /\ FreeMobs(w, c.kind) # {}
    <3>1. Grows(w, ReadMob(w, c))
      BY <1>2, <1>4, <2>1, <2>2, ReadMobGrows
    <3> QED
      BY <1>4, <2>2, <3>1 DEF Do, LoadMob
  <2>3. CASE ~ (Below(w, c) /\ c.room \notin fights /\ FreeMobs(w, c.kind) # {})
    <3>1. [w EXCEPT !.mob = None, !.last = FALSE] \in Worlds
      BY <1>0 DEF Worlds
    <3>2. Grows(w, [w EXCEPT !.mob = None, !.last = FALSE])
      BY <1>0, <3>1, SameGrows DEF Worlds
    <3> QED
      BY <1>4, <2>3, <3>2 DEF Do, LoadMob
  <2> QED
    BY <2>2, <2>3
<1>5. ASSUME NEW o, o = NewObj(w, c.kind), c.letter # "D", Below(w, c), FreeObjs(w, c.kind) # {},
             c.kind \in Kinds, NEW at \in Places, at # None
      PROVE  Grows(w, Made(w, o, at)) /\ Grows(w, [Made(w, o, at) EXCEPT !.last = TRUE])
  <2>1. o \in Objs /\ w.place[o] = None /\ KindOf[o] = c.kind
    BY <1>5, NewObjIs
  <2>2. Limited(KindOf[o]) => w.number[KindOf[o]] < Limit(KindOf[o])
    BY <1>2, <1>5, <2>1
  <2>3. Grows(w, Made(w, o, at))
    BY <1>5, <2>1, <2>2, MadeGrows
  <2> PICK x : x = Made(w, o, at)
    OBVIOUS
  <2>4. Sound(x) /\ x \in Worlds
    BY <2>3 DEF Grows, Sound
  <2>5. [x EXCEPT !.last = TRUE] \in Worlds
    BY <2>4 DEF Worlds
  <2>6. Grows(x, [x EXCEPT !.last = TRUE])
    BY <2>4, <2>5, SameGrows DEF Worlds
  <2> QED
    BY <2>3, <2>6, GrowsTransitive
<1>6. CASE c.letter = "O"
  <2>1. c.kind \in Kinds /\ c.room \in Places /\ c.room # None
    BY <1>1, <1>6, ZoneAssumption DEF CommandOK, Kinds, Places
  <2>2. CASE /\ Below(w, c)
             /\ c.each = 0
                \/ Cardinality({o \in Of(c.kind, Objs) : w.place[o] = c.room}) < c.each
             /\ FreeObjs(w, c.kind) # {}
    <3>1. Grows(w, [Made(w, NewObj(w, c.kind), c.room) EXCEPT !.last = TRUE])
      BY <1>5, <1>6, <2>1, <2>2
    <3>2. Do(w, c, fights) = [Made(w, NewObj(w, c.kind), c.room) EXCEPT !.last = TRUE]
      BY <1>6, <2>2 DEF Do, LoadObj
    <3> QED
      BY <3>1, <3>2
  <2>3. CASE ~ (/\ Below(w, c)
                /\ c.each = 0
                   \/ Cardinality({o \in Of(c.kind, Objs) : w.place[o] = c.room}) < c.each
                /\ FreeObjs(w, c.kind) # {})
    <3>1. Do(w, c, fights) = [w EXCEPT !.last = FALSE]
      BY <1>6, <2>3 DEF Do, LoadObj
    <3> QED
      BY <1>3, <3>1
  <2> QED
    BY <2>2, <2>3
<1>7. CASE c.letter = "P"
  <2>1. c.kind \in Kinds
    BY <1>1, <1>7 DEF CommandOK, Kinds
  <2> PICK found : found = Newest(w, c.room)
    OBVIOUS
  <2>2. CASE Below(w, c) /\ found # <<>> /\ FreeObjs(w, c.kind) # {}
    <3>1. found \in Seq(Containers)
      <4>1. w.listed \in Seq(Containers)
        BY <1>0 DEF Worlds
      <4> QED
        BY <4>1, KeptIs DEF Newest
    <3>2. Head(found) \in Containers
      BY <2>2, <3>1
    <3>3. Head(found) \in Places /\ Head(found) # None
      BY <3>2, ZoneAssumption DEF Places
    <3>4. Grows(w, [Made(w, NewObj(w, c.kind), Head(found)) EXCEPT !.last = TRUE])
      BY <1>5, <1>7, <2>1, <2>2, <3>3
    <3>5. Do(w, c, fights) = [Made(w, NewObj(w, c.kind), Head(found)) EXCEPT !.last = TRUE]
      BY <1>7, <2>2 DEF Do, PutObj
    <3> QED
      BY <3>4, <3>5
  <2>3. CASE ~ (Below(w, c) /\ found # <<>> /\ FreeObjs(w, c.kind) # {})
    <3>1. Do(w, c, fights) = [w EXCEPT !.last = FALSE]
      BY <1>7, <2>3 DEF Do, PutObj
    <3> QED
      BY <1>3, <3>1
  <2> QED
    BY <2>2, <2>3
<1>8. CASE c.letter \in {"G", "E"}
  <2>1. c.kind \in Kinds /\ c.letter # "D"
    BY <1>1, <1>8 DEF CommandOK, Kinds
  <2>2. CASE Below(w, c) /\ w.mob # None /\ FreeObjs(w, c.kind) # {}
    <3>1. w.mob \in Places
      BY <1>0 DEF Worlds, Places
    <3>2. Grows(w, Made(w, NewObj(w, c.kind), w.mob))
      BY <1>5, <2>1, <2>2, <3>1
    <3>3. Do(w, c, fights) = Made(w, NewObj(w, c.kind), w.mob)
      BY <1>8, <2>2 DEF Do, GiveObj
    <3> QED
      BY <3>2, <3>3
  <2>3. CASE ~ (Below(w, c) /\ w.mob # None /\ FreeObjs(w, c.kind) # {})
    <3>1. Do(w, c, fights) = w
      BY <1>8, <2>3 DEF Do, GiveObj
    <3> QED
      BY <1>0, <3>1, SameGrows
  <2> QED
    BY <2>2, <2>3
<1>9. CASE c.letter = "D"
  <2>1. c.room \in Sides
    BY <1>1, <1>9 DEF CommandOK
  <2>2. Do(w, c, fights) = SetDoor(w, c)
    BY <1>9 DEF Do
  <2>3. SetDoor(w, c) \in Worlds
    BY <1>0, <2>1 DEF SetDoor, Worlds
  <2>4. /\ SetDoor(w, c).room = w.room /\ SetDoor(w, c).place = w.place
        /\ SetDoor(w, c).listed = w.listed /\ SetDoor(w, c).number = w.number
    BY <1>0 DEF SetDoor, Worlds
  <2> QED
    BY <2>2, <2>3, <2>4, SameGrows
<1> QED
  BY <1>1, <1>4, <1>6, <1>7, <1>8, <1>9 DEF CommandOK

LEMMA ExecuteGrows ==
    ASSUME NEW w, Sound(w), NEW z \in Zones, NEW i \in 1..Len(Table[z]), NEW fights
    PROVE  Grows(w, Execute(w, Table[z][i], fights))
<1>0. w \in Worlds
  BY DEF Sound
<1>1. [w EXCEPT !.last = FALSE] \in Worlds
  BY <1>0 DEF Worlds
<1>2. Grows(w, [w EXCEPT !.last = FALSE])
  BY <1>0, <1>1, SameGrows DEF Worlds
<1>3. Grows(w, Do(w, Table[z][i], fights))
  BY DoGrows
<1> QED
  BY <1>2, <1>3 DEF Execute

\* What a reset does.
LEMMA ResetGrows ==
    ASSUME NEW w, Sound(w), NEW z \in Zones, NEW fights
    PROVE  /\ Grows(w, ResetZone(w, z, fights))
           /\ ResetZone(w, z, fights).last = TRUE /\ ResetZone(w, z, fights).mob = None
<1> DEFINE V == {x \in Worlds : Grows(w, x)}
<1>1. w \in V
  <2>1. w \in Worlds
    BY DEF Sound
  <2>2. Grows(w, w)
    BY <2>1, SameGrows
  <2> QED
    BY <2>1, <2>2
<1>2. ASSUME NEW x \in V, NEW i \in 1..Len(Table[z])
      PROVE  Execute(x, Table[z][i], fights) \in V
  <2>1. Sound(x) /\ Grows(w, x)
    BY DEF Grows
  <2>2. Grows(x, Execute(x, Table[z][i], fights))
    BY <2>1, ExecuteGrows
  <2>3. Grows(w, Execute(x, Table[z][i], fights))
    BY <2>1, <2>2, GrowsTransitive
  <2> QED
    BY <2>3 DEF Grows, Sound
<1>3. \A x \in V : x \in Worlds /\ Grows(w, x)
  OBVIOUS
<1> HIDE DEF V
<1>4. PICK f \in [0..Len(Table[z]) -> V] :
          /\ ResetRuns(f, w, z, fights)
          /\ ResetZone(w, z, fights) = Done(f[Len(Table[z])])
  <2>1. \A x \in V, i \in 1..Len(Table[z]) : Execute(x, Table[z][i], fights) \in V
    BY <1>2
  <2> QED
    BY <1>1, <2>1, ResetExists, Zenon
<1>5. Len(Table[z]) \in Nat
  BY TableIs
<1> PICK x : x = f[Len(Table[z])]
  OBVIOUS
<1>6. x \in V
  BY <1>5
<1>7. x \in Worlds /\ Grows(w, x) /\ Sound(x)
  BY <1>3, <1>6 DEF Grows
<1>8. Done(x) \in Worlds
  BY <1>7 DEF Worlds, Done
<1>9. Grows(x, Done(x))
  BY <1>7, <1>8, SameGrows DEF Worlds, Done
<1>10. Grows(w, Done(x))
  BY <1>7, <1>9, GrowsTransitive
<1>11. Done(x).last = TRUE /\ Done(x).mob = None
  BY <1>7 DEF Worlds, Done
<1> QED
  BY <1>4, <1>10, <1>11

\* The resets of one zone after another keep what each of them keeps.
LEMMA UpdateKeeps ==
    ASSUME NEW V, NEW w \in V, NEW due \in Seq(Zones), NEW fights,
           \A x \in V, z \in Zones : ResetZone(x, z, fights) \in V
    PROVE  ResetAll(w, due, fights) \in V
<1> DEFINE n == Len(due)
           F == [i \in 1..n |-> [x \in V |-> ResetZone(x, due[i], fights)]]
           Next1(g, t) == IF t = {} THEN w ELSE ResetZone(g[t \ {Max(t)}], due[Max(t)], fights)
           Whole(g) == g = [t \in SUBSET DOMAIN due |-> Next1(g, t)]
<1>1. n \in Nat /\ DOMAIN due = 1..n /\ \A i \in 1..n : due[i] \in Zones
  OBVIOUS
<1>2. w \in V
  OBVIOUS
<1>3. ASSUME NEW x \in V, NEW i \in 1..n
      PROVE  ResetZone(x, due[i], fights) \in V
  BY <1>1
<1>5. \A i \in 1..n, x \in V : F[i][x] = ResetZone(x, due[i], fights)
  OBVIOUS
<1>6. \A i \in 1..n, x \in V : F[i][x] \in V
  BY <1>3, <1>5
<1> HIDE DEF n, F
<1>7. PICK g \in [SUBSET (1..n) -> V] : Folds(g, n, w, F)
  BY <1>1, <1>2, <1>6, FoldExists
<1>8. ASSUME NEW t \in SUBSET (1..n)
      PROVE  g[t] = Next1(g, t)
  <2>1. CASE t = {}
    BY <1>7, <2>1 DEF Folds
  <2>2. CASE t # {}
    <3>1. Max(t) \in t
      BY <1>1, <2>2, MaxIs
    <3>2. Max(t) \in 1..n /\ g[t \ {Max(t)}] \in V
      BY <3>1
    <3>3. g[t] = F[Max(t)][g[t \ {Max(t)}]]
      BY <1>7, <2>2 DEF Folds
    <3> QED
      BY <1>5, <2>2, <3>2, <3>3
  <2> QED
    BY <2>1, <2>2
<1>9. Whole(g)
  <2> HIDE DEF Next1
  <2>1. g = [t \in SUBSET (1..n) |-> g[t]]
    OBVIOUS
  <2>2. g = [t \in SUBSET (1..n) |-> Next1(g, t)]
    BY <1>8, <2>1
  <2> QED
    BY <1>1, <2>2
<1>10. ResetAll(w, due, fights) = (CHOOSE h : Whole(h))[DOMAIN due]
  BY DEF ResetAll, FoldLeft, MapThenFoldSet
<1> PICK h : h = CHOOSE k : Whole(k)
  OBVIOUS
<1>11. Whole(h)
  BY <1>9
<1>12. ASSUME NEW t \in SUBSET (1..n)
       PROVE  h[t] = Next1(h, t)
  <2> HIDE DEF Next1
  <2> QED
    BY <1>1, <1>11
<1> DEFINE Q == {i \in 0..n : h[1..i] \in V}
<1>13. 0 \in Q
  <2>1. 1..0 = {} /\ 1..0 \in SUBSET (1..n)
    OBVIOUS
  <2>2. h[1..0] = w
    BY <1>12, <2>1
  <2>3. 0 \in 0..n
    BY <1>1
  <2> QED
    BY <1>2, <2>2, <2>3
<1>14. ASSUME NEW i \in 1..n, i - 1 \in Q
       PROVE  i \in Q
  <2>0. i \in 1..i /\ \A j \in 1..i : j \in 1..n
    BY <1>1
  <2>1. (1..i) \in SUBSET (1..n) /\ 1..i # {} /\ i \in 1..i
    BY <2>0, Zenon
  <2>2. Max(1..i) = i
    <3>1. Max(1..i) \in 1..i /\ \A j \in 1..i : j <= Max(1..i)
      BY <1>1, <2>1, MaxIs
    <3> QED
      BY <2>1, <3>1
  <2>3. (1..i) \ {i} = 1..(i - 1)
    OBVIOUS
  <2>4. h[1..i] = ResetZone(h[(1..i) \ {Max(1..i)}], due[Max(1..i)], fights)
    BY <1>12, <2>1
  <2>5. h[1..i] = ResetZone(h[1..(i - 1)], due[i], fights)
    BY <2>2, <2>3, <2>4
  <2>6. h[1..(i - 1)] \in V
    BY <1>14
  <2>7. h[1..i] \in V
    BY <1>3, <2>5, <2>6 DEF n
  <2> QED
    BY <1>1, <2>7
<1>15. \A i \in 1..n : i - 1 \in Q => i \in Q
  BY <1>14
<1> HIDE DEF Q
<1>16. \A i \in 0..n : i \in Q
  BY <1>1, <1>13, <1>15, SegmentInduction
<1>17. n \in Q
  BY <1>1, <1>16
<1> QED
  BY <1>1, <1>10, <1>17 DEF Q


LEMMA UpdateGrows ==
    ASSUME NEW w, Sound(w), w.last = TRUE, w.mob = None, NEW due \in Seq(Zones), NEW fights
    PROVE  /\ Grows(w, ResetAll(w, due, fights))
           /\ ResetAll(w, due, fights).last = TRUE /\ ResetAll(w, due, fights).mob = None
<1> DEFINE V == {x \in Worlds : Grows(w, x) /\ x.last = TRUE /\ x.mob = None}
<1>1. w \in V
  <2>1. w \in Worlds
    BY DEF Sound
  <2>2. Grows(w, w)
    BY <2>1, SameGrows
  <2> QED
    BY <2>1, <2>2
<1>2. ASSUME NEW x \in V, NEW z \in Zones
      PROVE  ResetZone(x, z, fights) \in V
  <2>1. Sound(x) /\ Grows(w, x)
    BY DEF Grows
  <2>2. /\ Grows(x, ResetZone(x, z, fights))
        /\ ResetZone(x, z, fights).last = TRUE /\ ResetZone(x, z, fights).mob = None
    BY <2>1, ResetGrows
  <2>3. Grows(w, ResetZone(x, z, fights))
    BY <2>1, <2>2, GrowsTransitive
  <2> QED
    BY <2>2, <2>3 DEF Grows, Sound
<1>3. \A x \in V : Grows(w, x) /\ x.last = TRUE /\ x.mob = None
  OBVIOUS
<1>4. \A x \in V, z \in Zones : ResetZone(x, z, fights) \in V
  BY <1>2
<1> HIDE DEF V
<1>5. ResetAll(w, due, fights) \in V
  BY <1>1, <1>4, UpdateKeeps
<1> QED
  BY <1>3, <1>5

-----------------------------------------------------------------------------
(* What else happens to the world.                                         *)

\* What the counters have too much of stays as it is.
Even(w, x) == \A k \in Kinds : x.number[k] - Count(x, k) = w.number[k] - Count(w, k)

\* The counters go down, or stay.
Lowers(w, x) == \A k \in Kinds : x.number[k] <= w.number[k]

LEMMA EvenTransitive ==
    ASSUME NEW w, NEW x, NEW y, Even(w, x), Even(x, y)
    PROVE  Even(w, y)
  BY DEF Even

LEMMA LowersTransitive ==
    ASSUME NEW w \in Worlds, NEW x \in Worlds, NEW y \in Worlds, Lowers(w, x), Lowers(x, y)
    PROVE  Lowers(w, y)
<1>1. ASSUME NEW k \in Kinds
      PROVE  y.number[k] <= w.number[k]
  <2>1. w.number[k] \in Int /\ x.number[k] \in Int /\ y.number[k] \in Int
    BY DEF Worlds
  <2>2. x.number[k] <= w.number[k] /\ y.number[k] <= x.number[k]
    BY DEF Lowers
  <2> QED
    BY <2>1, <2>2
<1> QED
  BY <1>1 DEF Lowers

\* The counters of what leaves the world go down with it.
LEMMA LessIs ==
    ASSUME NEW w \in Worlds, NEW x \in Worlds, NEW S \in SUBSET InWorld(w),
           InWorld(x) = InWorld(w) \ S, x.number = Less(w.number, S)
    PROVE  Even(w, x) /\ Lowers(w, x)
<1>1. InWorld(w) \in SUBSET Things
  BY CountIs
<1>2. ASSUME NEW k \in Kinds
      PROVE  /\ x.number[k] - Count(x, k) = w.number[k] - Count(w, k)
             /\ x.number[k] <= w.number[k]
  <2>1. Count(x, k) = Count(w, k) - Cardinality(Of(k, S))
    BY <1>1, OfLess DEF Count
  <2>2. x.number[k] = w.number[k] - Cardinality(Of(k, S))
    BY DEF Less
  <2>3. Count(w, k) \in Int
    BY CountIs
  <2>4. w.number[k] \in Int
    BY DEF Worlds
  <2>5. S \in SUBSET Things
    BY <1>1
  <2>6. Cardinality(Of(k, S)) \in Nat
    BY <2>5, OfIs
  <2> QED
    BY <2>1, <2>2, <2>3, <2>4, <2>6
<1> QED
  BY <1>2 DEF Even, Lowers

LEMMA LessType ==
    ASSUME NEW n \in [Kinds -> Int], NEW S \in SUBSET Things
    PROVE  Less(n, S) \in [Kinds -> Int] /\ More(n, S) \in [Kinds -> Int]
<1>1. ASSUME NEW k \in Kinds
      PROVE  /\ n[k] - Cardinality(Of(k, S)) \in Int
             /\ n[k] + Cardinality(Of(k, S)) \in Int
  <2>1. Cardinality(Of(k, S)) \in Nat
    BY OfIs
  <2>2. n[k] \in Int
    OBVIOUS
  <2> QED
    BY <2>1, <2>2
<1> QED
  BY <1>1 DEF Less, More

LEMMA ExtractIs ==
    ASSUME NEW w, Sound(w), NEW S \in SUBSET Placed(w), NEW x, x = Extract(w, S)
    PROVE  /\ Sound(x) /\ Even(w, x) /\ Lowers(w, x)
           /\ x.last = w.last /\ x.mob = w.mob
           /\ x.place = [o \in Objs |-> IF o \in S THEN None ELSE w.place[o]]
           /\ x.number = Less(w.number, S)
<1>0. w \in Worlds /\ Listed(w)
  BY DEF Sound
<1>1. /\ w.place \in [Objs -> Places] /\ w.number \in [Kinds -> Int]
      /\ w.listed \in Seq(Containers)
  BY <1>0 DEF Worlds
<1>2. S \in SUBSET Objs /\ S \in SUBSET Things /\ S \in SUBSET InWorld(w)
  BY DEF Placed, Things, InWorld
<1> PICK f : f = [o \in Objs |-> IF o \in S THEN None ELSE w.place[o]]
  OBVIOUS
<1> PICK l : l = Kept(w.listed, Objs \ S)
  OBVIOUS
<1> PICK n : n = Less(w.number, S)
  OBVIOUS
<1>3. x = [w EXCEPT !.place = f, !.listed = l, !.number = n]
  BY <1>0 DEF Extract, Worlds
<1>4. f \in [Objs -> Places]
  BY <1>1 DEF Places
<1>5. l \in Seq(Containers) /\ ToSet(l) = ToSet(w.listed) \cap (Objs \ S)
  BY <1>1, KeptIs
<1>6. n \in [Kinds -> Int]
  BY <1>1, <1>2, LessType
<1>7. x \in Worlds
  BY <1>0, <1>3, <1>4, <1>5, <1>6 DEF Worlds
<1>8. /\ x.place = f /\ x.listed = l /\ x.number = n
      /\ x.room = w.room /\ x.last = w.last /\ x.mob = w.mob
  BY <1>0, <1>3 DEF Worlds
<1>9. Placed(x) = Placed(w) \ S
  BY <1>8 DEF Placed
<1>10. InWorld(x) = InWorld(w) \ S
  <2>1. Mobs \cap S = {}
    BY <1>2, ZoneAssumption
  <2> QED
    BY <1>8, <1>9, <2>1 DEF InWorld
<1>11. Listed(x)
  BY <1>0, <1>5, <1>8, <1>9, ZoneAssumption DEF Listed
<1>12. Even(w, x) /\ Lowers(w, x)
  BY <1>0, <1>2, <1>7, <1>8, <1>10, LessIs
<1> QED
  BY <1>7, <1>8, <1>11, <1>12 DEF Sound

LEMMA ExtractMobsIs ==
    ASSUME NEW w, Sound(w), NEW S \in SUBSET {m \in Mobs : w.room[m] # None},
           NEW x, x = ExtractMobs(w, S)
    PROVE  /\ Sound(x) /\ Even(w, x) /\ Lowers(w, x)
           /\ x.last = w.last /\ x.mob = w.mob
           /\ x.place = [o \in Objs |-> IF w.place[o] \in S THEN w.room[w.place[o]]
                                        ELSE w.place[o]]
<1>0. w \in Worlds /\ Listed(w)
  BY DEF Sound
<1>1. /\ w.place \in [Objs -> Places] /\ w.number \in [Kinds -> Int]
      /\ w.room \in [Mobs -> Rooms \cup {None}] /\ w.listed \in Seq(Containers)
  BY <1>0 DEF Worlds
<1>2. S \in SUBSET Mobs /\ S \in SUBSET Things /\ S \in SUBSET InWorld(w)
  BY DEF Things, InWorld
<1> PICK f : f = [o \in Objs |-> IF w.place[o] \in S THEN w.room[w.place[o]] ELSE w.place[o]]
  OBVIOUS
<1> PICK r : r = [m \in Mobs |-> IF m \in S THEN None ELSE w.room[m]]
  OBVIOUS
<1> PICK n : n = Less(w.number, S)
  OBVIOUS
<1>3. x = [w EXCEPT !.room = r, !.place = f, !.number = n]
  BY <1>0 DEF ExtractMobs, Worlds
<1>4. \A m \in S : w.room[m] \in Rooms /\ w.room[m] # None /\ m # None
  BY <1>1, <1>2, ZoneAssumption
<1>5. f \in [Objs -> Places] /\ r \in [Mobs -> Rooms \cup {None}]
  BY <1>1, <1>4 DEF Places
<1>6. n \in [Kinds -> Int]
  BY <1>1, <1>2, LessType
<1>7. x \in Worlds
  BY <1>0, <1>3, <1>5, <1>6 DEF Worlds
<1>8. /\ x.place = f /\ x.room = r /\ x.number = n
      /\ x.listed = w.listed /\ x.last = w.last /\ x.mob = w.mob
  BY <1>0, <1>3 DEF Worlds
<1>9. Placed(x) = Placed(w)
  BY <1>4, <1>8 DEF Placed
<1>10. InWorld(x) = InWorld(w) \ S
  <2>1. Objs \cap S = {}
    BY <1>2, ZoneAssumption
  <2>2. {m \in Mobs : r[m] # None} = {m \in Mobs : w.room[m] # None} \ S
    OBVIOUS
  <2>3. Placed(w) \ S = Placed(w)
    BY <2>1 DEF Placed
  <2> QED
    BY <1>8, <1>9, <2>2, <2>3 DEF InWorld
<1>11. Listed(x)
  BY <1>0, <1>8, <1>9 DEF Listed
<1>12. Even(w, x) /\ Lowers(w, x)
  BY <1>0, <1>2, <1>7, <1>8, <1>10, LessIs
<1> QED
  BY <1>7, <1>8, <1>11, <1>12 DEF Sound

LEMMA MovedIs ==
    ASSUME NEW w, Sound(w), NEW S \in SUBSET Placed(w), NEW at \in Places, at # None,
           NEW x, x = Moved(w, S, at)
    PROVE  /\ Sound(x) /\ Even(w, x) /\ Lowers(w, x)
           /\ x.last = w.last /\ x.mob = w.mob
           /\ x.place = [o \in Objs |-> IF o \in S THEN at ELSE w.place[o]]
<1>0. w \in Worlds /\ Listed(w)
  BY DEF Sound
<1> PICK f : f = [o \in Objs |-> IF o \in S THEN at ELSE w.place[o]]
  OBVIOUS
<1>1. x = [w EXCEPT !.place = f]
  BY DEF Moved
<1>2. f \in [Objs -> Places]
  BY <1>0 DEF Worlds
<1>3. x \in Worlds
  BY <1>0, <1>1, <1>2 DEF Worlds
<1>4. /\ x.place = f /\ x.room = w.room /\ x.number = w.number
      /\ x.listed = w.listed /\ x.last = w.last /\ x.mob = w.mob
  BY <1>0, <1>1 DEF Worlds
<1>5. Placed(x) = Placed(w)
  BY <1>4 DEF Placed
<1>6. InWorld(x) = InWorld(w)
  BY <1>4, <1>5 DEF InWorld
<1>7. Listed(x)
  BY <1>0, <1>4, <1>5 DEF Listed
<1>8. Even(w, x)
  BY <1>4, <1>6 DEF Even, Count
<1>9. Lowers(w, x)
  <2>1. \A k \in Kinds : w.number[k] \in Int
    BY <1>0 DEF Worlds
  <2> QED
    BY <1>4, <2>1 DEF Lowers
<1> QED
  BY <1>3, <1>4, <1>7, <1>8, <1>9 DEF Sound

LEMMA SeqOfPart ==
    ASSUME NEW X, NEW T \in SUBSET X, NEW s \in Seq(T)
    PROVE  s \in Seq(X)
  OBVIOUS

LEMMA ListedFirst ==
    ASSUME NEW X, NEW T \in SUBSET X, IsFiniteSet(T), NEW s \in Seq(X)
    PROVE  SetToSeq(T) \o s \in Seq(X) /\ ToSet(SetToSeq(T) \o s) = T \cup ToSet(s)
<1> PICK t : t = SetToSeq(T)
  OBVIOUS
<1>1. t \in Seq(T) /\ ToSet(t) = T
  BY SetToSeqIs
<1>2. t \in Seq(X)
  BY <1>1, SeqOfPart
<1>3. t \o s \in Seq(X) /\ ToSet(t \o s) = ToSet(t) \cup ToSet(s)
  BY <1>2, ConcatSet
<1> QED
  BY <1>1, <1>3

LEMMA ContainersFirst ==
    ASSUME NEW S \in SUBSET Objs, NEW s \in Seq(Containers)
    PROVE  /\ SetToSeq(S \cap Containers) \o s \in Seq(Containers)
           /\ ToSet(SetToSeq(S \cap Containers) \o s) = (S \cap Containers) \cup ToSet(s)
<1> DEFINE T == S \cap Containers
<1>1. IsFiniteSet(T)
  BY ZoneAssumption, FS_Subset
<1>2. T \in SUBSET Containers
  OBVIOUS
<1> HIDE DEF T
<1>3. SetToSeq(T) \o s \in Seq(Containers) /\ ToSet(SetToSeq(T) \o s) = T \cup ToSet(s)
  BY <1>1, <1>2, ListedFirst
<1> QED
  BY <1>3 DEF T

AllFree(w, S) == \A o \in S : w.place[o] = None

LEMMA LoadedIs ==
    ASSUME NEW w, Sound(w), NEW S \in SUBSET Objs, AllFree(w, S),
           NEW p \in Players, NEW x, x = Loaded(w, p, S)
    PROVE  /\ Sound(x) /\ x.last = w.last /\ x.mob = w.mob
           /\ x.place = [o \in Objs |-> IF o \in S THEN p ELSE w.place[o]]
           /\ x.number = More(w.number, {o \in S : KindOf[o] \notin Rare})
           /\ \A k \in Kinds : Count(x, k) = Count(w, k) + Cardinality(Of(k, S))
<1>0. w \in Worlds /\ Listed(w)
  BY DEF Sound
<1>1. /\ w.place \in [Objs -> Places] /\ w.number \in [Kinds -> Int]
      /\ w.listed \in Seq(Containers)
  BY <1>0 DEF Worlds
<1> PICK T : T = S \cap Containers
  OBVIOUS
<1> PICK f : f = [o \in Objs |-> IF o \in S THEN p ELSE w.place[o]]
  OBVIOUS
<1> PICK l : l = SetToSeq(T) \o w.listed
  OBVIOUS
<1> PICK n : n = More(w.number, {o \in S : KindOf[o] \notin Rare})
  OBVIOUS
<1>2. x = [w EXCEPT !.place = f, !.listed = l, !.number = n]
  BY <1>0 DEF Loaded, Worlds
<1>3. p \in Places /\ p # None
  BY ZoneAssumption DEF Places
<1>4. f \in [Objs -> Places]
  BY <1>1, <1>3
<1>5. l \in Seq(Containers) /\ ToSet(l) = T \cup ToSet(w.listed)
  BY <1>1, ContainersFirst, Zenon
<1>6. n \in [Kinds -> Int]
  <2>1. {o \in S : KindOf[o] \notin Rare} \in SUBSET Things
    BY DEF Things
  <2> QED
    BY <1>1, <2>1, LessType
<1>7. x \in Worlds
  BY <1>0, <1>2, <1>4, <1>5, <1>6 DEF Worlds
<1>8. /\ x.place = f /\ x.listed = l /\ x.number = n
      /\ x.room = w.room /\ x.last = w.last /\ x.mob = w.mob
  BY <1>0, <1>2 DEF Worlds
<1>9. Placed(x) = Placed(w) \cup S
  BY <1>3, <1>8 DEF Placed
<1>13. \A o \in S : w.place[o] = None
  BY DEF AllFree
<1>10. InWorld(x) = InWorld(w) \cup S /\ InWorld(w) \cap S = {}
  <2>1. Mobs \cap S = {}
    BY ZoneAssumption
  <2> QED
    BY <1>8, <1>9, <1>13, <2>1 DEF InWorld, Placed
<1>11. Listed(x)
  BY <1>0, <1>5, <1>8, <1>9 DEF Listed
<1>12. ASSUME NEW k \in Kinds
       PROVE  Count(x, k) = Count(w, k) + Cardinality(Of(k, S))
  <2>1. InWorld(w) \in SUBSET Things /\ S \in SUBSET Things
    BY CountIs DEF Things
  <2> QED
    BY <1>10, <2>1, OfMore DEF Count
<1> QED
  BY <1>7, <1>8, <1>11, <1>12 DEF Sound

-----------------------------------------------------------------------------
(* What the rent files hold of the players that are away.                  *)

Stores == [Players -> [Kinds -> Nat]]
Spots == [Players -> Rooms \cup {None}]

Away(sp) == {p \in Players : sp[p] = None}
Lines(F, S, k) == UNION {{p} \X (1 .. F[p][k]) : p \in S}
Files(F, S, k) == Cardinality(Lines(F, S, k))
Owed(F, sp, k) == IF k \notin Rare THEN 0 ELSE Files(F, Away(sp), k)

\* The part of one player.
Mine(F, sp, p, k) == IF sp[p] = None /\ k \in Rare THEN F[p][k] ELSE 0

LEMMA InFilesIs ==
    ASSUME NEW S, NEW k
    PROVE  InFiles(S, k) = Files(stored, S, k)
  BY DEF InFiles, Files, Lines

LEMMA LinesOne ==
    ASSUME NEW F \in Stores, NEW k \in Kinds, NEW p \in Players
    PROVE  /\ IsFiniteSet({p} \X (1 .. F[p][k]))
           /\ Cardinality({p} \X (1 .. F[p][k])) = F[p][k]
<1> PICK n \in Nat : n = F[p][k]
  BY DEF Stores
<1>1. IsFiniteSet(1 .. n) /\ Cardinality(1 .. n) = n
  <2>1. 1 \in Int /\ n \in Int
    OBVIOUS
  <2>2. IsFiniteSet(1 .. n) /\ Cardinality(1 .. n) = IF 1 > n THEN 0 ELSE n - 1 + 1
    BY <2>1, FS_Interval, Zenon
  <2>3. (IF 1 > n THEN 0 ELSE n - 1 + 1) = n
    OBVIOUS
  <2> QED
    BY <2>2, <2>3, Zenon
<1>2. IsFiniteSet({p}) /\ Cardinality({p}) = 1
  BY FS_Singleton
<1> PICK s, u : s = {p} /\ u = 1 .. n
  OBVIOUS
<1>3. IsFiniteSet(s \X u) /\ Cardinality(s \X u) = Cardinality(s) * Cardinality(u)
  BY <1>1, <1>2, FS_Product
<1>4. 1 * n = n
  OBVIOUS
<1> QED
  BY <1>1, <1>2, <1>3, <1>4

LEMMA LinesFinite ==
    ASSUME NEW F \in Stores, NEW k \in Kinds, NEW S \in SUBSET Players
    PROVE  IsFiniteSet(Lines(F, S, k)) /\ Files(F, S, k) \in Nat
<1> DEFINE line == [p \in Players |-> {p} \X (1 .. F[p][k])]
           T == {line[p] : p \in S}
<1>1. IsFiniteSet(S)
  BY ZoneAssumption, FS_Subset
<1>2. \A p \in Players : IsFiniteSet(line[p])
  BY LinesOne
<1>3. Lines(F, S, k) = UNION T
  BY DEF Lines
<1> HIDE DEF line
<1>4. IsFiniteSet(T)
  BY <1>1, ImageFinite
<1>5. \A t \in T : IsFiniteSet(t)
  BY <1>2
<1> HIDE DEF T
<1>6. IsFiniteSet(UNION T)
  BY <1>4, <1>5, FS_UNION
<1>7. IsFiniteSet(Lines(F, S, k))
  BY <1>3, <1>6
<1> QED
  BY <1>7, FS_CardinalityType DEF Files

LEMMA FilesType ==
    ASSUME NEW F \in Stores, NEW k \in Kinds, NEW S \in SUBSET Players
    PROVE  Files(F, S, k) \in Nat
  BY LinesFinite

LEMMA FilesParts ==
    ASSUME NEW F \in Stores, NEW k \in Kinds, NEW S \in SUBSET Players,
           NEW T \in SUBSET Players, S \cap T = {}
    PROVE  Files(F, S \cup T, k) = Files(F, S, k) + Files(F, T, k)
<1> PICK a, b : a = Lines(F, S, k) /\ b = Lines(F, T, k)
  OBVIOUS
<1>1. Lines(F, S \cup T, k) = a \cup b
  BY DEF Lines
<1>2. a \cap b = {}
  BY DEF Lines
<1>3. IsFiniteSet(a) /\ IsFiniteSet(b) /\ Cardinality(a) \in Nat /\ Cardinality(b) \in Nat
  BY LinesFinite, FS_CardinalityType
<1>4. Cardinality(a \cup b) = Cardinality(a) + Cardinality(b) - Cardinality(a \cap b)
  BY <1>3, FS_Union
<1>5. Cardinality(a \cap b) = 0
  BY <1>2, FS_EmptySet
<1>6. Cardinality(a \cup b) = Cardinality(a) + Cardinality(b)
  BY <1>3, <1>4, <1>5
<1> QED
  BY <1>1, <1>6 DEF Files

LEMMA FilesOne ==
    ASSUME NEW F \in Stores, NEW k \in Kinds, NEW p \in Players
    PROVE  Files(F, {p}, k) = F[p][k]
<1>1. Lines(F, {p}, k) = {p} \X (1 .. F[p][k])
  BY DEF Lines
<1> QED
  BY <1>1, LinesOne DEF Files

LEMMA FilesSplit ==
    ASSUME NEW F \in Stores, NEW k \in Kinds, NEW S \in SUBSET Players, NEW p \in S
    PROVE  Files(F, S, k) = F[p][k] + Files(F, S \ {p}, k)
<1> PICK T : T = S \ {p}
  OBVIOUS
<1>1. T \in SUBSET Players /\ {p} \in SUBSET Players /\ {p} \cap T = {} /\ {p} \cup T = S
  OBVIOUS
<1>2. Files(F, {p} \cup T, k) = Files(F, {p}, k) + Files(F, T, k)
  BY <1>1, FilesParts
<1>3. Files(F, {p}, k) = F[p][k]
  BY FilesOne
<1> QED
  BY <1>1, <1>2, <1>3

LEMMA FilesSame ==
    ASSUME NEW F, NEW G, NEW k, NEW S, \A p \in S : F[p] = G[p]
    PROVE  Files(F, S, k) = Files(G, S, k)
<1>1. Lines(F, S, k) = Lines(G, S, k)
  BY DEF Lines
<1> QED
  BY <1>1 DEF Files

LEMMA RareKinds == Rare \subseteq Kinds
  BY ZoneAssumption DEF Kinds

LEMMA OwedType ==
    ASSUME NEW F \in Stores, NEW k \in Kinds, NEW sp
    PROVE  Owed(F, sp, k) \in Nat
<1>1. Away(sp) \in SUBSET Players
  BY DEF Away
<1>2. Files(F, Away(sp), k) \in Nat
  BY <1>1, FilesType
<1> QED
  BY <1>2 DEF Owed

\* When one player comes, goes, or saves, the part of the others is the same.
LEMMA OwedStep ==
    ASSUME NEW F \in Stores, NEW G \in Stores, NEW sp \in Spots, NEW sq \in Spots,
           NEW p \in Players, \A q \in Players \ {p} : G[q] = F[q] /\ sq[q] = sp[q],
           NEW k \in Kinds
    PROVE  \E b \in Nat : /\ Owed(F, sp, k) = b + Mine(F, sp, p, k)
                          /\ Owed(G, sq, k) = b + Mine(G, sq, p, k)
<1> DEFINE A == Away(sp) \ {p}
<1>1. CASE k \notin Rare
  BY <1>1 DEF Owed, Mine
<1>2. CASE k \in Rare
  <2>1. A = Away(sq) \ {p} /\ A \in SUBSET Players
    BY DEF Away
  <2>2. Files(F, A, k) = Files(G, A, k)
    <3>1. \A q \in A : F[q] = G[q]
      BY <2>1
    <3> HIDE DEF A
    <3> QED
      BY <3>1, FilesSame
  <2>3. ASSUME NEW H \in Stores, NEW u \in Spots, Away(u) \ {p} = A
        PROVE  Owed(H, u, k) = Files(H, A, k) + Mine(H, u, p, k)
    <3>1. Owed(H, u, k) = Files(H, Away(u), k)
      BY <1>2 DEF Owed
    <3>2. Files(H, A, k) \in Nat /\ H[p][k] \in Nat
      BY <2>1, FilesType DEF Stores
    <3>3. CASE u[p] = None
      <4>1. p \in Away(u) /\ Away(u) \in SUBSET Players
        BY <3>3 DEF Away
      <4>2. Files(H, Away(u), k) = H[p][k] + Files(H, Away(u) \ {p}, k)
        BY <4>1, FilesSplit
      <4>3. Files(H, Away(u), k) = H[p][k] + Files(H, A, k)
        BY <2>3, <4>2, Zenon
      <4>4. Mine(H, u, p, k) = H[p][k]
        BY <1>2, <3>3 DEF Mine
      <4> QED
        BY <3>1, <3>2, <4>3, <4>4
    <3>4. CASE u[p] # None
      <4>1. Away(u) = A
        BY <2>3, <3>4 DEF Away
      <4>2. Mine(H, u, p, k) = 0
        BY <3>4 DEF Mine
      <4>3. Owed(H, u, k) = Files(H, A, k)
        BY <3>1, <4>1, Zenon
      <4> QED
        BY <3>2, <4>2, <4>3
    <3> QED
      BY <3>3, <3>4
  <2>4. Owed(F, sp, k) = Files(F, A, k) + Mine(F, sp, p, k)
    BY <2>3
  <2>5. Owed(G, sq, k) = Files(G, A, k) + Mine(G, sq, p, k)
    BY <2>1, <2>3
  <2>6. Files(F, A, k) \in Nat
    BY <2>1, FilesType
  <2> QED
    BY <2>2, <2>4, <2>5, <2>6
<1> QED
  BY <1>1, <1>2

\* The counters suffice.
Enough(w, F, sp) == \A k \in Kinds : w.number[k] >= Count(w, k) + Owed(F, sp, k)

LEMMA EnoughStep ==
    ASSUME NEW w, Sound(w), NEW x, Sound(x),
           NEW F \in Stores, NEW G \in Stores, NEW sp \in Spots, NEW sq \in Spots,
           NEW p \in Players, \A q \in Players \ {p} : G[q] = F[q] /\ sq[q] = sp[q],
           Enough(w, F, sp),
           \A k \in Kinds : (w.number[k] - Count(w, k)) - Mine(F, sp, p, k)
                              <= (x.number[k] - Count(x, k)) - Mine(G, sq, p, k)
    PROVE  Enough(x, G, sq)
<1> SUFFICES ASSUME NEW k \in Kinds
             PROVE  x.number[k] >= Count(x, k) + Owed(G, sq, k)
  BY DEF Enough
<1>1. PICK b \in Nat : /\ Owed(F, sp, k) = b + Mine(F, sp, p, k)
                       /\ Owed(G, sq, k) = b + Mine(G, sq, p, k)
  BY OwedStep
<1>2. w.number[k] \in Int /\ x.number[k] \in Int
  BY DEF Sound, Worlds
<1>3. Count(w, k) \in Nat /\ Count(x, k) \in Nat
  BY CountIs
<1>4. Mine(F, sp, p, k) \in Nat /\ Mine(G, sq, p, k) \in Nat
  BY DEF Mine, Stores
<1>5. w.number[k] >= Count(w, k) + Owed(F, sp, k)
  BY DEF Enough
<1>6. (w.number[k] - Count(w, k)) - Mine(F, sp, p, k)
        <= (x.number[k] - Count(x, k)) - Mine(G, sq, p, k)
  OBVIOUS
<1>7. \A n, m \in Int, c, d, e, f, o, u \in Nat :
          o = b + e /\ u = b + f /\ n >= c + o /\ (n - c) - e <= (m - d) - f => m >= d + u
  OBVIOUS
<1>8. Owed(F, sp, k) \in Nat /\ Owed(G, sq, k) \in Nat
  BY OwedType
<1> QED
  BY <1>1, <1>2, <1>3, <1>4, <1>5, <1>6, <1>7, <1>8

\* Nothing comes or goes but what is counted, and nothing is stored away.
LEMMA EvenEnough ==
    ASSUME NEW w, Sound(w), NEW x, Sound(x), Even(w, x),
           NEW F \in Stores, NEW G \in Stores, NEW sp \in Spots, NEW sq \in Spots,
           NEW p \in Players, \A q \in Players \ {p} : G[q] = F[q] /\ sq[q] = sp[q],
           Enough(w, F, sp), \A k \in Kinds : Mine(G, sq, p, k) = 0
    PROVE  Enough(x, G, sq)
<1>1. ASSUME NEW k \in Kinds
      PROVE  (w.number[k] - Count(w, k)) - Mine(F, sp, p, k)
               <= (x.number[k] - Count(x, k)) - Mine(G, sq, p, k)
  <2>1. w.number[k] \in Int /\ x.number[k] \in Int
    BY DEF Sound, Worlds
  <2>2. Count(w, k) \in Nat /\ Count(x, k) \in Nat
    BY CountIs
  <2>3. Mine(F, sp, p, k) \in Nat /\ Mine(G, sq, p, k) = 0
    BY DEF Mine, Stores
  <2>4. x.number[k] - Count(x, k) = w.number[k] - Count(w, k)
    BY DEF Even
  <2> QED
    BY <2>1, <2>2, <2>3, <2>4
<1>2. \A k \in Kinds : (w.number[k] - Count(w, k)) - Mine(F, sp, p, k)
                         <= (x.number[k] - Count(x, k)) - Mine(G, sq, p, k)
  BY <1>1
<1> QED
  BY <1>2, EnoughStep

\* Players and files are as before.
LEMMA EvenStays ==
    ASSUME NEW w, Sound(w), NEW x, Sound(x), Even(w, x), NEW F \in Stores, NEW sp,
           Enough(w, F, sp)
    PROVE  Enough(x, F, sp)
<1> SUFFICES ASSUME NEW k \in Kinds
             PROVE  x.number[k] >= Count(x, k) + Owed(F, sp, k)
  BY DEF Enough
<1>1. w.number[k] \in Int /\ x.number[k] \in Int
  BY DEF Sound, Worlds
<1>2. Count(w, k) \in Nat /\ Count(x, k) \in Nat
  BY CountIs
<1>3. Owed(F, sp, k) \in Nat
  BY OwedType
<1>4. x.number[k] - Count(x, k) = w.number[k] - Count(w, k)
  BY DEF Even
<1>5. w.number[k] >= Count(w, k) + Owed(F, sp, k)
  BY DEF Enough
<1> QED
  BY <1>1, <1>2, <1>3, <1>4, <1>5

-----------------------------------------------------------------------------
(* What players and rooms hold.                                            *)

LEMMA HeldPlaced ==
    ASSUME NEW w, NEW a \in Rooms \cup Players
    PROVE  Held(w, a) \in SUBSET Placed(w) /\ Held(w, a) \in SUBSET Things
<1>1. Containers \subseteq Objs /\ a # None /\ None \notin Objs
  BY ZoneAssumption
<1>2. ASSUME NEW o \in Held(w, a)
      PROVE  o \in Objs /\ w.place[o] # None
  <2>1. w.place[o] = a \/ \E c \in Containers : w.place[c] = a /\ w.place[o] = c
    BY DEF Held
  <2> QED
    BY <1>1, <2>1 DEF Held
<1> QED
  BY <1>2 DEF Placed, Things

LEMMA HeldApart ==
    ASSUME NEW w, NEW a \in Rooms \cup Players, NEW b \in Rooms \cup Players, a # b,
           NEW o \in Held(w, a)
    PROVE  o \notin Held(w, b)
<1>1. Containers \subseteq Objs /\ a \notin Objs /\ b \notin Objs
  BY ZoneAssumption
<1>2. w.place[o] = a \/ \E c \in Containers : w.place[c] = a /\ w.place[o] = c
  BY DEF Held
<1>3. SUFFICES ASSUME w.place[o] = b \/ \E c \in Containers : w.place[c] = b /\ w.place[o] = c
               PROVE  FALSE
  BY DEF Held
<1> QED
  BY <1>1, <1>2, <1>3

\* What is held stays, where the places are the same.
LEMMA HeldStays ==
    ASSUME NEW w, NEW x, NEW a, \A o \in Held(w, a) : x.place[o] = w.place[o]
    PROVE  Held(w, a) \subseteq Held(x, a)
<1> SUFFICES ASSUME NEW o \in Held(w, a)
             PROVE  o \in Held(x, a)
  OBVIOUS
<1>1. o \in Objs /\ x.place[o] = w.place[o]
  BY DEF Held
<1>2. CASE w.place[o] = a
  BY <1>1, <1>2 DEF Held
<1>3. CASE \E c \in Containers : w.place[c] = a /\ w.place[o] = c
  <2> PICK c \in Containers : w.place[c] = a /\ w.place[o] = c
    BY <1>3
  <2>1. c \in Objs
    BY ZoneAssumption
  <2>2. c \in Held(w, a)
    BY <2>1 DEF Held
  <2>3. x.place[c] = a
    BY <2>2
  <2> QED
    BY <1>1, <2>3 DEF Held
<1> QED
  BY <1>2, <1>3 DEF Held

\* A file does not have more of what is rare than its player has.
Filed(w, F, sp) ==
    \A p \in Players, k \in Rare : sp[p] # None => F[p][k] <= Cardinality(Of(k, Held(w, p)))

\* Nothing happens to the others: to their files, and to what they have.
SameFiles(F, G, sp, sq, p) == \A q \in Players \ {p} : G[q] = F[q] /\ sq[q] = sp[q]
SameGoods(w, x, p) == \A q \in Players \ {p} : \A o \in Held(w, q) : x.place[o] = w.place[o]

Fits(x, g, p) == \A k \in Rare : g[k] <= Cardinality(Of(k, Held(x, p)))

LEMMA FiledStep ==
    ASSUME NEW w, NEW x, NEW F \in Stores, NEW G \in Stores, NEW sp, NEW sq,
           NEW p \in Players, SameFiles(F, G, sp, sq, p), SameGoods(w, x, p),
           sq[p] # None => Fits(x, G[p], p), Filed(w, F, sp)
    PROVE  Filed(x, G, sq)
<1>0. /\ \A q \in Players \ {p} : G[q] = F[q] /\ sq[q] = sp[q]
      /\ \A q \in Players \ {p} : \A o \in Held(w, q) : x.place[o] = w.place[o]
      /\ sq[p] # None => \A k \in Rare : G[p][k] <= Cardinality(Of(k, Held(x, p)))
  BY DEF SameFiles, SameGoods, Fits
<1> SUFFICES ASSUME NEW q \in Players, NEW k \in Rare, sq[q] # None
             PROVE  G[q][k] <= Cardinality(Of(k, Held(x, q)))
  BY DEF Filed
<1>1. CASE q = p
  BY <1>0, <1>1
<1>2. CASE q # p
  <2>1. F[q][k] <= Cardinality(Of(k, Held(w, q))) /\ G[q] = F[q]
    BY <1>0, <1>2 DEF Filed
  <2>2. Held(w, q) \subseteq Held(x, q)
    BY <1>0, <1>2, HeldStays
  <2>3. Held(x, q) \in SUBSET Things /\ Held(w, q) \in SUBSET Things
    BY HeldPlaced
  <2>4. Cardinality(Of(k, Held(w, q))) <= Cardinality(Of(k, Held(x, q)))
    BY <2>2, <2>3, OfPart
  <2>5. /\ Cardinality(Of(k, Held(w, q))) \in Nat /\ Cardinality(Of(k, Held(x, q))) \in Nat
    BY <2>3, OfIs
  <2>6. F[q][k] \in Nat
    BY RareKinds DEF Stores
  <2> QED
    BY <2>1, <2>4, <2>5, <2>6
<1> QED
  BY <1>1, <1>2

LEMMA FiledStays ==
    ASSUME NEW w, NEW x, NEW F \in Stores, NEW sp,
           \A q \in Players : \A o \in Held(w, q) : x.place[o] = w.place[o],
           Filed(w, F, sp)
    PROVE  Filed(x, F, sp)
<1> SUFFICES ASSUME NEW p \in Players, NEW k \in Rare, sp[p] # None
             PROVE  F[p][k] <= Cardinality(Of(k, Held(x, p)))
  BY DEF Filed
<1>1. F[p][k] <= Cardinality(Of(k, Held(w, p)))
  BY DEF Filed
<1>2. Held(w, p) \subseteq Held(x, p)
  BY HeldStays
<1>3. Held(x, p) \in SUBSET Things /\ Held(w, p) \in SUBSET Things
  BY HeldPlaced
<1>4. Cardinality(Of(k, Held(w, p))) <= Cardinality(Of(k, Held(x, p)))
  BY <1>2, <1>3, OfPart
<1>5. /\ Cardinality(Of(k, Held(w, p))) \in Nat /\ Cardinality(Of(k, Held(x, p))) \in Nat
  BY <1>3, OfIs
<1>6. F[p][k] \in Nat
  BY RareKinds DEF Stores
<1> QED
  BY <1>1, <1>4, <1>5, <1>6

\* No kind is over its limit.
Capped(w) == \A k \in Kinds : Limited(k) => w.number[k] <= Limit(k)

LEMMA LowersCapped ==
    ASSUME NEW w \in Worlds, NEW x \in Worlds, Lowers(w, x), Capped(w)
    PROVE  Capped(x)
<1> SUFFICES ASSUME NEW k \in Kinds, Limited(k)
             PROVE  x.number[k] <= Limit(k)
  BY DEF Capped
<1>1. w.number[k] \in Int /\ x.number[k] \in Int /\ Limit(k) \in Nat
  BY LimitIs DEF Worlds
<1>2. w.number[k] <= Limit(k) /\ x.number[k] <= w.number[k]
  BY DEF Capped, Lowers
<1> QED
  BY <1>1, <1>2

\* What a reset does to all that.
LEMMA GrowsIs ==
    ASSUME NEW w, Sound(w), NEW x, Grows(w, x)
    PROVE  /\ Sound(x) /\ Even(w, x)
           /\ Capped(w) => Capped(x)
           /\ \A o \in Placed(w) : x.place[o] = w.place[o]
<1>1. Capped(w) => Capped(x)
  BY DEF Grows, Capped
<1>2. \A o \in Placed(w) : x.place[o] = w.place[o]
  BY DEF Grows, Placed
<1> QED
  BY <1>1, <1>2 DEF Grows, Even

-----------------------------------------------------------------------------
(* The invariant, and what each action does to it.                         *)

TimesOK == age \in [Zones -> 0..ZO_DEAD] /\ start \in [Zones -> BOOLEAN] /\ queue \in Seq(Zones)
PeopleOK == /\ spot \in Spots /\ stored \in Stores
            /\ playing \subseteq {p \in Players : spot[p] # None}
WorldOK == Sound(world) /\ world.last = TRUE /\ world.mob = None

ZInv == TimesOK /\ PeopleOK /\ WorldOK /\ Enough(world, stored, spot)

\* Beyond that, while nothing breaks in the hands of players.
RInv == Capped(world) /\ Filed(world, stored, spot)

LEMMA ZoneInit == Init => ZInv /\ RInv
<1> SUFFICES ASSUME Init
             PROVE  ZInv /\ RInv
  OBVIOUS
<1>0. None \notin Rooms \cup Players \cup Mobs \cup Objs
  BY ZoneAssumption
<1> PICK closed \in SUBSET Sides :
        world = [room   |-> [m \in Mobs |-> None], place  |-> [o \in Objs |-> None],
                 listed |-> <<>>, number |-> [k \in Kinds |-> 0],
                 shut   |-> closed, locked |-> {}, last   |-> TRUE, mob    |-> None]
  BY DEF Init
<1>1. world \in Worlds
  <2>1. <<>> \in Seq(Containers)
    OBVIOUS
  <2> QED
    BY <2>1 DEF Worlds, Places
<1>2. Placed(world) = {} /\ InWorld(world) = {}
  BY DEF Placed, InWorld
<1>3. Sound(world) /\ WorldOK
  <2>1. ToSet(<<>>) = {}
    BY DEF ToSet
  <2> QED
    BY <1>1, <1>2, <2>1 DEF Sound, Listed, WorldOK
<1>4. TimesOK
  <2>1. <<>> \in Seq(Zones) /\ 0 \in 0..ZO_DEAD
    BY DEF ZO_DEAD
  <2> QED
    BY <2>1 DEF TimesOK, Init
<1>5. PeopleOK
  BY DEF PeopleOK, Init, Spots, Stores
<1>6. Enough(world, stored, spot)
  <2> SUFFICES ASSUME NEW k \in Kinds
               PROVE  world.number[k] >= Count(world, k) + Owed(stored, spot, k)
    BY DEF Enough
  <2>1. Of(k, {}) = {}
    BY DEF Of
  <2>2. Count(world, k) = 0
    BY <1>2, <2>1, FS_EmptySet DEF Count
  <2>3. Files(stored, Away(spot), k) = 0
    <3>1. \A p \in Away(spot) : stored[p][k] = 0
      BY DEF Away, Init
    <3>2. 1 .. 0 = {}
      OBVIOUS
    <3>3. Lines(stored, Away(spot), k) = {}
      BY <3>1, <3>2 DEF Lines
    <3> QED
      BY <3>3, FS_EmptySet DEF Files
  <2>4. world.number[k] = 0
    OBVIOUS
  <2>5. Owed(stored, spot, k) = 0
    BY <2>3 DEF Owed
  <2> QED
    BY <2>2, <2>4, <2>5
<1>7. Capped(world)
  <2> SUFFICES ASSUME NEW k \in Kinds
               PROVE  world.number[k] <= Limit(k)
    BY DEF Capped
  <2>1. Limit(k) \in Nat /\ world.number[k] = 0
    BY LimitIs
  <2> QED
    BY <2>1
<1>8. Filed(world, stored, spot)
  BY DEF Filed, Init
<1> QED
  BY <1>3, <1>4, <1>5, <1>6, <1>7, <1>8 DEF ZInv, RInv

\* A step that leaves the files and the players alone.
LEMMA WorldStep ==
    ASSUME ZInv, TimesOK', WorldOK', Even(world, world'), stored' = stored, spot' = spot,
           playing' \subseteq {p \in Players : spot[p] # None}
    PROVE  ZInv'
<1>1. Enough(world', stored, spot)
  BY EvenStays DEF ZInv, PeopleOK, WorldOK
<1>2. Enough(world, stored, spot)'
  BY <1>1
<1>3. PeopleOK'
  BY DEF PeopleOK, ZInv
<1> QED
  BY <1>2, <1>3 DEF ZInv

\* The queue and the clocks.
LEMMA IdentityList == [i \in Zones |-> i] \in Seq(Zones)
<1>1. IsFiniteSet(Zones) /\ Zones = 1..Cardinality(Zones)
  BY ZoneAssumption
<1>2. Cardinality(Zones) \in Nat
  BY <1>1, FS_CardinalityType
<1>3. PICK n \in Nat : n = Cardinality(Zones)
  BY <1>2
<1>4. [i \in 1..n |-> i] \in Seq(1..n)
  OBVIOUS
<1> QED
  BY <1>1, <1>3, <1>4

LEMMA StartedTimes ==
    ASSUME TimesOK, NEW r \in Rooms, Started(r), queue' = queue
    PROVE  TimesOK'
<1>1. ZoneOf[r] \in Zones
  BY ZoneAssumption
<1>2. start' \in [Zones -> BOOLEAN]
  BY <1>1 DEF TimesOK, Started, Put
<1>3. age' \in [Zones -> 0..ZO_DEAD]
  <2>1. 0 \in 0..ZO_DEAD
    BY DEF ZO_DEAD
  <2>2. Put(age, ZoneOf[r], 0) \in [Zones -> 0..ZO_DEAD]
    BY <1>1, <2>1 DEF TimesOK, Put
  <2> QED
    BY <2>2 DEF TimesOK, Started
<1> QED
  BY <1>2, <1>3 DEF TimesOK

LEMMA ArrivesGrows ==
    ASSUME NEW w, Sound(w), w.last = TRUE, w.mob = None, NEW r \in Rooms, NEW fights
    PROVE  /\ Grows(w, Arrives(w, r, fights))
           /\ Arrives(w, r, fights).last = TRUE /\ Arrives(w, r, fights).mob = None
<1>1. ZoneOf[r] \in Zones
  BY ZoneAssumption
<1>2. Grows(w, w)
  <2>1. w \in Worlds
    BY DEF Sound
  <2> QED
    BY <2>1, SameGrows
<1>3. CASE start[ZoneOf[r]]
  BY <1>2, <1>3 DEF Arrives
<1>4. CASE ~ start[ZoneOf[r]]
  <2>1. Arrives(w, r, fights) = ResetZone(w, ZoneOf[r], fights)
    BY <1>4 DEF Arrives
  <2> QED
    BY <1>1, <2>1, ResetGrows
<1> QED
  BY <1>3, <1>4

LEMMA ZoneUpdateStep ==
    ASSUME ZInv, ZoneUpdate
    PROVE  ZInv' /\ (RInv => RInv')
<1>0. PICK due : /\ due = Kept(Enqueued, {z \in Zones : Due(z)})
                 /\ UNCHANGED <<start, spot, playing, stored>>
                 /\ queue' = Kept(Enqueued, {z \in Zones : ~Due(z)})
                 /\ age' = [z \in Zones |-> IF z \in ToSet(due) THEN 0
                                            ELSE IF Young(z) THEN age[z] + 1
                                            ELSE IF Old(z) THEN ZO_DEAD ELSE age[z]]
                 /\ \E fights \in SUBSET Shared : world' = ResetAll(world, due, fights)
  BY DEF ZoneUpdate
<1>1. Enqueued \in Seq(Zones)
  <2> PICK t : t = Kept([i \in Zones |-> i], {z \in Zones : Old(z)})
    OBVIOUS
  <2>1. t \in Seq(Zones)
    BY IdentityList, KeptIs
  <2>2. queue \in Seq(Zones)
    BY DEF ZInv, TimesOK
  <2>3. queue \o t \in Seq(Zones)
    BY <2>1, <2>2
  <2> QED
    BY <2>3 DEF Enqueued
<1>2. due \in Seq(Zones) /\ queue' \in Seq(Zones)
  <2> PICK s \in Seq(Zones) : s = Enqueued
    BY <1>1
  <2>1. \A S : Kept(s, S) \in Seq(Zones)
    BY KeptIs
  <2> QED
    BY <1>0, <2>1
<1>3. age' \in [Zones -> 0..ZO_DEAD]
  <2>1. ASSUME NEW z \in Zones
        PROVE  (IF z \in ToSet(due) THEN 0 ELSE IF Young(z) THEN age[z] + 1
                ELSE IF Old(z) THEN ZO_DEAD ELSE age[z]) \in 0..ZO_DEAD
    <3>1. age[z] \in 0..999
      BY ZenonT(60) DEF ZInv, TimesOK, ZO_DEAD
    <3>2. Lifespan[z] \in Int /\ Lifespan[z] <= 998
      <4>1. Lifespan \in [Zones -> 0..(ZO_DEAD - 1)]
        BY ZoneAssumption
      <4>2. Lifespan[z] \in 0..(ZO_DEAD - 1)
        BY <4>1
      <4> QED
        BY <4>2 DEF ZO_DEAD
    <3>3. Young(z) => age[z] < Lifespan[z]
      BY DEF Young
    <3>4. Young(z) => age[z] + 1 \in 0..999
      BY <3>1, <3>2, <3>3
    <3>5. 0 \in 0..999 /\ 999 \in 0..999
      OBVIOUS
    <3> HIDE DEF Young, Old
    <3> QED
      BY <3>1, <3>4, <3>5, ZenonT(60) DEF ZO_DEAD
  <2> QED
    BY <1>0, <2>1
<1>4. TimesOK'
  BY <1>0, <1>2, <1>3 DEF TimesOK, ZInv
<1> PICK fights : world' = ResetAll(world, due, fights)
  BY <1>0
<1> PICK w, x : w = world /\ x = world'
  OBVIOUS
<1>5. Sound(w) /\ w.last = TRUE /\ w.mob = None
  BY DEF ZInv, WorldOK
<1>6. Grows(w, x) /\ x.last = TRUE /\ x.mob = None
  <2>1. x = ResetAll(w, due, fights)
    OBVIOUS
  <2>2. /\ Grows(w, ResetAll(w, due, fights))
        /\ ResetAll(w, due, fights).last = TRUE /\ ResetAll(w, due, fights).mob = None
    BY <1>2, <1>5, UpdateGrows
  <2> QED
    BY <2>1, <2>2
<1>7. /\ Sound(x) /\ Even(w, x) /\ (Capped(w) => Capped(x))
      /\ \A o \in Placed(w) : x.place[o] = w.place[o]
  BY <1>5, <1>6, GrowsIs
<1>8. ZInv'
  <2>1. WorldOK'
    BY <1>6, <1>7 DEF WorldOK
  <2>2. Even(world, world')
    BY <1>7
  <2> QED
    BY <1>0, <1>4, <2>1, <2>2, WorldStep DEF ZInv, PeopleOK
<1>9. ASSUME RInv PROVE RInv'
  <2>1. \A q \in Players : \A o \in Held(w, q) : x.place[o] = w.place[o]
    BY <1>7, HeldPlaced
  <2>2. Filed(x, stored, spot)
    BY <1>9, <2>1, FiledStays DEF RInv, ZInv, PeopleOK
  <2>3. Filed(world, stored, spot)'
    BY <1>0, <2>2
  <2>4. Capped(world)'
    BY <1>7, <1>9 DEF RInv
  <2> QED
    BY <2>3, <2>4 DEF RInv
<1> QED
  BY <1>8, <1>9

\* A zone is cleaned: what was in its rooms is gone.
LEMMA CleanIs ==
    ASSUME NEW w, Sound(w), NEW z, NEW x, x = CleanZone(w, z)
    PROVE  /\ Sound(x) /\ Even(w, x) /\ Lowers(w, x)
           /\ x.last = w.last /\ x.mob = w.mob
           /\ \A q \in Players : \A o \in Held(w, q) : x.place[o] = w.place[o]
<1> DEFINE M == {m \in Mobs : w.room[m] # None /\ ZoneOf[w.room[m]] = z}
<1> PICK u : u = ExtractMobs(w, M)
  OBVIOUS
<1> PICK S : S = UNION {Held(u, r) : r \in {q \in Rooms : ZoneOf[q] = z}}
  OBVIOUS
<1>0. x = Extract(u, S)
  BY DEF CleanZone
<1>1. M \in SUBSET {m \in Mobs : w.room[m] # None} /\ M \in SUBSET Mobs
  OBVIOUS
<1> HIDE DEF M
<1>2. /\ Sound(u) /\ Even(w, u) /\ Lowers(w, u)
      /\ u.last = w.last /\ u.mob = w.mob
      /\ u.place = [o \in Objs |-> IF w.place[o] \in M THEN w.room[w.place[o]] ELSE w.place[o]]
  BY <1>1, ExtractMobsIs
<1>3. S \in SUBSET Placed(u)
  BY HeldPlaced
<1>4. /\ Sound(x) /\ Even(u, x) /\ Lowers(u, x)
      /\ x.last = u.last /\ x.mob = u.mob
      /\ x.place = [o \in Objs |-> IF o \in S THEN None ELSE u.place[o]]
  BY <1>0, <1>2, <1>3, ExtractIs
<1>5. Even(w, x) /\ Lowers(w, x)
  BY <1>2, <1>4, EvenTransitive, LowersTransitive DEF Sound
<1>6. ASSUME NEW q \in Players
      PROVE  \A o \in Held(w, q) : x.place[o] = w.place[o]
  <2>1. \A o \in Held(w, q) : o \in Objs /\ w.place[o] \notin Mobs
    <3>1. Containers \subseteq Objs /\ q \notin Mobs /\ Mobs \cap Objs = {}
      BY ZoneAssumption
    <3> QED
      BY <3>1 DEF Held
  <2>2. \A o \in Held(w, q) : u.place[o] = w.place[o]
    BY <1>1, <1>2, <2>1
  <2>3. Held(w, q) \subseteq Held(u, q)
    BY <2>2, HeldStays
  <2>4. \A o \in Held(w, q) : o \notin S
    <3> SUFFICES ASSUME NEW o \in Held(w, q), NEW r \in Rooms, o \in Held(u, r)
                 PROVE  FALSE
      OBVIOUS
    <3>1. r # q
      BY ZoneAssumption
    <3> QED
      BY <2>3, <3>1, HeldApart
  <2> QED
    BY <1>4, <2>1, <2>2, <2>4
<1> QED
  BY <1>2, <1>4, <1>5, <1>6

LEMMA DoZloadStep ==
    ASSUME ZInv, NEW z \in Zones, DoZload(z)
    PROVE  ZInv' /\ (RInv => RInv')
<1> PICK w, x, u : w = world /\ x = world' /\ u = CleanZone(w, z)
  OBVIOUS
<1>0. Sound(w) /\ w.last = TRUE /\ w.mob = None
  BY DEF ZInv, WorldOK
<1>1. /\ Sound(u) /\ Even(w, u) /\ Lowers(w, u)
      /\ \A q \in Players : \A o \in Held(w, q) : u.place[o] = w.place[o]
  BY <1>0, CleanIs
<1>2. x = ResetZone(u, z, {})
  BY DEF DoZload
<1>3. Grows(u, x) /\ x.last = TRUE /\ x.mob = None
  BY <1>1, <1>2, ResetGrows
<1>4. /\ Sound(x) /\ Even(u, x) /\ (Capped(u) => Capped(x))
      /\ \A o \in Placed(u) : x.place[o] = u.place[o]
  BY <1>1, <1>3, GrowsIs
<1>5. Even(w, x)
  BY <1>1, <1>4, EvenTransitive
<1>6. TimesOK'
  <2>1. 0 \in 0..ZO_DEAD
    BY DEF ZO_DEAD
  <2> QED
    BY <2>1 DEF DoZload, ZInv, TimesOK, Put
<1>7. spot' = spot /\ stored' = stored /\ playing' = playing
  BY DEF DoZload
<1>8. ZInv'
  <2>1. WorldOK'
    BY <1>3, <1>4 DEF WorldOK
  <2>2. Even(world, world')
    BY <1>5
  <2> QED
    BY <1>6, <1>7, <2>1, <2>2, WorldStep DEF ZInv, PeopleOK
<1>9. ASSUME RInv PROVE RInv'
  <2>1. \A q \in Players : \A o \in Held(w, q) : x.place[o] = w.place[o]
    <3> SUFFICES ASSUME NEW q \in Players, NEW o \in Held(w, q)
                 PROVE  x.place[o] = w.place[o]
      OBVIOUS
    <3>1. Held(w, q) \subseteq Held(u, q)
      BY <1>1, HeldStays
    <3>2. o \in Placed(u)
      BY <3>1, HeldPlaced
    <3> QED
      BY <1>1, <1>4, <3>2
  <2>2. Filed(x, stored, spot)
    BY <1>9, <2>1, FiledStays DEF RInv, ZInv, PeopleOK
  <2>3. Filed(world, stored, spot)'
    BY <1>7, <2>2
  <2>4. Capped(u)
    BY <1>0, <1>1, <1>9, LowersCapped DEF RInv, Sound
  <2>5. Capped(world)'
    BY <1>4, <2>4
  <2> QED
    BY <2>3, <2>5 DEF RInv
<1> QED
  BY <1>8, <1>9

-----------------------------------------------------------------------------
(* Players come and go.                                                    *)

\* Who is in the game owes nothing.
LEMMA NoneMine ==
    ASSUME NEW F, NEW sq, NEW p, sq[p] # None
    PROVE  \A k \in Kinds : Mine(F, sq, p, k) = 0
  BY DEF Mine

\* The types of players, files and connections.
LEMMA PeopleStep ==
    ASSUME PeopleOK, NEW p \in Players, NEW r \in Rooms \cup {None}, NEW g \in [Kinds -> Nat],
           NEW G, G = stored \/ G = Put(stored, p, g)
    PROVE  /\ G \in Stores /\ Put(spot, p, r) \in Spots
           /\ \A q \in Players \ {p} : G[q] = stored[q] /\ Put(spot, p, r)[q] = spot[q]
           /\ Put(spot, p, r)[p] = r
<1>1. stored \in Stores /\ spot \in Spots
  BY DEF PeopleOK
<1>2. Put(stored, p, g) \in Stores /\ Put(spot, p, r) \in Spots
  BY <1>1 DEF Put, Stores, Spots
<1>3. \A q \in Players \ {p} : Put(stored, p, g)[q] = stored[q] /\ Put(spot, p, r)[q] = spot[q]
  BY <1>1 DEF Put, Stores, Spots
<1>4. Put(spot, p, r)[p] = r
  BY <1>1 DEF Put, Spots
<1> QED
  BY <1>1, <1>2, <1>3, <1>4

LEMMA NothingIs == Nothing \in [Kinds -> Nat]
  BY DEF Nothing

LEMMA WalkStep ==
    ASSUME ZInv, NEW p \in Players, NEW r \in Rooms, Walk(p, r)
    PROVE  ZInv' /\ (RInv => RInv')
<1> PICK w, x, sq : w = world /\ x = world' /\ sq = Put(spot, p, r)
  OBVIOUS
<1>0. Sound(w) /\ w.last = TRUE /\ w.mob = None
  BY DEF ZInv, WorldOK
<1>1. /\ x = Arrives(w, r, {}) /\ Started(r) /\ spot' = sq
      /\ queue' = queue /\ playing' = playing /\ stored' = stored /\ p \in playing
  BY DEF Walk
<1>2. Grows(w, x) /\ x.last = TRUE /\ x.mob = None
  BY <1>0, <1>1, ArrivesGrows
<1>3. /\ Sound(x) /\ Even(w, x) /\ (Capped(w) => Capped(x))
      /\ \A o \in Placed(w) : x.place[o] = w.place[o]
  BY <1>0, <1>2, GrowsIs
<1>4. TimesOK'
  BY <1>1, StartedTimes DEF ZInv
<1>5. /\ stored \in Stores /\ spot \in Spots /\ sq \in Spots
      /\ \A q \in Players \ {p} : stored[q] = stored[q] /\ sq[q] = spot[q]
      /\ sq[p] = r
  BY NothingIs, PeopleStep DEF ZInv, PeopleOK
<1>6. r # None
  BY ZoneAssumption
<1>7. PeopleOK'
  BY <1>1, <1>5, <1>6 DEF ZInv, PeopleOK
<1>8. Enough(x, stored, sq)
  <2>1. \A k \in Kinds : Mine(stored, sq, p, k) = 0
    BY <1>5, <1>6, NoneMine
  <2>2. Enough(w, stored, spot)
    BY DEF ZInv
  <2> QED
    BY <1>0, <1>3, <1>5, <2>1, <2>2, EvenEnough
<1>9. ZInv'
  <2>1. WorldOK'
    BY <1>2, <1>3 DEF WorldOK
  <2>2. Enough(world, stored, spot)'
    BY <1>1, <1>8
  <2> QED
    BY <1>4, <1>7, <2>1, <2>2 DEF ZInv
<1>10. ASSUME RInv PROVE RInv'
  <2>1. \A q \in Players : \A o \in Held(w, q) : x.place[o] = w.place[o]
    BY <1>3, HeldPlaced
  <2>2. Filed(x, stored, spot)
    BY <1>5, <1>10, <2>1, FiledStays DEF RInv
  <2>3. \A q \in Players : spot[q] # None <=> sq[q] # None
    <3>1. spot[p] # None
      BY <1>1 DEF ZInv, PeopleOK
    <3> QED
      BY <1>5, <1>6, <3>1
  <2>4. Filed(x, stored, sq)
    BY <2>2, <2>3 DEF Filed
  <2>5. Filed(world, stored, spot)'
    BY <1>1, <2>4
  <2>6. Capped(world)'
    BY <1>3, <1>10 DEF RInv
  <2> QED
    BY <2>5, <2>6 DEF RInv
<1> QED
  BY <1>9, <1>10

LEMMA EnterBrokeStep ==
    ASSUME ZInv, NEW p \in Players, NEW r \in Rooms, EnterBroke(p, r)
    PROVE  ZInv' /\ (RInv => RInv')
<1> PICK w, x, sq : w = world /\ x = world' /\ sq = Put(spot, p, r)
  OBVIOUS
<1> PICK G : G = Put(stored, p, Nothing)
  OBVIOUS
<1>0. Sound(w) /\ w.last = TRUE /\ w.mob = None
  BY DEF ZInv, WorldOK
<1>1. /\ x = Arrives(w, r, {}) /\ Started(r) /\ spot' = sq
      /\ queue' = queue /\ playing' = playing \cup {p} /\ stored' = G
  BY DEF EnterBroke
<1>2. Grows(w, x) /\ x.last = TRUE /\ x.mob = None
  BY <1>0, <1>1, ArrivesGrows
<1>3. /\ Sound(x) /\ Even(w, x) /\ (Capped(w) => Capped(x))
      /\ \A o \in Placed(w) : x.place[o] = w.place[o]
  BY <1>0, <1>2, GrowsIs
<1>4. TimesOK'
  BY <1>1, StartedTimes DEF ZInv
<1>5. /\ G \in Stores /\ sq \in Spots
      /\ \A q \in Players \ {p} : G[q] = stored[q] /\ sq[q] = spot[q]
      /\ sq[p] = r
  BY NothingIs, PeopleStep DEF ZInv
<1>6. r # None /\ stored \in Stores /\ spot \in Spots
  BY ZoneAssumption DEF ZInv, PeopleOK
<1>7. PeopleOK'
  BY <1>1, <1>5, <1>6 DEF ZInv, PeopleOK
<1>8. Enough(x, G, sq)
  <2>1. \A k \in Kinds : Mine(G, sq, p, k) = 0
    BY <1>5, <1>6, NoneMine
  <2>2. Enough(w, stored, spot)
    BY DEF ZInv
  <2> QED
    BY <1>0, <1>3, <1>5, <1>6, <2>1, <2>2, EvenEnough
<1>9. ZInv'
  <2>1. WorldOK'
    BY <1>2, <1>3 DEF WorldOK
  <2>2. Enough(world, stored, spot)'
    BY <1>1, <1>8
  <2> QED
    BY <1>4, <1>7, <2>1, <2>2 DEF ZInv
<1>10. ASSUME RInv PROVE RInv'
  <2>1. \A q \in Players \ {p} : \A o \in Held(w, q) : x.place[o] = w.place[o]
    BY <1>3, HeldPlaced
  <2>2. ASSUME NEW k \in Rare
        PROVE  G[p][k] <= Cardinality(Of(k, Held(x, p)))
    <3>1. G[p][k] = 0
      BY <1>6, RareKinds DEF Put, Nothing, Stores
    <3>2. Held(x, p) \in SUBSET Things
      BY HeldPlaced
    <3>3. Cardinality(Of(k, Held(x, p))) \in Nat
      BY <3>2, OfIs
    <3> QED
      BY <3>1, <3>3
  <2>3. Fits(x, G[p], p)
    BY <2>2 DEF Fits
  <2>4. Filed(w, stored, spot) /\ SameGoods(w, x, p) /\ SameFiles(stored, G, spot, sq, p)
    BY <1>5, <1>10, <2>1 DEF RInv, SameGoods, SameFiles
  <2>5. Filed(x, G, sq)
    BY <1>5, <1>6, <2>3, <2>4, FiledStep
  <2>6. Filed(world, stored, spot)'
    BY <1>1, <2>5
  <2>7. Capped(world)'
    BY <1>3, <1>10 DEF RInv
  <2> QED
    BY <2>6, <2>7 DEF RInv
<1> QED
  BY <1>9, <1>10

\* What a player has when the files are read: as many of each kind as the
\* file says, and nothing that exists already.
LEMMA LoadedSet ==
    ASSUME NEW w, NEW n \in [Kinds -> Nat], NEW S, S = FromFile(w, n),
           \A k \in Kinds : n[k] <= Cardinality(FreeObjs(w, k))
    PROVE  /\ S \in SUBSET Objs /\ AllFree(w, S)
           /\ \A k \in Kinds : Cardinality(Of(k, S)) = n[k]
<1> PICK t : t = [k \in Kinds |-> CHOOSE T \in kSubset(n[k], FreeObjs(w, k)) : TRUE]
  OBVIOUS
<1>1. S = UNION {t[k] : k \in Kinds}
  BY DEF FromFile
<1>2. ASSUME NEW k \in Kinds
      PROVE  t[k] \in SUBSET FreeObjs(w, k) /\ Cardinality(t[k]) = n[k]
  <2>1. FreeObjs(w, k) \in SUBSET Objs
    BY DEF FreeObjs, Of
  <2>2. IsFiniteSet(FreeObjs(w, k))
    BY <2>1, ZoneAssumption, FS_Subset
  <2>3. \E T \in SUBSET FreeObjs(w, k) : Cardinality(T) = n[k]
    BY <2>2, SubsetOfSize
  <2>4. t[k] \in kSubset(n[k], FreeObjs(w, k))
    <3>1. kSubset(n[k], FreeObjs(w, k)) # {}
      BY <2>3 DEF kSubset
    <3> HIDE DEF kSubset
    <3> QED
      BY <3>1
  <2> QED
    BY <2>4 DEF kSubset
<1>3. \A k \in Kinds : \A o \in t[k] : o \in Objs /\ w.place[o] = None /\ KindOf[o] = k
  BY <1>2 DEF FreeObjs, Of
<1>4. \A o \in S : \E k \in Kinds : o \in t[k]
  BY <1>1
<1>5. \A k \in Kinds : \A o \in t[k] : o \in S
  BY <1>1
<1>6. ASSUME NEW k \in Kinds
      PROVE  Of(k, S) = t[k]
  <2>1. \A o \in Of(k, S) : o \in t[k]
    BY <1>3, <1>4 DEF Of
  <2>2. \A o \in t[k] : o \in Of(k, S)
    BY <1>3, <1>5 DEF Of
  <2> QED
    BY <2>1, <2>2
<1>7. \A k \in Kinds : Cardinality(Of(k, S)) = n[k]
  BY <1>2, <1>6
<1>8. \A o \in S : o \in Objs /\ w.place[o] = None
  BY <1>3, <1>4
<1> QED
  BY <1>7, <1>8 DEF AllFree

\* Of a set of objects, the rare ones and the others.
LEMMA RareOf ==
    ASSUME NEW S \in SUBSET Objs, NEW k
    PROVE  /\ Of(k, {o \in S : KindOf[o] \in Rare}) = IF k \in Rare THEN Of(k, S) ELSE {}
           /\ Of(k, {o \in S : KindOf[o] \notin Rare}) = IF k \in Rare THEN {} ELSE Of(k, S)
  BY DEF Of

\* No object is of the kind of a mobile.
LEMMA ObjectKinds ==
    ASSUME NEW S \in SUBSET Objs, NEW k \in MobKinds
    PROVE  Of(k, S) = {}
<1>1. \A o \in S : KindOf[o] \in ObjKinds
  BY DEF ObjKinds
<1> QED
  BY <1>1, ZoneAssumption DEF Of

LEMMA EnterStep ==
    ASSUME ZInv, NEW p \in Players, NEW r \in Rooms, Enter(p, r)
    PROVE  ZInv' /\ (RInv => RInv')
<1> PICK w, x, sq : w = world /\ x = world' /\ sq = Put(spot, p, r)
  OBVIOUS
<1> PICK n : n = stored[p]
  OBVIOUS
<1> PICK S : S = FromFile(w, n)
  OBVIOUS
<1> PICK y : y = Loaded(w, p, S)
  OBVIOUS
<1>0. Sound(w) /\ w \in Worlds /\ w.last = TRUE /\ w.mob = None
  BY DEF ZInv, WorldOK, Sound
<1>1. /\ x = Arrives(y, r, {}) /\ Started(r) /\ spot' = sq /\ spot[p] = None
      /\ queue' = queue /\ playing' = playing \cup {p} /\ stored' = stored
      /\ \A k \in Kinds : n[k] <= Cardinality(FreeObjs(w, k))
  BY DEF Enter
<1>2. n \in [Kinds -> Nat] /\ stored \in Stores /\ spot \in Spots
  BY DEF ZInv, PeopleOK, Stores
<1>3. /\ S \in SUBSET Objs /\ AllFree(w, S)
      /\ \A k \in Kinds : Cardinality(Of(k, S)) = n[k]
  BY <1>1, <1>2, LoadedSet
<1>4. /\ Sound(y) /\ y.last = w.last /\ y.mob = w.mob
      /\ y.place = [o \in Objs |-> IF o \in S THEN p ELSE w.place[o]]
      /\ y.number = More(w.number, {o \in S : KindOf[o] \notin Rare})
      /\ \A k \in Kinds : Count(y, k) = Count(w, k) + Cardinality(Of(k, S))
  BY <1>0, <1>3, LoadedIs
<1>5. Grows(y, x) /\ x.last = TRUE /\ x.mob = None
  <2>1. Sound(y) /\ y.last = TRUE /\ y.mob = None
    BY <1>0, <1>4
  <2>2. /\ Grows(y, Arrives(y, r, {}))
        /\ Arrives(y, r, {}).last = TRUE /\ Arrives(y, r, {}).mob = None
    BY <2>1, ArrivesGrows
  <2> QED
    BY <1>1, <2>2
<1>6. /\ Sound(x) /\ Even(y, x) /\ (Capped(y) => Capped(x))
      /\ \A o \in Placed(y) : x.place[o] = y.place[o]
  BY <1>4, <1>5, GrowsIs
<1>7. TimesOK'
  BY <1>1, StartedTimes DEF ZInv
<1>8. /\ sq \in Spots
      /\ \A q \in Players \ {p} : stored[q] = stored[q] /\ sq[q] = spot[q]
      /\ sq[p] = r
  BY NothingIs, PeopleStep DEF ZInv
<1>9. r # None /\ p # None
  BY ZoneAssumption
<1>10. PeopleOK'
  BY <1>1, <1>8, <1>9 DEF ZInv, PeopleOK
<1>11. ASSUME NEW k \in Kinds
       PROVE  y.number[k] = w.number[k] + IF k \in Rare THEN 0 ELSE n[k]
  <2>1. y.number[k] = w.number[k] + Cardinality(Of(k, {o \in S : KindOf[o] \notin Rare}))
    BY <1>4 DEF More
  <2>2. CASE k \in Rare
    <3>1. Cardinality(Of(k, {o \in S : KindOf[o] \notin Rare})) = 0
      BY <1>3, <2>2, RareOf, FS_EmptySet
    <3> QED
      BY <2>1, <2>2, <3>1
  <2>3. CASE k \notin Rare
    <3>1. Of(k, {o \in S : KindOf[o] \notin Rare}) = Of(k, S)
      BY <1>3, <2>3, RareOf
    <3>2. Cardinality(Of(k, {o \in S : KindOf[o] \notin Rare})) = n[k]
      BY <1>3, <3>1
    <3> QED
      BY <2>1, <2>3, <3>2
  <2> QED
    BY <2>2, <2>3
<1>12. Enough(y, stored, sq)
  <2>1. ASSUME NEW k \in Kinds
        PROVE  (w.number[k] - Count(w, k)) - Mine(stored, spot, p, k)
                 <= (y.number[k] - Count(y, k)) - Mine(stored, sq, p, k)
    <3>1. Mine(stored, spot, p, k) = IF k \in Rare THEN n[k] ELSE 0
      BY <1>1 DEF Mine
    <3>2. Mine(stored, sq, p, k) = 0
      BY <1>8, <1>9 DEF Mine
    <3>3. w.number[k] \in Int /\ n[k] \in Nat
      BY <1>0, <1>2 DEF Worlds
    <3>4. Count(w, k) \in Nat
      BY CountIs
    <3>5. Count(y, k) = Count(w, k) + n[k]
      BY <1>3, <1>4
    <3>6. y.number[k] = w.number[k] + IF k \in Rare THEN 0 ELSE n[k]
      BY <1>11
    <3> QED
      BY <3>1, <3>2, <3>3, <3>4, <3>5, <3>6
  <2>2. \A k \in Kinds : (w.number[k] - Count(w, k)) - Mine(stored, spot, p, k)
                           <= (y.number[k] - Count(y, k)) - Mine(stored, sq, p, k)
    BY <2>1
  <2>3. Enough(w, stored, spot)
    BY DEF ZInv
  <2> QED
    BY <1>0, <1>2, <1>4, <1>8, <2>2, <2>3, EnoughStep
<1>13. Enough(x, stored, sq)
  BY <1>2, <1>4, <1>6, <1>12, EvenStays
<1>14. ZInv'
  <2>1. WorldOK'
    BY <1>5, <1>6 DEF WorldOK
  <2>2. Enough(world, stored, spot)'
    BY <1>1, <1>13
  <2> QED
    BY <1>7, <1>10, <2>1, <2>2 DEF ZInv
<1>15. ASSUME RInv PROVE RInv'
  <2>1. \A q \in Players : \A o \in Held(w, q) : y.place[o] = w.place[o] /\ o \in Objs
    <3> SUFFICES ASSUME NEW q \in Players, NEW o \in Held(w, q)
                 PROVE  y.place[o] = w.place[o] /\ o \in Objs
      OBVIOUS
    <3>1. o \in Placed(w)
      BY HeldPlaced
    <3>2. o \in Objs /\ w.place[o] # None
      BY <3>1 DEF Placed
    <3> QED
      BY <1>3, <1>4, <3>2 DEF AllFree
  <2>2. ASSUME NEW q \in Players, NEW o \in Held(w, q)
        PROVE  x.place[o] = w.place[o]
    <3>1. Held(w, q) \subseteq Held(y, q)
      BY <2>1, HeldStays
    <3>2. o \in Placed(y)
      BY <3>1, HeldPlaced
    <3> QED
      BY <1>6, <2>1, <3>2
  <2>3. SameGoods(w, x, p) /\ SameFiles(stored, stored, spot, sq, p)
    BY <1>8, <2>2 DEF SameGoods, SameFiles
  <2>4. S \subseteq Held(x, p)
    <3> SUFFICES ASSUME NEW o \in S
                 PROVE  o \in Held(x, p)
      OBVIOUS
    <3>1. o \in Objs /\ y.place[o] = p
      BY <1>3, <1>4
    <3>2. o \in Placed(y)
      BY <1>9, <3>1 DEF Placed
    <3> QED
      BY <1>6, <3>1, <3>2 DEF Held
  <2>5. ASSUME NEW k \in Rare
        PROVE  stored[p][k] <= Cardinality(Of(k, Held(x, p)))
    <3>1. Held(x, p) \in SUBSET Things
      BY HeldPlaced
    <3>2. Cardinality(Of(k, S)) <= Cardinality(Of(k, Held(x, p)))
      BY <2>4, <3>1, OfPart
    <3>3. k \in Kinds
      BY RareKinds
    <3> QED
      BY <1>3, <3>2, <3>3
  <2>6. Fits(x, stored[p], p)
    BY <2>5 DEF Fits
  <2>7. Filed(w, stored, spot)
    BY <1>15 DEF RInv
  <2>8. Filed(x, stored, sq)
    BY <1>2, <2>3, <2>6, <2>7, FiledStep
  <2>9. Filed(world, stored, spot)'
    BY <1>1, <2>8
  <2>10. Capped(y)
    <3> SUFFICES ASSUME NEW k \in Kinds, Limited(k)
                 PROVE  y.number[k] <= Limit(k)
      BY DEF Capped
    <3>1. w.number[k] <= Limit(k)
      BY <1>15 DEF RInv, Capped
    <3>2. w.number[k] \in Int /\ Limit(k) \in Nat
      BY <1>0, LimitIs DEF Worlds
    <3>3. CASE k \in Rare
      BY <1>11, <3>1, <3>2, <3>3
    <3>4. CASE k \in MobKinds
      <4>1. Of(k, S) = {}
        BY <1>3, <3>4, ObjectKinds
      <4>2. n[k] = 0
        BY <1>3, <4>1, FS_EmptySet
      <4> QED
        BY <1>11, <3>1, <3>2, <4>2
    <3> QED
      BY <3>3, <3>4 DEF Limited
  <2>11. Capped(world)'
    BY <1>6, <2>10
  <2> QED
    BY <2>9, <2>11 DEF RInv
<1> QED
  BY <1>14, <1>15

LEMMA HadIs ==
    ASSUME NEW p \in Players
    PROVE  /\ Had(p) \in [Kinds -> Nat]
           /\ \A k \in Kinds : Had(p)[k] = Cardinality(Of(k, Held(world, p)))
<1>1. Held(world, p) \in SUBSET Things
  BY HeldPlaced
<1>2. \A k \in Kinds : Cardinality(Of(k, Held(world, p))) \in Nat
  BY <1>1, OfIs
<1> QED
  BY <1>2 DEF Had

LEMMA RentStep ==
    ASSUME ZInv, NEW p \in Players, Rent(p)
    PROVE  ZInv' /\ (RInv => RInv')
<1> PICK w, x, sq : w = world /\ x = world' /\ sq = Put(spot, p, None)
  OBVIOUS
<1> PICK S : S = Held(w, p)
  OBVIOUS
<1> PICK R : R = {o \in S : KindOf[o] \in Rare}
  OBVIOUS
<1> PICK y : y = Extract(w, S)
  OBVIOUS
<1> PICK g : g = Had(p)
  OBVIOUS
<1> PICK G : G = Put(stored, p, g)
  OBVIOUS
<1>0. Sound(w) /\ w \in Worlds /\ w.last = TRUE /\ w.mob = None
  BY DEF ZInv, WorldOK, Sound
<1>1. /\ x = [y EXCEPT !.number = More(@, R)] /\ spot[p] # None
      /\ spot' = sq /\ stored' = G /\ playing' = playing \ {p}
      /\ age' = age /\ start' = start /\ queue' = queue
  BY DEF Rent
<1>2. g \in [Kinds -> Nat] /\ \A k \in Kinds : g[k] = Cardinality(Of(k, S))
  BY HadIs
<1>3. S \in SUBSET Placed(w) /\ S \in SUBSET Things /\ S \in SUBSET Objs /\ R \in SUBSET Things
  BY HeldPlaced DEF Placed
<1>4. /\ Sound(y) /\ Even(w, y) /\ Lowers(w, y)
      /\ y.last = w.last /\ y.mob = w.mob
      /\ y.place = [o \in Objs |-> IF o \in S THEN None ELSE w.place[o]]
      /\ y.number = Less(w.number, S)
  BY <1>0, <1>3, ExtractIs
<1>5. y \in Worlds /\ Listed(y)
  BY <1>4 DEF Sound
<1> PICK n : n = More(y.number, R)
  OBVIOUS
<1>6. n \in [Kinds -> Int]
  <2>1. y.number \in [Kinds -> Int]
    BY <1>5 DEF Worlds
  <2> QED
    BY <1>3, <2>1, LessType
<1>7. x = [y EXCEPT !.number = n]
  BY <1>1, <1>5 DEF Worlds
<1>8. x \in Worlds
  BY <1>5, <1>6, <1>7 DEF Worlds
<1>9. /\ x.number = n /\ x.room = y.room /\ x.place = y.place /\ x.listed = y.listed
      /\ x.last = y.last /\ x.mob = y.mob
  BY <1>5, <1>7 DEF Worlds
<1>10. Placed(x) = Placed(y) /\ InWorld(x) = InWorld(y)
  BY <1>9 DEF Placed, InWorld
<1>11. Sound(x)
  BY <1>5, <1>8, <1>9, <1>10 DEF Sound, Listed
<1>12. \A k \in Kinds : Count(x, k) = Count(y, k)
  BY <1>10 DEF Count
<1>13. ASSUME NEW k \in Kinds
       PROVE  x.number[k] = y.number[k] + IF k \in Rare THEN g[k] ELSE 0
  <2>1. x.number[k] = y.number[k] + Cardinality(Of(k, R))
    BY <1>9 DEF More
  <2>2. CASE k \in Rare
    <3>1. Of(k, R) = Of(k, S)
      BY <1>3, <2>2, RareOf
    <3>2. Cardinality(Of(k, R)) = g[k]
      BY <1>2, <3>1
    <3> QED
      BY <2>1, <2>2, <3>2
  <2>3. CASE k \notin Rare
    <3>1. Of(k, R) = {}
      BY <1>3, <2>3, RareOf
    <3>2. Cardinality(Of(k, R)) = 0
      BY <3>1, FS_EmptySet
    <3> QED
      BY <2>1, <2>3, <3>2
  <2> QED
    BY <2>2, <2>3
<1>14. /\ G \in Stores /\ sq \in Spots
       /\ \A q \in Players \ {p} : G[q] = stored[q] /\ sq[q] = spot[q]
       /\ sq[p] = None
  BY <1>2, PeopleStep DEF ZInv
<1>15. stored \in Stores /\ spot \in Spots /\ G[p] = g
  BY DEF ZInv, PeopleOK, Stores, Put
<1>16. PeopleOK'
  BY <1>1, <1>14 DEF ZInv, PeopleOK
<1>17. Enough(x, G, sq)
  <2>1. ASSUME NEW k \in Kinds
        PROVE  (w.number[k] - Count(w, k)) - Mine(stored, spot, p, k)
                 <= (x.number[k] - Count(x, k)) - Mine(G, sq, p, k)
    <3>1. Mine(stored, spot, p, k) = 0
      BY <1>1 DEF Mine
    <3>2. Mine(G, sq, p, k) = IF k \in Rare THEN g[k] ELSE 0
      BY <1>14, <1>15 DEF Mine
    <3>3. w.number[k] \in Int /\ y.number[k] \in Int /\ g[k] \in Nat
      BY <1>0, <1>2, <1>5 DEF Worlds
    <3>4. Count(w, k) \in Nat /\ Count(y, k) \in Nat
      BY CountIs
    <3>5. y.number[k] - Count(y, k) = w.number[k] - Count(w, k)
      BY <1>4 DEF Even
    <3>6. x.number[k] = y.number[k] + IF k \in Rare THEN g[k] ELSE 0
      BY <1>13
    <3>7. Count(x, k) = Count(y, k)
      BY <1>12
    <3> QED
      BY <3>1, <3>2, <3>3, <3>4, <3>5, <3>6, <3>7
  <2>2. \A k \in Kinds : (w.number[k] - Count(w, k)) - Mine(stored, spot, p, k)
                           <= (x.number[k] - Count(x, k)) - Mine(G, sq, p, k)
    BY <2>1
  <2>3. Enough(w, stored, spot)
    BY DEF ZInv
  <2> QED
    BY <1>0, <1>11, <1>14, <1>15, <2>2, <2>3, EnoughStep
<1>18. ZInv'
  <2>1. WorldOK'
    BY <1>0, <1>4, <1>9, <1>11 DEF WorldOK
  <2>2. Enough(world, stored, spot)'
    BY <1>1, <1>17
  <2>3. TimesOK'
    BY <1>1 DEF ZInv, TimesOK
  <2> QED
    BY <1>16, <2>1, <2>2, <2>3 DEF ZInv
<1>19. ASSUME RInv PROVE RInv'
  <2>1. ASSUME NEW q \in Players \ {p}, NEW o \in Held(w, q)
        PROVE  x.place[o] = w.place[o]
    <3>1. o \notin S
      BY <2>1, HeldApart
    <3>2. o \in Placed(w)
      BY HeldPlaced
    <3>3. o \in Objs
      BY <3>2 DEF Placed
    <3> QED
      BY <1>4, <1>9, <3>1, <3>3
  <2>2. SameGoods(w, x, p) /\ SameFiles(stored, G, spot, sq, p)
    BY <1>14, <2>1 DEF SameGoods, SameFiles
  <2>3. Filed(w, stored, spot)
    BY <1>19 DEF RInv
  <2>4. Filed(x, G, sq)
    BY <1>14, <1>15, <2>2, <2>3, FiledStep
  <2>5. Filed(world, stored, spot)'
    BY <1>1, <2>4
  <2>6. Capped(world)'
    <3>1. ASSUME NEW k \in Kinds
          PROVE  x.number[k] <= w.number[k]
      <4>1. y.number[k] = w.number[k] - Cardinality(Of(k, S))
        BY <1>4 DEF Less
      <4>2. w.number[k] \in Int /\ g[k] \in Nat
        BY <1>0, <1>2 DEF Worlds
      <4>3. y.number[k] = w.number[k] - g[k]
        BY <1>2, <4>1
      <4> QED
        BY <1>13, <4>2, <4>3
    <3>2. Lowers(w, x)
      BY <3>1 DEF Lowers
    <3>3. Capped(x)
      BY <1>0, <1>8, <1>19, <3>2, LowersCapped DEF RInv
    <3> QED
      BY <3>3
  <2> QED
    BY <2>5, <2>6 DEF RInv
<1> QED
  BY <1>18, <1>19

LEMMA LeaveStep ==
    ASSUME ZInv, NEW p \in Players, Leave(p)
    PROVE  ZInv' /\ (RInv => RInv')
<1> PICK w, x, sq : w = world /\ x = world' /\ sq = Put(spot, p, None)
  OBVIOUS
<1> PICK G : G = Put(stored, p, Nothing)
  OBVIOUS
<1> PICK S : S = {o \in Objs : w.place[o] = p}
  OBVIOUS
<1>0. Sound(w) /\ w \in Worlds /\ w.last = TRUE /\ w.mob = None
  BY DEF ZInv, WorldOK, Sound
<1>1. /\ x = Moved(w, S, spot[p]) /\ spot[p] # None
      /\ spot' = sq /\ stored' = G /\ playing' = playing \ {p}
      /\ age' = age /\ start' = start /\ queue' = queue
  BY DEF Leave
<1>2. S \in SUBSET Placed(w)
  BY ZoneAssumption DEF Placed
<1>3. spot[p] \in Places
  BY DEF ZInv, PeopleOK, Spots, Places
<1>4. /\ Sound(x) /\ Even(w, x) /\ Lowers(w, x)
      /\ x.last = w.last /\ x.mob = w.mob
      /\ x.place = [o \in Objs |-> IF o \in S THEN spot[p] ELSE w.place[o]]
  BY <1>0, <1>1, <1>2, <1>3, MovedIs
<1>5. /\ G \in Stores /\ sq \in Spots
      /\ \A q \in Players \ {p} : G[q] = stored[q] /\ sq[q] = spot[q]
      /\ sq[p] = None
  BY NothingIs, PeopleStep DEF ZInv
<1>6. stored \in Stores /\ spot \in Spots /\ G[p] = Nothing
  BY DEF ZInv, PeopleOK, Stores, Put
<1>7. PeopleOK'
  BY <1>1, <1>5 DEF ZInv, PeopleOK
<1>8. Enough(x, G, sq)
  <2>1. \A k \in Kinds : Mine(G, sq, p, k) = 0
    BY <1>6 DEF Mine, Nothing
  <2>2. Enough(w, stored, spot)
    BY DEF ZInv
  <2> QED
    BY <1>0, <1>4, <1>5, <1>6, <2>1, <2>2, EvenEnough
<1>9. ZInv'
  <2>1. WorldOK'
    BY <1>0, <1>4 DEF WorldOK
  <2>2. Enough(world, stored, spot)'
    BY <1>1, <1>8
  <2>3. TimesOK'
    BY <1>1 DEF ZInv, TimesOK
  <2> QED
    BY <1>7, <2>1, <2>2, <2>3 DEF ZInv
<1>10. ASSUME RInv PROVE RInv'
  <2>1. ASSUME NEW q \in Players \ {p}, NEW o \in Held(w, q)
        PROVE  x.place[o] = w.place[o]
    <3>1. o \notin Held(w, p)
      BY <2>1, HeldApart
    <3>2. o \in Placed(w)
      BY HeldPlaced
    <3>3. o \in Objs
      BY <3>2 DEF Placed
    <3>4. o \notin S
      BY <3>1, <3>3 DEF Held
    <3> QED
      BY <1>4, <3>3, <3>4
  <2>2. SameGoods(w, x, p) /\ SameFiles(stored, G, spot, sq, p)
    BY <1>5, <2>1 DEF SameGoods, SameFiles
  <2>3. Filed(w, stored, spot)
    BY <1>10 DEF RInv
  <2>4. Filed(x, G, sq)
    BY <1>5, <1>6, <2>2, <2>3, FiledStep
  <2>5. Filed(world, stored, spot)'
    BY <1>1, <2>4
  <2>6. Capped(world)'
    BY <1>0, <1>4, <1>10, LowersCapped DEF RInv, Sound
  <2> QED
    BY <2>5, <2>6 DEF RInv
<1> QED
  BY <1>9, <1>10

LEMMA LinkStep ==
    ASSUME ZInv, NEW p \in Players, LinkChanges(p)
    PROVE  ZInv' /\ (RInv => RInv')
<1>1. /\ age' = age /\ start' = start /\ queue' = queue /\ world' = world
      /\ spot' = spot /\ stored' = stored
      /\ playing' = IF p \in playing THEN playing \ {p} ELSE playing \cup {p}
      /\ spot[p] # None
  BY DEF LinkChanges
<1>2. PeopleOK'
  BY <1>1 DEF ZInv, PeopleOK
<1>3. TimesOK' /\ WorldOK' /\ Enough(world, stored, spot)' /\ (RInv => RInv')
  BY <1>1 DEF ZInv, TimesOK, WorldOK, RInv
<1> QED
  BY <1>2, <1>3 DEF ZInv

\* What a player does to things, and is saved for.
LEMMA GoodsStep ==
    ASSUME ZInv, NEW p \in Players, p \in playing, Keeps(p), Sound(world'),
           Even(world, world'), Lowers(world, world'),
           world'.last = world.last, world'.mob = world.mob, SameGoods(world, world', p)
    PROVE  ZInv' /\ (RInv => RInv')
<1> PICK w, x : w = world /\ x = world'
  OBVIOUS
<1> PICK g : g = [k \in Kinds |-> Cardinality(Of(k, Held(x, p)))]
  OBVIOUS
<1> PICK G : G = Put(stored, p, g)
  OBVIOUS
<1>0. Sound(w) /\ w \in Worlds /\ w.last = TRUE /\ w.mob = None
  BY DEF ZInv, WorldOK, Sound
<1>1. /\ spot' = spot /\ stored' = G /\ playing' = playing
      /\ age' = age /\ start' = start /\ queue' = queue /\ spot[p] # None
  BY DEF Keeps, ZInv, PeopleOK
<1>2. g \in [Kinds -> Nat] /\ \A k \in Kinds : g[k] = Cardinality(Of(k, Held(x, p)))
  <2>1. Held(x, p) \in SUBSET Things
    BY HeldPlaced
  <2>2. \A k \in Kinds : Cardinality(Of(k, Held(x, p))) \in Nat
    BY <2>1, OfIs
  <2> QED
    BY <2>2
<1>3. stored \in Stores /\ spot \in Spots
  BY DEF ZInv, PeopleOK
<1>4. /\ G \in Stores /\ G[p] = g
      /\ \A q \in Players \ {p} : G[q] = stored[q] /\ spot[q] = spot[q]
  BY <1>2, <1>3 DEF Put, Stores
<1>5. PeopleOK'
  BY <1>1, <1>4 DEF ZInv, PeopleOK
<1>6. Enough(x, G, spot)
  <2>1. \A k \in Kinds : Mine(G, spot, p, k) = 0
    BY <1>1, NoneMine
  <2>2. Enough(w, stored, spot)
    BY DEF ZInv
  <2> QED
    BY <1>0, <1>3, <1>4, <2>1, <2>2, EvenEnough
<1>7. ZInv'
  <2>1. WorldOK'
    BY <1>0 DEF WorldOK
  <2>2. Enough(world, stored, spot)'
    BY <1>1, <1>6
  <2>3. TimesOK'
    BY <1>1 DEF ZInv, TimesOK
  <2> QED
    BY <1>5, <2>1, <2>2, <2>3 DEF ZInv
<1>8. ASSUME RInv PROVE RInv'
  <2>1. SameFiles(stored, G, spot, spot, p)
    BY <1>4 DEF SameFiles
  <2>2. Fits(x, G[p], p)
    <3>1. ASSUME NEW k \in Rare
          PROVE  g[k] <= Cardinality(Of(k, Held(x, p)))
      <4>1. k \in Kinds
        BY RareKinds
      <4>2. g[k] = Cardinality(Of(k, Held(x, p))) /\ g[k] \in Nat
        BY <1>2, <4>1
      <4> QED
        BY <4>2
    <3> QED
      BY <1>4, <3>1 DEF Fits
  <2>3. Filed(w, stored, spot)
    BY <1>8 DEF RInv
  <2>4. Filed(x, G, spot)
    BY <1>3, <1>4, <2>1, <2>2, <2>3, FiledStep
  <2>5. Filed(world, stored, spot)'
    BY <1>1, <2>4
  <2>6. Capped(world)'
    BY <1>0, <1>8, LowersCapped DEF RInv, Sound
  <2> QED
    BY <2>5, <2>6 DEF RInv
<1> QED
  BY <1>7, <1>8

\* A thing that no one else has moves.
LEMMA MoveStep ==
    ASSUME ZInv, NEW p \in Players, p \in playing, Keeps(p),
           NEW o \in Placed(world), NEW at \in Places, at # None,
           world' = Moved(world, {o}, at),
           \A q \in Players \ {p} : o \notin Held(world, q)
    PROVE  ZInv' /\ (RInv => RInv')
<1> PICK w, x : w = world /\ x = world'
  OBVIOUS
<1> PICK S : S = {o}
  OBVIOUS
<1>0. Sound(w)
  BY DEF ZInv, WorldOK
<1>1. S \in SUBSET Placed(w) /\ x = Moved(w, S, at)
  OBVIOUS
<1>2. /\ Sound(x) /\ Even(w, x) /\ Lowers(w, x)
      /\ x.last = w.last /\ x.mob = w.mob
      /\ x.place = [v \in Objs |-> IF v \in S THEN at ELSE w.place[v]]
  BY <1>0, <1>1, MovedIs
<1>3. ASSUME NEW q \in Players \ {p}, NEW v \in Held(w, q)
      PROVE  x.place[v] = w.place[v]
  <2>1. v \in Objs
    BY DEF Held
  <2>2. v # o
    OBVIOUS
  <2> QED
    BY <1>2, <2>1, <2>2
<1>4. SameGoods(w, x, p)
  BY <1>3 DEF SameGoods
<1> QED
  BY <1>2, <1>4, GoodsStep

LEMMA DoGetStep ==
    ASSUME ZInv, NEW p \in Players, NEW o \in Objs, DoGet(p, o)
    PROVE  ZInv' /\ (RInv => RInv')
<1>1. /\ p \in playing /\ world' = Moved(world, {o}, p) /\ Keeps(p)
      /\ o \in Held(world, spot[p]) \/ \E c \in Inside(world, p) : world.place[o] = c
  BY DEF DoGet
<1>2. spot[p] \in Rooms
  BY <1>1 DEF ZInv, PeopleOK, Spots
<1>3. o \in Placed(world) /\ \A q \in Players \ {p} : o \notin Held(world, q)
  <2>1. CASE o \in Held(world, spot[p])
    <3>1. o \in Placed(world)
      BY <1>2, <2>1, HeldPlaced
    <3>2. ASSUME NEW q \in Players \ {p}
          PROVE  o \notin Held(world, q)
      <4>1. q # spot[p] /\ q \in Rooms \cup Players /\ spot[p] \in Rooms \cup Players
        BY <1>2, ZoneAssumption
      <4> QED
        BY <2>1, <4>1, HeldApart
    <3> QED
      BY <3>1, <3>2
  <2>2. CASE \E c \in Inside(world, p) : world.place[o] = c
    <3> PICK c \in Inside(world, p) : world.place[o] = c
      BY <2>2
    <3>1. c \in Objs /\ world.place[c] = p
      BY DEF Inside
    <3>2. c # None /\ \A q \in Players : c # q
      BY <3>1, ZoneAssumption
    <3> QED
      BY <3>1, <3>2 DEF Placed, Held
  <2> QED
    BY <1>1, <2>1, <2>2
<1>4. p \in Places /\ p # None
  BY ZoneAssumption DEF Places
<1> QED
  BY <1>1, <1>3, <1>4, MoveStep

\* What a player has in hand, no one else has.
LEMMA OwnApart ==
    ASSUME NEW w, NEW p \in Players, NEW o \in Objs, w.place[o] = p
    PROVE  /\ {o} \cup Inside(w, o) \in SUBSET Placed(w)
           /\ \A q \in Players \ {p} : \A v \in {o} \cup Inside(w, o) : v \notin Held(w, q)
<1>1. o # None /\ p # None /\ p \notin Objs /\ Containers \subseteq Objs
  BY ZoneAssumption
<1>2. ASSUME NEW v \in Inside(w, o)
      PROVE  v \in Objs /\ w.place[v] = o
  BY DEF Inside
<1>3. {o} \cup Inside(w, o) \in SUBSET Placed(w)
  BY <1>1, <1>2 DEF Placed
<1>4. ASSUME NEW q \in Players \ {p}
      PROVE  o \notin Held(w, q) /\ \A v \in Inside(w, o) : v \notin Held(w, q)
  <2>1. q \notin Objs
    BY ZoneAssumption
  <2>2. o \notin Held(w, q)
    BY <1>1 DEF Held
  <2>3. \A v \in Inside(w, o) : v \notin Held(w, q)
    BY <1>2, <2>1 DEF Held
  <2> QED
    BY <2>2, <2>3
<1> QED
  BY <1>3, <1>4

LEMMA DoDropStep ==
    ASSUME ZInv, NEW p \in Players, NEW o \in Objs, DoDrop(p, o)
    PROVE  ZInv' /\ (RInv => RInv')
<1>1. /\ p \in playing /\ world' = Moved(world, {o}, spot[p]) /\ Keeps(p)
      /\ world.place[o] = p
  BY DEF DoDrop
<1>2. spot[p] \in Places /\ spot[p] # None
  BY <1>1 DEF ZInv, PeopleOK, Spots, Places
<1>3. o \in Placed(world) /\ \A q \in Players \ {p} : o \notin Held(world, q)
  BY <1>1, OwnApart
<1> QED
  BY <1>1, <1>2, <1>3, MoveStep

LEMMA DoPutStep ==
    ASSUME ZInv, NEW p \in Players, NEW o \in Objs, NEW c \in Containers, DoPut(p, o, c)
    PROVE  ZInv' /\ (RInv => RInv')
<1>1. /\ p \in playing /\ world' = Moved(world, {o}, c) /\ Keeps(p)
      /\ world.place[o] = p
  BY DEF DoPut
<1>2. c \in Places /\ c # None
  BY ZoneAssumption DEF Places
<1>3. o \in Placed(world) /\ \A q \in Players \ {p} : o \notin Held(world, q)
  BY <1>1, OwnApart
<1> QED
  BY <1>1, <1>2, <1>3, MoveStep

LEMMA UseUpStep ==
    ASSUME ZInv, NEW p \in Players, NEW o \in Objs, UseUp(p, o)
    PROVE  ZInv' /\ (RInv => RInv')
<1> PICK w, x : w = world /\ x = world'
  OBVIOUS
<1> PICK S : S = {o} \cup Inside(w, o)
  OBVIOUS
<1>0. Sound(w)
  BY DEF ZInv, WorldOK
<1>1. p \in playing /\ x = Extract(w, S) /\ Keeps(p) /\ w.place[o] = p
  BY DEF UseUp
<1>2. S \in SUBSET Placed(w) /\ \A q \in Players \ {p} : \A v \in S : v \notin Held(w, q)
  BY <1>1, OwnApart
<1>3. /\ Sound(x) /\ Even(w, x) /\ Lowers(w, x)
      /\ x.last = w.last /\ x.mob = w.mob
      /\ x.place = [v \in Objs |-> IF v \in S THEN None ELSE w.place[v]]
  BY <1>0, <1>1, <1>2, ExtractIs
<1>4. ASSUME NEW q \in Players \ {p}, NEW v \in Held(w, q)
      PROVE  x.place[v] = w.place[v]
  <2>1. v \in Objs
    BY DEF Held
  <2>2. v \notin S
    BY <1>2
  <2> QED
    BY <1>3, <2>1, <2>2
<1>5. SameGoods(w, x, p)
  BY <1>4 DEF SameGoods
<1> QED
  BY <1>1, <1>3, <1>5, GoodsStep

\* What happens to the world alone.
AllKept(w, x) == \A q \in Players : \A o \in Held(w, q) : x.place[o] = w.place[o]

LEMMA QuietStep ==
    ASSUME ZInv, UNCHANGED <<age, start, queue, spot, playing, stored>>, Sound(world'),
           Even(world, world'), Lowers(world, world'),
           world'.last = world.last, world'.mob = world.mob
    PROVE  ZInv' /\ (RInv /\ AllKept(world, world') => RInv')
<1> PICK w, x : w = world /\ x = world'
  OBVIOUS
<1>0. Sound(w) /\ w \in Worlds /\ w.last = TRUE /\ w.mob = None
  BY DEF ZInv, WorldOK, Sound
<1>1. ZInv'
  <2>1. WorldOK'
    BY <1>0 DEF WorldOK
  <2>2. TimesOK'
    BY DEF ZInv, TimesOK
  <2>3. playing' \subseteq {p \in Players : spot[p] # None}
    BY DEF ZInv, PeopleOK
  <2> QED
    BY <2>1, <2>2, <2>3, WorldStep
<1>2. ASSUME RInv, AllKept(w, x) PROVE RInv'
  <2>1. stored \in Stores
    BY DEF ZInv, PeopleOK
  <2>2. \A q \in Players : \A o \in Held(w, q) : x.place[o] = w.place[o]
    BY <1>2 DEF AllKept
  <2>3. Filed(w, stored, spot)
    BY <1>2 DEF RInv
  <2>4. Filed(x, stored, spot)
    BY <2>1, <2>2, <2>3, FiledStays
  <2>5. Filed(world, stored, spot)'
    BY <2>4
  <2>6. Capped(world)'
    BY <1>0, <1>2, LowersCapped DEF RInv, Sound
  <2> QED
    BY <2>5, <2>6 DEF RInv
<1> QED
  BY <1>1, <1>2

\* What vanishes is, while nothing breaks in the hands of players, nobody's.
LEMMA VanishStep ==
    ASSUME ZInv, NEW o \in Objs, Vanish(o)
    PROVE  ZInv' /\ (~Breakable /\ RInv => RInv')
<1> PICK w, x : w = world /\ x = world'
  OBVIOUS
<1> PICK S : S = {o} \cup Inside(w, o)
  OBVIOUS
<1>0. Sound(w)
  BY DEF ZInv, WorldOK
<1>1. /\ x = Extract(w, S) /\ UNCHANGED <<age, start, queue, spot, playing, stored>>
      /\ w.place[o] # None /\ (Breakable \/ \A p \in Players : o \notin Held(w, p))
  BY DEF Vanish
<1>2. S \in SUBSET Placed(w)
  BY <1>1, ZoneAssumption DEF Inside, Placed
<1>3. /\ Sound(x) /\ Even(w, x) /\ Lowers(w, x)
      /\ x.last = w.last /\ x.mob = w.mob
      /\ x.place = [v \in Objs |-> IF v \in S THEN None ELSE w.place[v]]
  BY <1>0, <1>1, <1>2, ExtractIs
<1>4. ASSUME ~Breakable PROVE AllKept(w, x)
  <2>1. ASSUME NEW q \in Players, NEW v \in Held(w, q)
        PROVE  x.place[v] = w.place[v]
    <3>1. v \in Objs /\ (w.place[v] = q \/ \E c \in Containers : w.place[c] = q /\ w.place[v] = c)
      BY DEF Held
    <3>2. o \notin Held(w, q)
      BY <1>1, <1>4
    <3>3. v \notin Inside(w, o)
      <4>1. SUFFICES ASSUME w.place[v] = o
                     PROVE  FALSE
        BY DEF Inside
      <4>2. o # q
        BY ZoneAssumption
      <4>3. o \in Containers /\ w.place[o] = q
        BY <3>1, <4>1, <4>2
      <4> QED
        BY <3>2, <4>3 DEF Held
    <3> QED
      BY <1>3, <3>1, <3>2, <3>3
  <2> QED
    BY <2>1 DEF AllKept
<1>5. ZInv' /\ (RInv /\ AllKept(world, world') => RInv')
  BY <1>1, <1>3, QuietStep
<1> QED
  BY <1>4, <1>5

LEMMA MobDiesStep ==
    ASSUME ZInv, NEW m \in Mobs, MobDies(m)
    PROVE  ZInv' /\ (RInv => RInv')
<1> PICK w, x : w = world /\ x = world'
  OBVIOUS
<1> PICK S : S = {m}
  OBVIOUS
<1>0. Sound(w)
  BY DEF ZInv, WorldOK
<1>1. /\ x = ExtractMobs(w, S) /\ UNCHANGED <<age, start, queue, spot, playing, stored>>
      /\ S \in SUBSET {n \in Mobs : w.room[n] # None}
  BY DEF MobDies
<1>2. /\ Sound(x) /\ Even(w, x) /\ Lowers(w, x)
      /\ x.last = w.last /\ x.mob = w.mob
      /\ x.place = [o \in Objs |-> IF w.place[o] \in S THEN w.room[w.place[o]]
                                   ELSE w.place[o]]
  BY <1>0, <1>1, ExtractMobsIs
<1>3. ASSUME NEW q \in Players, NEW v \in Held(w, q)
      PROVE  x.place[v] = w.place[v]
  <2>1. v \in Objs /\ (w.place[v] = q \/ \E c \in Containers : w.place[c] = q /\ w.place[v] = c)
    BY DEF Held
  <2>2. w.place[v] \notin S
    <3>1. w.place[v] \in Players \cup Objs
      BY <2>1, ZoneAssumption
    <3> QED
      BY <3>1, ZoneAssumption
  <2> QED
    BY <1>2, <2>1, <2>2
<1>4. AllKept(w, x)
  BY <1>3 DEF AllKept
<1>5. ZInv' /\ (RInv /\ AllKept(world, world') => RInv')
  BY <1>1, <1>2, QuietStep
<1> QED
  BY <1>4, <1>5

\* The things are where they were; mobiles and doors may not be.
LEMMA OtherStep ==
    ASSUME ZInv, UNCHANGED <<age, start, queue, spot, playing, stored>>,
           world' \in Worlds, InWorld(world') = InWorld(world),
           world'.place = world.place, world'.listed = world.listed,
           world'.number = world.number, world'.last = world.last, world'.mob = world.mob
    PROVE  ZInv' /\ (RInv => RInv')
<1> PICK w, x : w = world /\ x = world'
  OBVIOUS
<1>0. Sound(w) /\ w \in Worlds /\ Listed(w)
  BY DEF ZInv, WorldOK, Sound
<1>1. Placed(x) = Placed(w)
  BY DEF Placed
<1>2. Sound(x)
  BY <1>0, <1>1 DEF Sound, Listed
<1>3. Even(w, x)
  BY DEF Even, Count
<1>4. Lowers(w, x)
  <2>1. \A k \in Kinds : w.number[k] \in Int
    BY <1>0 DEF Worlds
  <2> QED
    BY <2>1 DEF Lowers
<1>5. AllKept(w, x)
  BY DEF AllKept
<1>6. ZInv' /\ (RInv /\ AllKept(world, world') => RInv')
  BY <1>2, <1>3, <1>4, QuietStep
<1> QED
  BY <1>5, <1>6

LEMMA WanderStep ==
    ASSUME ZInv, NEW m \in Mobs, NEW r \in Rooms, Wander(m, r)
    PROVE  ZInv' /\ (RInv => RInv')
<1> PICK w, x : w = world /\ x = world'
  OBVIOUS
<1> PICK f : f = Put(w.room, m, r)
  OBVIOUS
<1>0. w \in Worlds
  BY DEF ZInv, WorldOK, Sound
<1>1. /\ x = [w EXCEPT !.room = f] /\ UNCHANGED <<age, start, queue, spot, playing, stored>>
      /\ w.room[m] # None
  BY <1>0 DEF Wander, Worlds
<1>2. f \in [Mobs -> Rooms \cup {None}] /\ f = [n \in Mobs |-> IF n = m THEN r ELSE w.room[n]]
  BY <1>0 DEF Put, Worlds
<1>3. x \in Worlds
  BY <1>0, <1>1, <1>2 DEF Worlds
<1>4. /\ x.room = f /\ x.place = w.place /\ x.listed = w.listed /\ x.number = w.number
      /\ x.last = w.last /\ x.mob = w.mob
  BY <1>0, <1>1 DEF Worlds
<1>5. InWorld(x) = InWorld(w)
  <2>1. r # None
    BY ZoneAssumption
  <2>2. {n \in Mobs : f[n] # None} = {n \in Mobs : w.room[n] # None}
    BY <1>1, <1>2, <2>1
  <2> QED
    BY <1>4, <2>2 DEF InWorld, Placed
<1> QED
  BY <1>1, <1>3, <1>4, <1>5, OtherStep

\* Doors.
DoorChange(w, x) == \E c, l \in SUBSET Sides : x = [w EXCEPT !.shut = c, !.locked = l]

LEMMA DoorStep ==
    ASSUME ZInv, DoorOnly, DoorChange(world, world')
    PROVE  ZInv' /\ (RInv => RInv')
<1> PICK w, x : w = world /\ x = world'
  OBVIOUS
<1>0. w \in Worlds
  BY DEF ZInv, WorldOK, Sound
<1> PICK c, l \in SUBSET Sides : x = [w EXCEPT !.shut = c, !.locked = l]
  BY DEF DoorChange
<1>1. x \in Worlds
  BY <1>0 DEF Worlds
<1>2. /\ x.room = w.room /\ x.place = w.place /\ x.listed = w.listed /\ x.number = w.number
      /\ x.last = w.last /\ x.mob = w.mob
  BY <1>0 DEF Worlds
<1>3. InWorld(x) = InWorld(w)
  BY <1>2 DEF InWorld, Placed
<1>4. UNCHANGED <<age, start, queue, spot, playing, stored>>
  BY DEF DoorOnly
<1> QED
  BY <1>1, <1>2, <1>3, <1>4, OtherStep

LEMMA DoorsStep ==
    ASSUME ZInv, NEW s \in Sides,
           OpenDoor(s) \/ DoClose(s) \/ DoOpenExit(s) \/ DoLock(s) \/ Unlock(s) \/ DoDoorbash(s)
    PROVE  ZInv' /\ (RInv => RInv')
<1> PICK w, x : w = world /\ x = world'
  OBVIOUS
<1>0. w \in Worlds
  BY DEF ZInv, WorldOK, Sound
<1>1. w.shut \in SUBSET Sides /\ w.locked \in SUBSET Sides /\ Both(s) \in SUBSET Sides
  BY <1>0, ZoneAssumption DEF Worlds, Both
<1>2. CASE OpenDoor(s)
  <2>1. x = [w EXCEPT !.shut = w.shut \ Both(s), !.locked = w.locked] /\ DoorOnly
    BY <1>0, <1>2 DEF OpenDoor, Worlds
  <2>2. DoorChange(w, x)
    BY <1>1, <2>1 DEF DoorChange
  <2> QED
    BY <2>1, <2>2, DoorStep
<1>3. CASE DoClose(s)
  <2>1. x = [w EXCEPT !.shut = w.shut \cup Both(s), !.locked = w.locked] /\ DoorOnly
    BY <1>0, <1>3 DEF DoClose, Worlds
  <2>2. DoorChange(w, x)
    BY <1>1, <2>1 DEF DoorChange
  <2> QED
    BY <2>1, <2>2, DoorStep
<1>4. CASE DoOpenExit(s)
  <2> PICK c : c = IF s \in w.shut THEN w.shut \ Both(s) ELSE w.shut \cup Both(s)
    OBVIOUS
  <2>1. x = [w EXCEPT !.shut = c, !.locked = w.locked] /\ DoorOnly
    BY <1>0, <1>4 DEF DoOpenExit, Worlds
  <2>2. DoorChange(w, x)
    BY <1>1, <2>1 DEF DoorChange
  <2> QED
    BY <2>1, <2>2, DoorStep
<1>5. CASE DoLock(s)
  <2>1. x = [w EXCEPT !.shut = w.shut, !.locked = w.locked \cup Both(s)] /\ DoorOnly
    BY <1>0, <1>5 DEF DoLock, Worlds
  <2>2. DoorChange(w, x)
    BY <1>1, <2>1 DEF DoorChange
  <2> QED
    BY <2>1, <2>2, DoorStep
<1>6. CASE Unlock(s)
  <2>1. x = [w EXCEPT !.shut = w.shut, !.locked = w.locked \ Both(s)] /\ DoorOnly
    BY <1>0, <1>6 DEF Unlock, Worlds
  <2>2. DoorChange(w, x)
    BY <1>1, <2>1 DEF DoorChange
  <2> QED
    BY <2>1, <2>2, DoorStep
<1>7. CASE DoDoorbash(s)
  <2>1. x = [w EXCEPT !.shut = w.shut \ Both(s), !.locked = w.locked \ Both(s)] /\ DoorOnly
    BY <1>0, <1>7 DEF DoDoorbash, Worlds
  <2>2. DoorChange(w, x)
    BY <1>1, <2>1 DEF DoorChange
  <2> QED
    BY <2>1, <2>2, DoorStep
<1> QED
  BY <1>2, <1>3, <1>4, <1>5, <1>6, <1>7

-----------------------------------------------------------------------------
(* The server starts again.                                                *)

\* What the files of players in the game have, taken together, is in the world:
\* no file has more of what is rare than its player.
LEMMA FilesTogether ==
    ASSUME NEW w, NEW k \in Kinds, NEW F \in Stores, NEW A \in SUBSET Players,
           \A p \in A : F[p][k] <= Cardinality(Of(k, Held(w, p)))
    PROVE  Files(F, A, k) <= Count(w, k)
<1> DEFINE U(T) == UNION {Held(w, p) : p \in T}
           Good(T) == Files(F, T, k) <= Cardinality(Of(k, U(T)))
           Q == {T \in SUBSET A : Good(T)}
<1>1. \A p \in A : Held(w, p) \in SUBSET Placed(w) /\ Held(w, p) \in SUBSET Things
  BY HeldPlaced
<1>2. \A p \in A : F[p][k] \in Nat
  BY DEF Stores
<1>3. IsFiniteSet(A)
  BY ZoneAssumption, FS_Subset
<1>4. ASSUME NEW T \in SUBSET A, \A V \in SUBSET T : V # T => V \in Q
      PROVE  T \in Q
  <2>0. U(T) \in SUBSET Things
    BY <1>1
  <2>1. CASE T = {}
    <3>1. Lines(F, T, k) = {}
      BY <2>1 DEF Lines
    <3>2. Files(F, T, k) = 0
      BY <3>1, FS_EmptySet DEF Files
    <3> HIDE DEF U
    <3>3. Cardinality(Of(k, U(T))) \in Nat
      BY <2>0, OfIs
    <3> QED
      BY <3>2, <3>3
  <2>2. CASE T # {}
    <3> PICK a \in T : TRUE
      BY <2>2
    <3> PICK V : V = T \ {a}
      OBVIOUS
    <3>1. V \in SUBSET T /\ V # T
      OBVIOUS
    <3>2. Good(V)
      BY <1>4, <3>1
    <3>3. T \in SUBSET Players /\ V \in SUBSET Players
      OBVIOUS
    <3>4. Files(F, T, k) = F[a][k] + Files(F, V, k)
      BY <3>3, FilesSplit
    <3>5. U(T) = U(V) \cup Held(w, a)
      OBVIOUS
    <3>6. U(V) \cap Held(w, a) = {}
      <4>1. ASSUME NEW o \in U(V)
            PROVE  o \notin Held(w, a)
        <5> PICK q \in V : o \in Held(w, q)
          BY <4>1
        <5>1. q # a /\ q \in Rooms \cup Players /\ a \in Rooms \cup Players
          OBVIOUS
        <5> QED
          BY <5>1, HeldApart
      <4> QED
        BY <4>1
    <3>7. U(V) \in SUBSET Things /\ Held(w, a) \in SUBSET Things
      BY <1>1
    <3> HIDE DEF U
    <3>8. Cardinality(Of(k, U(V) \cup Held(w, a)))
            = Cardinality(Of(k, U(V))) + Cardinality(Of(k, Held(w, a)))
      BY <3>6, <3>7, OfMore
    <3>9. Cardinality(Of(k, U(V))) \in Nat /\ Cardinality(Of(k, Held(w, a))) \in Nat
      BY <3>7, OfIs
    <3>10. Cardinality(Of(k, U(T))) = Cardinality(Of(k, U(V) \cup Held(w, a)))
      BY <3>5
    <3>11. Files(F, V, k) <= Cardinality(Of(k, U(V)))
      BY <3>2
    <3>12. F[a][k] <= Cardinality(Of(k, Held(w, a))) /\ F[a][k] \in Nat
      BY <1>2
    <3>13. Files(F, V, k) \in Nat
      BY <3>3, FilesType
    <3> QED
      BY <3>4, <3>8, <3>9, <3>10, <3>11, <3>12, <3>13
  <2> QED
    BY <2>1, <2>2
<1>5. \A T \in SUBSET A : T \in Q
  <2> HIDE DEF Q
  <2> QED
    BY <1>3, <1>4, SubsetInduction
<1>6. Files(F, A, k) <= Cardinality(Of(k, U(A)))
  BY <1>5
<1>7. U(A) \in SUBSET InWorld(w)
  BY <1>1 DEF InWorld
<1>8. InWorld(w) \in SUBSET Things
  BY CountIs
<1> HIDE DEF U
<1>9. Cardinality(Of(k, U(A))) <= Cardinality(Of(k, InWorld(w)))
  BY <1>7, <1>8, OfPart
<1>10. U(A) \in SUBSET Things
  BY <1>7, <1>8
<1>11. Cardinality(Of(k, U(A))) \in Nat /\ Count(w, k) \in Nat /\ Files(F, A, k) \in Nat
  BY <1>10, OfIs, CountIs, FilesType
<1> QED
  BY <1>6, <1>9, <1>11 DEF Count

LEMMA FilesExist ==
    ASSUME NEW w, NEW F \in Stores, NEW sp \in Spots, Filed(w, F, sp), NEW k \in Rare
    PROVE  Files(F, Players, k) <= Count(w, k) + Files(F, Away(sp), k)
<1> PICK A : A = Players \ Away(sp)
  OBVIOUS
<1>1. k \in Kinds
  BY RareKinds
<1>2. Away(sp) \in SUBSET Players /\ A \in SUBSET Players /\ Away(sp) \cap A = {}
      /\ Away(sp) \cup A = Players
  BY DEF Away
<1>3. Files(F, Away(sp) \cup A, k) = Files(F, Away(sp), k) + Files(F, A, k)
  BY <1>1, <1>2, FilesParts
<1>4. \A p \in A : F[p][k] <= Cardinality(Of(k, Held(w, p)))
  BY DEF Away, Filed
<1>5. Files(F, A, k) <= Count(w, k)
  BY <1>1, <1>2, <1>4, FilesTogether
<1>6. Files(F, A, k) \in Nat /\ Files(F, Away(sp), k) \in Nat /\ Count(w, k) \in Nat
  BY <1>1, <1>2, FilesType, CountIs
<1>7. Files(F, Players, k) = Files(F, Away(sp), k) + Files(F, A, k)
  BY <1>2, <1>3
<1> QED
  BY <1>5, <1>6, <1>7

LEMMA RestartStep ==
    ASSUME ZInv, Restart
    PROVE  ZInv' /\ (RInv => RInv')
<1> PICK w, x, sq : w = world /\ x = world' /\ sq = spot'
  OBVIOUS
<1> PICK n : n = [k \in Kinds |-> IF k \in Rare THEN InFiles(Players, k) ELSE 0]
  OBVIOUS
<1>0. w \in Worlds /\ w.last = TRUE /\ w.mob = None /\ stored \in Stores /\ spot \in Spots
  BY DEF ZInv, WorldOK, Sound, PeopleOK
<1>1. /\ x = [w EXCEPT !.room = [m \in Mobs |-> None], !.place = [o \in Objs |-> None],
                       !.listed = <<>>, !.number = n]
      /\ sq = [p \in Players |-> None] /\ playing' = {} /\ stored' = stored
      /\ age' = [z \in Zones |-> 0] /\ start' = [z \in Zones |-> FALSE] /\ queue' = <<>>
  BY DEF Restart
<1>2. ASSUME NEW k \in Kinds
      PROVE  n[k] = (IF k \in Rare THEN Files(stored, Players, k) ELSE 0) /\ n[k] \in Nat
  <2>1. InFiles(Players, k) = Files(stored, Players, k)
    BY InFilesIs
  <2>2. Files(stored, Players, k) \in Nat
    BY <1>0, FilesType
  <2> QED
    BY <2>1, <2>2
<1>3. n \in [Kinds -> Int]
  BY <1>2
<1>4. x \in Worlds
  <2> PICK l : l = <<>>
    OBVIOUS
  <2> PICK r : r = [m \in Mobs |-> None]
    OBVIOUS
  <2> PICK f : f = [o \in Objs |-> None]
    OBVIOUS
  <2>1. l \in Seq(Containers)
    OBVIOUS
  <2>2. r \in [Mobs -> Rooms \cup {None}] /\ f \in [Objs -> Places]
    BY DEF Places
  <2>3. x = [w EXCEPT !.room = r, !.place = f, !.listed = l, !.number = n]
    BY <1>1
  <2> QED
    BY <1>0, <1>3, <2>1, <2>2, <2>3 DEF Worlds
<1>5. /\ x.room = [m \in Mobs |-> None] /\ x.place = [o \in Objs |-> None]
      /\ x.listed = <<>> /\ x.number = n /\ x.last = TRUE /\ x.mob = None
  BY <1>0, <1>1 DEF Worlds
<1>6. Placed(x) = {} /\ InWorld(x) = {}
  BY <1>5 DEF Placed, InWorld
<1>7. Sound(x)
  <2>1. ToSet(<<>>) = {}
    BY DEF ToSet
  <2> QED
    BY <1>4, <1>5, <1>6, <2>1 DEF Sound, Listed
<1>8. Away(sq) = Players
  BY <1>1 DEF Away
<1>9. Enough(x, stored, sq)
  <2> SUFFICES ASSUME NEW k \in Kinds
               PROVE  x.number[k] >= Count(x, k) + Owed(stored, sq, k)
    BY DEF Enough
  <2>1. Count(x, k) = 0
    <3>1. Of(k, {}) = {}
      BY DEF Of
    <3> QED
      BY <1>6, <3>1, FS_EmptySet DEF Count
  <2>2. Owed(stored, sq, k) = n[k]
    BY <1>2, <1>8 DEF Owed
  <2> QED
    BY <1>2, <1>5, <2>1, <2>2
<1>10. ZInv'
  <2>1. TimesOK'
    <3>1. <<>> \in Seq(Zones) /\ 0 \in 0..ZO_DEAD
      BY DEF ZO_DEAD
    <3> QED
      BY <1>1, <3>1 DEF TimesOK
  <2>2. PeopleOK'
    BY <1>0, <1>1 DEF PeopleOK, Spots
  <2>3. WorldOK'
    BY <1>5, <1>7 DEF WorldOK
  <2>4. Enough(world, stored, spot)'
    BY <1>1, <1>9
  <2> QED
    BY <2>1, <2>2, <2>3, <2>4 DEF ZInv
<1>11. ASSUME RInv PROVE RInv'
  <2>1. Filed(world, stored, spot)'
    BY <1>1 DEF Filed
  <2>2. ASSUME NEW k \in Kinds, Limited(k)
        PROVE  x.number[k] <= Limit(k)
    <3>1. Limit(k) \in Nat
      BY LimitIs
    <3>2. CASE k \notin Rare
      BY <1>2, <1>5, <3>1, <3>2
    <3>3. CASE k \in Rare
      <4>1. Filed(w, stored, spot)
        BY <1>11 DEF RInv
      <4>2. Files(stored, Players, k) <= Count(w, k) + Files(stored, Away(spot), k)
        BY <1>0, <3>3, <4>1, FilesExist
      <4>3. Files(stored, Away(spot), k) = Owed(stored, spot, k)
        BY <3>3 DEF Owed
      <4>4. w.number[k] >= Count(w, k) + Owed(stored, spot, k)
        BY DEF ZInv, Enough
      <4>5. w.number[k] <= Limit(k)
        BY <1>11, <2>2 DEF RInv, Capped
      <4>6. Count(w, k) \in Nat /\ Owed(stored, spot, k) \in Nat /\ w.number[k] \in Int
        BY <1>0, CountIs, OwedType DEF Worlds
      <4>7. x.number[k] = Files(stored, Players, k) /\ x.number[k] \in Nat
        BY <1>2, <1>5, <3>3
      <4> QED
        BY <3>1, <4>2, <4>3, <4>4, <4>5, <4>6, <4>7
    <3> QED
      BY <3>2, <3>3
  <2>3. Capped(world)'
    BY <2>2 DEF Capped
  <2> QED
    BY <2>1, <2>3 DEF RInv
<1> QED
  BY <1>10, <1>11

-----------------------------------------------------------------------------
(* Every step keeps the invariants.                                        *)

LEMMA ZoneStep ==
    ASSUME ZInv, [Next]_vars
    PROVE  ZInv' /\ (~Breakable /\ RInv => RInv')
<1>1. CASE UNCHANGED vars
  BY <1>1 DEF vars, ZInv, RInv, TimesOK, PeopleOK, WorldOK
<1>2. CASE ZoneUpdate
  BY <1>2, ZoneUpdateStep
<1>3. CASE \E z \in Zones : DoZload(z)
  BY <1>3, DoZloadStep
<1>4. ASSUME NEW p \in Players, NEW r \in Rooms, Enter(p, r) \/ EnterBroke(p, r) \/ Walk(p, r)
      PROVE  ZInv' /\ (~Breakable /\ RInv => RInv')
  BY <1>4, EnterStep, EnterBrokeStep, WalkStep
<1>5. ASSUME NEW p \in Players, Rent(p) \/ Leave(p) \/ LinkChanges(p)
      PROVE  ZInv' /\ (~Breakable /\ RInv => RInv')
  BY <1>5, RentStep, LeaveStep, LinkStep
<1>6. ASSUME NEW p \in Players, NEW o \in Objs,
             \/ DoGet(p, o) \/ DoDrop(p, o) \/ UseUp(p, o)
             \/ \E c \in Containers : DoPut(p, o, c)
      PROVE  ZInv' /\ (~Breakable /\ RInv => RInv')
  <2>1. CASE DoGet(p, o) \/ DoDrop(p, o) \/ UseUp(p, o)
    BY <2>1, DoGetStep, DoDropStep, UseUpStep
  <2>2. CASE \E c \in Containers : DoPut(p, o, c)
    BY <2>2, DoPutStep
  <2> QED
    BY <1>6, <2>1, <2>2
<1>7. CASE \E o \in Objs : Vanish(o)
  BY <1>7, VanishStep
<1>8. CASE \E m \in Mobs : MobDies(m) \/ \E r \in Rooms : Wander(m, r)
  BY <1>8, MobDiesStep, WanderStep
<1>9. ASSUME NEW s \in Sides,
             OpenDoor(s) \/ DoClose(s) \/ DoOpenExit(s) \/ DoLock(s) \/ Unlock(s) \/ DoDoorbash(s)
      PROVE  ZInv' /\ (~Breakable /\ RInv => RInv')
  BY <1>9, DoorsStep
<1>10. CASE Restart
  BY <1>10, RestartStep
<1>11. Next \/ UNCHANGED vars
  OBVIOUS
<1> QED
  BY <1>1, <1>2, <1>3, <1>4, <1>5, <1>6, <1>7, <1>8, <1>9, <1>10, <1>11 DEF Next

LEMMA ExistIs ==
    ASSUME NEW k \in Kinds
    PROVE  Exist(k) = Count(world, k) /\ Rented(k) = Owed(stored, spot, k)
<1> PICK M : M = {m \in Mobs : world.room[m] # None}
  OBVIOUS
<1> PICK P : P = Placed(world)
  OBVIOUS
<1>1. M \in SUBSET Things /\ P \in SUBSET Things /\ M \cap P = {} /\ InWorld(world) = M \cup P
  BY ZoneAssumption DEF Things, Placed, InWorld
<1>2. Cardinality(Of(k, M \cup P)) = Cardinality(Of(k, M)) + Cardinality(Of(k, P))
  BY <1>1, OfMore
<1>3. /\ {m \in Of(k, Mobs) : world.room[m] # None} = Of(k, M)
      /\ {o \in Of(k, Objs) : world.place[o] # None} = Of(k, P)
  BY DEF Of, Placed
<1>4. Exist(k) = Count(world, k)
  BY <1>1, <1>2, <1>3 DEF Exist, Count
<1>5. Rented(k) = Owed(stored, spot, k)
  BY InFilesIs DEF Rented, Owed, Away
<1> QED
  BY <1>4, <1>5

-----------------------------------------------------------------------------
(* The theorems.                                                           *)

\* The counters that hold the tables back (mob_index, obj_index) never count
\* less than there is, in the world and, of what is rare, in the files of
\* players that are away: what is loaded, extracted, rented, and counted
\* again at boot.
THEOREM CountersAlwaysSuffice == Spec => []CountersSuffice
<1>1. Init => ZInv
  BY ZoneInit
<1>2. ZInv /\ [Next]_vars => ZInv'
  BY ZoneStep
<1>3. ZInv => CountersSuffice
  <2> SUFFICES ASSUME ZInv, NEW k \in Kinds
               PROVE  world.number[k] >= Exist(k) + Rented(k)
    BY DEF CountersSuffice
  <2>1. Exist(k) = Count(world, k) /\ Rented(k) = Owed(stored, spot, k)
    BY ExistIs
  <2> QED
    BY <2>1 DEF ZInv, Enough
<1> QED
  BY <1>1, <1>2, <1>3, PTL DEF Spec

\* Every variable has its type; the containers of object_list are those in
\* the world.
THEOREM ZoneTyped == Spec => []TypeOK
<1>1. Init => ZInv
  BY ZoneInit
<1>2. ZInv /\ [Next]_vars => ZInv'
  BY ZoneStep
<1>3. ZInv => TypeOK
  <2> SUFFICES ASSUME ZInv
               PROVE  TypeOK
    OBVIOUS
  <2>1. world \in Worlds /\ Listed(world) /\ world.last = TRUE /\ world.mob = None
    BY DEF ZInv, WorldOK, Sound
  <2>2. Containers \cap Placed(world) = {o \in Containers : world.place[o] # None}
    BY ZoneAssumption DEF Placed
  <2>3. ToSet(world.listed) = {o \in Containers : world.place[o] # None}
    BY <2>1, <2>2 DEF Listed
  <2>4. playing \subseteq Players
    BY DEF ZInv, PeopleOK
  <2> QED
    BY <2>1, <2>3, <2>4 DEF ZInv, TimesOK, PeopleOK, Spots, Stores, Worlds, Places, TypeOK
<1> QED
  BY <1>1, <1>2, <1>3, PTL DEF Spec

\* While nothing breaks in the hands of players without their files being
\* written, there are never more mobiles or rare objects, in the world and in
\* the files together, than the tables allow: not when players come and go,
\* and not after the server has stopped with players in the game.
THEOREM RareAlwaysRare ==
    ASSUME ~Breakable
    PROVE  Spec => []RareStaysRare
<1>1. Init => ZInv /\ RInv
  BY ZoneInit
<1>2. (ZInv /\ RInv) /\ [Next]_vars => (ZInv /\ RInv)'
  BY ZoneStep
<1>3. ZInv /\ RInv => RareStaysRare
  <2> SUFFICES ASSUME ZInv, RInv, NEW k \in Rare \cup MobKinds,
                      \A c \in Commands(k) : c.max # 0
               PROVE  Exist(k) + Rented(k) <= Limit(k)
    BY DEF RareStaysRare
  <2>1. k \in Kinds /\ Limited(k)
    BY RareKinds DEF Kinds, Limited
  <2>2. Exist(k) = Count(world, k) /\ Rented(k) = Owed(stored, spot, k)
    BY <2>1, ExistIs
  <2>3. world.number[k] >= Count(world, k) + Owed(stored, spot, k)
    BY <2>1 DEF ZInv, Enough
  <2>4. world.number[k] <= Limit(k)
    BY <2>1 DEF RInv, Capped
  <2>5. Count(world, k) \in Nat /\ Owed(stored, spot, k) \in Nat
    BY <2>1, CountIs, OwedType DEF ZInv, PeopleOK
  <2>6. world.number[k] \in Int /\ Limit(k) \in Nat
    BY <2>1, LimitIs DEF ZInv, WorldOK, Sound, Worlds
  <2> QED
    BY <2>2, <2>3, <2>4, <2>5, <2>6
<1> QED
  BY <1>1, <1>2, <1>3, PTL DEF Spec

-----------------------------------------------------------------------------
(* Doors.                                                                  *)

DoorsFit(w) ==
    /\ \A s \in w.shut : Back(s) \in w.shut
    /\ \A s \in w.locked : Back(s) \in w.locked
    /\ w.locked \subseteq w.shut
    /\ \A s \in w.locked : s \notin Special

SameDoors(w, x) == x.shut = w.shut /\ x.locked = w.locked

LEMMA SameFit ==
    ASSUME NEW w, NEW x, DoorsFit(w), SameDoors(w, x)
    PROVE  DoorsFit(x)
  BY DEF DoorsFit, SameDoors

LEMMA BackIs ==
    ASSUME NEW s \in Sides
    PROVE  Back(s) \in Sides /\ Back(Back(s)) = s
<1>1. s \in Rooms \X Rooms /\ Back(s) \in Sides
  BY ZoneAssumption
<1> QED
  BY <1>1 DEF Back

\* Whatever is not about doors leaves them alone.
LEMMA DoDoors ==
    ASSUME NEW w \in Worlds, NEW c, CommandOK(c), c.letter # "D", NEW fights
    PROVE  SameDoors(w, Do(w, c, fights))
<1>1. \A b : SameDoors(w, [w EXCEPT !.last = b])
  BY DEF SameDoors, Worlds
<1>2. ASSUME NEW o, NEW at
      PROVE  SameDoors(w, Made(w, o, at)) /\ SameDoors(w, [Made(w, o, at) EXCEPT !.last = TRUE])
  BY DEF SameDoors, Worlds, Made
<1>3. CASE c.letter = "M"
  BY <1>3 DEF Do, LoadMob, ReadMob, SameDoors, Worlds
<1>4. CASE c.letter = "O"
  BY <1>1, <1>2, <1>4 DEF Do, LoadObj
<1>5. CASE c.letter = "P"
  BY <1>1, <1>2, <1>5 DEF Do, PutObj
<1>6. CASE c.letter \in {"G", "E"}
  BY <1>2, <1>6 DEF Do, GiveObj, SameDoors
<1> QED
  BY <1>3, <1>4, <1>5, <1>6 DEF CommandOK

LEMMA ExecuteDoors ==
    ASSUME NEW w \in Worlds, NEW c, CommandOK(c), c.letter # "D", NEW fights
    PROVE  SameDoors(w, Execute(w, c, fights))
<1>1. SameDoors(w, [w EXCEPT !.last = FALSE])
  BY DEF SameDoors, Worlds
<1> QED
  BY <1>1, DoDoors DEF Execute

\* Two commands that set the two sides of a door.
LEMMA PairFits ==
    ASSUME NEW w \in Worlds, DoorsFit(w), NEW c, CommandOK(c), NEW d, CommandOK(d), Mates(c, d),
           c.kind = "locked" => c.room \notin Special, NEW fights,
           \A s \in Special : Back(s) \in Special
    PROVE  DoorsFit(Execute(Execute(w, c, fights), d, fights))
<1> PICK x : x = Execute(w, c, fights)
  OBVIOUS
<1> PICK y : y = Execute(x, d, fights)
  OBVIOUS
<1> PICK s : s = c.room
  OBVIOUS
<1>1. /\ c.letter = "D" /\ d.letter = "D" /\ ~c.if_flag /\ ~d.if_flag
      /\ d.kind = c.kind /\ d.room = Back(s)
  BY DEF Mates
<1>2. s \in Sides /\ c.kind \in {"open", "closed", "locked"}
  BY <1>1 DEF CommandOK
<1>3. x = SetDoor(w, c) /\ y = SetDoor(x, d)
  BY <1>1 DEF Execute, Do
<1>4. /\ x.shut = IF c.kind = "open" THEN w.shut \ {s} ELSE w.shut \cup {s}
      /\ x.locked = IF c.kind = "locked" THEN w.locked \cup {s} ELSE w.locked \ {s}
  BY <1>3 DEF SetDoor, Worlds
<1>5. x \in Worlds
  <2> PICK a : a = IF c.kind = "open" THEN w.shut \ {s} ELSE w.shut \cup {s}
    OBVIOUS
  <2> PICK l : l = IF c.kind = "locked" THEN w.locked \cup {s} ELSE w.locked \ {s}
    OBVIOUS
  <2>1. a \in SUBSET Sides /\ l \in SUBSET Sides
    BY <1>2 DEF Worlds
  <2>2. x = [w EXCEPT !.shut = a, !.locked = l]
    BY <1>3 DEF SetDoor, Worlds
  <2> QED
    BY <2>1, <2>2 DEF Worlds
<1>6. /\ y.shut = IF c.kind = "open" THEN w.shut \ {s, Back(s)} ELSE w.shut \cup {s, Back(s)}
      /\ y.locked = IF c.kind = "locked" THEN w.locked \cup {s, Back(s)} ELSE w.locked \ {s, Back(s)}
  <2>1. /\ y.shut = IF c.kind = "open" THEN x.shut \ {Back(s)} ELSE x.shut \cup {Back(s)}
        /\ y.locked = IF c.kind = "locked" THEN x.locked \cup {Back(s)} ELSE x.locked \ {Back(s)}
    BY <1>1, <1>3, <1>5 DEF SetDoor, Worlds
  <2> QED
    BY <1>4, <2>1
<1> PICK b : b = Back(s)
  OBVIOUS
<1>7. b \in Sides /\ Back(b) = s
  BY <1>2, BackIs
<1>8. \A v \in Sides : Back(v) \in Sides /\ Back(Back(v)) = v
  BY BackIs
<1>9. w.shut \subseteq Sides /\ w.locked \subseteq Sides
  BY DEF Worlds
<1>10. c.kind = "locked" => s \notin Special /\ b \notin Special
  BY <1>7
<1>11. \A v \in w.shut : Back(v) \in {s, b} => v \in {s, b}
  BY <1>7, <1>8, <1>9
<1>12. \A v \in w.locked : Back(v) \in {s, b} => v \in {s, b}
  BY <1>7, <1>8, <1>9
<1>13. /\ \A v \in w.shut : Back(v) \in w.shut
       /\ \A v \in w.locked : Back(v) \in w.locked /\ v \in w.shut /\ v \notin Special
  BY DEF DoorsFit
<1>14. CASE c.kind = "open"
  <2>1. y.shut = w.shut \ {s, b} /\ y.locked = w.locked \ {s, b}
    BY <1>6, <1>14
  <2> QED
    BY <1>11, <1>12, <1>13, <2>1 DEF DoorsFit
<1>15. CASE c.kind = "closed"
  <2>1. y.shut = w.shut \cup {s, b} /\ y.locked = w.locked \ {s, b}
    BY <1>6, <1>15
  <2> QED
    BY <1>7, <1>12, <1>13, <2>1 DEF DoorsFit
<1>16. CASE c.kind = "locked"
  <2>1. y.shut = w.shut \cup {s, b} /\ y.locked = w.locked \cup {s, b}
    BY <1>6, <1>16
  <2> QED
    BY <1>7, <1>10, <1>13, <1>16, <2>1 DEF DoorsFit
<1> QED
  BY <1>2, <1>14, <1>15, <1>16

\* A reset leaves both sides of each door alike.
LEMMA ResetFits ==
    ASSUME DoorsPaired, NEW w, Sound(w), DoorsFit(w), NEW z \in Zones, NEW fights
    PROVE  DoorsFit(ResetZone(w, z, fights))
<1> DEFINE n == Len(Table[z])
           V == {x \in Worlds : Sound(x)}
<1>1. \A x \in V : Sound(x) /\ x \in Worlds
  OBVIOUS
<1>2. w \in V
  BY DEF Sound
<1>3. \A x \in V, i \in 1..n : Execute(x, Table[z][i], fights) \in V
  <2> SUFFICES ASSUME NEW x \in V, NEW i \in 1..n
               PROVE  Execute(x, Table[z][i], fights) \in V
    OBVIOUS
  <2>1. Grows(x, Execute(x, Table[z][i], fights))
    BY ExecuteGrows
  <2> QED
    BY <2>1 DEF Grows, Sound
<1> HIDE DEF V
<1>4. PICK f \in [0..n -> V] : ResetRuns(f, w, z, fights) /\ ResetZone(w, z, fights) = Done(f[n])
  BY <1>2, <1>3, ResetExists, Zenon
<1>5. n \in Nat /\ DOMAIN Table[z] = 1..n /\ \A i \in 1..n : CommandOK(Table[z][i])
  BY TableIs
<1> HIDE DEF n
<1>6. PICK first \in SUBSET (1..n) :
          /\ \A i \in 1..n : Table[z][i].letter = "D" => i \in first \/ i - 1 \in first
          /\ \A i \in first :
              /\ i - 1 \notin first /\ i + 1 \in 1..n
              /\ Mates(Table[z][i], Table[z][i + 1])
              /\ Table[z][i].kind = "locked" => Table[z][i].room \notin Special
  BY <1>5, Zenon DEF DoorsPaired
<1>7. \A i \in 0..n : f[i] \in Worlds
  BY <1>1
<1>8. f[0] = w /\ \A i \in 1..n : f[i] = Execute(f[i - 1], Table[z][i], fights)
  BY <1>4 DEF ResetRuns, n
<1> DEFINE Half(i) == /\ i - 1 \in 0..n /\ DoorsFit(f[i - 1])
           Good(i) == IF i \in first THEN Half(i) ELSE DoorsFit(f[i])
           Q == {i \in 0..n : Good(i)}
<1>9. 0 \in Q
  BY <1>5, <1>8
<1>10. ASSUME NEW i \in 1..n, i - 1 \in Q
       PROVE  i \in Q
  <2>0. i \in 0..n /\ i - 1 \in 0..n /\ Good(i - 1)
    BY <1>5, <1>10
  <2>1. CASE i \in first
    <3>1. i - 1 \notin first
      BY <1>6, <2>1
    <3> QED
      BY <2>0, <2>1, <3>1
  <2>2. CASE i \notin first /\ i - 1 \in first
    <3> PICK j : j = i - 1
      OBVIOUS
    <3>1. j \in 1..n /\ i = j + 1 /\ j - 1 \in 0..n /\ DoorsFit(f[j - 1])
      BY <1>5, <2>0, <2>2
    <3> PICK c, d : c = Table[z][j] /\ d = Table[z][j + 1]
      OBVIOUS
    <3>2. Mates(c, d) /\ (c.kind = "locked" => c.room \notin Special)
      BY <1>6, <2>2
    <3>3. CommandOK(c) /\ CommandOK(d)
      BY <1>5, <3>1
    <3>4. \A s \in Special : Back(s) \in Special
      BY DEF DoorsPaired
    <3>5. f[j - 1] \in Worlds
      BY <1>7, <3>1
    <3>6. DoorsFit(Execute(Execute(f[j - 1], c, fights), d, fights))
      BY <3>1, <3>2, <3>3, <3>4, <3>5, PairFits
    <3>7. f[j] = Execute(f[j - 1], c, fights)
      BY <1>8, <3>1
    <3>8. f[i] = Execute(f[j], d, fights)
      BY <1>8, <3>1
    <3>9. DoorsFit(f[i])
      BY <3>6, <3>7, <3>8
    <3> QED
      BY <2>0, <2>2, <3>9
  <2>3. CASE i \notin first /\ i - 1 \notin first
    <3> PICK c : c = Table[z][i]
      OBVIOUS
    <3>1. CommandOK(c) /\ c.letter # "D"
      BY <1>5, <1>6, <2>3
    <3>2. f[i - 1] \in Worlds
      BY <1>7, <2>0
    <3>3. SameDoors(f[i - 1], Execute(f[i - 1], c, fights))
      BY <3>1, <3>2, ExecuteDoors
    <3>4. f[i] = Execute(f[i - 1], c, fights)
      BY <1>8
    <3>5. DoorsFit(f[i - 1])
      BY <2>0, <2>3
    <3>6. DoorsFit(f[i])
      BY <3>3, <3>4, <3>5, SameFit
    <3> QED
      BY <2>0, <2>3, <3>6
  <2> QED
    BY <2>1, <2>2, <2>3
<1>11. \A i \in 1..n : i - 1 \in Q => i \in Q
  BY <1>10
<1> HIDE DEF Q
<1>12. \A i \in 0..n : i \in Q
  BY <1>5, <1>9, <1>11, SegmentInduction
<1>13. n \notin first
  <2> SUFFICES ASSUME n \in first PROVE FALSE
    OBVIOUS
  <2>1. n + 1 \in 1..n
    BY <1>6
  <2> QED
    BY <1>5, <2>1
<1>14. n \in 0..n
  BY <1>5
<1>15. DoorsFit(f[n])
  BY <1>12, <1>13, <1>14 DEF Q
<1>16. SameDoors(f[n], Done(f[n]))
  BY <1>7, <1>14 DEF SameDoors, Done, Worlds
<1> QED
  BY <1>4, <1>15, <1>16, SameFit

-----------------------------------------------------------------------------
(* What a step does to the world: something is done to it by hand, and then *)
(* perhaps zones are reset; or a door is moved.                            *)

\* Doors are left alone, and what appears is with a player that was away.
Handled(w, y, sp) ==
    /\ Sound(y) /\ SameDoors(w, y)
    /\ \A o \in Objs : w.place[o] = None /\ y.place[o] # None
                         => y.place[o] \in Players /\ sp[y.place[o]] = None

\* What is reset after that.
Reset(y, x) == \/ x = y
               \/ \E z \in Zones : \E fights : x = ResetZone(y, z, fights)
               \/ \E due \in Seq(Zones) : \E fights : x = ResetAll(y, due, fights)

\* Nothing appears.
NoneNew(w, x) == \A o \in Objs : w.place[o] = None => x.place[o] = None

LEMMA QuietHandled ==
    ASSUME NEW w, NEW y, Sound(y), SameDoors(w, y), NoneNew(w, y), NEW sp
    PROVE  Handled(w, y, sp)
  BY DEF Handled, NoneNew

LEMMA MovedNew ==
    ASSUME NEW w \in Worlds, NEW S \in SUBSET Placed(w), NEW at
    PROVE  NoneNew(w, Moved(w, S, at)) /\ SameDoors(w, Moved(w, S, at))
<1>1. Moved(w, S, at).place = [o \in Objs |-> IF o \in S THEN at ELSE w.place[o]]
  BY DEF Moved, Worlds
<1>2. SameDoors(w, Moved(w, S, at))
  BY DEF Moved, Worlds, SameDoors
<1> QED
  BY <1>1, <1>2 DEF NoneNew, Placed

LEMMA ExtractNew ==
    ASSUME NEW w \in Worlds, NEW S
    PROVE  NoneNew(w, Extract(w, S)) /\ SameDoors(w, Extract(w, S))
<1>1. Extract(w, S).place = [o \in Objs |-> IF o \in S THEN None ELSE w.place[o]]
  BY DEF Extract, Worlds
<1>2. SameDoors(w, Extract(w, S))
  BY DEF Extract, Worlds, SameDoors
<1> QED
  BY <1>1, <1>2 DEF NoneNew

LEMMA ExtractMobsNew ==
    ASSUME NEW w \in Worlds, NEW S \in SUBSET Mobs
    PROVE  NoneNew(w, ExtractMobs(w, S)) /\ SameDoors(w, ExtractMobs(w, S))
<1>1. ExtractMobs(w, S).place = [o \in Objs |-> IF w.place[o] \in S THEN w.room[w.place[o]]
                                                ELSE w.place[o]]
  BY DEF ExtractMobs, Worlds
<1>2. SameDoors(w, ExtractMobs(w, S))
  BY DEF ExtractMobs, Worlds, SameDoors
<1>3. None \notin S
  BY ZoneAssumption
<1> QED
  BY <1>1, <1>2, <1>3 DEF NoneNew

LEMMA CleanNew ==
    ASSUME NEW w, Sound(w), NEW z
    PROVE  NoneNew(w, CleanZone(w, z)) /\ SameDoors(w, CleanZone(w, z))
<1> DEFINE M == {m \in Mobs : w.room[m] # None /\ ZoneOf[w.room[m]] = z}
<1> PICK u : u = ExtractMobs(w, M)
  OBVIOUS
<1> PICK S : S = UNION {Held(u, r) : r \in {q \in Rooms : ZoneOf[q] = z}}
  OBVIOUS
<1> PICK x : x = CleanZone(w, z)
  OBVIOUS
<1>0. x = Extract(u, S) /\ w \in Worlds
  BY DEF CleanZone, Sound
<1>1. M \in SUBSET {m \in Mobs : w.room[m] # None} /\ M \in SUBSET Mobs
  OBVIOUS
<1> HIDE DEF M
<1>2. Sound(u)
  BY <1>1, ExtractMobsIs
<1>3. u \in Worlds
  BY <1>2 DEF Sound
<1>4. NoneNew(w, u) /\ SameDoors(w, u)
  BY <1>0, <1>1, ExtractMobsNew
<1>5. NoneNew(u, x) /\ SameDoors(u, x)
  BY <1>0, <1>3, ExtractNew
<1> QED
  BY <1>4, <1>5 DEF NoneNew, SameDoors

LEMMA DoneByHand ==
    ASSUME ZInv,
           \/ \E p \in Players : Rent(p) \/ Leave(p) \/ LinkChanges(p)
           \/ \E p \in Players, o \in Objs : \/ DoGet(p, o) \/ DoDrop(p, o) \/ UseUp(p, o)
                                             \/ \E c \in Containers : DoPut(p, o, c)
           \/ \E o \in Objs : Vanish(o)
           \/ \E m \in Mobs : MobDies(m) \/ \E r \in Rooms : Wander(m, r)
           \/ Restart
    PROVE  NoneNew(world, world') /\ SameDoors(world, world')
<1> PICK w, x : w = world /\ x = world'
  OBVIOUS
<1>0. w \in Worlds
  BY DEF ZInv, WorldOK, Sound
<1>1. ASSUME NEW p \in Players, Rent(p)
      PROVE  NoneNew(w, x) /\ SameDoors(w, x)
  <2> PICK y : y = Extract(w, Held(w, p))
    OBVIOUS
  <2>1. \E n : x = [y EXCEPT !.number = n]
    <3> PICK n : n = More(y.number, {o \in Held(w, p) : KindOf[o] \in Rare})
      OBVIOUS
    <3>1. x = [y EXCEPT !.number = n]
      BY <1>0, <1>1 DEF Rent, Worlds, Extract
    <3> QED
      BY <3>1
  <2>2. NoneNew(w, y) /\ SameDoors(w, y)
    BY <1>0, ExtractNew
  <2>3. x.place = y.place /\ x.shut = y.shut /\ x.locked = y.locked
    BY <1>0, <2>1 DEF Extract, Worlds
  <2> QED
    BY <2>2, <2>3 DEF NoneNew, SameDoors
<1>2. ASSUME NEW p \in Players, Leave(p)
      PROVE  NoneNew(w, x) /\ SameDoors(w, x)
  <2>1. {o \in Objs : w.place[o] = p} \in SUBSET Placed(w)
    BY ZoneAssumption DEF Placed
  <2>2. x = Moved(w, {o \in Objs : w.place[o] = p}, spot[p])
    BY <1>2 DEF Leave
  <2> QED
    BY <1>0, <2>1, <2>2, MovedNew
<1>3. ASSUME NEW p \in Players, LinkChanges(p)
      PROVE  NoneNew(w, x) /\ SameDoors(w, x)
  BY <1>3 DEF LinkChanges, NoneNew, SameDoors
<1>4. ASSUME NEW p \in Players, NEW o \in Objs, DoGet(p, o)
      PROVE  NoneNew(w, x) /\ SameDoors(w, x)
  <2>1. /\ p \in playing /\ x = Moved(w, {o}, p)
        /\ o \in Held(w, spot[p]) \/ \E c \in Inside(w, p) : w.place[o] = c
    BY <1>4 DEF DoGet
  <2>2. spot[p] \in Rooms
    BY <2>1 DEF ZInv, PeopleOK, Spots
  <2>3. o \in Placed(w)
    <3>1. CASE o \in Held(w, spot[p])
      BY <2>2, <3>1, HeldPlaced
    <3>2. CASE \E c \in Inside(w, p) : w.place[o] = c
      BY <3>2, ZoneAssumption DEF Inside, Placed
    <3> QED
      BY <2>1, <3>1, <3>2
  <2>4. {o} \in SUBSET Placed(w)
    BY <2>3
  <2> QED
    BY <1>0, <2>1, <2>4, MovedNew
<1>5. ASSUME NEW p \in Players, NEW o \in Objs, NEW at, w.place[o] = p, x = Moved(w, {o}, at)
      PROVE  NoneNew(w, x) /\ SameDoors(w, x)
  <2>1. {o} \in SUBSET Placed(w)
    BY <1>5, ZoneAssumption DEF Placed
  <2> QED
    BY <1>0, <1>5, <2>1, MovedNew
<1>6. ASSUME NEW p \in Players, NEW o \in Objs, DoDrop(p, o) \/ \E c \in Containers : DoPut(p, o, c)
      PROVE  NoneNew(w, x) /\ SameDoors(w, x)
  BY <1>5, <1>6 DEF DoDrop, DoPut
<1>7. ASSUME NEW S, x = Extract(w, S)
      PROVE  NoneNew(w, x) /\ SameDoors(w, x)
  BY <1>0, <1>7, ExtractNew
<1>8. ASSUME NEW p \in Players, NEW o \in Objs, UseUp(p, o) \/ Vanish(o)
      PROVE  NoneNew(w, x) /\ SameDoors(w, x)
  <2>1. x = Extract(w, {o} \cup Inside(w, o))
    BY <1>8 DEF UseUp, Vanish
  <2> QED
    BY <1>7, <2>1
<1>9. ASSUME NEW o \in Objs, Vanish(o)
      PROVE  NoneNew(w, x) /\ SameDoors(w, x)
  <2>1. x = Extract(w, {o} \cup Inside(w, o))
    BY <1>9 DEF Vanish
  <2> QED
    BY <1>7, <2>1
<1>10. ASSUME NEW m \in Mobs, MobDies(m)
       PROVE  NoneNew(w, x) /\ SameDoors(w, x)
  <2>1. x = ExtractMobs(w, {m}) /\ {m} \in SUBSET Mobs
    BY <1>10 DEF MobDies
  <2> QED
    BY <1>0, <2>1, ExtractMobsNew
<1>11. ASSUME NEW m \in Mobs, NEW r \in Rooms, Wander(m, r)
       PROVE  NoneNew(w, x) /\ SameDoors(w, x)
  <2>1. \E f : x = [w EXCEPT !.room = f]
    BY <1>0, <1>11 DEF Wander, Worlds
  <2>2. x.place = w.place /\ x.shut = w.shut /\ x.locked = w.locked
    BY <1>0, <2>1 DEF Worlds
  <2> QED
    BY <2>2 DEF NoneNew, SameDoors
<1>12. ASSUME Restart
       PROVE  NoneNew(w, x) /\ SameDoors(w, x)
  <2>1. x.place = [o \in Objs |-> None] /\ x.shut = w.shut /\ x.locked = w.locked
    BY <1>0, <1>12 DEF Restart, Worlds
  <2> QED
    BY <2>1 DEF NoneNew, SameDoors
<1> QED
  BY <1>1, <1>2, <1>3, <1>4, <1>6, <1>8, <1>9, <1>10, <1>11, <1>12

\* What a step does.
Doors(s) == OpenDoor(s) \/ DoClose(s) \/ DoOpenExit(s) \/ DoLock(s) \/ Unlock(s) \/ DoDoorbash(s)

LEMMA ArrivesReset ==
    ASSUME NEW y, NEW r \in Rooms, NEW fights
    PROVE  Reset(y, Arrives(y, r, fights))
<1>1. ZoneOf[r] \in Zones
  BY ZoneAssumption
<1> QED
  BY <1>1 DEF Reset, Arrives

LEMMA StepIs ==
    ASSUME ZInv, Next
    PROVE  \/ \E s \in Sides : Doors(s)
           \/ \E y : Handled(world, y, spot) /\ Reset(y, world')
<1> PICK w, x : w = world /\ x = world'
  OBVIOUS
<1>0. w \in Worlds /\ Sound(w)
  BY DEF ZInv, WorldOK, Sound
<1>1. Sound(x)
  <2>1. ZInv'
    BY ZoneStep
  <2> QED
    BY <2>1 DEF ZInv, WorldOK
<1>2. Handled(w, w, spot)
  BY <1>0 DEF Handled, SameDoors
<1>3. CASE ZoneUpdate
  <2>1. PICK due, fights : due = Kept(Enqueued, {z \in Zones : Due(z)})
                           /\ x = ResetAll(w, due, fights)
    BY <1>3 DEF ZoneUpdate
  <2>2. Enqueued \in Seq(Zones)
    <3> PICK t : t = Kept([i \in Zones |-> i], {z \in Zones : Old(z)})
      OBVIOUS
    <3>1. t \in Seq(Zones)
      BY IdentityList, KeptIs
    <3>2. queue \in Seq(Zones)
      BY DEF ZInv, TimesOK
    <3>3. queue \o t \in Seq(Zones)
      BY <3>1, <3>2
    <3> QED
      BY <3>3 DEF Enqueued
  <2>3. due \in Seq(Zones)
    <3> PICK s \in Seq(Zones) : s = Enqueued
      BY <2>2
    <3>1. \A S : Kept(s, S) \in Seq(Zones)
      BY KeptIs
    <3> QED
      BY <2>1, <3>1
  <2>4. Reset(w, x)
    BY <2>1, <2>3 DEF Reset
  <2> QED
    BY <1>2, <2>4
<1>4. ASSUME NEW z \in Zones, DoZload(z)
      PROVE  \E y : Handled(w, y, spot) /\ Reset(y, x)
  <2> PICK y : y = CleanZone(w, z)
    OBVIOUS
  <2>1. Sound(y)
    BY <1>0, CleanIs
  <2>2. Handled(w, y, spot)
    BY <1>0, <2>1, CleanNew, QuietHandled
  <2>3. x = ResetZone(y, z, {})
    BY <1>4 DEF DoZload
  <2> QED
    BY <2>2, <2>3 DEF Reset
<1>5. ASSUME NEW p \in Players, NEW r \in Rooms, EnterBroke(p, r) \/ Walk(p, r)
      PROVE  Reset(w, x)
  <2>1. x = Arrives(w, r, {})
    BY <1>5 DEF EnterBroke, Walk
  <2> QED
    BY <2>1, ArrivesReset
<1>6. ASSUME NEW p \in Players, NEW r \in Rooms, Enter(p, r)
      PROVE  \E y : Handled(w, y, spot) /\ Reset(y, x)
  <2> PICK n : n = stored[p]
    OBVIOUS
  <2> PICK S : S = FromFile(w, n)
    OBVIOUS
  <2> PICK y : y = Loaded(w, p, S)
    OBVIOUS
  <2>1. x = Arrives(y, r, {}) /\ spot[p] = None /\ \A k \in Kinds : n[k] <= Cardinality(FreeObjs(w, k))
    BY <1>6 DEF Enter
  <2>2. n \in [Kinds -> Nat]
    BY DEF ZInv, PeopleOK, Stores
  <2>3. S \in SUBSET Objs /\ AllFree(w, S) /\ \A k \in Kinds : Cardinality(Of(k, S)) = n[k]
    BY <2>1, <2>2, LoadedSet
  <2>4. /\ Sound(y) /\ y.last = w.last /\ y.mob = w.mob
        /\ y.place = [o \in Objs |-> IF o \in S THEN p ELSE w.place[o]]
        /\ y.number = More(w.number, {o \in S : KindOf[o] \notin Rare})
        /\ \A k \in Kinds : Count(y, k) = Count(w, k) + Cardinality(Of(k, S))
    <3>1. Sound(w) /\ S \in SUBSET Objs /\ AllFree(w, S)
      BY <1>0, <2>3
    <3> QED
      BY <3>1, LoadedIs
  <2>5. SameDoors(w, y)
    BY <1>0 DEF SameDoors, Loaded, Worlds
  <2>6. Handled(w, y, spot)
    BY <2>1, <2>4, <2>5 DEF Handled
  <2>7. Reset(y, x)
    BY <2>1, ArrivesReset
  <2> QED
    BY <2>6, <2>7
<1>7. ASSUME \/ \E p \in Players : Rent(p) \/ Leave(p) \/ LinkChanges(p)
             \/ \E p \in Players, o \in Objs : \/ DoGet(p, o) \/ DoDrop(p, o) \/ UseUp(p, o)
                                               \/ \E c \in Containers : DoPut(p, o, c)
             \/ \E o \in Objs : Vanish(o)
             \/ \E m \in Mobs : MobDies(m) \/ \E r \in Rooms : Wander(m, r)
             \/ Restart
      PROVE  \E y : Handled(w, y, spot) /\ Reset(y, x)
  <2>1. NoneNew(world, world') /\ SameDoors(world, world')
    BY <1>7, DoneByHand
  <2>2. Handled(w, x, spot)
    BY <1>1, <2>1, QuietHandled
  <2>3. Reset(x, x)
    BY DEF Reset
  <2> QED
    BY <2>2, <2>3
<1> QED
  BY <1>2, <1>3, <1>4, <1>5, <1>6, <1>7 DEF Next, Doors

\* Players and mobiles move both sides of a door.
LEMMA DoorsFitStep ==
    ASSUME DoorsPaired, NEW w, NEW x, w = world, x = world', w \in Worlds, DoorsFit(w),
           NEW s \in Sides, Doors(s)
    PROVE  DoorsFit(x)
<1> PICK b : b = Back(s)
  OBVIOUS
<1>1. b \in Sides /\ Back(b) = s /\ Both(s) = {s, b}
  BY BackIs DEF Both
<1>2. \A v \in Sides : Back(v) \in Sides /\ Back(Back(v)) = v
  BY BackIs
<1>3. w.shut \subseteq Sides /\ w.locked \subseteq Sides
  BY DEF Worlds
<1>4. \A v \in w.shut : Back(v) \in {s, b} => v \in {s, b}
  BY <1>1, <1>2, <1>3
<1>5. \A v \in w.locked : Back(v) \in {s, b} => v \in {s, b}
  BY <1>1, <1>2, <1>3
<1>6. /\ \A v \in w.shut : Back(v) \in w.shut
      /\ \A v \in w.locked : Back(v) \in w.locked /\ v \in w.shut /\ v \notin Special
  BY DEF DoorsFit
<1>7. Special \cap Keyed = {} /\ \A v \in Special : Back(v) \in Special
  BY DEF DoorsPaired
<1>8. CASE OpenDoor(s)
  <2>1. x.shut = w.shut \ {s, b} /\ x.locked = w.locked /\ s \notin w.locked
    BY <1>1, <1>8 DEF OpenDoor, Worlds
  <2>2. b \notin w.locked
    BY <1>1, <1>6, <2>1
  <2> QED
    BY <1>4, <1>6, <2>1, <2>2 DEF DoorsFit
<1>9. CASE DoClose(s)
  <2>1. x.shut = w.shut \cup {s, b} /\ x.locked = w.locked
    BY <1>1, <1>9 DEF DoClose, Worlds
  <2> QED
    BY <1>1, <1>6, <2>1 DEF DoorsFit
<1>10. CASE DoOpenExit(s)
  <2>1. /\ x.shut = IF s \in w.shut THEN w.shut \ {s, b} ELSE w.shut \cup {s, b}
        /\ x.locked = w.locked /\ s \in Special
    BY <1>1, <1>10 DEF DoOpenExit, Worlds
  <2>2. s \notin w.locked /\ b \notin w.locked
    BY <1>1, <1>6, <1>7, <2>1
  <2>3. CASE s \in w.shut
    <3>1. x.shut = w.shut \ {s, b}
      BY <2>1, <2>3
    <3> QED
      BY <1>4, <1>6, <2>1, <2>2, <3>1 DEF DoorsFit
  <2>4. CASE s \notin w.shut
    <3>1. x.shut = w.shut \cup {s, b}
      BY <2>1, <2>4
    <3> QED
      BY <1>1, <1>6, <2>1, <3>1 DEF DoorsFit
  <2> QED
    BY <2>3, <2>4
<1>11. CASE DoLock(s)
  <2>1. x.shut = w.shut /\ x.locked = w.locked \cup {s, b} /\ s \in w.shut /\ s \in Keyed
    BY <1>1, <1>11 DEF DoLock, Worlds
  <2>2. s \notin Special /\ b \notin Special /\ b \in w.shut
    BY <1>1, <1>6, <1>7, <2>1
  <2> QED
    BY <1>1, <1>6, <2>1, <2>2 DEF DoorsFit
<1>12. CASE Unlock(s)
  <2>1. x.shut = w.shut /\ x.locked = w.locked \ {s, b}
    BY <1>1, <1>12 DEF Unlock, Worlds
  <2> QED
    BY <1>5, <1>6, <2>1 DEF DoorsFit
<1>13. CASE DoDoorbash(s)
  <2>1. x.shut = w.shut \ {s, b} /\ x.locked = w.locked \ {s, b}
    BY <1>1, <1>13 DEF DoDoorbash, Worlds
  <2> QED
    BY <1>4, <1>5, <1>6, <2>1 DEF DoorsFit
<1> QED
  BY <1>8, <1>9, <1>10, <1>11, <1>12, <1>13 DEF Doors

LEMMA ResetDoors ==
    ASSUME DoorsPaired, NEW y, Sound(y), DoorsFit(y), NEW x, Reset(y, x)
    PROVE  DoorsFit(x)
<1>1. CASE x = y
  BY <1>1
<1>2. ASSUME NEW z \in Zones, NEW fights, x = ResetZone(y, z, fights)
      PROVE  DoorsFit(x)
  BY <1>2, ResetFits
<1>3. ASSUME NEW due \in Seq(Zones), NEW fights, x = ResetAll(y, due, fights)
      PROVE  DoorsFit(x)
  <2> DEFINE V == {v \in Worlds : Sound(v) /\ DoorsFit(v)}
  <2>1. y \in V
    BY DEF Sound
  <2>2. ASSUME NEW v \in V, NEW z \in Zones
        PROVE  ResetZone(v, z, fights) \in V
    <3>1. Grows(v, ResetZone(v, z, fights))
      BY ResetGrows
    <3>2. DoorsFit(ResetZone(v, z, fights))
      BY ResetFits
    <3> QED
      BY <3>1, <3>2 DEF Grows, Sound
  <2>3. \A v \in V : DoorsFit(v)
    OBVIOUS
  <2>4. \A v \in V, z \in Zones : ResetZone(v, z, fights) \in V
    BY <2>2
  <2> HIDE DEF V
  <2>5. ResetAll(y, due, fights) \in V
    BY <2>1, <2>4, UpdateKeeps
  <2> QED
    BY <1>3, <2>3, <2>5
<1> QED
  BY <1>1, <1>2, <1>3 DEF Reset

\* The two sides of a door agree, and a locked door is closed, whatever
\* players, mobiles and resets do to either side: with tables that set both
\* sides, and no lock on what opens without a key.
THEOREM DoorsAlwaysAgree ==
    ASSUME DoorsPaired
    PROVE  Spec => []DoorsAgree
<1>1. Init => ZInv /\ DoorsFit(world)
  <2>1. Init => DoorsFit(world)
    <3> SUFFICES ASSUME Init
                 PROVE  DoorsFit(world)
      OBVIOUS
    <3>1. PICK closed \in SUBSET Sides : /\ \A s \in closed : Back(s) \in closed
                                         /\ world.shut = closed /\ world.locked = {}
      BY DEF Init
    <3> QED
      BY <3>1 DEF DoorsFit
  <2> QED
    BY <2>1, ZoneInit
<1>2. (ZInv /\ DoorsFit(world)) /\ [Next]_vars => (ZInv /\ DoorsFit(world))'
  <2> SUFFICES ASSUME ZInv, DoorsFit(world), [Next]_vars
               PROVE  (ZInv /\ DoorsFit(world))'
    OBVIOUS
  <2>1. ZInv'
    BY ZoneStep
  <2> PICK w, x : w = world /\ x = world'
    OBVIOUS
  <2>2. DoorsFit(x)
    <3>1. CASE UNCHANGED vars
      BY <3>1 DEF vars
    <3>2. ASSUME NEW s \in Sides, Doors(s)
          PROVE  DoorsFit(x)
      <4>1. w \in Worlds
        BY DEF ZInv, WorldOK, Sound
      <4> QED
        BY <3>2, <4>1, DoorsFitStep
    <3>3. ASSUME NEW y, Handled(w, y, spot), Reset(y, x)
          PROVE  DoorsFit(x)
      <4>1. DoorsFit(y) /\ Sound(y)
        BY <3>3, SameFit DEF Handled
      <4> QED
        BY <3>3, <4>1, ResetDoors
    <3> QED
      BY <3>1, <3>2, <3>3, StepIs
  <2> QED
    BY <2>1, <2>2
<1>3. DoorsFit(world) => DoorsAgree
  BY DEF DoorsFit, DoorsAgree
<1> QED
  BY <1>1, <1>2, <1>3, PTL DEF Spec

-----------------------------------------------------------------------------
(* Resets keep off what players have.                                      *)

\* What is new is in a room, on a mobile, or in something that is in a room.
Off(x, o) == \/ x.place[o] \in Rooms \cup Mobs
             \/ \E c \in Objs : x.place[o] = c /\ x.place[c] \in Rooms

NewOff(w, x) == /\ Grows(w, x)
                /\ \A o \in Objs : w.place[o] = None /\ x.place[o] # None => Off(x, o)

LEMMA NewOffTransitive ==
    ASSUME NEW w, NEW x, NEW y, NewOff(w, x), NewOff(x, y)
    PROVE  NewOff(w, y)
<1>1. Grows(w, y)
  BY GrowsTransitive DEF NewOff
<1>2. ASSUME NEW o \in Objs, w.place[o] = None, y.place[o] # None
      PROVE  Off(y, o)
  <2>1. CASE x.place[o] = None
    BY <1>2, <2>1 DEF NewOff
  <2>2. CASE x.place[o] # None
    <3>1. Off(x, o)
      BY <1>2, <2>2 DEF NewOff
    <3>2. \A v \in Objs : x.place[v] # None => y.place[v] = x.place[v]
      BY DEF NewOff, Grows
    <3>3. None \notin Rooms
      BY ZoneAssumption
    <3> QED
      BY <1>2, <2>2, <3>1, <3>2, <3>3 DEF Off
  <2> QED
    BY <2>1, <2>2
<1> QED
  BY <1>1, <1>2 DEF NewOff

\* Nothing is new.
LEMMA SameOff ==
    ASSUME NEW w, NEW x, Grows(w, x), x.place = w.place
    PROVE  NewOff(w, x)
  BY DEF NewOff

\* What of a list is in S, when the list gets a new first element.
LEMMA KeptFirst ==
    ASSUME NEW X, NEW a \in X, NEW s \in Seq(X), NEW S
    PROVE  /\ a \in S => Kept(<<a>> \o s, S) # <<>> /\ Head(Kept(<<a>> \o s, S)) = a
           /\ a \notin S => Kept(<<a>> \o s, S) = Kept(s, S)
<1> PICK t : t = <<a>> \o s
  OBVIOUS
<1> PICK n : n = Len(s)
  OBVIOUS
<1>1. /\ n \in Nat /\ t \in Seq(X) /\ Len(t) = n + 1 /\ t[1] = a
      /\ \A i \in 1..n : t[i + 1] = s[i] /\ s[i] \in X
  OBVIOUS
<1>2. PICK k : KeptOf(k, s, S) /\ Kept(s, S) = k[n]
  BY KeptExists
<1>3. PICK h : KeptOf(h, t, S) /\ Kept(t, S) = h[n + 1]
  BY ZenonT(60), <1>1, KeptExists
<1>4. k[0] = <<>> /\ \A i \in 1..n : k[i] = IF s[i] \in S THEN Append(k[i - 1], s[i]) ELSE k[i - 1]
  <2>1. \A i \in 0..n : k[i] = IF i = 0 THEN <<>>
            ELSE IF s[i] \in S THEN Append(k[i - 1], s[i]) ELSE k[i - 1]
    BY <1>2, Zenon DEF KeptOf
  <2> QED
    BY <1>1, <2>1
<1>5. /\ h[1] = IF a \in S THEN Append(<<>>, a) ELSE <<>>
      /\ \A i \in 1..n : h[i + 1] = IF s[i] \in S THEN Append(h[i], s[i]) ELSE h[i]
  <2>1. \A i \in 0..Len(t) : h[i] = IF i = 0 THEN <<>>
            ELSE IF t[i] \in S THEN Append(h[i - 1], t[i]) ELSE h[i - 1]
    BY <1>3, Zenon DEF KeptOf
  <2>2. h[0] = <<>> /\ h[1] = IF t[1] \in S THEN Append(h[0], t[1]) ELSE h[0]
    BY <1>1, <2>1
  <2>3. ASSUME NEW i \in 1..n
        PROVE  h[i + 1] = IF s[i] \in S THEN Append(h[i], s[i]) ELSE h[i]
    <3>1. i + 1 \in 0..Len(t) /\ i + 1 # 0 /\ (i + 1) - 1 = i
      BY <1>1
    <3> QED
      BY <1>1, <2>1, <3>1
  <2> QED
    BY <1>1, <2>2, <2>3
<1>6. ASSUME a \in S
      PROVE  h[n + 1] # <<>> /\ Head(h[n + 1]) = a
  <2> DEFINE Good(i) == h[i + 1] \in Seq(X) /\ h[i + 1] # <<>> /\ Head(h[i + 1]) = a
             Q == {i \in 0..n : Good(i)}
  <2>1. 0 \in Q
    <3>1. h[1] = <<a>>
      BY <1>5, <1>6
    <3>2. <<a>> \in Seq(X) /\ <<a>> # <<>> /\ Head(<<a>>) = a
      OBVIOUS
    <3>3. 0 + 1 = 1 /\ 0 \in 0..n
      BY <1>1
    <3>4. Good(0)
      BY <3>1, <3>2, <3>3
    <3> QED
      BY <3>3, <3>4
  <2>2. ASSUME NEW i \in 1..n, i - 1 \in Q
        PROVE  i \in Q
    <3>1. (i - 1) + 1 = i /\ i \in 0..n
      BY <1>1
    <3>2. h[i] \in Seq(X) /\ h[i] # <<>> /\ Head(h[i]) = a
      BY <2>2, <3>1
    <3>3. h[i + 1] = IF s[i] \in S THEN Append(h[i], s[i]) ELSE h[i]
      BY <1>5
    <3>4. \A u \in Seq(X), e \in X : u # <<>> => /\ Append(u, e) \in Seq(X) /\ Append(u, e) # <<>>
                                                 /\ Head(Append(u, e)) = Head(u)
      BY SMTT(30)
    <3>5. Good(i)
      BY <1>1, <3>2, <3>3, <3>4
    <3> QED
      BY <3>1, <3>5
  <2>3. \A i \in 1..n : i - 1 \in Q => i \in Q
    BY <2>2
  <2> HIDE DEF Q
  <2>4. \A i \in 0..n : i \in Q
    BY <1>1, <2>1, <2>3, SegmentInduction
  <2>5. n \in Q
    BY <1>1, <2>4
  <2> QED
    BY <2>5 DEF Q
<1>7. ASSUME a \notin S
      PROVE  h[n + 1] = k[n]
  <2> DEFINE Q == {i \in 0..n : h[i + 1] = k[i]}
  <2>1. 0 \in Q
    BY <1>1, <1>4, <1>5, <1>7
  <2>2. ASSUME NEW i \in 1..n, i - 1 \in Q
        PROVE  i \in Q
    <3>1. (i - 1) + 1 = i /\ i \in 0..n
      BY <1>1
    <3>2. h[i] = k[i - 1]
      BY <2>2, <3>1
    <3>3. h[i + 1] = k[i]
      BY <1>4, <1>5, <3>2
    <3> QED
      BY <3>1, <3>3
  <2>3. \A i \in 1..n : i - 1 \in Q => i \in Q
    BY <2>2
  <2> HIDE DEF Q
  <2>4. \A i \in 0..n : i \in Q
    BY <1>1, <2>1, <2>3, SegmentInduction
  <2>5. n \in Q
    BY <1>1, <2>4
  <2> QED
    BY <2>5 DEF Q
<1> QED
  BY <1>2, <1>3, <1>6, <1>7

\* The newest container of a kind, when something is made.
Brought(w, o, at) == [Made(w, o, at) EXCEPT !.last = TRUE]

LEMMA BroughtIs ==
    ASSUME NEW w, Sound(w), NEW o \in Objs, NEW at
    PROVE  /\ w.listed \in Seq(Containers)
           /\ Brought(w, o, at).listed = IF o \in Containers THEN <<o>> \o w.listed ELSE w.listed
<1>1. w \in Worlds
  BY DEF Sound
<1> QED
  BY <1>1 DEF Brought, Made, Worlds

NewestSound(w, o, at) ==
    /\ \A k : KindOf[o] # k => Newest(Brought(w, o, at), k) = Newest(w, k)
    /\ o \in Containers => /\ Newest(Brought(w, o, at), KindOf[o]) # <<>>
                           /\ Head(Newest(Brought(w, o, at), KindOf[o])) = o

LEMMA NewestIsIt ==
    \A w, at : \A o \in Objs : Sound(w) => NewestSound(w, o, at)
<1> SUFFICES ASSUME NEW w, NEW at, NEW o \in Objs, Sound(w)
             PROVE  NewestSound(w, o, at)
  OBVIOUS
<1>1. /\ w.listed \in Seq(Containers)
      /\ Brought(w, o, at).listed = IF o \in Containers THEN <<o>> \o w.listed ELSE w.listed
  BY BroughtIs
<1>2. ASSUME NEW k, KindOf[o] # k
      PROVE  Newest(Brought(w, o, at), k) = Newest(w, k)
  <2> PICK S : S = Of(k, Objs)
    OBVIOUS
  <2>1. o \notin S
    BY <1>2 DEF Of
  <2>2. /\ Newest(Brought(w, o, at), k) = Kept(Brought(w, o, at).listed, S)
        /\ Newest(w, k) = Kept(w.listed, S)
    BY DEF Newest
  <2>3. o \in Containers => Kept(<<o>> \o w.listed, S) = Kept(w.listed, S)
    BY <1>1, <2>1, KeptFirst
  <2> QED
    BY <1>1, <2>2, <2>3
<1>3. ASSUME o \in Containers
      PROVE  /\ Newest(Brought(w, o, at), KindOf[o]) # <<>>
             /\ Head(Newest(Brought(w, o, at), KindOf[o])) = o
  <2> PICK S : S = Of(KindOf[o], Objs)
    OBVIOUS
  <2>1. o \in S
    BY DEF Of
  <2>2. Newest(Brought(w, o, at), KindOf[o]) = Kept(Brought(w, o, at).listed, S)
    BY DEF Newest
  <2>3. Kept(<<o>> \o w.listed, S) # <<>> /\ Head(Kept(<<o>> \o w.listed, S)) = o
    BY <1>1, <1>3, <2>1, KeptFirst
  <2> QED
    BY <1>1, <1>3, <2>2, <2>3
<1> QED
  BY <1>2, <1>3 DEF NewestSound

\* What the next command may put things into.
Ready(x, k) == Newest(x, k) # <<>> /\ x.place[Head(Newest(x, k))] \in Rooms

LEMMA MadePlace ==
    ASSUME NEW w \in Worlds, NEW o \in Objs, NEW at
    PROVE  /\ Made(w, o, at).place = [v \in Objs |-> IF v = o THEN at ELSE w.place[v]]
           /\ [Made(w, o, at) EXCEPT !.last = TRUE].place
                = [v \in Objs |-> IF v = o THEN at ELSE w.place[v]]
<1>1. w.place \in [Objs -> Places]
  BY DEF Worlds
<1>2. Put(w.place, o, at) = [v \in Objs |-> IF v = o THEN at ELSE w.place[v]]
  BY <1>1 DEF Put
<1> QED
  BY <1>2 DEF Made, Worlds

\* A command that puts nothing into anything.
LEMMA OtherOff ==
    ASSUME NEW w, Sound(w), NEW z \in Zones, NEW i \in 1..Len(Table[z]), NEW c,
           c = Table[z][i], c.letter # "P", NEW fights, NEW x, x = Execute(w, c, fights)
    PROVE  /\ NewOff(w, x)
           /\ c.letter = "O" /\ Of(c.kind, Objs) \subseteq Containers /\ x.last
                => Ready(x, c.kind)
<1>0. w \in Worlds
  BY DEF Sound
<1>1. CommandOK(c) /\ Grows(w, x)
  BY TableIs, ExecuteGrows
<1>2. CASE x = [w EXCEPT !.last = FALSE]
  <2>1. x.place = w.place /\ ~ x.last
    BY <1>0, <1>2 DEF Worlds
  <2> QED
    BY <1>1, <2>1, SameOff
<1>3. CASE x = Do(w, c, fights)
  <2>1. CASE c.letter = "M"
    <3>1. x.place = w.place
      BY <1>0, <1>3, <2>1 DEF Do, LoadMob, ReadMob, Worlds
    <3> QED
      BY <1>1, <2>1, <3>1, SameOff
  <2>2. CASE c.letter = "O"
    <3>1. c.room \in Rooms
      BY <1>1, <2>2 DEF CommandOK
    <3> PICK o : o = NewObj(w, c.kind)
      OBVIOUS
    <3>2. CASE FreeObjs(w, c.kind) # {} /\ x = [Made(w, o, c.room) EXCEPT !.last = TRUE]
      <4>1. o \in Objs /\ w.place[o] = None /\ KindOf[o] = c.kind
        BY <3>2, NewObjIs
      <4>2. x.place = [v \in Objs |-> IF v = o THEN c.room ELSE w.place[v]]
        BY <1>0, <3>2, <4>1, MadePlace
      <4>3. NewOff(w, x)
        BY <1>1, <3>1, <4>2 DEF NewOff, Off
      <4>4. ASSUME Of(c.kind, Objs) \subseteq Containers
            PROVE  Ready(x, c.kind)
        <5>1. o \in Containers
          BY <4>1, <4>4 DEF Of
        <5>2. Newest(x, c.kind) # <<>> /\ Head(Newest(x, c.kind)) = o
          <6>1. x = Brought(w, o, c.room)
            BY <3>2 DEF Brought
          <6>2. NewestSound(w, o, c.room)
            BY <4>1, <5>1, NewestIsIt
          <6>3. /\ Newest(Brought(w, o, c.room), KindOf[o]) # <<>>
                /\ Head(Newest(Brought(w, o, c.room), KindOf[o])) = o
            BY <5>1, <6>2 DEF NewestSound
          <6> QED
            BY <4>1, <6>1, <6>3, Zenon
        <5>3. x.place[o] = c.room
          BY <4>1, <4>2
        <5> QED
          BY <3>1, <4>1, <5>1, <5>2, <5>3 DEF Ready
      <4> QED
        BY <4>3, <4>4
    <3>3. CASE x = [w EXCEPT !.last = FALSE]
      BY <1>2, <3>3
    <3> QED
      BY <1>3, <2>2, <3>2, <3>3 DEF Do, LoadObj
  <2>3. CASE c.letter \in {"G", "E"}
    <3> PICK o : o = NewObj(w, c.kind)
      OBVIOUS
    <3>1. CASE FreeObjs(w, c.kind) # {} /\ w.mob # None /\ x = Made(w, o, w.mob)
      <4>1. o \in Objs /\ w.place[o] = None /\ KindOf[o] = c.kind
        BY <3>1, NewObjIs
      <4>2. x.place = [v \in Objs |-> IF v = o THEN w.mob ELSE w.place[v]]
        BY <1>0, <3>1, <4>1, MadePlace
      <4>3. w.mob \in Mobs
        BY <1>0, <3>1 DEF Worlds
      <4> QED
        BY <1>1, <2>3, <4>2, <4>3 DEF NewOff, Off
    <3>2. CASE x = w
      BY <1>1, <2>3, <3>2, SameOff
    <3> QED
      BY <1>3, <2>3, <3>1, <3>2 DEF Do, GiveObj
  <2>4. CASE c.letter = "D"
    <3>1. x.place = w.place
      BY <1>0, <1>3, <2>4 DEF Do, SetDoor, Worlds
    <3> QED
      BY <1>1, <2>4, <3>1, SameOff
  <2> QED
    BY <1>1, <2>1, <2>2, <2>3, <2>4 DEF CommandOK
<1> QED
  BY <1>2, <1>3 DEF Execute

\* A command that puts something into what the one before has brought.
LEMMA PutOff ==
    ASSUME NEW w, Sound(w), NEW z \in Zones, NEW i \in 1..Len(Table[z]), NEW c,
           c = Table[z][i], c.letter = "P", c.if_flag, c.kind # c.room,
           w.last => Ready(w, c.room), NEW fights, NEW x, x = Execute(w, c, fights)
    PROVE  NewOff(w, x) /\ (x.last => Ready(x, c.room))
<1>0. w \in Worlds
  BY DEF Sound
<1>1. Grows(w, x)
  BY ExecuteGrows
<1>2. CASE x = [w EXCEPT !.last = FALSE]
  <2>1. x.place = w.place /\ ~ x.last
    BY <1>0, <1>2 DEF Worlds
  <2> QED
    BY <1>1, <2>1, SameOff
<1>3. CASE w.last /\ x = Do(w, c, fights)
  <2> PICK h : h = Head(Newest(w, c.room))
    OBVIOUS
  <2> PICK o : o = NewObj(w, c.kind)
    OBVIOUS
  <2>1. Newest(w, c.room) # <<>> /\ w.place[h] \in Rooms
    BY <1>3 DEF Ready
  <2>2. h \in Objs
    <3>1. w.listed \in Seq(Containers)
      BY <1>0 DEF Worlds
    <3>2. Newest(w, c.room) \in Seq(Containers)
      BY <3>1, KeptIs DEF Newest
    <3>3. h \in Containers
      BY <2>1, <3>2
    <3> QED
      BY <3>3, ZoneAssumption
  <2>3. CASE FreeObjs(w, c.kind) # {} /\ x = [Made(w, o, h) EXCEPT !.last = TRUE]
    <3>1. o \in Objs /\ w.place[o] = None /\ KindOf[o] = c.kind
      BY <2>3, NewObjIs
    <3>2. x.place = [v \in Objs |-> IF v = o THEN h ELSE w.place[v]]
      BY <1>0, <2>3, <3>1, MadePlace
    <3>3. h # o
      BY <2>1, <3>1, ZoneAssumption
    <3>4. x.place[h] \in Rooms
      BY <2>1, <2>2, <3>2, <3>3
    <3>5. NewOff(w, x)
      BY <1>1, <2>2, <3>2, <3>4 DEF NewOff, Off
    <3>6. Newest(x, c.room) = Newest(w, c.room)
      <4>1. KindOf[o] # c.room
        BY <3>1
      <4>2. x = Brought(w, o, h)
        BY <2>3 DEF Brought
      <4>3. NewestSound(w, o, h)
        BY <3>1, NewestIsIt
      <4> QED
        BY <4>1, <4>2, <4>3 DEF NewestSound
    <3>7. Ready(x, c.room)
      BY <2>1, <3>4, <3>6 DEF Ready
    <3> QED
      BY <3>5, <3>7
  <2>4. CASE x = [w EXCEPT !.last = FALSE]
    BY <1>2, <2>4
  <2> QED
    BY <1>3, <2>3, <2>4 DEF Do, PutObj
<1> QED
  BY <1>2, <1>3 DEF Execute

\* What a reset brings stays off what players have.
LEMMA ResetOff ==
    ASSUME PutsFollow, NEW w, Sound(w), NEW z \in Zones, NEW fights
    PROVE  NewOff(w, ResetZone(w, z, fights))
<1> DEFINE n == Len(Table[z])
           V == {x \in Worlds : Sound(x)}
<1>1. \A x \in V : Sound(x) /\ x \in Worlds
  OBVIOUS
<1>2. w \in V
  BY DEF Sound
<1>3. \A x \in V, i \in 1..n : Execute(x, Table[z][i], fights) \in V
  <2> SUFFICES ASSUME NEW x \in V, NEW i \in 1..n
               PROVE  Execute(x, Table[z][i], fights) \in V
    OBVIOUS
  <2>1. Grows(x, Execute(x, Table[z][i], fights))
    BY ExecuteGrows
  <2> QED
    BY <2>1 DEF Grows, Sound
<1> HIDE DEF V
<1>4. PICK f \in [0..n -> V] : ResetRuns(f, w, z, fights) /\ ResetZone(w, z, fights) = Done(f[n])
  BY <1>2, <1>3, ResetExists, Zenon
<1>5. n \in Nat /\ DOMAIN Table[z] = 1..n /\ \A i \in 1..n : CommandOK(Table[z][i])
  BY TableIs
<1>6. \A i \in 0..n : f[i] \in Worlds /\ Sound(f[i])
  BY <1>1
<1>7. f[0] = w /\ \A i \in 1..n : f[i] = Execute(f[i - 1], Table[z][i], fights)
  BY <1>4 DEF ResetRuns
<1>8. ASSUME NEW i \in 1..n, Table[z][i].letter = "P"
      PROVE  /\ Table[z][i].if_flag /\ Table[z][i].kind # Table[z][i].room
             /\ Of(Table[z][i].room, Objs) \subseteq Containers
             /\ i - 1 \in 1..n
             /\ \/ Table[z][i - 1].letter = "O" /\ Table[z][i - 1].kind = Table[z][i].room
                \/ Table[z][i - 1].letter = "P" /\ Table[z][i - 1].room = Table[z][i].room
  BY <1>5, <1>8, Zenon DEF PutsFollow
<1> DEFINE Feeds(i) == i + 1 \in 1..n /\ Table[z][i + 1].letter = "P" /\ f[i].last
                         => Ready(f[i], Table[z][i + 1].room)
           Good(i) == NewOff(w, f[i]) /\ Feeds(i)
           Q == {i \in 0..n : Good(i)}
<1>9. 0 \in Q
  <2>1. Grows(w, w)
    BY <1>6, <1>7, SameGrows, <1>2, <1>1
  <2>2. NewOff(w, f[0])
    BY <1>7, <2>1, SameOff
  <2>3. Feeds(0)
    <3> SUFFICES ASSUME 0 + 1 \in 1..n, Table[z][0 + 1].letter = "P"
                 PROVE  FALSE
      OBVIOUS
    <3>1. (0 + 1) - 1 \in 1..n
      BY <1>8
    <3> QED
      BY <1>5, <3>1
  <2> QED
    BY <1>5, <2>2, <2>3
<1>10. ASSUME NEW i \in 1..n, i - 1 \in Q
       PROVE  i \in Q
  <2> PICK c, u, x : c = Table[z][i] /\ u = f[i - 1] /\ x = f[i]
    OBVIOUS
  <2>0. i \in 0..n /\ i - 1 \in 0..n /\ (i - 1) + 1 = i /\ Good(i - 1)
    BY <1>5, <1>10
  <2>1. Sound(u) /\ x = Execute(u, c, fights) /\ NewOff(w, u)
    BY <1>6, <1>7, <2>0
  <2>2. ASSUME i + 1 \in 1..n, Table[z][i + 1].letter = "P"
        PROVE  /\ Of(Table[z][i + 1].room, Objs) \subseteq Containers
               /\ \/ c.letter = "O" /\ c.kind = Table[z][i + 1].room
                  \/ c.letter = "P" /\ c.room = Table[z][i + 1].room
    <3>1. (i + 1) - 1 = i
      OBVIOUS
    <3> QED
      BY <1>8, <2>2, <3>1
  <2>3. CASE c.letter # "P"
    <3>1. /\ NewOff(u, x)
          /\ c.letter = "O" /\ Of(c.kind, Objs) \subseteq Containers /\ x.last
               => Ready(x, c.kind)
      BY <2>1, <2>3, OtherOff
    <3>2. NewOff(w, x)
      BY <2>1, <3>1, NewOffTransitive
    <3>3. Feeds(i)
      BY <2>2, <2>3, <3>1
    <3> QED
      BY <2>0, <3>2, <3>3
  <2>4. CASE c.letter = "P"
    <3>1. c.if_flag /\ c.kind # c.room
      BY <1>8, <2>4
    <3>2. u.last => Ready(u, c.room)
      BY <2>0, <2>4
    <3>3. NewOff(u, x) /\ (x.last => Ready(x, c.room))
      BY <2>1, <2>4, <3>1, <3>2, PutOff
    <3>4. NewOff(w, x)
      BY <2>1, <3>3, NewOffTransitive
    <3>5. Feeds(i)
      BY <2>2, <2>4, <3>3
    <3> QED
      BY <2>0, <3>4, <3>5
  <2> QED
    BY <2>3, <2>4
<1>11. \A i \in 1..n : i - 1 \in Q => i \in Q
  BY <1>10
<1> HIDE DEF Q
<1>12. \A i \in 0..n : i \in Q
  BY <1>5, <1>9, <1>11, SegmentInduction
<1>13. n \in Q
  BY <1>5, <1>12
<1>14. NewOff(w, f[n])
  BY <1>13 DEF Q
<1> PICK y : y = f[n]
  OBVIOUS
<1>15. y \in Worlds /\ Sound(y)
  BY <1>5, <1>6
<1>16. Done(y) \in Worlds
  BY <1>15 DEF Done, Worlds
<1>17. Grows(y, Done(y)) /\ Done(y).place = y.place
  BY <1>15, <1>16, SameGrows DEF Done, Worlds
<1>18. NewOff(y, Done(y))
  BY <1>17, SameOff
<1> QED
  BY <1>4, <1>14, <1>18, NewOffTransitive

LEMMA ResetsOff ==
    ASSUME PutsFollow, NEW y, Sound(y), NEW x, Reset(y, x)
    PROVE  NewOff(y, x)
<1>0. y \in Worlds
  BY DEF Sound
<1>1. NewOff(y, y)
  BY <1>0, SameGrows, SameOff
<1>2. ASSUME NEW z \in Zones, NEW fights, x = ResetZone(y, z, fights)
      PROVE  NewOff(y, x)
  BY <1>2, ResetOff
<1>3. ASSUME NEW due \in Seq(Zones), NEW fights, x = ResetAll(y, due, fights)
      PROVE  NewOff(y, x)
  <2> DEFINE V == {v \in Worlds : NewOff(y, v)}
  <2>1. y \in V
    BY <1>0, <1>1
  <2>2. ASSUME NEW v \in V, NEW z \in Zones
        PROVE  ResetZone(v, z, fights) \in V
    <3>1. Sound(v) /\ NewOff(y, v)
      BY DEF NewOff, Grows
    <3>2. NewOff(v, ResetZone(v, z, fights))
      BY <3>1, ResetOff
    <3>3. NewOff(y, ResetZone(v, z, fights))
      BY <3>1, <3>2, NewOffTransitive
    <3> QED
      BY <3>3 DEF NewOff, Grows, Sound
  <2>3. \A v \in V : NewOff(y, v)
    OBVIOUS
  <2>4. \A v \in V, z \in Zones : ResetZone(v, z, fights) \in V
    BY <2>2
  <2> HIDE DEF V
  <2>5. ResetAll(y, due, fights) \in V
    BY <2>1, <2>4, UpdateKeeps
  <2> QED
    BY <1>3, <2>3, <2>5
<1> QED
  BY <1>1, <1>2, <1>3 DEF Reset

\* Nothing new ever appears among the things of a player that is in the game:
\* with tables that put things only into what they have just brought.
THEOREM ResetsAlwaysKeepOff ==
    ASSUME PutsFollow
    PROVE  Spec => ResetsKeepOff
<1> DEFINE KeepOff == \A p \in Players : \A o \in Held(world', p) :
                          spot[p] # None => world.place[o] # None
<1>1. Init => ZInv
  BY ZoneInit
<1>2. ZInv /\ [Next]_vars => ZInv'
  BY ZoneStep
<1>3. ZInv /\ [Next]_vars => [KeepOff]_vars
  <2> SUFFICES ASSUME ZInv, Next, NEW p \in Players, NEW o \in Held(world', p),
                      spot[p] # None, world.place[o] = None
               PROVE  FALSE
    OBVIOUS
  <2> PICK w, x : w = world /\ x = world'
    OBVIOUS
  <2>1. Containers \subseteq Objs /\ p \notin Rooms \cup Mobs \cup Objs \cup {None}
    BY ZoneAssumption
  <2>2. o \in Objs /\ (x.place[o] = p \/ \E c \in Containers : x.place[c] = p /\ x.place[o] = c)
    BY DEF Held
  <2>3. x.place[o] # None
    <3>1. None \notin Objs
      BY ZoneAssumption
    <3> QED
      BY <2>1, <2>2, <3>1
  <2>4. CASE \E s \in Sides : Doors(s)
    <3>1. x.place = w.place
      <4>1. w \in Worlds
        BY DEF ZInv, WorldOK, Sound
      <4> QED
        BY <2>4, <4>1 DEF Doors, OpenDoor, DoClose, DoOpenExit, DoLock, Unlock, DoDoorbash, Worlds
    <3> QED
      BY <2>3, <3>1
  <2>5. CASE \E y : Handled(w, y, spot) /\ Reset(y, x)
    <3> PICK y : Handled(w, y, spot) /\ Reset(y, x)
      BY <2>5
    <3>1. /\ Sound(y)
          /\ \A v \in Objs : w.place[v] = None /\ y.place[v] # None
                               => y.place[v] \in Players /\ spot[y.place[v]] = None
      BY DEF Handled
    <3>2. NewOff(y, x)
      BY <3>1, ResetsOff
    <3>3. \A v \in Objs : y.place[v] # None => x.place[v] = y.place[v]
      BY <3>2 DEF NewOff, Grows
    <3>4. CASE y.place[o] = None
      <4>1. Off(x, o)
        BY <2>2, <2>3, <3>2, <3>4 DEF NewOff
      <4> QED
        BY <2>1, <2>2, <4>1, ZoneAssumption DEF Off
    <3>5. CASE y.place[o] # None
      <4>1. x.place[o] \in Players /\ spot[x.place[o]] = None
        BY <2>2, <3>1, <3>3, <3>5
      <4>2. x.place[o] # p
        BY <4>1
      <4>3. x.place[o] \in Objs
        BY <2>1, <2>2, <4>2
      <4> QED
        BY <4>1, <4>3, ZoneAssumption
    <3> QED
      BY <3>4, <3>5
  <2> QED
    BY <2>4, <2>5, StepIs
<1> QED
  BY <1>1, <1>2, <1>3, PTL DEF Spec, ResetsKeepOff

-----------------------------------------------------------------------------
(* The queue of the zones that wait.                                       *)

LEMMA InjectiveAppend ==
    ASSUME NEW X, NEW t \in Seq(X), IsInjective(t), NEW x \in X, x \notin ToSet(t)
    PROVE  IsInjective(Append(t, x))
<1> PICK n \in Nat : n = Len(t)
  OBVIOUS
<1> PICK u : u = Append(t, x)
  OBVIOUS
<1>1. /\ DOMAIN t = 1..n /\ DOMAIN u = 1..(n + 1) /\ u[n + 1] = x
      /\ \A i \in 1..n : u[i] = t[i]
  OBVIOUS
<1>2. \A i \in 1..n : t[i] # x
  BY <1>1 DEF ToSet
<1>3. \A i, j \in 1..n : t[i] = t[j] => i = j
  BY <1>1 DEF IsInjective
<1>4. ASSUME NEW i \in 1..(n + 1), NEW j \in 1..(n + 1), u[i] = u[j]
      PROVE  i = j
  <2>1. (i \in 1..n \/ i = n + 1) /\ (j \in 1..n \/ j = n + 1)
    OBVIOUS
  <2> QED
    BY <1>1, <1>2, <1>3, <1>4, <2>1
<1>5. IsInjective(u)
  BY <1>1, <1>4 DEF IsInjective
<1> QED
  BY <1>5

LEMMA InjectiveConcat ==
    ASSUME NEW X, NEW s \in Seq(X), NEW t \in Seq(X), IsInjective(s), IsInjective(t),
           ToSet(s) \cap ToSet(t) = {}
    PROVE  IsInjective(s \o t)
<1> PICK m \in Nat : m = Len(s)
  OBVIOUS
<1> PICK n \in Nat : n = Len(t)
  OBVIOUS
<1> PICK u : u = s \o t
  OBVIOUS
<1>1. DOMAIN s = 1..m /\ DOMAIN t = 1..n /\ DOMAIN u = 1..(m + n)
  OBVIOUS
<1>2. \A i \in 1..(m + n) : u[i] = IF i <= m THEN s[i] ELSE t[i - m]
  OBVIOUS
<1>3. \A i \in 1..m, j \in 1..n : s[i] # t[j]
  BY <1>1 DEF ToSet
<1>4. (\A i, j \in 1..m : s[i] = s[j] => i = j) /\ (\A i, j \in 1..n : t[i] = t[j] => i = j)
  BY <1>1 DEF IsInjective
<1>5. ASSUME NEW i \in 1..(m + n), NEW j \in 1..(m + n), u[i] = u[j]
      PROVE  i = j
  <2>1. (i <= m => i \in 1..m) /\ (~ (i <= m) => i - m \in 1..n)
    OBVIOUS
  <2>2. (j <= m => j \in 1..m) /\ (~ (j <= m) => j - m \in 1..n)
    OBVIOUS
  <2>3. CASE i <= m /\ j <= m
    BY <1>2, <1>4, <1>5, <2>1, <2>2, <2>3
  <2>4. CASE ~ (i <= m) /\ ~ (j <= m)
    <3>1. i - m = j - m
      BY <1>2, <1>4, <1>5, <2>1, <2>2, <2>4
    <3> QED
      BY <3>1
  <2>5. CASE (i <= m) # (j <= m)
    BY <1>2, <1>3, <1>5, <2>1, <2>2, <2>5
  <2> QED
    BY <2>3, <2>4, <2>5
<1>6. IsInjective(u)
  BY <1>1, <1>5 DEF IsInjective
<1> QED
  BY <1>6

LEMMA InjectiveKept ==
    ASSUME NEW X, NEW s \in Seq(X), IsInjective(s), NEW S
    PROVE  IsInjective(Kept(s, S))
<1> PICK n \in Nat : n = Len(s)
  OBVIOUS
<1>1. PICK k : KeptOf(k, s, S) /\ Kept(s, S) = k[n]
  BY KeptExists
<1> DEFINE Good(t, i) == /\ t \in Seq(X) /\ IsInjective(t)
                         /\ ToSet(t) \subseteq {s[j] : j \in 1..i}
           Q == {i \in 0..n : Good(k[i], i)}
<1>2. k[0] = <<>> /\ \A i \in 1..n : k[i] = IF s[i] \in S THEN Append(k[i - 1], s[i])
                                            ELSE k[i - 1]
  <2>1. \A i \in 0..n : k[i] = IF i = 0 THEN <<>>
            ELSE IF s[i] \in S THEN Append(k[i - 1], s[i]) ELSE k[i - 1]
    BY <1>1, Zenon DEF KeptOf
  <2> QED
    BY <2>1
<1>3. 0 \in Q
  <2>1. <<>> \in Seq(X) /\ DOMAIN <<>> = {}
    OBVIOUS
  <2>2. IsInjective(<<>>) /\ ToSet(<<>>) = {}
    BY <2>1 DEF IsInjective, ToSet
  <2>3. Good(k[0], 0)
    BY <1>2, <2>1, <2>2
  <2> QED
    BY <2>3
<1>4. ASSUME NEW i \in 1..n, i - 1 \in Q
      PROVE  i \in Q
  <2> PICK t : t = k[i - 1]
    OBVIOUS
  <2>1. Good(t, i - 1) /\ s[i] \in X
    BY <1>4
  <2>2. {s[j] : j \in 1..(i - 1)} \cup {s[i]} \subseteq {s[j] : j \in 1..i}
    OBVIOUS
  <2>3. CASE s[i] \in S
    <3>1. k[i] = Append(t, s[i])
      BY <1>2, <2>3
    <3>2. s[i] \notin {s[j] : j \in 1..(i - 1)}
      BY DEF IsInjective
    <3>3. s[i] \notin ToSet(t)
      BY <2>1, <3>2
    <3>4. IsInjective(k[i])
      <4> HIDE DEF Q
      <4> QED
        BY <2>1, <3>1, <3>3, InjectiveAppend
    <3>5. k[i] \in Seq(X) /\ ToSet(k[i]) \subseteq ToSet(t) \cup {s[i]}
      <4> PICK u : u = k[i]
        OBVIOUS
      <4>1. u \in Seq(X) /\ DOMAIN t = 1..Len(t) /\ DOMAIN u = 1..(Len(t) + 1)
        BY <2>1, <3>1
      <4>2. \A j \in DOMAIN u : u[j] = s[i] \/ (j \in DOMAIN t /\ u[j] = t[j])
        BY <2>1, <3>1, <4>1
      <4>3. ToSet(u) \subseteq ToSet(t) \cup {s[i]}
        BY <4>2 DEF ToSet
      <4> QED
        BY <4>1, <4>3
    <3>6. Good(k[i], i)
      BY <2>1, <2>2, <3>4, <3>5, Zenon
    <3> QED
      BY <3>6
  <2>4. CASE s[i] \notin S
    <3>1. k[i] = t
      BY <1>2, <2>4
    <3>2. Good(k[i], i)
      BY <2>1, <2>2, <3>1, Zenon
    <3> QED
      BY <3>2
  <2> QED
    BY <2>3, <2>4
<1>5. \A i \in 1..n : i - 1 \in Q => i \in Q
  BY <1>4
<1> HIDE DEF Q
<1>6. \A i \in 0..n : i \in Q
  BY <1>3, <1>5, SegmentInduction
<1>7. n \in Q
  BY <1>6
<1>8. IsInjective(k[n])
  BY <1>7 DEF Q
<1> QED
  BY <1>1, <1>8

\* gReset_q has each zone once, and these are the zones of age ZO_DEAD: a zone
\* that waits is not put into the queue again (zone_update), and one that is
\* not in it grows old and gets there.
WaitsOnce ==
    /\ IsInjective(queue)
    /\ \A z \in Zones : z \in ToSet(queue) <=> age[z] = ZO_DEAD

\* What char_to_room relies on when it starts a zone: none that waits.
QInv == WaitsOnce /\ \A z \in Zones : age[z] = ZO_DEAD => start[z]

LEMMA UpdateWaits ==
    ASSUME TimesOK, QInv, ZoneUpdate
    PROVE  QInv'
<1>0. PICK due, stay, ids, old, t, e :
        /\ due = {z \in Zones : Due(z)} /\ stay = {z \in Zones : ~Due(z)}
        /\ ids = [i \in Zones |-> i] /\ old = {z \in Zones : Old(z)} /\ t = Kept(ids, old)
        /\ e = Enqueued
  OBVIOUS
<1>1. e = queue \o t /\ queue \in Seq(Zones)
  BY <1>0 DEF Enqueued, TimesOK
<1>2. /\ ids \in Seq(Zones) /\ IsInjective(ids) /\ ToSet(ids) = Zones
  <2>1. ids \in Seq(Zones)
    BY <1>0, IdentityList
  <2>2. IsInjective(ids) /\ ToSet(ids) = Zones
    BY <1>0 DEF IsInjective, ToSet
  <2> QED
    BY <2>1, <2>2
<1>3. t \in Seq(Zones) /\ IsInjective(t) /\ ToSet(t) = old
  <2>1. t \in Seq(Zones) /\ ToSet(t) = ToSet(ids) \cap old
    BY <1>0, <1>2, KeptIs
  <2>2. IsInjective(t)
    BY <1>0, <1>2, InjectiveKept
  <2> QED
    <3>1. old \subseteq Zones
      BY <1>0
    <3> QED
      BY <1>2, <2>1, <2>2, <3>1
<1>4. \A z \in Zones : Old(z) => age[z] # ZO_DEAD
  <2>1. \A z \in Zones : age[z] \in 0..999
    BY DEF TimesOK, ZO_DEAD
  <2> QED
    BY <2>1 DEF Old, ZO_DEAD
<1>5. ToSet(queue) = {z \in Zones : age[z] = ZO_DEAD}
  <2>1. ToSet(queue) \subseteq Zones
    BY <1>1 DEF ToSet
  <2> QED
    BY <2>1 DEF QInv, WaitsOnce
<1>6. e \in Seq(Zones) /\ ToSet(e) = ToSet(queue) \cup old
  <2>1. queue \o t \in Seq(Zones) /\ ToSet(queue \o t) = ToSet(queue) \cup ToSet(t)
    <3> PICK q \in Seq(Zones) : q = queue
      BY <1>1
    <3> PICK r \in Seq(Zones) : r = t
      BY <1>3
    <3>1. q \o r \in Seq(Zones) /\ ToSet(q \o r) = ToSet(q) \cup ToSet(r)
      BY ConcatSet
    <3> QED
      BY <3>1
  <2> QED
    BY <1>1, <1>3, <2>1
<1>7. IsInjective(e)
  <2>1. IsInjective(queue) /\ ToSet(queue) \cap ToSet(t) = {}
    BY <1>0, <1>3, <1>4, <1>5 DEF QInv, WaitsOnce
  <2> QED
    BY <1>1, <1>3, <2>1, InjectiveConcat
<1>8. /\ queue' = Kept(e, stay) /\ start' = start
      /\ age' = [z \in Zones |-> IF z \in ToSet(Kept(e, due)) THEN 0
                                 ELSE IF Young(z) THEN age[z] + 1
                                 ELSE IF Old(z) THEN ZO_DEAD ELSE age[z]]
  BY <1>0 DEF ZoneUpdate
<1>9. /\ IsInjective(queue') /\ ToSet(queue') = ToSet(e) \cap stay
      /\ ToSet(Kept(e, due)) = ToSet(e) \cap due
  BY <1>6, <1>7, <1>8, KeptIs, InjectiveKept
<1>10. ASSUME NEW z \in Zones
       PROVE  /\ z \in ToSet(queue') <=> age'[z] = ZO_DEAD
              /\ age'[z] = ZO_DEAD => start'[z]
  <2>1. z \in ToSet(e) <=> age[z] = ZO_DEAD \/ Old(z)
    BY <1>0, <1>5, <1>6
  <2>2. (z \in due <=> Due(z)) /\ (z \in stay <=> ~Due(z))
    BY <1>0
  <2>3. age'[z] = IF z \in ToSet(e) /\ Due(z) THEN 0
                  ELSE IF Young(z) THEN age[z] + 1
                  ELSE IF Old(z) THEN ZO_DEAD ELSE age[z]
    BY <1>8, <1>9, <2>2
  <2>4. Young(z) => age[z] + 1 # ZO_DEAD /\ age[z] # ZO_DEAD /\ ~Old(z)
    <3>1. age[z] \in Int /\ Lifespan[z] \in Int /\ Lifespan[z] <= 998
      <4>1. Lifespan \in [Zones -> 0..(ZO_DEAD - 1)] /\ age \in [Zones -> 0..ZO_DEAD]
        BY ZoneAssumption DEF TimesOK
      <4>2. Lifespan[z] \in 0..998
        BY <4>1 DEF ZO_DEAD
      <4>3. age[z] \in 0..999
        BY <4>1 DEF ZO_DEAD
      <4>4. Lifespan[z] \in Int /\ Lifespan[z] <= 998
        BY <4>2
      <4>5. age[z] \in Int
        BY <4>3
      <4> QED
        BY <4>4, <4>5
    <3>2. Young(z) => age[z] < Lifespan[z]
      BY DEF Young
    <3>3. Old(z) => age[z] >= Lifespan[z]
      BY DEF Old
    <3>4. age[z] < Lifespan[z] => age[z] + 1 # 999 /\ age[z] # 999 /\ ~(age[z] >= Lifespan[z])
      BY <3>1
    <3> QED
      BY <3>2, <3>3, <3>4, ZenonT(60) DEF ZO_DEAD
  <2>5. Old(z) => start[z]
    BY DEF Old
  <2>6. age[z] = ZO_DEAD => start[z]
    BY DEF QInv
  <2>7. z \in ToSet(queue') <=> (age[z] = ZO_DEAD \/ Old(z)) /\ ~Due(z)
    BY <1>9, <2>1, <2>2
  <2>8. 0 # ZO_DEAD
    BY DEF ZO_DEAD
  <2> HIDE DEF Due, Young, Old
  <2> QED
    BY <1>8, <2>1, <2>3, <2>4, <2>5, <2>6, <2>7, <2>8
<1> QED
  BY <1>9, <1>10 DEF QInv, WaitsOnce

\* A zone that is started for the first time is not in the queue.
LEMMA StartedWaits ==
    ASSUME TimesOK, QInv, NEW r \in Rooms, Started(r), queue' = queue
    PROVE  QInv'
<1>1. ZoneOf[r] \in Zones /\ 0 # ZO_DEAD
  BY ZoneAssumption DEF ZO_DEAD
<1> PICK y : y = ZoneOf[r]
  OBVIOUS
<1>2. \A z \in Zones : start'[z] = IF z = y THEN TRUE ELSE start[z]
  BY DEF Started, Put, TimesOK
<1>3. \A z \in Zones : age'[z] = IF z = y /\ ~start[y] THEN 0 ELSE age[z]
  BY <1>1 DEF Started, Put, TimesOK
<1>4. ~start[y] => y \notin ToSet(queue) /\ age[y] # ZO_DEAD
  BY <1>1 DEF QInv, WaitsOnce
<1>5. \A z \in Zones : z \in ToSet(queue) <=> age'[z] = ZO_DEAD
  BY <1>1, <1>3, <1>4 DEF QInv, WaitsOnce
<1>6. \A z \in Zones : age'[z] = ZO_DEAD => start'[z]
  BY <1>1, <1>2, <1>3 DEF QInv
<1> QED
  BY <1>5, <1>6 DEF QInv, WaitsOnce

LEMMA WaitsStep ==
    ASSUME ~ReloadQueued, TimesOK, QInv, [Next]_vars
    PROVE  QInv'
<1>1. CASE UNCHANGED <<age, start, queue>>
  BY <1>1 DEF QInv, WaitsOnce
<1>2. CASE ZoneUpdate
  BY <1>2, UpdateWaits
<1>3. ASSUME NEW y \in Zones, DoZload(y)
      PROVE  QInv'
  <2>1. queue' = queue /\ y \notin ToSet(queue) /\ age' = Put(age, y, 0) /\ start' = Put(start, y, TRUE)
    BY <1>3 DEF DoZload
  <2>2. \A z \in Zones : /\ age'[z] = IF z = y THEN 0 ELSE age[z]
                         /\ start'[z] = IF z = y THEN TRUE ELSE start[z]
    BY <2>1 DEF Put, TimesOK
  <2>3. 0 # ZO_DEAD
    BY DEF ZO_DEAD
  <2>4. \A z \in Zones : z \in ToSet(queue) <=> age'[z] = ZO_DEAD
    BY <2>1, <2>2, <2>3 DEF QInv, WaitsOnce
  <2>5. \A z \in Zones : age'[z] = ZO_DEAD => start'[z]
    BY <2>2, <2>3 DEF QInv
  <2> QED
    BY <2>1, <2>4, <2>5 DEF QInv, WaitsOnce
<1>4. ASSUME NEW p \in Players, NEW r \in Rooms, Enter(p, r) \/ EnterBroke(p, r) \/ Walk(p, r)
      PROVE  QInv'
  <2>1. Started(r) /\ queue' = queue
    BY <1>4 DEF Enter, EnterBroke, Walk
  <2> QED
    BY <2>1, StartedWaits
<1>5. CASE Restart
  <2>1. age' = [z \in Zones |-> 0] /\ queue' = <<>>
    BY <1>5 DEF Restart
  <2>2. IsInjective(<<>>) /\ ToSet(<<>>) = {}
    BY DEF IsInjective, ToSet
  <2>3. \A z \in Zones : age'[z] # ZO_DEAD
    BY <2>1 DEF ZO_DEAD
  <2> QED
    BY <2>1, <2>2, <2>3 DEF QInv, WaitsOnce
<1>6. ASSUME NEW p \in Players,
             \/ Rent(p) \/ Leave(p) \/ LinkChanges(p)
             \/ \E o \in Objs : \/ DoGet(p, o) \/ DoDrop(p, o) \/ UseUp(p, o)
                                \/ \E c \in Containers : DoPut(p, o, c)
      PROVE  UNCHANGED <<age, start, queue>>
  BY <1>6 DEF Rent, Leave, LinkChanges, DoGet, DoDrop, UseUp, DoPut, Keeps
<1>7. CASE \/ \E o \in Objs : Vanish(o)
           \/ \E m \in Mobs : MobDies(m) \/ \E r \in Rooms : Wander(m, r)
  <2>1. UNCHANGED <<age, start, queue>>
    BY <1>7 DEF Vanish, MobDies, Wander
  <2> QED
    BY <1>1, <2>1
<1>8. CASE \E s \in Sides : Doors(s)
  <2>1. UNCHANGED <<age, start, queue>>
    BY <1>8 DEF Doors, OpenDoor, DoClose, DoOpenExit, DoLock, Unlock, DoDoorbash, DoorOnly
  <2> QED
    BY <1>1, <2>1
<1>9. CASE UNCHANGED vars
  BY <1>1, <1>9 DEF vars
<1> QED
  BY <1>1, <1>2, <1>3, <1>4, <1>5, <1>6, <1>7, <1>8, <1>9 DEF Next, Doors

\* A zone that waits to be reset is in the queue once, and only such a zone
\* has the age of those that wait: unless a god loads one that waits.
THEOREM ZonesAlwaysWaitOnce ==
    ASSUME ~ReloadQueued
    PROVE  Spec => []WaitsOnce
<1>1. Init => ZInv
  BY ZoneInit
<1>2. ZInv /\ [Next]_vars => ZInv'
  BY ZoneStep
<1>3. Init => QInv
  <2> SUFFICES ASSUME Init
               PROVE  QInv
    OBVIOUS
  <2>1. age = [z \in Zones |-> 0] /\ queue = <<>>
    BY DEF Init
  <2>2. IsInjective(<<>>) /\ ToSet(<<>>) = {}
    BY DEF IsInjective, ToSet
  <2>3. \A z \in Zones : age[z] # ZO_DEAD
    BY <2>1 DEF ZO_DEAD
  <2> QED
    BY <2>1, <2>2, <2>3 DEF QInv, WaitsOnce
<1>4. ZInv /\ QInv /\ [Next]_vars => QInv'
  BY WaitsStep DEF ZInv
<1>5. QInv => WaitsOnce
  BY DEF QInv
<1> QED
  BY <1>1, <1>2, <1>3, <1>4, <1>5, PTL DEF Spec

=============================================================================
