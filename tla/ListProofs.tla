----------------------------- MODULE ListProofs -----------------------------
(***************************************************************************)
(* What the lists of module Lists hold, for lists of any length.           *)
(*                                                                         *)
(* The library states induction for an operator given as a parameter.      *)
(* Here a fact is the set of the numbers it holds for: a set of numbers    *)
(* has a least element since finite sets are well founded by inclusion,    *)
(* and from that follow induction up to a number and definition by         *)
(* recursion up to it.                                                     *)
(***************************************************************************)
EXTENDS Lists, FiniteSetTheorems, WellFoundedInduction, TLAPS

\* Every set of numbers that is not empty has a least element.
LEMMA LeastNumber ==
  ASSUME NEW T, T \subseteq Nat, T # {}
  PROVE  \E n \in T : \A m \in T : n <= m
  <1> DEFINE Below(n) == 0..n
             S == {Below(n) : n \in T}
  <1>1. \A n \in T : IsFiniteSet(Below(n))
    <2>1. 0 \in Int
      OBVIOUS
    <2> QED
      BY <2>1, FS_Interval
  <1>2. S \subseteq FiniteSubsetsOf(Nat) /\ S # {}
    <2>1. \A n \in T : Below(n) \in SUBSET Nat
      OBVIOUS
    <2> HIDE DEF Below
    <2>2. \A n \in T : Below(n) \in FiniteSubsetsOf(Nat)
      BY <1>1, <2>1 DEF FiniteSubsetsOf
    <2> QED
      BY <2>2
  <1>3. PICK x \in S : \A y \in S : ~(<<y, x>> \in StrictSubsetOrdering(Nat))
    <2> HIDE DEF S
    <2> QED
      BY <1>2, FS_StrictSubsetOrderingWellFounded, WFMin
  <1>4. PICK n \in T : x = Below(n)
    OBVIOUS
  <1>5. ASSUME NEW m \in T, m < n PROVE FALSE
    <2>1. Below(m) \in S /\ Below(m) \in SUBSET Nat /\ Below(n) \in SUBSET Nat
      OBVIOUS
    <2>2. Below(m) \subseteq Below(n) /\ Below(m) # Below(n)
      BY <1>5
    <2> HIDE DEF Below, S
    <2>3. <<Below(m), Below(n)>> \in StrictSubsetOrdering(Nat)
      BY <2>1, <2>2 DEF StrictSubsetOrdering
    <2> QED
      BY <1>3, <1>4, <2>1, <2>3
  <1>6. \A m \in T : n <= m
    BY <1>5
  <1> QED
    BY <1>6

\* Induction up to n, on the set of the numbers for which a fact holds.
LEMMA Upto ==
  ASSUME NEW n \in Nat, NEW T, 0 \in T, \A i \in 1..n : i - 1 \in T => i \in T
  PROVE  0..n \subseteq T
  <1> DEFINE B == {i \in 0..n : i \notin T}
  <1>1. SUFFICES ASSUME B # {} PROVE FALSE
    OBVIOUS
  <1>2. PICK m \in B : \A k \in B : m <= k
    <2>1. B \subseteq Nat
      OBVIOUS
    <2> HIDE DEF B
    <2> QED
      BY <1>1, <2>1, LeastNumber
  <1>3. m \in 1..n /\ m - 1 \in 0..n
    BY <1>2
  <1>4. m - 1 \notin B
    BY <1>2, <1>3
  <1> QED
    BY <1>2, <1>3, <1>4

\* g goes from w at 0 to n, each time by step.
IsRecursive(n, S, w, step, g) ==
  g \in [0..n -> S] /\ g[0] = w /\ \A i \in 1..n : g[i] = step[i][g[i - 1]]
IsStep(n, S, step) == step \in [1..n -> [S -> S]]

\* A function may be defined by what it is at 0 and by a step from each number to the next.
LEMMA Recursion ==
  ASSUME NEW n \in Nat, NEW S, NEW w \in S, NEW step, IsStep(n, S, step)
  PROVE  \E g : IsRecursive(n, S, w, step, g)
  <1> DEFINE Ns == {m \in 0..n : \E g : IsRecursive(m, S, w, step, g)}
  <1>1. 0 \in Ns
    <2> DEFINE g == [i \in 0..0 |-> w]
    <2>1. IsRecursive(0, S, w, step, g)
      BY DEF IsRecursive
    <2>2. 0 \in 0..n
      OBVIOUS
    <2> HIDE DEF g
    <2> QED
      BY <2>1, <2>2
  <1>2. ASSUME NEW m \in 1..n, m - 1 \in Ns PROVE m \in Ns
    <2>1. PICK g : IsRecursive(m - 1, S, w, step, g)
      BY <1>2
    <2> DEFINE new == step[m][g[m - 1]]
               h == [i \in 0..m |-> IF i = m THEN new ELSE g[i]]
    <2>2. new \in S
      <3>1. g[m - 1] \in S
        BY <2>1 DEF IsRecursive
      <3> QED
        BY <3>1 DEF IsStep
    <2> HIDE DEF new
    <2>3. h \in [0..m -> S]
      BY <2>1, <2>2 DEF IsRecursive
    <2>4. h[0] = w
      BY <2>1 DEF IsRecursive
    <2>5. ASSUME NEW i \in 1..m PROVE h[i] = step[i][h[i - 1]]
      <3>1. CASE i = m
        <4>1. h[i - 1] = g[m - 1] /\ h[i] = new
          BY <3>1
        <4> QED
          BY <3>1, <4>1 DEF new
      <3>2. CASE i # m
        <4>1. i \in 1..(m - 1) /\ h[i] = g[i] /\ h[i - 1] = g[i - 1]
          BY <3>2
        <4> QED
          BY <2>1, <4>1 DEF IsRecursive
      <3> QED
        BY <3>1, <3>2
    <2>6. IsRecursive(m, S, w, step, h)
      BY <2>3, <2>4, <2>5 DEF IsRecursive
    <2> HIDE DEF h
    <2> QED
      BY <2>6
  <1> HIDE DEF Ns
  <1>3. \A i \in 1..n : i - 1 \in Ns => i \in Ns
    BY <1>2
  <1>4. 0..n \subseteq Ns
    BY <1>1, <1>3, Upto
  <1>5. n \in Ns
    BY <1>4
  <1> QED
    BY <1>5 DEF Ns

-----------------------------------------------------------------------------
(* At.                                                                     *)

\* What At goes through, position by position.
Taken(s, T, g) ==
  /\ g[0] = <<>>
  /\ \A i \in 1..Len(s) : g[i] = IF i \in T THEN Append(g[i - 1], s[i]) ELSE g[i - 1]

\* At is the last of its steps: the recursive function of its definition exists.
LEMMA AtIsTaken ==
  ASSUME NEW S, NEW s \in Seq(S), NEW T
  PROVE  \E g \in [0..Len(s) -> Seq(S)] : Taken(s, T, g) /\ At(s, T) = g[Len(s)]
  <1> DEFINE Step(f, i) == IF i = 0 THEN <<>>
                           ELSE IF i \in T THEN Append(f[i - 1], s[i]) ELSE f[i - 1]
             taken == CHOOSE f : f = [i \in 0..Len(s) |-> Step(f, i)]
             step == [i \in 1..Len(s) |-> [x \in Seq(S) |-> IF i \in T THEN Append(x, s[i]) ELSE x]]
  <1>1. At(s, T) = taken[Len(s)]
    BY DEF At
  <1>2. IsStep(Len(s), Seq(S), step) /\ <<>> \in Seq(S) /\ Len(s) \in Nat
    BY DEF IsStep
  <1>3. PICK g : IsRecursive(Len(s), Seq(S), <<>>, step, g)
    <2> HIDE DEF step
    <2> QED
      BY <1>2, Recursion
  <1>4. g \in [0..Len(s) -> Seq(S)] /\ Taken(s, T, g)
    <2>1. \A i \in 1..Len(s) : g[i - 1] \in Seq(S)
      BY <1>3 DEF IsRecursive
    <2> QED
      BY <1>3, <2>1 DEF Taken, IsRecursive
  <1>5. g = [i \in 0..Len(s) |-> Step(g, i)]
    <2>1. \A i \in 0..Len(s) : i = 0 \/ i \in 1..Len(s)
      BY <1>2
    <2>2. \A i \in 1..Len(s) : i # 0
      BY <1>2
    <2>3. \A i \in 0..Len(s) : g[i] = Step(g, i)
      BY <1>4, <2>1, <2>2 DEF Taken
    <2> QED
      BY <1>4, <2>3
  <1>6. taken = [i \in 0..Len(s) |-> Step(taken, i)]
    BY <1>5
  <1>7. \A i \in 0..Len(s) : taken[i] = Step(taken, i)
    <2> HIDE DEF taken, Step
    <2> QED
      BY <1>6
  <1>8. Taken(s, T, taken)
    <2> HIDE DEF taken
    <2> QED
      BY <1>7 DEF Taken
  <1> HIDE DEF taken
  <1> DEFINE Same == {i \in 0..Len(s) : taken[i] = g[i]}
  <1>9. 0 \in Same
    BY <1>4, <1>8 DEF Taken
  <1>10. ASSUME NEW i \in 1..Len(s), i - 1 \in Same PROVE i \in Same
    <2>1. taken[i - 1] = g[i - 1]
      BY <1>10
    <2>2. taken[i] = g[i]
      BY <1>4, <1>8, <2>1 DEF Taken
    <2> QED
      BY <2>2
  <1>11. \A i \in 1..Len(s) : i - 1 \in Same => i \in Same
    BY <1>10
  <1> HIDE DEF Same
  <1>12. 0..Len(s) \subseteq Same
    BY <1>2, <1>9, <1>11, Upto
  <1>13. taken[Len(s)] = g[Len(s)]
    BY <1>2, <1>12 DEF Same
  <1> QED
    BY <1>1, <1>4, <1>13

\* r is s at the positions in T among the first n, order being where each is from.
Selects(s, T, n, r, order) ==
  /\ order \in [1..Len(r) -> T \intersect (1..n)]
  /\ \A i, j \in 1..Len(r) : i < j => order[i] < order[j]
  /\ \A i \in 1..Len(r) : r[i] = s[order[i]]
  /\ \A k \in T \intersect (1..n) : \E i \in 1..Len(r) : order[i] = k

\* One position more.
LEMMA SelectsNext ==
  ASSUME NEW S, NEW s \in Seq(S), NEW T, NEW n \in 1..Len(s), NEW r \in Seq(S), NEW order,
         Selects(s, T, n - 1, r, order)
  PROVE  \E o : Selects(s, T, n, IF n \in T THEN Append(r, s[n]) ELSE r, o)
  <1>1. CASE n \notin T
    <2>1. T \intersect (1..n) = T \intersect (1..(n - 1))
      BY <1>1
    <2>2. Selects(s, T, n, r, order)
      BY <2>1 DEF Selects
    <2> QED
      BY <1>1, <2>2
  <1>2. CASE n \in T
    <2> DEFINE q == Append(r, s[n])
               o == [i \in 1..Len(q) |-> IF i = Len(q) THEN n ELSE order[i]]
    <2>1. /\ q \in Seq(S) /\ Len(q) = Len(r) + 1 /\ Len(r) \in Nat
          /\ q[Len(q)] = s[n] /\ \A i \in 1..Len(r) : q[i] = r[i]
      OBVIOUS
    <2>2. T \intersect (1..n) = (T \intersect (1..(n - 1))) \union {n}
      BY <1>2
    <2> HIDE DEF q
    <2>3. \A i \in 1..Len(q) : i = Len(q) \/ i \in 1..Len(r)
      BY <2>1
    <2>4. o \in [1..Len(q) -> T \intersect (1..n)]
      BY <2>1, <2>2, <2>3 DEF Selects
    <2>5. \A i \in 1..Len(r) : o[i] = order[i] /\ order[i] < n
      BY <2>1 DEF Selects
    <2>6. Len(q) \in 1..Len(q) /\ o[Len(q)] = n
      BY <2>1
    <2>7. ASSUME NEW i \in 1..Len(q), NEW j \in 1..Len(q), i < j PROVE o[i] < o[j]
      <3>1. i \in 1..Len(r)
        BY <2>1, <2>7
      <3>2. CASE j = Len(q)
        BY <2>5, <2>6, <3>1, <3>2
      <3>3. CASE j \in 1..Len(r)
        <4>1. order[i] < order[j]
          BY <2>7, <3>1, <3>3 DEF Selects
        <4>2. o[i] = order[i] /\ o[j] = order[j]
          BY <2>5, <3>1, <3>3
        <4> QED
          BY <4>1, <4>2
      <3> QED
        BY <2>3, <3>2, <3>3
    <2>8. \A i \in 1..Len(q) : q[i] = s[o[i]]
      BY <2>1, <2>3, <2>5, <2>6 DEF Selects
    <2>9. \A k \in T \intersect (1..n) : \E i \in 1..Len(q) : o[i] = k
      <3>1. \A i \in 1..Len(r) : i \in 1..Len(q)
        BY <2>1
      <3> QED
        BY <2>2, <2>5, <2>6, <3>1 DEF Selects
    <2>10. Selects(s, T, n, q, o)
      BY <2>4, <2>7, <2>8, <2>9 DEF Selects
    <2> QED
      BY <1>2, <2>10 DEF q
  <1> QED
    BY <1>1, <1>2

\* What At keeps is what is at the positions in T, each once and in their order.
LEMMA AtSelects ==
  ASSUME NEW S, NEW s \in Seq(S), NEW T
  PROVE  At(s, T) \in Seq(S) /\ \E order : Selects(s, T, Len(s), At(s, T), order)
  <1>1. PICK g \in [0..Len(s) -> Seq(S)] : Taken(s, T, g) /\ At(s, T) = g[Len(s)]
    BY AtIsTaken
  <1> DEFINE Ns == {n \in 0..Len(s) : \E order : Selects(s, T, n, g[n], order)}
  <1>2. 0 \in Ns
    <2> DEFINE o == [i \in 1..0 |-> 0]
    <2>1. g[0] = <<>> /\ 1..0 = {} /\ Len(<<>>) = 0
      BY <1>1 DEF Taken
    <2>2. Selects(s, T, 0, g[0], o)
      BY <2>1 DEF Selects
    <2> HIDE DEF o
    <2> QED
      BY <2>2
  <1>3. ASSUME NEW n \in 1..Len(s), n - 1 \in Ns PROVE n \in Ns
    <2>1. PICK order : Selects(s, T, n - 1, g[n - 1], order)
      BY <1>3
    <2>2. g[n - 1] \in Seq(S) /\ g[n] = IF n \in T THEN Append(g[n - 1], s[n]) ELSE g[n - 1]
      BY <1>1 DEF Taken
    <2>3. \E o : Selects(s, T, n, g[n], o)
      BY <2>1, <2>2, SelectsNext
    <2> QED
      BY <2>3
  <1>4. Len(s) \in Nat
    OBVIOUS
  <1> HIDE DEF Ns
  <1>5. \A n \in 1..Len(s) : n - 1 \in Ns => n \in Ns
    BY <1>3
  <1>6. 0..Len(s) \subseteq Ns
    BY <1>2, <1>4, <1>5, Upto
  <1>7. \E order : Selects(s, T, Len(s), g[Len(s)], order)
    BY <1>4, <1>6 DEF Ns
  <1> QED
    BY <1>1, <1>4, <1>7

\* There are n numbers from 1 to n.
LEMMA PositionsAreFinite == ASSUME NEW n \in Nat PROVE IsFiniteSet(1..n) /\ Cardinality(1..n) = n
  <1>1. /\ \A a, b \in Int : IsFiniteSet(a..b)
        /\ \A a, b \in Int : Cardinality(a..b) = IF a > b THEN 0 ELSE b - a + 1
    BY FS_Interval
  <1>2. 1 \in Int /\ n \in Int
    OBVIOUS
  <1>3. Cardinality(1..n) = IF 1 > n THEN 0 ELSE n - 1 + 1
    BY <1>1, <1>2
  <1> QED
    BY <1>1, <1>2, <1>3

\* As many as there are positions.
LEMMA AtLength ==
  ASSUME NEW S, NEW s \in Seq(S), NEW T \in SUBSET (1..Len(s))
  PROVE  IsFiniteSet(T) /\ Len(At(s, T)) = Cardinality(T) /\ Len(At(s, T)) <= Len(s)
  <1> DEFINE r == At(s, T)
  <1>1. PICK order : Selects(s, T, Len(s), r, order)
    BY AtSelects
  <1>2. Len(r) \in Nat
    BY AtSelects
  <1> HIDE DEF r
  <1>3. T \intersect (1..Len(s)) = T
    OBVIOUS
  <1>4. order \in [1..Len(r) -> T] /\ \A k \in T : \E i \in 1..Len(r) : order[i] = k
    BY <1>1, <1>3 DEF Selects
  <1>5. \A i, j \in 1..Len(r) : order[i] = order[j] => i = j
    <2> SUFFICES ASSUME NEW i \in 1..Len(r), NEW j \in 1..Len(r), i < j, order[i] = order[j]
                 PROVE  FALSE
      BY <1>2
    <2>1. order[i] < order[j] /\ order[i] \in 1..Len(s)
      BY <1>1 DEF Selects
    <2> QED
      BY <2>1
  <1>6. ExistsBijection(1..Len(r), T)
    <2>1. order \in Bijection(1..Len(r), T)
      BY <1>4, <1>5 DEF Bijection, Injection, Surjection, IsInjective
    <2> QED
      BY <2>1 DEF ExistsBijection
  <1>7. IsFiniteSet(T)
    BY <1>2, <1>6, FS_NatBijection
  <1>8. Cardinality(T) = Len(r)
    BY <1>2, <1>6, FS_CountingElements
  <1>9. Cardinality(T) <= Len(s)
    <2>1. Len(s) \in Nat
      OBVIOUS
    <2>2. IsFiniteSet(1..Len(s)) /\ Cardinality(1..Len(s)) = Len(s)
      BY <2>1, PositionsAreFinite
    <2>3. Cardinality(T) <= Cardinality(1..Len(s))
      BY <2>2, FS_Subset
    <2> QED
      BY <2>2, <2>3
  <1> QED
    BY <1>7, <1>8, <1>9 DEF r
=============================================================================
