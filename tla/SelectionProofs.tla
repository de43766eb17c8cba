-------------------------- MODULE SelectionProofs --------------------------
(***************************************************************************)
(* TLAPS proofs about list comprehensions.                                 *)
(***************************************************************************)
EXTENDS Selection, Integers, FiniteSetTheorems, WellFoundedInduction, TLAPS

\* Induction in the form of sets, which the provers can instantiate.
LEMMA SetInduction ==
    ASSUME NEW S, 0 \in S, \A n \in Nat : n \in S => n + 1 \in S
    PROVE  Nat \subseteq S
<1> SUFFICES ASSUME Nat \ S # {} PROVE FALSE
  OBVIOUS
<1> DEFINE R == OpToRel(<, Nat)
<1>1. R = {ss \in Nat \X Nat : ss[1] < ss[2]}
  BY DEF OpToRel
<1>2. IsWellFoundedOn(R, Nat)
  BY NatLessThanWellFounded
<1> HIDE DEF R
<1>3. PICK x \in Nat \ S : \A y \in Nat \ S : <<y, x>> \notin R
  BY <1>2, WFMin
<1>4. x # 0 /\ x - 1 \in Nat
  BY <1>3
<1>5. <<x - 1, x>> \in R
  <2>1. <<x - 1, x>> \in Nat \X Nat
    BY <1>4
  <2>2. x - 1 < x
    BY <1>4
  <2> QED
    BY <1>1, <2>1, <2>2
<1>6. x - 1 \in S
  BY <1>3, <1>4, <1>5
<1>7. x - 1 + 1 = x
  BY <1>3
<1> QED
  BY <1>3, <1>4, <1>6, <1>7

\* What a comprehension has got of the first n elements, for each n.
Collects(u, list, kept, m) ==
    /\ u[0] = << >>
    /\ \A n \in 1..m : u[n] = IF n \in kept THEN Append(u[n - 1], list[n]) ELSE u[n - 1]

LEMMA CollectsExists ==
    ASSUME NEW X, NEW list \in Seq(X), NEW kept
    PROVE  \A m \in 0..Len(list) : \E u \in [0..m -> Seq(X)] : Collects(u, list, kept, m)
<1> DEFINE K == {k \in Nat : k <= Len(list) =>
                    \E u \in [0..k -> Seq(X)] : Collects(u, list, kept, k)}
<1>1. 0 \in K
  <2>1. [n \in 0..0 |-> << >>] \in [0..0 -> Seq(X)]
    OBVIOUS
  <2>2. Collects([n \in 0..0 |-> << >>], list, kept, 0)
    BY DEF Collects
  <2> QED
    BY <2>1, <2>2
<1>2. ASSUME NEW k \in Nat, k \in K PROVE k + 1 \in K
  <2> SUFFICES ASSUME k + 1 <= Len(list)
               PROVE  \E u \in [0..(k + 1) -> Seq(X)] : Collects(u, list, kept, k + 1)
    OBVIOUS
  <2>1. PICK u \in [0..k -> Seq(X)] : Collects(u, list, kept, k)
    BY <1>2
  <2> DEFINE next == IF k + 1 \in kept THEN Append(u[k], list[k + 1]) ELSE u[k]
             v == [n \in 0..(k + 1) |-> IF n <= k THEN u[n] ELSE next]
  <2>2. next \in Seq(X)
    <3>1. list[k + 1] \in X /\ u[k] \in Seq(X)
      OBVIOUS
    <3> QED
      BY <3>1
  <2>3. v \in [0..(k + 1) -> Seq(X)]
    BY <2>2
  <2>4. v[0] = << >>
    BY <2>1 DEF Collects
  <2>5. ASSUME NEW n \in 1..(k + 1)
        PROVE  v[n] = IF n \in kept THEN Append(v[n - 1], list[n]) ELSE v[n - 1]
    <3>1. CASE n <= k
      BY <2>1, <3>1 DEF Collects
    <3>2. CASE n = k + 1
      BY <3>2
    <3> QED
      BY <3>1, <3>2
  <2> HIDE DEF v
  <2> QED
    BY <2>3, <2>4, <2>5 DEF Collects
<1> HIDE DEF K
<1>3. Nat \subseteq K
  BY <1>1, <1>2, SetInduction
<1> QED
  BY <1>3 DEF K

\* Selected is what has been got of the whole list.
LEMMA SelectedCollects ==
    ASSUME NEW X, NEW list \in Seq(X), NEW kept
    PROVE  \E u \in [0..Len(list) -> Seq(X)] :
              Collects(u, list, kept, Len(list)) /\ Selected(list, kept) = u[Len(list)]
<1> DEFINE G(g) == [n \in 0..Len(list) |->
                       IF n = 0 THEN << >>
                       ELSE IF n \in kept THEN Append(g[n - 1], list[n]) ELSE g[n - 1]]
           f == CHOOSE g : g = G(g)
<1>0. Len(list) \in Nat /\ Len(list) \in 0..Len(list)
  OBVIOUS
<1>1. PICK u \in [0..Len(list) -> Seq(X)] : Collects(u, list, kept, Len(list))
  <2>1. \E u \in [0..Len(list) -> Seq(X)] : Collects(u, list, kept, Len(list))
    <3> HIDE DEF f
    <3> QED
      BY <1>0, CollectsExists
  <2> QED
    BY <2>1
<1>2. u = G(u)
  <2>1. ASSUME NEW n \in 0..Len(list) PROVE u[n] = G(u)[n]
    <3>1. CASE n = 0
      BY <1>1, <3>1 DEF Collects
    <3>2. CASE n \in 1..Len(list)
      BY <1>1, <3>2 DEF Collects
    <3> QED
      BY <1>0, <3>1, <3>2
  <2> QED
    BY <2>1
<1>3. \E g : g = G(g)
  BY <1>2
<1>4. f = G(f)
  <2> HIDE DEF G
  <2> QED
    BY <1>3
<1>5. Selected(list, kept) = f[Len(list)]
  BY DEF Selected
<1> HIDE DEF f
<1>6. \A n \in 0..Len(list) : f[n] = u[n]
  <2> DEFINE E == {n \in Nat : n <= Len(list) => f[n] = u[n]}
  <2>1. 0 \in E
    BY <1>2, <1>4
  <2>2. ASSUME NEW n \in Nat, n \in E PROVE n + 1 \in E
    <3> SUFFICES ASSUME n + 1 <= Len(list) PROVE f[n + 1] = u[n + 1]
      OBVIOUS
    <3>1. f[n] = u[n] /\ n + 1 \in 0..Len(list) /\ n + 1 # 0 /\ n + 1 - 1 = n
      BY <1>0, <2>2
    <3>2. G(f)[n + 1] = G(u)[n + 1]
      BY <3>1
    <3> QED
      BY <1>2, <1>4, <3>2
  <2> HIDE DEF E
  <2>3. Nat \subseteq E
    BY <2>1, <2>2, SetInduction
  <2> QED
    BY <1>0, <2>3 DEF E
<1> QED
  BY <1>0, <1>1, <1>5, <1>6
-----------------------------------------------------------------------------
\* Every element that is selected was in the list at a place kept, and every
\* element at such a place is selected.
LEMMA SelectedElements ==
    ASSUME NEW X, NEW list \in Seq(X), NEW kept
    PROVE  LET sel == Selected(list, kept)
           IN  /\ sel \in Seq(X) /\ Len(sel) <= Len(list)
               /\ \A j \in 1..Len(sel) : \E i \in 1..Len(list) : i \in kept /\ sel[j] = list[i]
               /\ \A i \in 1..Len(list) : i \in kept => \E j \in 1..Len(sel) : sel[j] = list[i]
<1>1. PICK u \in [0..Len(list) -> Seq(X)] :
         Collects(u, list, kept, Len(list)) /\ Selected(list, kept) = u[Len(list)]
  BY SelectedCollects
<1> DEFINE P(n) == /\ Len(u[n]) <= n
                   /\ \A j \in 1..Len(u[n]) : \E i \in 1..n : i \in kept /\ u[n][j] = list[i]
                   /\ \A i \in 1..n : i \in kept => \E j \in 1..Len(u[n]) : u[n][j] = list[i]
           E == {n \in Nat : n <= Len(list) => P(n)}
<1>2. 0 \in E
  <2>1. u[0] = << >>
    BY <1>1 DEF Collects
  <2> QED
    BY <2>1
<1>3. ASSUME NEW n \in Nat, n \in E PROVE n + 1 \in E
  <2> SUFFICES ASSUME n + 1 <= Len(list) PROVE P(n + 1)
    OBVIOUS
  <2>0. /\ Len(list) \in Nat /\ n <= Len(list) /\ n + 1 - 1 = n
        /\ n \in 0..Len(list) /\ n + 1 \in 0..Len(list) /\ n + 1 \in 1..Len(list)
    OBVIOUS
  <2>p. P(n)
    <3> HIDE DEF P
    <3> QED
      BY <1>3, <2>0
  <2>q. u[n] \in Seq(X) /\ u[n + 1] \in Seq(X) /\ list[n + 1] \in X
    <3> HIDE DEF P, E
    <3> QED
      BY <2>0
  <2>1. P(n) /\ u[n] \in Seq(X) /\ u[n + 1] \in Seq(X) /\ list[n + 1] \in X /\ n + 1 - 1 = n
    BY <2>0, <2>p, <2>q
  <2>2. u[n + 1] = IF n + 1 \in kept THEN Append(u[n], list[n + 1]) ELSE u[n]
    BY <1>1, <2>0, <2>1 DEF Collects
  <2>3. CASE n + 1 \in kept
    <3>1. Len(u[n + 1]) = Len(u[n]) + 1 /\ u[n + 1][Len(u[n]) + 1] = list[n + 1]
          /\ \A j \in 1..Len(u[n]) : u[n + 1][j] = u[n][j]
      BY <2>1, <2>2, <2>3
    <3>2. Len(u[n]) \in Nat
      BY <2>1
    <3>3. ASSUME NEW j \in 1..Len(u[n + 1])
          PROVE  \E i \in 1..(n + 1) : i \in kept /\ u[n + 1][j] = list[i]
      <4>1. CASE j \in 1..Len(u[n])
        BY <2>1, <3>1, <4>1
      <4>2. CASE j = Len(u[n]) + 1
        BY <2>3, <3>1, <4>2
      <4> QED
        BY <3>1, <3>2, <4>1, <4>2
    <3>4. ASSUME NEW i \in 1..(n + 1), i \in kept
          PROVE  \E j \in 1..Len(u[n + 1]) : u[n + 1][j] = list[i]
      <4>1. CASE i \in 1..n
        <5>1. PICK j \in 1..Len(u[n]) : u[n][j] = list[i]
          BY <2>1, <3>4, <4>1
        <5> QED
          BY <3>1, <3>2, <5>1
      <4>2. CASE i = n + 1
        <5>1. Len(u[n]) + 1 \in 1..Len(u[n + 1])
          BY <3>1, <3>2
        <5> QED
          BY <3>1, <4>2, <5>1
      <4> QED
        BY <3>4, <4>1, <4>2
    <3> QED
      BY <2>1, <3>1, <3>2, <3>3, <3>4
  <2>4. CASE n + 1 \notin kept
    <3>1. u[n + 1] = u[n] /\ Len(u[n]) \in Nat
      BY <2>1, <2>2, <2>4
    <3>2. ASSUME NEW j \in 1..Len(u[n])
          PROVE  \E i \in 1..(n + 1) : i \in kept /\ u[n][j] = list[i]
      BY <2>1
    <3>3. ASSUME NEW i \in 1..(n + 1), i \in kept
          PROVE  \E j \in 1..Len(u[n]) : u[n][j] = list[i]
      <4>1. i \in 1..n
        BY <2>4, <3>3
      <4> QED
        BY <2>1, <3>3, <4>1
    <3> QED
      BY <2>1, <3>1, <3>2, <3>3
  <2> QED
    BY <2>3, <2>4
<1> HIDE DEF E
<1>4. Nat \subseteq E
  BY <1>2, <1>3, SetInduction
<1>5. Len(list) \in Nat /\ u[Len(list)] \in Seq(X)
  OBVIOUS
<1>6. P(Len(list))
  <2> HIDE DEF P
  <2> QED
    BY <1>4, <1>5 DEF E
<1> QED
  BY <1>1, <1>5, <1>6

\* Keeping every place keeps the list.
LEMMA SelectedAll ==
    ASSUME NEW X, NEW list \in Seq(X), NEW kept, 1..Len(list) \subseteq kept
    PROVE  Selected(list, kept) = list
<1>1. PICK u \in [0..Len(list) -> Seq(X)] :
         Collects(u, list, kept, Len(list)) /\ Selected(list, kept) = u[Len(list)]
  BY SelectedCollects
<1> DEFINE E == {n \in Nat : n <= Len(list) =>
                    Len(u[n]) = n /\ \A i \in 1..n : u[n][i] = list[i]}
<1>2. 0 \in E
  <2>1. u[0] = << >>
    BY <1>1 DEF Collects
  <2> QED
    BY <2>1
<1>3. ASSUME NEW n \in Nat, n \in E PROVE n + 1 \in E
  <2> SUFFICES ASSUME n + 1 <= Len(list)
               PROVE  Len(u[n + 1]) = n + 1 /\ \A i \in 1..(n + 1) : u[n + 1][i] = list[i]
    OBVIOUS
  <2>1. /\ Len(u[n]) = n /\ \A i \in 1..n : u[n][i] = list[i]
        /\ u[n] \in Seq(X) /\ list[n + 1] \in X /\ n + 1 - 1 = n /\ n + 1 \in 1..Len(list)
    BY <1>3
  <2>2. u[n + 1] = Append(u[n], list[n + 1])
    <3>1. u[n + 1] = IF n + 1 \in kept THEN Append(u[n + 1 - 1], list[n + 1]) ELSE u[n + 1 - 1]
      BY <1>1, <2>1 DEF Collects
    <3>2. n + 1 \in kept
      BY <2>1
    <3> QED
      BY <2>1, <3>1, <3>2
  <2>3. Len(u[n + 1]) = n + 1 /\ u[n + 1][n + 1] = list[n + 1]
        /\ \A i \in 1..n : u[n + 1][i] = u[n][i]
    BY <2>1, <2>2
  <2> QED
    BY <2>1, <2>3
<1> HIDE DEF E
<1>4. Nat \subseteq E
  BY <1>2, <1>3, SetInduction
<1>5. Len(list) \in Nat /\ u[Len(list)] \in Seq(X)
  OBVIOUS
<1>6. Len(u[Len(list)]) = Len(list) /\ \A i \in 1..Len(list) : u[Len(list)][i] = list[i]
  BY <1>4, <1>5 DEF E
<1>7. u[Len(list)] = list
  <2>1. ASSUME NEW v \in Seq(X), Len(v) = Len(list), \A i \in 1..Len(list) : v[i] = list[i]
        PROVE  v = list
    BY <2>1
  <2> QED
    BY <1>5, <1>6, <2>1
<1> QED
  BY <1>1, <1>7

\* How many elements of a list are of some kind.
Counted(q, kind) == Cardinality({i \in 1..Len(q) : q[i] \in kind})

\* As many elements of any kind are selected as were at the places kept.
LEMMA SelectedCounts ==
    ASSUME NEW X, NEW list \in Seq(X), NEW kept, NEW kind
    PROVE  Counted(Selected(list, kept), kind) =
              Cardinality({i \in 1..Len(list) : i \in kept /\ list[i] \in kind})
<1>1. PICK u \in [0..Len(list) -> Seq(X)] :
         Collects(u, list, kept, Len(list)) /\ Selected(list, kept) = u[Len(list)]
  BY SelectedCollects
<1> DEFINE A(n) == {j \in 1..Len(u[n]) : u[n][j] \in kind}
           B(n) == {i \in 1..n : i \in kept /\ list[i] \in kind}
           E == {n \in Nat : n <= Len(list) => Cardinality(A(n)) = Cardinality(B(n))}
<1>0. ASSUME NEW n \in 0..Len(list)
      PROVE  u[n] \in Seq(X) /\ Len(u[n]) \in Nat /\ IsFiniteSet(A(n)) /\ IsFiniteSet(B(n))
  <2>1. u[n] \in Seq(X) /\ Len(u[n]) \in Nat
    BY <1>0
  <2>2. IsFiniteSet(1..Len(u[n])) /\ IsFiniteSet(1..n)
    BY <2>1, FS_Interval
  <2>3. A(n) \in SUBSET (1..Len(u[n])) /\ B(n) \in SUBSET (1..n)
    OBVIOUS
  <2> HIDE DEF A, B
  <2> QED
    BY <2>1, <2>2, <2>3, FS_Subset
<1>2. 0 \in E
  <2>1. u[0] = << >>
    BY <1>1 DEF Collects
  <2>2. A(0) = {} /\ B(0) = {}
    BY <2>1
  <2> QED
    BY <2>2
<1>3. ASSUME NEW n \in Nat, n \in E PROVE n + 1 \in E
  <2> SUFFICES ASSUME n + 1 <= Len(list) PROVE Cardinality(A(n + 1)) = Cardinality(B(n + 1))
    OBVIOUS
  <2>1. /\ Cardinality(A(n)) = Cardinality(B(n)) /\ n \in 0..Len(list)
        /\ list[n + 1] \in X /\ n + 1 - 1 = n /\ n + 1 \in 1..Len(list)
    BY <1>3
  <2>2. u[n] \in Seq(X) /\ Len(u[n]) \in Nat /\ IsFiniteSet(A(n)) /\ IsFiniteSet(B(n))
    BY <1>0, <2>1
  <2>3. u[n + 1] = IF n + 1 \in kept THEN Append(u[n], list[n + 1]) ELSE u[n]
    BY <1>1, <2>1 DEF Collects
  <2>4. CASE n + 1 \in kept
    <3>1. Len(u[n + 1]) = Len(u[n]) + 1 /\ u[n + 1][Len(u[n]) + 1] = list[n + 1]
          /\ \A j \in 1..Len(u[n]) : u[n + 1][j] = u[n][j]
      BY <2>1, <2>2, <2>3, <2>4
    <3>2. A(n + 1) = A(n) \cup (IF list[n + 1] \in kind THEN {Len(u[n]) + 1} ELSE {})
      BY <2>2, <3>1
    <3>3. B(n + 1) = B(n) \cup (IF list[n + 1] \in kind THEN {n + 1} ELSE {})
      BY <2>1, <2>4
    <3>4. Len(u[n]) + 1 \notin A(n) /\ n + 1 \notin B(n)
      BY <2>2
    <3> HIDE DEF A, B
    <3>5. CASE list[n + 1] \in kind
      <4>1. A(n + 1) = A(n) \cup {Len(u[n]) + 1} /\ B(n + 1) = B(n) \cup {n + 1}
        BY <3>2, <3>3, <3>5
      <4>2. Cardinality(A(n + 1)) = Cardinality(A(n)) + 1
        BY <2>2, <3>4, <4>1, FS_AddElement
      <4>3. Cardinality(B(n + 1)) = Cardinality(B(n)) + 1
        BY <2>2, <3>4, <4>1, FS_AddElement
      <4> QED
        BY <2>1, <4>2, <4>3
    <3>6. CASE list[n + 1] \notin kind
      <4>1. A(n + 1) = A(n) /\ B(n + 1) = B(n)
        BY <3>2, <3>3, <3>6
      <4> QED
        BY <2>1, <4>1
    <3> QED
      BY <3>5, <3>6
  <2>5. CASE n + 1 \notin kept
    <3>1. A(n + 1) = A(n)
      BY <2>3, <2>5
    <3>2. B(n + 1) = B(n)
      BY <2>5
    <3> QED
      BY <2>1, <3>1, <3>2
  <2> QED
    BY <2>4, <2>5
<1> HIDE DEF E
<1>4. Nat \subseteq E
  BY <1>2, <1>3, SetInduction
<1>5. Len(list) \in Nat
  OBVIOUS
<1>6. Cardinality(A(Len(list))) = Cardinality(B(Len(list)))
  BY <1>4, <1>5 DEF E
<1> QED
  BY <1>1, <1>6 DEF Counted
-----------------------------------------------------------------------------
\* Adding to a list, and taking from it, when its elements have a property.
LEMMA ListGrows ==
    ASSUME NEW X, NEW q \in Seq(X), NEW K, \A i \in DOMAIN q : q[i] \in K,
           NEW x \in X, x \in K
    PROVE  /\ Append(q, x) \in Seq(X) /\ Len(Append(q, x)) = Len(q) + 1
           /\ \A i \in DOMAIN Append(q, x) : Append(q, x)[i] \in K
<1>1. Append(q, x) \in Seq(X) /\ Len(q) \in Nat /\ Len(Append(q, x)) = Len(q) + 1
  OBVIOUS
<1>2. ASSUME NEW i \in 1..(Len(q) + 1)
      PROVE  Append(q, x)[i] = IF i = Len(q) + 1 THEN x ELSE q[i]
  BY <1>1
<1>3. DOMAIN q = 1..Len(q) /\ DOMAIN Append(q, x) = 1..(Len(q) + 1)
  BY <1>1
<1> QED
  BY <1>1, <1>2, <1>3

LEMMA ListShrinks ==
    ASSUME NEW X, NEW q \in Seq(X), q # << >>, NEW K, \A i \in DOMAIN q : q[i] \in K
    PROVE  /\ Tail(q) \in Seq(X) /\ Head(q) \in X /\ Head(q) \in K /\ Head(q) = q[1]
           /\ Len(Tail(q)) = Len(q) - 1
           /\ \A i \in DOMAIN Tail(q) : Tail(q)[i] \in K
<1>1. Len(q) \in Nat /\ Len(q) # 0 /\ DOMAIN q = 1..Len(q)
  OBVIOUS
<1>2. /\ Tail(q) \in Seq(X) /\ Head(q) = q[1] /\ q[1] \in X /\ Len(Tail(q)) = Len(q) - 1
      /\ DOMAIN Tail(q) = 1..(Len(q) - 1)
  BY <1>1
<1>3. ASSUME NEW i \in 1..(Len(q) - 1) PROVE Tail(q)[i] = q[i + 1] /\ i + 1 \in 1..Len(q)
  BY <1>1
<1> QED
  BY <1>1, <1>2, <1>3
-----------------------------------------------------------------------------
LEMMA CountedBounds ==
    ASSUME NEW X, NEW q \in Seq(X), NEW kind
    PROVE  /\ Counted(q, kind) \in Nat /\ Counted(q, kind) <= Len(q)
           /\ Counted(q, kind) = Len(q) <=> \A i \in 1..Len(q) : q[i] \in kind
<1> DEFINE S == {i \in 1..Len(q) : q[i] \in kind}
<1>1. Len(q) \in Nat /\ S \in SUBSET (1..Len(q))
  OBVIOUS
<1>2. IsFiniteSet(1..Len(q)) /\ Cardinality(1..Len(q)) = Len(q)
  <2>1. 1 <= Len(q) + 1 /\ Len(q) - 1 + 1 = Len(q)
    BY <1>1
  <2> QED
    BY <1>1, <2>1, FS_Interval
<1> HIDE DEF S
<1>3. IsFiniteSet(S) /\ Cardinality(S) <= Len(q) /\ (Cardinality(S) = Len(q) => S = 1..Len(q))
  BY <1>1, <1>2, FS_Subset
<1>4. Cardinality(S) \in Nat
  BY <1>3, FS_CardinalityType
<1>5. S = 1..Len(q) <=> \A i \in 1..Len(q) : q[i] \in kind
  BY DEF S
<1>6. S = 1..Len(q) => Cardinality(S) = Len(q)
  BY <1>2
<1> QED
  BY <1>3, <1>4, <1>5, <1>6 DEF Counted, S

LEMMA CountedAppend ==
    ASSUME NEW X, NEW q \in Seq(X), NEW x \in X, NEW kind
    PROVE  /\ x \in kind => Counted(Append(q, x), kind) = Counted(q, kind) + 1
           /\ x \notin kind => Counted(Append(q, x), kind) = Counted(q, kind)
<1> DEFINE S == {i \in 1..Len(q) : q[i] \in kind}
           T == {i \in 1..Len(Append(q, x)) : Append(q, x)[i] \in kind}
<1>1. /\ Len(q) \in Nat /\ Len(Append(q, x)) = Len(q) + 1 /\ Append(q, x)[Len(q) + 1] = x
      /\ \A i \in 1..Len(q) : Append(q, x)[i] = q[i]
  OBVIOUS
<1>2. T = S \cup (IF x \in kind THEN {Len(q) + 1} ELSE {}) /\ Len(q) + 1 \notin S
  BY <1>1
<1>3. IsFiniteSet(S)
  <2>1. S \in SUBSET (1..Len(q)) /\ IsFiniteSet(1..Len(q))
    BY <1>1, FS_Interval
  <2> HIDE DEF S
  <2> QED
    BY <2>1, FS_Subset
<1> HIDE DEF S, T
<1>4. x \in kind => Cardinality(T) = Cardinality(S) + 1
  <2>1. x \in kind => T = S \cup {Len(q) + 1}
    BY <1>2
  <2> QED
    BY <1>2, <1>3, <2>1, FS_AddElement
<1>5. x \notin kind => Cardinality(T) = Cardinality(S)
  BY <1>2
<1> QED
  BY <1>4, <1>5 DEF Counted, S, T

LEMMA CountedAlike ==
    ASSUME NEW X, NEW Y, NEW p \in Seq(X), NEW q \in Seq(Y), Len(p) = Len(q), NEW A, NEW B,
           \A i \in 1..Len(q) : p[i] \in A <=> q[i] \in B
    PROVE  Counted(p, A) = Counted(q, B)
<1>1. {i \in 1..Len(p) : p[i] \in A} = {i \in 1..Len(q) : q[i] \in B}
  OBVIOUS
<1> QED
  BY <1>1 DEF Counted

\* A comprehension that keeps the elements of one kind.
LEMMA KeptCounts ==
    ASSUME NEW X, NEW list \in Seq(X), NEW S, NEW kind,
           NEW kept, \A i \in 1..Len(list) : i \in kept <=> list[i] \in S
    PROVE  Counted(Selected(list, kept), kind) = Counted(list, S \cap kind)
<1>1. {i \in 1..Len(list) : i \in kept /\ list[i] \in kind} =
         {i \in 1..Len(list) : list[i] \in S \cap kind}
  OBVIOUS
<1>2. Counted(Selected(list, kept), kind) =
         Cardinality({i \in 1..Len(list) : i \in kept /\ list[i] \in kind})
  BY SelectedCounts
<1> QED
  BY <1>1, <1>2 DEF Counted

\* It gives elements of that kind only, and the list if all are of it.
LEMMA KeptElements ==
    ASSUME NEW X, NEW list \in Seq(X), NEW S,
           NEW kept, \A i \in 1..Len(list) : i \in kept <=> list[i] \in S
    PROVE  LET sel == Selected(list, kept)
           IN  /\ sel \in Seq(X \cap S) /\ Len(sel) = Counted(list, S)
               /\ Counted(list, S) = Len(list) => sel = list
<1> DEFINE sel == Selected(list, kept)
<1>0. DOMAIN list = 1..Len(list) /\ Len(list) \in Nat
  OBVIOUS
<1>1. /\ sel \in Seq(X)
      /\ \A j \in 1..Len(sel) : \E i \in 1..Len(list) : i \in kept /\ sel[j] = list[i]
  BY SelectedElements
<1>2. \A j \in 1..Len(sel) : sel[j] \in X \cap S
  <2> HIDE DEF sel
  <2> QED
    BY <1>1
<1>3. sel \in Seq(X \cap S)
  <2>1. \A q \in Seq(X) : (\A j \in 1..Len(q) : q[j] \in X \cap S) => q \in Seq(X \cap S)
    OBVIOUS
  <2> HIDE DEF sel
  <2> QED
    BY <1>1, <1>2, <2>1
<1>4. Counted(sel, X) = Counted(list, S)
  <2>1. Counted(sel, X) = Cardinality({i \in 1..Len(list) : i \in kept /\ list[i] \in X})
    BY SelectedCounts
  <2>2. {i \in 1..Len(list) : i \in kept /\ list[i] \in X} = {i \in 1..Len(list) : list[i] \in S}
    BY <1>0
  <2> QED
    BY <2>1, <2>2 DEF Counted
<1>5. Counted(sel, X) = Len(sel)
  <2> HIDE DEF sel
  <2>1. \A j \in 1..Len(sel) : sel[j] \in X
    BY <1>2
  <2> QED
    BY <1>1, <2>1, CountedBounds
<1>6. ASSUME Counted(list, S) = Len(list) PROVE sel = list
  <2>1. \A i \in 1..Len(list) : list[i] \in S
    BY <1>6, CountedBounds
  <2>2. 1..Len(list) \subseteq kept
    BY <1>0, <2>1
  <2> QED
    BY <2>2, SelectedAll
<1> QED
  BY <1>3, <1>4, <1>5, <1>6
=============================================================================
