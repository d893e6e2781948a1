---------------------------- MODULE ShortcutsProofs ----------------------------
(***************************************************************************)
(* What Install and Remove do to the user's files, for every config, every *)
(* number of requests and every edit of the user between their steps.      *)
(*                                                                         *)
(* First the edits of a text: they leave the user's lines alone, whatever  *)
(* the text is.  Then the invariant that the requests keep together: what  *)
(* one of them has read are the user's lines as they still are, because    *)
(* what the others write in between leaves these alone too; only an edit   *)
(* of the user makes them old.  And the file in the place of Vault's is    *)
(* not somebody else's when it is written.                                 *)
(***************************************************************************)
EXTENDS Shortcuts, FiniteSetTheorems, SequenceTheorems, TLAPS

-------------------------------------------------------------------------------
(* The lines that are picked from a text. *)

Below(I, i) == {j \in I : j < i}

(* Of a finite set of places, those before a place of it are fewer than    *)
(* all, and fewer than those before a later one.                           *)
LEMMA BelowSize ==
  ASSUME NEW I \in SUBSET Nat, IsFiniteSet(I), NEW i \in I
  PROVE  /\ IsFiniteSet(Below(I, i))
         /\ Cardinality(Below(I, i)) \in Nat
         /\ Cardinality(Below(I, i)) < Cardinality(I)
         /\ \A j \in I : i < j => Cardinality(Below(I, i)) < Cardinality(Below(I, j))
<1>1. /\ IsFiniteSet(I \ {i}) /\ Cardinality(I \ {i}) = Cardinality(I) - 1
      /\ Cardinality(I) \in Nat
  BY FS_RemoveElement, FS_CardinalityType
<1>2. Below(I, i) \in SUBSET (I \ {i})
  BY DEF Below
<1>3. IsFiniteSet(Below(I, i)) /\ Cardinality(Below(I, i)) <= Cardinality(I) - 1
  BY <1>1, <1>2, FS_Subset
<1>4. Cardinality(Below(I, i)) \in Nat
  BY <1>3, FS_CardinalityType
<1>5. ASSUME NEW j \in I, i < j
      PROVE  Cardinality(Below(I, i)) < Cardinality(Below(I, j))
  <2>1. Below(I, i) \cup {i} \in SUBSET Below(I, j)
    <3>1. i \in Nat /\ j \in Nat /\ \A k \in I : k \in Nat
      OBVIOUS
    <3>2. \A k \in I : k < i => k < j
      BY <1>5, <3>1
    <3> QED BY <1>5, <3>2 DEF Below
  <2>2. IsFiniteSet(Below(I, j)) /\ Cardinality(Below(I, j)) \in Nat
    <3>1. Below(I, j) \in SUBSET I
      BY DEF Below
    <3> QED BY <3>1, FS_Subset, FS_CardinalityType
  <2>3. i \notin Below(I, i)
    BY DEF Below
  <2>4. Cardinality(Below(I, i) \cup {i}) = Cardinality(Below(I, i)) + 1
    BY <1>3, <2>3, FS_AddElement
  <2>5. Cardinality(Below(I, i) \cup {i}) <= Cardinality(Below(I, j))
    BY <2>1, <2>2, FS_Subset
  <2> QED BY <1>4, <2>2, <2>4, <2>5
<1> QED BY <1>1, <1>3, <1>4, <1>5

(* There is an n-th place, and Place names it.                             *)
LEMMA PlaceIs ==
  ASSUME NEW I \in SUBSET Nat, IsFiniteSet(I), NEW n \in 1 .. Cardinality(I)
  PROVE  Place(I, n) \in I /\ Cardinality(Below(I, Place(I, n))) = n - 1
<1> DEFINE T == 1 .. Cardinality(I)
           f == [i \in I |-> Cardinality(Below(I, i)) + 1]
<1>1. Cardinality(I) \in Nat
  BY FS_CardinalityType
<1>2. f \in Injection(I, T)
  <2>1. \A i \in I : f[i] \in T
    BY <1>1, BelowSize
  <2>2. ASSUME NEW i \in I, NEW j \in I, f[i] = f[j]
        PROVE  i = j
    <3>1. i \in Nat /\ j \in Nat
      OBVIOUS
    <3>2. CASE i < j
      BY <2>2, <3>2, BelowSize
    <3>3. CASE j < i
      BY <2>2, <3>3, BelowSize
    <3> QED BY <3>1, <3>2, <3>3
  <2> QED BY <2>1, <2>2 DEF Injection, IsInjective
<1>3. IsFiniteSet(T) /\ Cardinality(T) = Cardinality(I)
  BY <1>1, FS_Interval
<1>4. f \in Surjection(I, T)
  BY <1>2, <1>3, FS_Injection
<1>5. PICK i \in I : f[i] = n
  BY <1>4 DEF Surjection
<1>6. Cardinality(Below(I, i)) = n - 1
  BY <1>1, <1>5, BelowSize
<1> QED BY <1>6 DEF Place, Below

(* A place is the n-th for one n only.                                     *)
LEMMA PlaceOf ==
  ASSUME NEW I \in SUBSET Nat, IsFiniteSet(I), NEW i \in I
  PROVE  /\ Cardinality(Below(I, i)) + 1 \in 1 .. Cardinality(I)
         /\ Place(I, Cardinality(Below(I, i)) + 1) = i
<1> DEFINE n == Cardinality(Below(I, i)) + 1
           p == Place(I, n)
<1>1. n \in 1 .. Cardinality(I) /\ Cardinality(I) \in Nat
  BY BelowSize, FS_CardinalityType
<1>2. p \in I /\ Cardinality(Below(I, p)) = n - 1
  BY <1>1, PlaceIs
<1>3. ~(p < i) /\ ~(i < p)
  <2>1. Cardinality(Below(I, p)) = Cardinality(Below(I, i))
    BY <1>2, BelowSize
  <2>2. p < i => Cardinality(Below(I, p)) < Cardinality(Below(I, i))
    BY <1>2, BelowSize
  <2>3. i < p => Cardinality(Below(I, i)) < Cardinality(Below(I, p))
    BY <1>2, BelowSize
  <2>4. Cardinality(Below(I, i)) \in Nat
    BY BelowSize
  <2> HIDE DEF p
  <2> QED BY <2>1, <2>2, <2>3, <2>4
<1>4. p \in Nat /\ i \in Nat
  BY <1>2
<1> QED BY <1>1, <1>3, <1>4

(* Place keeps the order.                                                  *)
LEMMA PlaceOrder ==
  ASSUME NEW I \in SUBSET Nat, IsFiniteSet(I),
         NEW m \in 1 .. Cardinality(I), NEW n \in 1 .. Cardinality(I)
  PROVE  m < n <=> Place(I, m) < Place(I, n)
<1>1. Cardinality(I) \in Nat
  BY FS_CardinalityType
<1>2. /\ Place(I, m) \in I /\ Cardinality(Below(I, Place(I, m))) = m - 1
      /\ Place(I, n) \in I /\ Cardinality(Below(I, Place(I, n))) = n - 1
  BY PlaceIs
<1>3. Place(I, m) < Place(I, n) => m - 1 < n - 1
  BY <1>2, BelowSize
<1>4. Place(I, n) < Place(I, m) => n - 1 < m - 1
  BY <1>2, BelowSize
<1>5. Place(I, m) = Place(I, n) => m - 1 = n - 1
  BY <1>2
<1>6. Place(I, m) \in Nat /\ Place(I, n) \in Nat
  BY <1>2
<1> QED BY <1>1, <1>3, <1>4, <1>5, <1>6

(* A text has finitely many lines, and the ones picked from it are a text. *)
LEMMA TextPlaces ==
  ASSUME NEW text, IsText(text), NEW I \in SUBSET DOMAIN text
  PROVE  /\ I \in SUBSET Nat /\ IsFiniteSet(I) /\ Cardinality(I) \in Nat
         /\ DOMAIN text = 1 .. Len(text) /\ Len(text) \in Nat
<1>1. DOMAIN text = 1 .. Len(text) /\ Len(text) \in Nat
  BY DEF IsText
<1>2. IsFiniteSet(DOMAIN text)
  BY <1>1, FS_Interval
<1>3. IsFiniteSet(I)
  BY <1>2, FS_Subset
<1>4. Cardinality(I) \in Nat
  BY <1>3, FS_CardinalityType
<1>5. I \in SUBSET Nat
  BY <1>1
<1> QED BY <1>1, <1>3, <1>4, <1>5

LEMMA FunctionIsText ==
  ASSUME NEW n \in Nat, NEW text, text = [i \in 1 .. n |-> text[i]]
  PROVE  IsText(text) /\ Len(text) = n
<1> DEFINE S == {text[i] : i \in 1 .. n}
<1>1. DOMAIN text = 1 .. n
  OBVIOUS
<1>2. text \in [1 .. n -> S]
  OBVIOUS
<1>3. text \in Seq(S)
  BY <1>2
<1>4. S = {text[i] : i \in DOMAIN text}
  BY <1>1
<1>5. IsText(text)
  BY <1>3, <1>4 DEF IsText
<1> QED BY <1>1, <1>3, <1>5

LEMMA TextIs ==
  ASSUME NEW text, IsText(text)
  PROVE  text = [i \in 1 .. Len(text) |-> text[i]]
<1>1. text \in Seq({text[i] : i \in DOMAIN text})
  BY DEF IsText
<1> QED BY <1>1

LEMMA PickedText ==
  ASSUME NEW text, IsText(text), NEW I \in SUBSET DOMAIN text
  PROVE  IsText(Picked(text, I)) /\ Len(Picked(text, I)) = Cardinality(I)
<1>1. Cardinality(I) \in Nat
  BY TextPlaces
<1>2. Picked(text, I) = [n \in 1 .. Cardinality(I) |-> Picked(text, I)[n]]
  BY DEF Picked
<1> QED BY <1>1, <1>2, FunctionIsText

-------------------------------------------------------------------------------
(* The lines that are not Vault's. *)

(* Of a run of empty lines the first is the user's, if more follows.       *)
LEMMA FirstOfRun ==
  ASSUME NEW text, IsText(text), NEW i \in NotVaults(text), IsBlank(text, i), Between(text, i, Len(text) + 1)
  PROVE  \E h \in TheirLines(text) : h <= i /\ IsBlank(text, h) /\ ~Between(text, h, i)
<1> DEFINE R == {h \in NotVaults(text) : h <= i /\ IsBlank(text, h) /\ ~Between(text, h, i)}
<1>1. /\ R \in SUBSET Nat /\ IsFiniteSet(R) /\ Cardinality(R) \in Nat
      /\ NotVaults(text) \in SUBSET Nat /\ Len(text) \in Nat
  BY TextPlaces DEF NotVaults
<1>2. i \in R
  BY <1>1 DEF Between
<1>3. Cardinality(R) # 0
  BY <1>1, <1>2, FS_EmptySet
<1> HIDE DEF R
<1>4. 1 \in 1 .. Cardinality(R)
  BY <1>1, <1>3
<1> DEFINE h == Place(R, 1)
<1>5. h \in R /\ Cardinality(Below(R, h)) = 1 - 1
  BY <1>1, <1>4, PlaceIs
<1>6. Below(R, h) = {}
  <2>1. IsFiniteSet(Below(R, h))
    BY <1>1, <1>5, BelowSize
  <2>2. Cardinality(Below(R, h)) = 0
    BY <1>5
  <2> QED BY <2>1, <2>2, FS_EmptySet
<1> HIDE DEF h
<1>7. h \in NotVaults(text) /\ h <= i /\ IsBlank(text, h) /\ ~Between(text, h, i) /\ h \in Nat /\ i \in Nat
  BY <1>1, <1>5 DEF R
<1>8. Between(text, h, Len(text) + 1)
  BY <1>1, <1>7 DEF Between
<1>9. ASSUME NEW j \in NotVaults(text), j < h, IsBlank(text, j), ~Between(text, j, h)
      PROVE  FALSE
  <2>1. j \in Nat /\ j <= i /\ j \notin R
    BY <1>1, <1>6, <1>7, <1>9 DEF Below
  <2>2. PICK k \in NotVaults(text) : j < k /\ k < i /\ ~IsBlank(text, k)
    BY <1>9, <2>1 DEF R, Between
  <2>3. ~(k < h) /\ ~(h < k) /\ k \in Nat
    BY <1>1, <1>7, <1>9, <2>2 DEF Between
  <2>4. k = h
    BY <1>7, <2>3
  <2> QED BY <1>7, <2>2, <2>4
<1>10. h \in TheirLines(text)
  BY <1>7, <1>8, <1>9 DEF TheirLines
<1> QED BY <1>7, <1>10

(* Which lines are the user's does not change when others are left out.    *)
LEMMA PickedLines ==
  ASSUME NEW text, IsText(text), NEW I \in SUBSET DOMAIN text, TheirLines(text) \subseteq I
  PROVE  \A n \in 1 .. Cardinality(I) : n \in TheirLines(Picked(text, I)) <=> Place(I, n) \in TheirLines(text)
<1> DEFINE u == Picked(text, I)
           c == Cardinality(I)
           N == NotVaults(text)
           U == NotVaults(u)
           at(n) == Place(I, n)
<1>1. /\ I \in SUBSET Nat /\ IsFiniteSet(I) /\ c \in Nat /\ N \in SUBSET Nat
      /\ DOMAIN text = 1 .. Len(text) /\ Len(text) \in Nat
  BY TextPlaces DEF NotVaults
<1>2. IsText(u) /\ DOMAIN u = 1 .. c /\ Len(u) = c
  BY PickedText DEF Picked
<1>3. \A n \in 1 .. c : at(n) \in I /\ u[n] = text[at(n)]
  BY <1>1, PlaceIs DEF Picked
<1>4. \A m, n \in 1 .. c : m < n <=> at(m) < at(n)
  BY <1>1, PlaceOrder
<1>5. \A k \in I : \E n \in 1 .. c : at(n) = k
  BY <1>1, PlaceOf
<1>6. \A n \in 1 .. c : /\ n \in U <=> at(n) \in N
                        /\ IsBlank(u, n) <=> IsBlank(text, at(n))
  BY <1>2, <1>3 DEF NotVaults, IsBlank
<1>7. \A k \in N : ~IsBlank(text, k) => k \in I
  BY DEF TheirLines
<1>8. U \in SUBSET (1 .. c)
  BY <1>2 DEF NotVaults
<1> HIDE DEF u, c, N, U, at
(* Something stands between two lines afterwards if it did before. *)
<1>9. ASSUME NEW m \in 1 .. c, NEW n \in 1 .. c
      PROVE  Between(u, m, n) <=> Between(text, at(m), at(n))
  <2>1. ASSUME NEW k \in U, m < k, k < n, ~IsBlank(u, k)
        PROVE  Between(text, at(m), at(n))
    <3>1. k \in 1 .. c /\ at(k) \in N /\ at(m) < at(k) /\ at(k) < at(n) /\ ~IsBlank(text, at(k))
      BY <1>4, <1>6, <1>8, <2>1
    <3> QED BY <3>1 DEF Between, N
  <2>2. ASSUME NEW k \in N, at(m) < k, k < at(n), ~IsBlank(text, k)
        PROVE  Between(u, m, n)
    <3>1. PICK l \in 1 .. c : at(l) = k
      BY <1>5, <1>7, <2>2
    <3>2. l \in U /\ m < l /\ l < n /\ ~IsBlank(u, l)
      BY <1>4, <1>6, <2>2, <3>1
    <3> QED BY <3>2 DEF Between, U
  <2> QED BY <2>1, <2>2 DEF Between, N, U
<1>10. ASSUME NEW n \in 1 .. c
       PROVE  Between(u, n, Len(u) + 1) <=> Between(text, at(n), Len(text) + 1)
  <2>1. \A k \in 1 .. c : k < Len(u) + 1
    BY <1>1, <1>2
  <2>2. \A k \in N : k < Len(text) + 1
    BY <1>1 DEF N, NotVaults
  <2>3. ASSUME NEW k \in U, n < k, ~IsBlank(u, k)
        PROVE  Between(text, at(n), Len(text) + 1)
    <3>1. k \in 1 .. c /\ at(k) \in N /\ at(n) < at(k) /\ ~IsBlank(text, at(k))
      BY <1>4, <1>6, <1>8, <2>3
    <3> QED BY <2>2, <3>1 DEF Between, N
  <2>4. ASSUME NEW k \in N, at(n) < k, ~IsBlank(text, k)
        PROVE  Between(u, n, Len(u) + 1)
    <3>1. PICK l \in 1 .. c : at(l) = k
      BY <1>5, <1>7, <2>4
    <3>2. l \in U /\ n < l /\ ~IsBlank(u, l)
      BY <1>4, <1>6, <2>4, <3>1
    <3> QED BY <2>1, <3>2 DEF Between, U
  <2> QED BY <2>3, <2>4 DEF Between, N, U
<1>11. ASSUME NEW n \in 1 .. c, at(n) \in TheirLines(text)
       PROVE  n \in TheirLines(u)
  <2>1. n \in U /\ at(n) \in N
    BY <1>6, <1>11 DEF TheirLines, N
  <2>2. ASSUME IsBlank(u, n), NEW j \in U, j < n, IsBlank(u, j)
        PROVE  Between(u, j, n)
    <3>1. j \in 1 .. c /\ at(j) \in N /\ at(j) < at(n) /\ IsBlank(text, at(j)) /\ IsBlank(text, at(n))
      BY <1>4, <1>6, <1>8, <2>2
    <3>2. Between(text, at(j), at(n))
      BY <1>11, <3>1 DEF TheirLines, N
    <3> QED BY <1>9, <3>1, <3>2
  <2>3. IsBlank(u, n) => Between(u, n, Len(u) + 1)
    BY <1>6, <1>10, <1>11 DEF TheirLines
  <2> QED BY <2>1, <2>2, <2>3 DEF TheirLines, U
<1>12. ASSUME NEW n \in 1 .. c, n \in TheirLines(u)
       PROVE  at(n) \in TheirLines(text)
  <2>1. n \in U /\ at(n) \in N
    BY <1>6, <1>12 DEF TheirLines, U
  <2>2. CASE ~IsBlank(text, at(n))
    BY <2>1, <2>2 DEF TheirLines, N
  <2>3. CASE IsBlank(text, at(n))
    <3>1. Between(text, at(n), Len(text) + 1)
      BY <1>6, <1>10, <1>12, <2>3 DEF TheirLines
    <3>2. PICK h \in TheirLines(text) : h <= at(n) /\ IsBlank(text, h) /\ ~Between(text, h, at(n))
      BY <2>1, <2>3, <3>1, FirstOfRun DEF N
    <3>3. PICK m \in 1 .. c : at(m) = h
      BY <1>5
    <3>4. h \in N
      BY DEF TheirLines, N
    <3>5. m \in U /\ IsBlank(u, m) /\ ~Between(u, m, n)
      BY <1>6, <1>9, <3>2, <3>3, <3>4
    <3>6. ~(m < n)
      BY <1>6, <1>12, <2>3, <3>5 DEF TheirLines, U
    <3>7. ~(h < at(n)) /\ h \in Nat /\ at(n) \in Nat
      BY <1>1, <1>3, <1>4, <3>3, <3>6
    <3>8. h = at(n)
      BY <3>2, <3>7
    <3> QED BY <3>8
  <2> QED BY <2>2, <2>3
<1> QED BY <1>11, <1>12 DEF u, c, at

(* Picking lines from a text keeps the user's lines in their order, if     *)
(* none of them is left out: the n-th of them is the same line before and  *)
(* after.                                                                  *)
LEMMA TheirsPicked ==
  ASSUME NEW text, IsText(text), NEW I \in SUBSET DOMAIN text, TheirLines(text) \subseteq I
  PROVE  Theirs(Picked(text, I)) = Theirs(text)
<1> DEFINE u == Picked(text, I)
           K == TheirLines(text)
           J == TheirLines(u)
           g == [n \in J |-> Place(I, n)]
<1>1. /\ I \in SUBSET Nat /\ IsFiniteSet(I) /\ Cardinality(I) \in Nat
      /\ K \in SUBSET I /\ K \in SUBSET Nat /\ IsFiniteSet(K) /\ Cardinality(K) \in Nat
  BY TextPlaces DEF TheirLines, NotVaults
<1>2. IsText(u) /\ J \in SUBSET DOMAIN u /\ DOMAIN u = 1 .. Cardinality(I)
  BY PickedText DEF Picked, TheirLines, NotVaults
<1>3. J \in SUBSET Nat /\ IsFiniteSet(J) /\ Cardinality(J) \in Nat
  BY <1>2, TextPlaces
<1>4. \A n \in 1 .. Cardinality(I) : Place(I, n) \in I /\ u[n] = text[Place(I, n)]
  BY <1>1, PlaceIs DEF Picked
<1>6. \A m, n \in 1 .. Cardinality(I) : m < n <=> Place(I, m) < Place(I, n)
  BY <1>1, PlaceOrder
<1>7. \A k \in I : \E n \in 1 .. Cardinality(I) : Place(I, n) = k
  BY <1>1, PlaceOf
<1>5. \A n \in 1 .. Cardinality(I) : n \in J <=> Place(I, n) \in K
  BY PickedLines
<1> HIDE DEF u, K, J
<1>8. g \in Bijection(J, K)
  <2>1. \A n \in J : g[n] \in K
    BY <1>2, <1>5
  <2>2. \A m, n \in J : g[m] = g[n] => m = n
    <3>1. ASSUME NEW m \in J, NEW n \in J, g[m] = g[n]
          PROVE  m = n
      <4>1. m \in 1 .. Cardinality(I) /\ n \in 1 .. Cardinality(I) /\ Place(I, m) = Place(I, n)
        BY <1>2, <3>1
      <4>2. Place(I, m) \in Nat
        BY <1>1, <1>4, <4>1
      <4>3. ~(m < n) /\ ~(n < m)
        BY <1>6, <4>1, <4>2
      <4> QED BY <1>1, <4>1, <4>3
    <3> QED BY <3>1
  <2>3. \A k \in K : \E n \in J : g[n] = k
    BY <1>1, <1>5, <1>7
  <2> QED BY <2>1, <2>2, <2>3 DEF Bijection, Injection, Surjection, IsInjective
<1>9. Cardinality(K) = Cardinality(J)
  BY <1>3, <1>8, FS_Bijection DEF ExistsBijection
<1>10. ASSUME NEW m \in 1 .. Cardinality(K)
       PROVE  Place(K, m) = Place(I, Place(J, m)) /\ Place(J, m) \in 1 .. Cardinality(I)
  <2> DEFINE n == Place(J, m)
             k == Place(I, n)
  <2>1. n \in J /\ Cardinality(Below(J, n)) = m - 1
    BY <1>3, <1>9, PlaceIs
  <2>2. n \in 1 .. Cardinality(I) /\ k \in K
    BY <1>2, <1>5, <2>1
  <2> HIDE DEF n
  <2>3. [x \in Below(J, n) |-> g[x]] \in Bijection(Below(J, n), Below(K, k))
    <3> DEFINE h == [x \in Below(J, n) |-> g[x]]
    <3>1. \A x \in Below(J, n) : h[x] \in Below(K, k)
      BY <1>2, <1>5, <1>6, <2>2 DEF Below
    <3>2. \A x, y \in Below(J, n) : h[x] = h[y] => x = y
      BY <1>8 DEF Below, Bijection, Injection, IsInjective
    <3>3. \A z \in Below(K, k) : \E x \in Below(J, n) : h[x] = z
      <4>1. ASSUME NEW z \in Below(K, k)
            PROVE  \E x \in Below(J, n) : h[x] = z
        <5>1. PICK x \in J : g[x] = z
          BY <1>8 DEF Below, Bijection, Surjection
        <5>2. x \in 1 .. Cardinality(I) /\ Place(I, x) = z
          BY <1>2, <5>1
        <5>3. x < n
          BY <1>6, <2>2, <5>2 DEF Below
        <5> QED BY <5>1, <5>3 DEF Below
      <4> QED BY <4>1
    <3> HIDE DEF h
    <3> QED BY <3>1, <3>2, <3>3 DEF h, Bijection, Injection, Surjection, IsInjective
  <2>4. IsFiniteSet(Below(J, n))
    BY <1>3, <2>1, BelowSize
  <2>5. Cardinality(Below(K, k)) = m - 1
    BY <2>1, <2>3, <2>4, FS_Bijection DEF ExistsBijection
  <2>6. Place(K, (m - 1) + 1) = k
    BY <1>1, <2>2, <2>5, PlaceOf
  <2>7. (m - 1) + 1 = m
    BY <1>1
  <2> QED BY <2>2, <2>6, <2>7 DEF n
<1>11. Theirs(u) = [m \in 1 .. Cardinality(J) |-> u[Place(J, m)]]
  BY DEF Theirs, Picked, J
<1>12. Theirs(text) = [m \in 1 .. Cardinality(K) |-> text[Place(K, m)]]
  BY DEF Theirs, Picked, K
<1>13. \A m \in 1 .. Cardinality(K) : u[Place(J, m)] = text[Place(K, m)]
  BY <1>4, <1>10
<1>14. Theirs(u) = Theirs(text)
  BY <1>9, <1>11, <1>12, <1>13
<1> QED BY <1>14 DEF u

LEMMA ThreeMore ==
  ASSUME NEW text, IsText(text), NEW a, NEW b, NEW c
  PROVE  LET u == text \o <<a, b, c>>
         IN /\ IsText(u) /\ Len(u) = Len(text) + 3
            /\ \A i \in 1 .. Len(text) : u[i] = text[i]
            /\ u[Len(text) + 1] = a /\ u[Len(text) + 2] = b /\ u[Len(text) + 3] = c
<1> DEFINE u == text \o <<a, b, c>>
           w == <<a, b, c>>
           S == {text[i] : i \in DOMAIN text} \cup {a, b, c}
           n == Len(text)
<1>1. text \in Seq(S) /\ n \in Nat
  <2>1. text \in [1 .. Len(text) -> S] /\ Len(text) \in Nat
    BY DEF IsText
  <2> QED BY <2>1
<1>2. w \in Seq(S) /\ Len(w) = 3 /\ w[1] = a /\ w[2] = b /\ w[3] = c
  OBVIOUS
<1>3. u = text \o w
  OBVIOUS
<1> HIDE DEF w, S, u
<1>4. /\ u \in Seq(S) /\ Len(u) = n + 3
      /\ \A i \in 1 .. n + 3 : u[i] = IF i <= n THEN text[i] ELSE w[i - n]
  <2>1. /\ text \o w \in Seq(S) /\ Len(text \o w) = Len(text) + Len(w)
        /\ \A i \in 1 .. Len(text) + Len(w) : (text \o w)[i] = IF i <= Len(text) THEN text[i] ELSE w[i - Len(text)]
    BY <1>1, <1>2, ConcatProperties
  <2> QED BY <1>2, <1>3, <2>1
<1> HIDE DEF n
<1>5. \A i \in 1 .. n : u[i] = text[i]
  BY <1>1, <1>4
<1>6. u[n + 1] = w[1] /\ u[n + 2] = w[2] /\ u[n + 3] = w[3]
  <2>1. ASSUME NEW k \in 1 .. 3
        PROVE  u[n + k] = w[k]
    <3> DEFINE i == n + k
    <3>1. i \in 1 .. n + 3 /\ ~(i <= n) /\ i - n = k
      BY <1>1
    <3> HIDE DEF i
    <3>2. u[i] = w[i - n]
      BY <1>4, <3>1
    <3> QED BY <3>1, <3>2 DEF i
  <2>2. 1 \in 1 .. 3 /\ 2 \in 1 .. 3 /\ 3 \in 1 .. 3
    OBVIOUS
  <2> QED BY <2>1, <2>2
<1>7. IsText(u)
  <2>1. u \in [1 .. n + 3 -> S] /\ n + 3 \in Nat
    BY <1>1, <1>4, LenProperties
  <2>2. u = [i \in 1 .. n + 3 |-> u[i]]
    BY <2>1
  <2> QED BY <2>1, <2>2, FunctionIsText
<1> QED BY <1>2, <1>4, <1>5, <1>6, <1>7 DEF n, u

(* Lines of Vault's at the end of a text are none of the user's.           *)
LEMMA TheirsLoadLine ==
  ASSUME NEW text, IsText(text), NEW c
  PROVE  IsText(WithLoadLine(text, c)) /\ Theirs(WithLoadLine(text, c)) = Theirs(text)
<1> DEFINE u == WithLoadLine(text, c)
           n == Len(text)
<1>1. n \in Nat /\ DOMAIN text = 1 .. n
  BY TextPlaces
<1>2. /\ IsText(u) /\ Len(u) = n + 3
      /\ \A i \in 1 .. n : u[i] = text[i]
      /\ u[n + 1] = Line("blank", "") /\ u[n + 2] = Line("note", "") /\ u[n + 3] = Line("load", FileFor(c))
  <2> DEFINE x == Line("blank", "")
             y == Line("note", "")
             z == Line("load", FileFor(c))
  <2>1. u = text \o <<x, y, z>>
    BY DEF WithLoadLine
  <2> HIDE DEF u, x, y, z
  <2>2. /\ IsText(u) /\ Len(u) = Len(text) + 3
        /\ \A i \in 1 .. Len(text) : u[i] = text[i]
        /\ u[Len(text) + 1] = x /\ u[Len(text) + 2] = y /\ u[Len(text) + 3] = z
    <3> QED BY <2>1, ThreeMore
  <2> QED BY <2>2 DEF x, y, z
<1> HIDE DEF u, n
<1>3. u[n + 1].kind = "blank" /\ u[n + 2].kind = "note" /\ u[n + 3].kind = "load"
  <2>1. \A kind, arg : Line(kind, arg).kind = kind
    BY DEF Line
  <2> QED BY <1>2, <2>1
<1>4. TheirLines(u) = TheirLines(text)
  <2>1. DOMAIN u = 1 .. n + 3
    BY <1>2, TextPlaces
  <2>2. \A i \in 1 .. n + 3 : i \in 1 .. n \/ i = n + 1 \/ i = n + 2 \/ i = n + 3
    BY <1>1
  <2>3. 1 .. n \subseteq 1 .. n + 3
    BY <1>1
  <2>4. /\ \A i \in 1 .. n : IsBlank(u, i) <=> IsBlank(text, i)
        /\ IsBlank(u, n + 1)
    <3>1. \A i \in 1 .. n : u[i].kind = text[i].kind
      BY <1>2
    <3> QED BY <1>3, <3>1 DEF IsBlank
  <2>5. NotVaults(u) = NotVaults(text) \cup {n + 1} /\ NotVaults(text) \in SUBSET (1 .. n)
    <3>1. NotVaults(text) \in SUBSET (1 .. n) /\ NotVaults(u) \in SUBSET (1 .. n + 3)
      BY <1>1, <2>1 DEF NotVaults
    <3>2. \A i \in 1 .. n : i \in NotVaults(u) <=> i \in NotVaults(text)
      BY <1>1, <1>2, <2>1, <2>3 DEF NotVaults
    <3>3. n + 1 \in NotVaults(u) /\ n + 2 \notin NotVaults(u) /\ n + 3 \notin NotVaults(u)
      <4>1. n + 1 \in DOMAIN u
        BY <1>1, <2>1
      <4> QED BY <1>3, <4>1 DEF NotVaults
    <3> DEFINE M == NotVaults(text)
               U == NotVaults(u)
    <3> HIDE DEF M, U
    <3>4. ASSUME NEW i \in 1 .. n + 3
          PROVE  i \in U <=> i \in M \cup {n + 1}
      <4>1. CASE i \in 1 .. n
        BY <1>1, <3>2, <4>1 DEF M, U
      <4>2. CASE i = n + 1
        BY <3>3, <4>2 DEF U
      <4>3. CASE i = n + 2 \/ i = n + 3
        <5>1. i \notin 1 .. n /\ i # n + 1
          BY <1>1, <4>3
        <5> QED BY <3>1, <3>3, <4>3, <5>1 DEF M, U
      <4> QED BY <2>2, <4>1, <4>2, <4>3
    <3>5. M \cup {n + 1} \in SUBSET (1 .. n + 3) /\ U \in SUBSET (1 .. n + 3)
      BY <1>1, <3>1 DEF M, U
    <3>6. U = M \cup {n + 1}
      BY <3>4, <3>5
    <3> QED BY <3>1, <3>6 DEF M, U
  <2>6. Len(u) + 1 = n + 4 /\ Len(text) + 1 = n + 1
    <3>1. Len(text) = n
      BY DEF n
    <3>2. Len(u) = n + 3
      BY <1>2
    <3> QED BY <1>1, <3>1, <3>2
  <2>7. \A i, j \in 1 .. n : Between(u, i, j) <=> Between(text, i, j)
    BY <1>1, <2>4, <2>5 DEF Between
  <2>8. \A i \in 1 .. n : Between(u, i, Len(u) + 1) <=> Between(text, i, Len(text) + 1)
    BY <1>1, <2>4, <2>5, <2>6 DEF Between
  <2>9. ~Between(u, n + 1, Len(u) + 1)
    BY <1>1, <2>5 DEF Between
  <2>10. n + 1 \notin TheirLines(u)
    BY <2>4, <2>9 DEF TheirLines
  <2>11. \A i \in 1 .. n : i \in TheirLines(u) <=> i \in TheirLines(text)
    BY <1>1, <2>4, <2>5, <2>7, <2>8 DEF TheirLines
  <2>12. TheirLines(u) \in SUBSET NotVaults(u) /\ TheirLines(text) \in SUBSET NotVaults(text)
    BY DEF TheirLines
  <2> QED BY <2>5, <2>10, <2>11, <2>12
<1>5. \A m \in 1 .. Cardinality(TheirLines(text)) :
        u[Place(TheirLines(text), m)] = text[Place(TheirLines(text), m)]
  <2>1. TheirLines(text) \in SUBSET DOMAIN text
    BY DEF TheirLines, NotVaults
  <2>2. TheirLines(text) \in SUBSET Nat /\ IsFiniteSet(TheirLines(text))
    BY <2>1, TextPlaces
  <2> QED BY <1>1, <1>2, <2>1, <2>2, PlaceIs
<1>6. Theirs(u) = Theirs(text)
  BY <1>4, <1>5 DEF Theirs, Picked
<1> QED BY <1>2, <1>6 DEF u

(* Nor is what writeWithout drops or tidies up.                            *)
LEMMA TheirsWithout ==
  ASSUME NEW text, IsText(text)
  PROVE  IsText(writeWithout(text)) /\ Theirs(writeWithout(text)) = Theirs(text)
<1> DEFINE cleaned == Picked(text, Undropped(text))
<1>1. Undropped(text) \in SUBSET DOMAIN text /\ TheirLines(text) \subseteq Undropped(text)
  BY DEF Undropped, TheirLines, NotVaults, Dropped
<1>2. IsText(cleaned) /\ Theirs(cleaned) = Theirs(text)
  BY <1>1, PickedText, TheirsPicked
<1> HIDE DEF cleaned
<1>3. Tidied(cleaned) \in SUBSET DOMAIN cleaned /\ TheirLines(cleaned) \subseteq Tidied(cleaned)
  <2>1. DOMAIN cleaned = 1 .. Len(cleaned) /\ Len(cleaned) \in Nat
    BY <1>2, TextPlaces
  <2>2. ASSUME NEW i \in TheirLines(cleaned), IsBlank(cleaned, i)
        PROVE  (i > 2 => ~IsBlank(cleaned, i - 1)) /\ \E j \in i .. Len(cleaned) : ~IsBlank(cleaned, j)
    <3>1. i \in 1 .. Len(cleaned)
      BY <2>1 DEF TheirLines, NotVaults
    <3>2. \E j \in i .. Len(cleaned) : ~IsBlank(cleaned, j)
      BY <2>1, <2>2 DEF TheirLines, NotVaults, Between
    <3>3. ASSUME i > 2, IsBlank(cleaned, i - 1)
          PROVE  FALSE
      <4>1. i - 1 \in 1 .. Len(cleaned) /\ i - 1 < i
        BY <2>1, <3>1, <3>3
      <4>2. i - 1 \in NotVaults(cleaned)
        BY <2>1, <3>3, <4>1 DEF NotVaults, IsBlank
      <4>3. Between(cleaned, i - 1, i)
        BY <2>2, <3>3, <4>1, <4>2 DEF TheirLines
      <4> QED BY <2>1, <3>1, <4>3 DEF Between, NotVaults
    <3> QED BY <3>2, <3>3
  <2>3. TheirLines(cleaned) \in SUBSET DOMAIN cleaned
    BY DEF TheirLines, NotVaults
  <2> QED BY <2>2, <2>3 DEF Tidied
<1>4. IsText(Picked(cleaned, Tidied(cleaned))) /\ Theirs(Picked(cleaned, Tidied(cleaned))) = Theirs(cleaned)
  BY <1>2, <1>3, PickedText, TheirsPicked
<1>5. CASE cleaned = << >>
  <2> DEFINE v == <<Line("blank", "")>>
  <2>1. writeWithout(text) = v
    BY <1>5 DEF writeWithout, cleaned
  <2>2. IsText(v) /\ TheirLines(v) = {}
    <3>2. v \in Seq({Line("blank", "")}) /\ DOMAIN v = {1} /\ v[1] = Line("blank", "")
      OBVIOUS
    <3>3. v[1].kind = "blank"
      BY <3>2 DEF Line
    <3> HIDE DEF v
    <3>4. {Line("blank", "")} = {v[i] : i \in DOMAIN v}
      <4> DEFINE x == Line("blank", "")
      <4> HIDE DEF x
      <4>1. v[1] = x /\ DOMAIN v = {1}
        BY <3>2 DEF x
      <4>2. {x} = {v[i] : i \in DOMAIN v}
        BY <4>1
      <4> QED BY <4>2 DEF x
    <3>5. IsText(v)
      BY <3>2, <3>4 DEF IsText
    <3> QED BY <3>2, <3>3, <3>5 DEF TheirLines, NotVaults, Between, IsBlank
  <2>3. TheirLines(cleaned) = {}
    BY <1>5 DEF TheirLines, NotVaults
  <2>4. Cardinality({}) = 0
    BY FS_EmptySet
  <2> HIDE DEF v
  <2>5. Theirs(v) = Theirs(cleaned)
    BY <2>2, <2>3, <2>4 DEF Theirs, Picked
  <2> QED BY <1>2, <2>1, <2>2, <2>5
<1>6. CASE cleaned # << >>
  BY <1>2, <1>4, <1>6 DEF writeWithout, cleaned
<1> QED BY <1>5, <1>6

-------------------------------------------------------------------------------
(* What Remove leaves of a text. *)

LEMMA PickedAt ==
  ASSUME NEW text, IsText(text), NEW I \in SUBSET DOMAIN text, NEW n \in DOMAIN Picked(text, I)
  PROVE  /\ n \in 1 .. Cardinality(I) /\ Place(I, n) \in I
         /\ Picked(text, I)[n] = text[Place(I, n)]
<1>1. I \in SUBSET Nat /\ IsFiniteSet(I) /\ DOMAIN Picked(text, I) = 1 .. Cardinality(I)
  BY TextPlaces DEF Picked
<1> QED BY <1>1, PlaceIs DEF Picked

(* All lines of a text are the text.                                       *)
LEMMA PickedAll ==
  ASSUME NEW text, IsText(text)
  PROVE  Picked(text, DOMAIN text) = text
<1> DEFINE I == DOMAIN text
           n == Len(text)
<1>1. I = 1 .. n /\ n \in Nat /\ I \in SUBSET Nat /\ IsFiniteSet(I)
  BY TextPlaces
<1>2. Cardinality(I) = n
  BY <1>1, FS_Interval
<1>3. ASSUME NEW i \in 1 .. n
      PROVE  Place(I, i) = i
  <2>1. Below(I, i) = 1 .. (i - 1)
    BY <1>1 DEF Below
  <2>2. Cardinality(1 .. (i - 1)) = i - 1
    <3>1. i - 1 \in Nat
      BY <1>1
    <3> QED BY <3>1, FS_Interval
  <2>3. Place(I, Cardinality(Below(I, i)) + 1) = i
    BY <1>1, PlaceOf
  <2> QED BY <1>1, <2>1, <2>2, <2>3
<1>4. Picked(text, I) = [i \in 1 .. n |-> text[i]]
  BY <1>2, <1>3 DEF Picked
<1>5. text = [i \in 1 .. n |-> text[i]]
  BY TextIs
<1> QED BY <1>4, <1>5

(* A text without lines of Vault's that is tidy stays as it is.            *)
LEMMA TidyStays ==
  ASSUME NEW text, IsText(text), text # << >>, Undropped(text) = DOMAIN text, Tidied(text) = DOMAIN text
  PROVE  writeWithout(text) = text
BY PickedAll DEF writeWithout

(* Neither the cleaned text nor the tidied one has a line of Vault's.      *)
LEMMA PickedUndropped ==
  ASSUME NEW text, IsText(text), NEW I \in SUBSET DOMAIN text, I \subseteq Undropped(text)
  PROVE  Undropped(Picked(text, I)) = DOMAIN Picked(text, I)
BY PickedAt DEF Undropped

LEMMA OneBlank ==
  LET v == <<Line("blank", "")>>
  IN IsText(v) /\ v # << >> /\ Undropped(v) = DOMAIN v /\ Tidied(v) = DOMAIN v
<1> DEFINE x == Line("blank", "")
           v == <<x>>
<1>1. x.kind = "blank"
  BY DEF Line
<1> HIDE DEF x
<1>2. DOMAIN v = {1} /\ v[1] = x /\ v # << >>
  OBVIOUS
<1>3. IsText(v)
  <2>1. v \in Seq({x}) /\ {x} = {v[i] : i \in DOMAIN v}
    BY <1>2
  <2> QED BY <2>1 DEF IsText
<1> HIDE DEF v
<1>4. Undropped(v) = DOMAIN v /\ Tidied(v) = DOMAIN v
  BY <1>1, <1>2 DEF Undropped, Dropped, Tidied
<1> QED BY <1>2, <1>3, <1>4 DEF v, x

(* Tidying up is done once: what is tidied is tidy.                        *)
LEMMA TidiedTidy ==
  ASSUME NEW text, IsText(text), text # << >>
  PROVE  LET u == Picked(text, Tidied(text))
         IN IsText(u) /\ u # << >> /\ Tidied(u) = DOMAIN u
<1> DEFINE T == Tidied(text)
           u == Picked(text, T)
           m == Cardinality(T)
<1>1. T \in SUBSET DOMAIN text
  BY DEF Tidied
<1>2. /\ T \in SUBSET Nat /\ IsFiniteSet(T) /\ m \in Nat
      /\ DOMAIN text = 1 .. Len(text) /\ Len(text) \in Nat
  BY <1>1, TextPlaces
<1>3. IsText(u) /\ Len(u) = m /\ DOMAIN u = 1 .. m
  BY <1>1, PickedText DEF Picked
<1>4. \A n \in 1 .. m : Place(T, n) \in T /\ Place(T, n) \in Nat /\ u[n] = text[Place(T, n)]
  <2>1. \A n \in DOMAIN u : Place(T, n) \in T /\ u[n] = text[Place(T, n)]
    <3> HIDE DEF T
    <3> QED BY <1>1, PickedAt
  <2> HIDE DEF u, T
  <2> QED BY <1>2, <1>3, <2>1
<1>5. \A k, n \in 1 .. m : k < n <=> Place(T, k) < Place(T, n)
  BY <1>2, PlaceOrder
<1>6. \A p \in T : \E n \in 1 .. m : Place(T, n) = p
  BY <1>2, PlaceOf
<1>7. \A i \in DOMAIN text : i \in T <=>
        (i > 1 /\ IsBlank(text, i) => (i > 2 => ~IsBlank(text, i - 1)) /\ \E j \in i .. Len(text) : ~IsBlank(text, j))
  BY DEF Tidied
<1>8. 1 \in T
  <2>1. DOMAIN text # {}
    BY <1>2 DEF IsText
  <2>2. 1 \in DOMAIN text
    BY <1>2, <2>1
  <2> QED BY <1>7, <2>2
<1> HIDE DEF T, u, m
<1>9. u # << >>
  <2>1. 1 \in DOMAIN u
    BY <1>2, <1>3, <1>6, <1>8
  <2> QED BY <2>1
<1>10. ASSUME NEW i \in 1 .. m, i > 1, IsBlank(u, i)
       PROVE  (i > 2 => ~IsBlank(u, i - 1)) /\ \E j \in i .. Len(u) : ~IsBlank(u, j)
  <2> DEFINE p == Place(T, i)
             a == Place(T, 1)
             b == Place(T, i - 1)
  <2>1. 1 \in 1 .. m /\ i - 1 \in 1 .. m /\ i \in Nat
    BY <1>2, <1>10
  <2>2. p \in T /\ p \in DOMAIN text /\ p \in Nat /\ a \in Nat /\ b \in Nat /\ IsBlank(text, p)
    BY <1>1, <1>4, <1>10, <2>1 DEF IsBlank
  <2>3. a < p /\ b < p
    BY <1>2, <1>5, <1>10, <2>1
  <2>4. a >= 1 /\ b >= 1
    BY <1>1, <1>2, <1>4, <2>1
  <2>5. i > 2 => a < b
    BY <1>2, <1>5, <2>1
  <2>6. p > 1
    BY <2>2, <2>3, <2>4
  <2>7. (p > 2 => ~IsBlank(text, p - 1)) /\ \E j \in p .. Len(text) : ~IsBlank(text, j)
    BY <1>7, <2>2, <2>6
  <2>8. i > 2 => ~IsBlank(u, i - 1)
    <3>1. ASSUME i > 2
          PROVE  ~IsBlank(u, i - 1)
      <4>1. p > 2
        BY <2>2, <2>3, <2>4, <2>5, <3>1
      <4>2. p - 1 \in DOMAIN text /\ ~IsBlank(text, p - 1)
        BY <1>2, <2>2, <2>7, <4>1
      <4>3. p - 1 \in T
        BY <1>7, <4>2
      <4>4. PICK k \in 1 .. m : Place(T, k) = p - 1
        BY <1>6, <4>3
      <4>5. k < i
        BY <1>5, <2>2, <4>4
      <4>6. ~(k < i - 1)
        <5>1. k < i - 1 => Place(T, k) < b
          BY <1>5, <2>1, <4>4
        <5> QED BY <2>2, <2>3, <4>4, <5>1
      <4>7. k = i - 1
        BY <1>2, <4>5, <4>6
      <4> QED BY <1>4, <2>1, <4>2, <4>4, <4>7 DEF IsBlank
    <3> QED BY <3>1
  <2>9. \E j \in i .. Len(u) : ~IsBlank(u, j)
    <3>1. PICK q \in p .. Len(text) : ~IsBlank(text, q)
      BY <2>7
    <3>2. q \in DOMAIN text /\ q >= p /\ q \in Nat
      BY <1>2, <2>2, <2>6, <3>1
    <3>3. q \in T
      BY <1>7, <3>1, <3>2
    <3>4. PICK j \in 1 .. m : Place(T, j) = q
      BY <1>6, <3>3
    <3>5. ~(j < i)
      <4>1. j < i => q < p
        BY <1>5, <3>4
      <4> HIDE DEF p
      <4> QED BY <2>2, <3>2, <4>1
    <3>6. j \in i .. Len(u)
      BY <1>2, <1>3, <3>4, <3>5
    <3>7. ~IsBlank(u, j)
      BY <1>4, <3>1, <3>4 DEF IsBlank
    <3> QED BY <3>6, <3>7
  <2> QED BY <2>8, <2>9
<1>11. Tidied(u) = DOMAIN u
  BY <1>3, <1>10 DEF Tidied
<1> QED BY <1>3, <1>9, <1>11 DEF u, T

(* Vault's lines at the end of a text: one line of them is not dropped.    *)
LEMMA UndroppedLoadLine ==
  ASSUME NEW text, IsText(text), NEW c
  PROVE  LET u == WithLoadLine(text, c)
             d == Picked(text, Undropped(text))
             e == Picked(u, Undropped(u))
         IN /\ IsText(d) /\ IsText(e) /\ Len(e) = Len(d) + 1
            /\ \A i \in 1 .. Len(d) : e[i] = d[i]
            /\ e[Len(d) + 1] = Line("blank", "")
<1> DEFINE u == WithLoadLine(text, c)
           n == Len(text)
           I == Undropped(text)
           J == Undropped(u)
           k == Cardinality(I)
<1>1. I \in SUBSET DOMAIN text /\ J \in SUBSET DOMAIN u
  BY DEF Undropped
<1>2. n \in Nat /\ DOMAIN text = 1 .. n /\ I \in SUBSET Nat /\ IsFiniteSet(I) /\ k \in Nat
  BY <1>1, TextPlaces
<1>3. IsText(u)
  BY TheirsLoadLine
<1>4. /\ Len(u) = n + 3 /\ \A i \in 1 .. n : u[i] = text[i]
      /\ u[n + 1] = Line("blank", "") /\ u[n + 2] = Line("note", "") /\ u[n + 3] = Line("load", FileFor(c))
  <2> DEFINE x == Line("blank", "")
             y == Line("note", "")
             z == Line("load", FileFor(c))
  <2>1. u = text \o <<x, y, z>>
    BY DEF WithLoadLine
  <2> HIDE DEF u, x, y, z
  <2>2. /\ Len(u) = Len(text) + 3
        /\ \A i \in 1 .. Len(text) : u[i] = text[i]
        /\ u[Len(text) + 1] = x /\ u[Len(text) + 2] = y /\ u[Len(text) + 3] = z
    BY <2>1, ThreeMore
  <2> QED BY <2>2 DEF x, y, z
<1>5. u[n + 1].kind = "blank" /\ u[n + 2].kind = "note" /\ u[n + 3].kind = "load"
  <2>1. \A kind, arg : Line(kind, arg).kind = kind
    BY DEF Line
  <2> HIDE DEF u
  <2> QED BY <1>4, <2>1
<1>6. DOMAIN u = 1 .. n + 3
  BY <1>3, <1>4, TextPlaces
<1> HIDE DEF u
<1>7. \A i \in 1 .. n + 3 : i \in 1 .. n \/ i = n + 1 \/ i = n + 2 \/ i = n + 3
  BY <1>2
<1>8. n + 1 \in 1 .. n + 3 /\ n + 1 \notin 1 .. n /\ 1 .. n \subseteq 1 .. n + 3
  BY <1>2
<1> HIDE DEF n
<1>9. J = I \cup {n + 1}
  BY <1>2, <1>4, <1>5, <1>6, <1>7, <1>8 DEF Undropped, Dropped
<1>10. n + 1 \notin I
  BY <1>1, <1>2, <1>8
<1> HIDE DEF I, J, k
<1>11. J \in SUBSET Nat /\ IsFiniteSet(J) /\ Cardinality(J) = k + 1
  BY <1>2, <1>9, <1>10, FS_AddElement DEF k
<1>12. ASSUME NEW i \in 1 .. k
       PROVE  Place(J, i) = Place(I, i) /\ Place(I, i) \in 1 .. n
  <2> DEFINE p == Place(I, i)
  <2>1. p \in I /\ Cardinality(Below(I, p)) = i - 1
    BY <1>2, PlaceIs DEF k
  <2>2. p \in 1 .. n /\ p \in J
    BY <1>1, <1>2, <1>9, <2>1
  <2> HIDE DEF p
  <2>3. Below(J, p) = Below(I, p)
    <3>1. ~(n + 1 < p)
      BY <1>2, <2>2
    <3> QED BY <1>9, <3>1 DEF Below
  <2>4. Place(J, Cardinality(Below(J, p)) + 1) = p
    BY <1>11, <2>2, PlaceOf
  <2>5. (i - 1) + 1 = i
    OBVIOUS
  <2> QED BY <2>1, <2>2, <2>3, <2>4, <2>5 DEF p
<1>13. Place(J, k + 1) = n + 1
  <2>1. Below(J, n + 1) = I
    <3>1. \A i \in I : i < n + 1
      BY <1>1, <1>2
    <3>2. ~(n + 1 < n + 1)
      BY <1>2
    <3> QED BY <1>9, <3>1, <3>2 DEF Below
  <2>2. Place(J, Cardinality(Below(J, n + 1)) + 1) = n + 1
    BY <1>9, <1>11, PlaceOf
  <2> QED BY <2>1, <2>2 DEF k
<1> DEFINE d == Picked(text, I)
           e == Picked(u, J)
<1>14. IsText(d) /\ Len(d) = k /\ IsText(e) /\ Len(e) = k + 1
  BY <1>1, <1>3, <1>11, PickedText DEF k
<1>15. \A i \in 1 .. k : d[i] = text[Place(I, i)]
  BY DEF Picked, k
<1>16. \A i \in 1 .. k + 1 : e[i] = u[Place(J, i)]
  BY <1>11 DEF Picked
<1>17. 1 .. k \subseteq 1 .. k + 1 /\ k + 1 \in 1 .. k + 1
  BY <1>2
<1> HIDE DEF d, e
<1>18. \A i \in 1 .. k : e[i] = d[i]
  BY <1>4, <1>12, <1>15, <1>16, <1>17
<1>19. e[k + 1] = Line("blank", "")
  BY <1>4, <1>13, <1>16, <1>17
<1> QED BY <1>14, <1>18, <1>19 DEF d, e, u, I, J

(* An empty line more at the end is tidied away, unless it is the only one. *)
LEMMA TidiedEnd ==
  ASSUME NEW d, IsText(d), d # << >>, NEW e, IsText(e), Len(e) = Len(d) + 1,
         \A i \in 1 .. Len(d) : e[i] = d[i], IsBlank(e, Len(d) + 1)
  PROVE  Picked(e, Tidied(e)) = Picked(d, Tidied(d))
<1> DEFINE m == Len(d)
<1>1. m \in Nat /\ DOMAIN d = 1 .. m /\ DOMAIN e = 1 .. m + 1 /\ Len(e) = m + 1
  BY TextPlaces
<1>2. m > 0
  <2>1. DOMAIN d # {}
    BY <1>1 DEF IsText
  <2> QED BY <1>1, <2>1
<1>3. \A i \in 1 .. m : e[i] = d[i]
  OBVIOUS
<1>4. IsBlank(e, m + 1)
  OBVIOUS
<1> HIDE DEF m
<1>5. \A i \in 1 .. m + 1 : i \in 1 .. m \/ i = m + 1
  BY <1>1
<1>6. m + 1 \notin Tidied(e)
  <2>1. m + 1 > 1 /\ \A j \in m + 1 .. m + 1 : j = m + 1
    BY <1>1, <1>2
  <2> QED BY <1>1, <1>4, <2>1 DEF Tidied
<1>7. ASSUME NEW i \in 1 .. m
      PROVE  i \in Tidied(e) <=> i \in Tidied(d)
  <2>1. IsBlank(e, i) <=> IsBlank(d, i)
    BY <1>3 DEF IsBlank
  <2>2. i > 2 => (IsBlank(e, i - 1) <=> IsBlank(d, i - 1))
    <3>1. i > 2 => i - 1 \in 1 .. m
      BY <1>1
    <3> QED BY <1>3, <3>1 DEF IsBlank
  <2>3. (\E j \in i .. m + 1 : ~IsBlank(e, j)) <=> (\E j \in i .. m : ~IsBlank(d, j))
    <3>1. \A j \in i .. m + 1 : j \in i .. m \/ j = m + 1
      BY <1>1
    <3>2. \A j \in i .. m : j \in i .. m + 1 /\ j \in 1 .. m
      BY <1>1
    <3>3. \A j \in i .. m : IsBlank(e, j) <=> IsBlank(d, j)
      BY <1>3, <3>2 DEF IsBlank
    <3> QED BY <1>4, <3>1, <3>2, <3>3
  <2>4. i \in 1 .. m + 1
    BY <1>1
  <2>5. i \in Tidied(e) <=> (i > 1 /\ IsBlank(e, i) => (i > 2 => ~IsBlank(e, i - 1)) /\ \E j \in i .. m + 1 : ~IsBlank(e, j))
    BY <1>1, <2>4 DEF Tidied
  <2>6. i \in Tidied(d) <=> (i > 1 /\ IsBlank(d, i) => (i > 2 => ~IsBlank(d, i - 1)) /\ \E j \in i .. m : ~IsBlank(d, j))
    BY <1>1 DEF Tidied, m
  <2> QED BY <2>1, <2>2, <2>3, <2>5, <2>6
<1>8. Tidied(e) = Tidied(d)
  <2>1. Tidied(e) \subseteq 1 .. m + 1 /\ Tidied(d) \subseteq 1 .. m
    BY <1>1 DEF Tidied
  <2>2. 1 .. m \subseteq 1 .. m + 1
    BY <1>1
  <2> QED BY <1>5, <1>6, <1>7, <2>1, <2>2
<1> DEFINE T == Tidied(d)
<1>9. T \in SUBSET (1 .. m) /\ T \in SUBSET Nat /\ IsFiniteSet(T)
  <2>1. T \in SUBSET DOMAIN d
    BY DEF Tidied
  <2> QED BY <1>1, <2>1, TextPlaces
<1> HIDE DEF T
<1>10. \A n \in 1 .. Cardinality(T) : e[Place(T, n)] = d[Place(T, n)]
  BY <1>3, <1>9, PlaceIs
<1>11. Picked(e, T) = Picked(d, T)
  BY <1>10 DEF Picked
<1> QED BY <1>8, <1>11 DEF T

(* What writeWithout returns: the tidied text, or one empty line.          *)
LEMMA WithoutIs ==
  ASSUME NEW text, IsText(text)
  PROVE  LET d == Picked(text, Undropped(text))
             w == writeWithout(text)
         IN /\ IsText(d) /\ IsText(w) /\ w # << >>
            /\ Undropped(w) = DOMAIN w /\ Tidied(w) = DOMAIN w
            /\ d # << >> => w = Picked(d, Tidied(d))
            /\ d = << >> => w = <<Line("blank", "")>>
<1> DEFINE d == Picked(text, Undropped(text))
           w == writeWithout(text)
<1>1. IsText(d) /\ Undropped(d) = DOMAIN d
  <2>1. Undropped(text) \in SUBSET DOMAIN text
    BY DEF Undropped
  <2> QED BY <2>1, PickedText, PickedUndropped
<1>2. w = IF d = << >> THEN <<Line("blank", "")>> ELSE Picked(d, Tidied(d))
  BY DEF writeWithout
<1> HIDE DEF d, w
<1>3. CASE d = << >>
  <2> DEFINE v == <<Line("blank", "")>>
  <2>1. IsText(v) /\ v # << >> /\ Undropped(v) = DOMAIN v /\ Tidied(v) = DOMAIN v
    BY OneBlank
  <2>2. w = v
    BY <1>2, <1>3
  <2> HIDE DEF v
  <2>3. IsText(w) /\ w # << >> /\ Undropped(w) = DOMAIN w /\ Tidied(w) = DOMAIN w
    BY <2>1, <2>2
  <2> QED BY <1>1, <1>2, <1>3, <2>3 DEF d, w
<1>4. CASE d # << >>
  <2> DEFINE u == Picked(d, Tidied(d))
  <2>1. w = u
    BY <1>2, <1>4
  <2>2. IsText(u) /\ u # << >> /\ Tidied(u) = DOMAIN u
    BY <1>1, <1>4, TidiedTidy
  <2>3. Tidied(d) \in SUBSET DOMAIN d
    BY DEF Tidied
  <2>4. Undropped(u) = DOMAIN u
    BY <1>1, <2>3, PickedUndropped
  <2> HIDE DEF u
  <2>5. IsText(w) /\ w # << >> /\ Undropped(w) = DOMAIN w /\ Tidied(w) = DOMAIN w
    BY <2>1, <2>2, <2>4
  <2> QED BY <1>1, <1>2, <1>4, <2>5 DEF d, w
<1> QED BY <1>3, <1>4

(* A second Remove finds nothing to do: writeWithout leaves no line of     *)
(* Vault's and changes a text that it has cleaned no more.                 *)
THEOREM RemoveIsDone ==
  ASSUME NEW text, IsText(text)
  PROVE  /\ \A i \in DOMAIN writeWithout(text) : ~Dropped(writeWithout(text)[i])
         /\ writeWithout(writeWithout(text)) = writeWithout(text)
<1> DEFINE w == writeWithout(text)
<1>1. IsText(w) /\ w # << >> /\ Undropped(w) = DOMAIN w /\ Tidied(w) = DOMAIN w
  BY WithoutIs
<1> HIDE DEF w
<1>2. \A i \in DOMAIN w : ~Dropped(w[i])
  BY <1>1 DEF Undropped
<1>3. writeWithout(w) = w
  BY <1>1, TidyStays
<1> QED BY <1>2, <1>3 DEF w

(* Remove undoes Install: after both of them the config is what Remove     *)
(* alone would have made of it.                                            *)
THEOREM RemoveUndoesInstall ==
  ASSUME NEW text, IsText(text), NEW c
  PROVE  writeWithout(WithLoadLine(text, c)) = writeWithout(text)
<1> DEFINE u == WithLoadLine(text, c)
           d == Picked(text, Undropped(text))
           e == Picked(u, Undropped(u))
           v == <<Line("blank", "")>>
<1>1. IsText(u)
  BY TheirsLoadLine
<1>2. /\ IsText(d) /\ IsText(e) /\ Len(e) = Len(d) + 1
      /\ \A i \in 1 .. Len(d) : e[i] = d[i]
      /\ e[Len(d) + 1] = Line("blank", "")
  BY UndroppedLoadLine
<1>3. /\ d # << >> => writeWithout(text) = Picked(d, Tidied(d))
      /\ d = << >> => writeWithout(text) = v
  BY WithoutIs
<1>4. e # << >> => writeWithout(u) = Picked(e, Tidied(e))
  BY <1>1, WithoutIs
<1> HIDE DEF u, d, e, v
<1>5. Len(d) \in Nat /\ DOMAIN d = 1 .. Len(d) /\ DOMAIN e = 1 .. Len(d) + 1
  BY <1>2, TextPlaces
<1>6. e # << >>
  <2>1. 1 \in DOMAIN e
    BY <1>5
  <2> QED BY <2>1
<1>7. CASE d # << >>
  <2>1. IsBlank(e, Len(d) + 1)
    <3>1. Line("blank", "").kind = "blank"
      BY DEF Line
    <3> QED BY <1>2, <3>1 DEF IsBlank
  <2> QED BY <1>2, <1>3, <1>4, <1>6, <1>7, <2>1, TidiedEnd DEF u
<1>8. CASE d = << >>
  <2>1. Len(d) = 0
    BY <1>8
  <2>2. DOMAIN e = 1 .. 1
    BY <1>5, <2>1
  <2>3. e = v
    <3> DEFINE x == Line("blank", "")
               n == Len(d) + 1
    <3>1. e[n] = x
      BY <1>2
    <3>2. n = 1
      BY <2>1
    <3> HIDE DEF x, n
    <3>3. v = <<x>>
      BY DEF v, x
    <3>4. v \in Seq({x}) /\ Len(v) = 1 /\ v[1] = x
      BY <3>3
    <3>5. v = [i \in 1 .. 1 |-> v[i]]
      <4>1. v \in [1 .. Len(v) -> {x}]
        BY <3>4
      <4> QED BY <3>4, <4>1
    <3>6. e = [i \in 1 .. 1 |-> e[i]]
      <4>1. e = [i \in 1 .. Len(e) |-> e[i]]
        BY <1>2, TextIs
      <4>2. Len(e) = n
        BY <1>2 DEF n
      <4> QED BY <3>2, <4>1, <4>2
    <3> QED BY <3>1, <3>2, <3>4, <3>5, <3>6
  <2>4. IsText(v) /\ v # << >> /\ Tidied(v) = DOMAIN v
    BY OneBlank DEF v
  <2>5. Picked(e, Tidied(e)) = v
    BY <2>3, <2>4, PickedAll
  <2> QED BY <1>3, <1>4, <1>6, <1>8, <2>5 DEF u
<1> QED BY <1>7, <1>8 DEF u

-------------------------------------------------------------------------------
(* What Vault writes. *)

(* The lines of Vault's file for a finite set of shortcuts.                *)
LEMMA RenderWritten ==
  ASSUME NEW bs, IsFiniteSet(bs)
  PROVE  IsText(Render(bs)) /\ Written(Render(bs))
<1> DEFINE L(b) == [kind |-> "bind", mods |-> b.mods, key |-> b.key, arg |-> b.id]
           S == {L(b) : b \in bs}
           q == Seqs!SetToSeq(S)
           h == Line("header", "")
           T == S \cup {h}
           t == <<h>> \o q
<1>1. IsFiniteSet(S)
  <2> DEFINE f == [b \in bs |-> L(b)]
  <2> HIDE DEF L
  <2>1. f \in Surjection(bs, S)
    BY DEF Surjection
  <2> QED BY <2>1, FS_Surjection
<1>2. q \in Seq(T)
  <2> HIDE DEF S
  <2>1. Cardinality(S) \in Nat /\ ExistsBijection(1 .. Cardinality(S), S)
    BY <1>1, FS_CardinalityType
  <2>2. \E f \in [1 .. Cardinality(S) -> S] : Seqs!IsInjective(f)
    BY <2>1 DEF ExistsBijection, Bijection, Injection, IsInjective, Seqs!IsInjective
  <2>3. q \in [1 .. Cardinality(S) -> S]
    <3>1. q = CHOOSE f \in [1 .. Cardinality(S) -> S] : Seqs!IsInjective(f)
      BY Zenon DEF Seqs!SetToSeq, Seqs!Cardinality, Cardinality
    <3> HIDE DEF q
    <3> QED BY <2>2, <3>1
  <2> HIDE DEF q, h
  <2>4. q \in [1 .. Cardinality(S) -> T]
    BY <2>3
  <2> QED BY <2>1, <2>4
<1>3. Render(bs) = t
  BY DEF Render
<1> HIDE DEF q, S
<1>4. <<h>> \in Seq(T) /\ Len(<<h>>) = 1 /\ <<h>>[1] = h
  <2> HIDE DEF h
  <2> QED OBVIOUS
<1>5. Len(q) \in Nat
  BY <1>2, LenProperties
<1>6. t \in Seq(T) /\ Len(t) = 1 + Len(q) /\ t[1] = h
  <2> HIDE DEF h, T, t
  <2>1. 1 \in 1 .. 1 + Len(q)
    BY <1>5
  <2>2. /\ <<h>> \o q \in Seq(T) /\ Len(<<h>> \o q) = 1 + Len(q)
        /\ (<<h>> \o q)[1] = h
    BY <1>2, <1>4, <2>1, ConcatProperties
  <2> QED BY <2>2 DEF t
<1>7. h.kind = "header"
  BY DEF Line
<1> HIDE DEF t, T, h
<1>8. t \in [1 .. Len(t) -> T] /\ Len(t) \in Nat
  BY <1>5, <1>6, LenProperties
<1>9. IsText(t)
  <2>1. t = [i \in 1 .. Len(t) |-> t[i]]
    BY <1>8
  <2> QED BY <1>8, <2>1, FunctionIsText
<1>10. t # << >>
  <2>1. 1 \in DOMAIN t
    BY <1>5, <1>6, <1>8
  <2> QED BY <2>1
<1> QED BY <1>3, <1>6, <1>7, <1>9, <1>10 DEF Written

(* What Choose installs is finite, as the plan is.                         *)
LEMMA ChooseFinite ==
  ASSUME NEW existing, NEW useSuggestions
  PROVE  IsFiniteSet(Choose(existing, useSuggestions))
<1> DEFINE s(p) == suggest(p, existing)
           f == [p \in Plan |-> CHOOSE x : s(p) \subseteq {x}]
           T == {f[p] : p \in Plan}
<1>1. IsFiniteSet(T)
  <2>1. f \in Surjection(Plan, T)
    BY DEF Surjection
  <2> QED BY <2>1, PlanAssumption, FS_Surjection
<1>2. \A p : \E x : s(p) \subseteq {x}
  BY DEF suggest
<1> HIDE DEF s
<1>3. \A p \in Plan : s(p) \subseteq T
  <2>1. ASSUME NEW p \in Plan
        PROVE  s(p) \subseteq T
    <3>1. s(p) \subseteq {f[p]}
      BY <1>2
    <3>2. f[p] \in T
      OBVIOUS
    <3> QED BY <3>1, <3>2
  <2> QED BY <2>1
<1>4. IsFiniteSet(Plan \cup T)
  BY <1>1, PlanAssumption, FS_Union
<1>5. Choose(existing, useSuggestions) \in SUBSET (Plan \cup T)
  <2>1. \A p \in Plan : suggest(p, existing) \subseteq T
    BY <1>3 DEF s
  <2> HIDE DEF T
  <2> QED BY <2>1 DEF Choose
<1> QED BY <1>4, <1>5, FS_Subset

-------------------------------------------------------------------------------
(* The invariant. *)

Places == {"idle", "read", "include", "load", "strip", "clean", "old", "reload", "done"}

(* The requests: the shortcuts they ask for are finite sets, and what they *)
(* have read are texts.  At work they have a config.                       *)
Record(Sets, Texts) ==
  [pc : Places, op : {"", "save", "remove"}, conf : Mains \cup {""}, bs : Sets, text : Texts,
   alone : BOOLEAN, moved : BOOLEAN, sure : BOOLEAN, loaded : BOOLEAN]

Fine(Sets, Texts) ==
  /\ {} \in Sets /\ \A bs \in Sets : IsFiniteSet(bs)
  /\ << >> \in Texts /\ \A text \in Texts : IsText(text)

ReqsTyped ==
  /\ \E Sets, Texts : Fine(Sets, Texts) /\ req \in [Reqs -> Record(Sets, Texts)]
  /\ \A r \in Reqs : req[r].pc # "idle" => req[r].conf \in Mains

(* Read found no file of somebody else's in the place of Vault's, and      *)
(* there still is none when it is written.                                 *)
IncludeIsOurs ==
  \A r \in Reqs :
    req[r].pc = "include" /\ FileFor(req[r].conf) \in DOMAIN files => Written(files[FileFor(req[r].conf)])

(* A request that has read a config may write it back: the user's lines    *)
(* are the ones it read, or the user edited them since.  Other requests    *)
(* that write the config in between do not matter.                         *)
ReadStands ==
  \A r \in Reqs :
    req[r].pc \in {"include", "load", "clean"} =>
      /\ req[r].conf \in DOMAIN files
      /\ req[r].moved \/ Theirs(req[r].text) = Theirs(files[req[r].conf])

IInv == TypeOK /\ ReqsTyped /\ IncludeIsOurs /\ ReadStands

-------------------------------------------------------------------------------
(* The steps in general. *)

FilesTyped ==
  DOMAIN files \subseteq Mains \cup VaultFiles \cup {"sourced"} /\ \A f \in DOMAIN files : IsText(files[f])

LEMMA FileNames ==
  /\ \A c : FileFor(c) \in VaultFiles
  /\ Mains \cap VaultFiles = {}
  /\ "sourced" \notin Mains \cup VaultFiles
  /\ \A f : FindConfig(f) \in Mains
  BY DEF FileFor, VaultFiles, Mains, includeName, luaName, FindConfig

(* The user's configs stay as they are, and what is written of the other   *)
(* files is Vault's.                                                       *)
MainsStay ==
  \A f \in Mains : (f \in DOMAIN files' <=> f \in DOMAIN files) /\ (f \in DOMAIN files => files'[f] = files[f])

OwnWritten ==
  \A f \in VaultFiles \cap DOMAIN files' : Written(files'[f]) \/ (f \in DOMAIN files /\ files'[f] = files[f])

(* A request goes on: the others stay as they are, but for their history.  *)
OnlyMoves(r) ==
  \A q \in Reqs \ {r} : /\ req'[q].pc = req[q].pc /\ req'[q].conf = req[q].conf
                        /\ req'[q].text = req[q].text /\ req'[q].moved = req[q].moved

LEMMA MoveKeeps ==
  ASSUME IInv, NEW r \in Reqs, ReqsTyped', OnlyMoves(r), MainsStay, OwnWritten,
         req'[r].pc = "include" /\ FileFor(req'[r].conf) \in DOMAIN files' => Written(files'[FileFor(req'[r].conf)]),
         req'[r].pc \in {"include", "load", "clean"} =>
           /\ req'[r].conf \in DOMAIN files
           /\ req'[r].moved \/ Theirs(req'[r].text) = Theirs(files[req'[r].conf])
  PROVE  IncludeIsOurs' /\ ReadStands'
<1>2. IncludeIsOurs'
  <2>1. ASSUME NEW q \in Reqs, req'[q].pc = "include", FileFor(req'[q].conf) \in DOMAIN files'
        PROVE  Written(files'[FileFor(req'[q].conf)])
    <3>1. CASE q = r
      BY <2>1, <3>1
    <3>2. CASE q # r
      <4> DEFINE v == FileFor(req[q].conf)
      <4>1. req[q].pc = "include" /\ req'[q].conf = req[q].conf
        BY <2>1, <3>2 DEF OnlyMoves
      <4>2. v \in VaultFiles \cap DOMAIN files'
        BY <2>1, <4>1, FileNames
      <4>3. v \in DOMAIN files => Written(files[v])
        BY <4>1 DEF IInv, IncludeIsOurs
      <4> QED BY <4>1, <4>2, <4>3 DEF OwnWritten
    <3> QED BY <3>1, <3>2
  <2> QED BY <2>1 DEF IncludeIsOurs
<1>3. ReadStands'
  <2>1. ASSUME NEW q \in Reqs, req'[q].pc \in {"include", "load", "clean"}
        PROVE  /\ req'[q].conf \in DOMAIN files
               /\ req'[q].moved \/ Theirs(req'[q].text) = Theirs(files[req'[q].conf])
    <3>1. CASE q = r
      BY <2>1, <3>1
    <3>2. CASE q # r
      BY <2>1, <3>2 DEF OnlyMoves, IInv, ReadStands
    <3> QED BY <3>1, <3>2
  <2>2. \A q \in Reqs : req'[q].pc # "idle" => req'[q].conf \in Mains
    BY DEF ReqsTyped
  <2>3. ASSUME NEW q \in Reqs, req'[q].pc \in {"include", "load", "clean"}
        PROVE  /\ req'[q].conf \in DOMAIN files'
               /\ req'[q].moved \/ Theirs(req'[q].text) = Theirs(files'[req'[q].conf])
    <3>1. req'[q].conf \in Mains
      BY <2>2, <2>3
    <3> QED BY <2>1, <2>3, <3>1 DEF MainsStay
  <2> QED BY <2>3 DEF ReadStands
<1> QED BY <1>2, <1>3

(* The user's own edit: whoever had read something knows that it is old.   *)
LEMMA EditKeeps ==
  ASSUME IInv, NEW g, Edited(g), FilesTyped',
         DOMAIN files \subseteq DOMAIN g,
         \A v \in VaultFiles \cap DOMAIN g : v \in DOMAIN files /\ g[v] = files[v]
  PROVE  IInv'
<1>1. /\ trouble < MaxTrouble /\ trouble' = trouble + 1 /\ files' = g
      /\ req' = [r \in Reqs |-> [req[r] EXCEPT !.alone = FALSE, !.moved = TRUE]]
      /\ conf' = conf
  BY DEF Edited
<1>2. PICK Sets, Texts : Fine(Sets, Texts) /\ req \in [Reqs -> Record(Sets, Texts)]
  BY DEF IInv, ReqsTyped
<1>3. /\ req' \in [Reqs -> Record(Sets, Texts)]
      /\ \A r \in Reqs : /\ req'[r].pc = req[r].pc /\ req'[r].op = req[r].op /\ req'[r].conf = req[r].conf
                         /\ req'[r].moved = TRUE
  <2> DEFINE Old(u) == [u EXCEPT !.alone = FALSE, !.moved = TRUE]
  <2>1. ASSUME NEW u \in Record(Sets, Texts)
        PROVE  /\ Old(u) \in Record(Sets, Texts)
               /\ Old(u).pc = u.pc /\ Old(u).op = u.op /\ Old(u).conf = u.conf
               /\ Old(u).moved = TRUE
    BY DEF Record
  <2>2. req' = [r \in Reqs |-> Old(req[r])]
    BY <1>1
  <2> HIDE DEF Old
  <2>3. \A r \in Reqs : req[r] \in Record(Sets, Texts) /\ req'[r] = Old(req[r])
    BY <1>2, <2>2
  <2>4. \A r \in Reqs : Old(req[r]) \in Record(Sets, Texts)
    BY <2>1, <2>3
  <2> QED BY <2>1, <2>2, <2>3, <2>4
<1>4. TypeOK'
  <2>1. trouble' \in 0 .. MaxTrouble
    <3>1. trouble \in 0 .. MaxTrouble /\ MaxTrouble \in Nat
      BY ShortcutsAssumption DEF IInv, TypeOK
    <3>2. trouble < MaxTrouble /\ trouble' = trouble + 1
      BY DEF Edited
    <3> QED BY <3>1, <3>2
  <2> QED BY <1>1, <1>3, <2>1 DEF IInv, TypeOK, FilesTyped
<1>5. ReqsTyped'
  BY <1>2, <1>3 DEF IInv, ReqsTyped
<1>6. IncludeIsOurs'
  <2>1. ASSUME NEW r \in Reqs, req'[r].pc = "include", FileFor(req'[r].conf) \in DOMAIN files'
        PROVE  Written(files'[FileFor(req'[r].conf)])
    <3>1. FileFor(req[r].conf) \in VaultFiles \cap DOMAIN g
      BY <1>1, <1>3, <2>1, FileNames
    <3> QED BY <1>1, <1>3, <2>1, <3>1 DEF IInv, IncludeIsOurs
  <2> QED BY <2>1 DEF IncludeIsOurs
<1>7. ReadStands'
  BY <1>1, <1>3 DEF IInv, ReadStands
<1> QED BY <1>4, <1>5, <1>6, <1>7 DEF IInv

(* A request writes the user's config: for another one that had read it,   *)
(* the user's lines in it are the same, or it knows that an edit is undone. *)
LEMMA WriteConfKeeps ==
  ASSUME IInv, NEW r \in Reqs, req[r].pc \in {"load", "clean"},
         NEW text, IsText(text), Theirs(text) = Theirs(req[r].text),
         NEW pc \in {"reload", "old"}, WriteConf(r, text, pc)
  PROVE  IInv'
<1> DEFINE c == req[r].conf
           undoes == c \notin DOMAIN files \/ Theirs(files[c]) # Theirs(req[r].text)
<1>1. /\ files' = WithFile(c, text) /\ conf' = conf /\ trouble' = trouble
      /\ req' = [q \in Reqs |-> [req[q] EXCEPT !.pc = IF q = r THEN pc ELSE @, !.text = IF q = r THEN << >> ELSE @,
                                               !.moved = @ \/ undoes]]
  BY DEF WriteConf
<1>2. c \in Mains /\ c \in DOMAIN files
  BY DEF IInv, ReqsTyped, ReadStands
<1>3. /\ DOMAIN files' = DOMAIN files
      /\ \A f \in DOMAIN files : files'[f] = IF f = c THEN text ELSE files[f]
  BY <1>1, <1>2 DEF WithFile
<1> HIDE DEF undoes
<1>4. undoes \in BOOLEAN
  BY DEF undoes
<1>5. PICK Sets, Texts : Fine(Sets, Texts) /\ req \in [Reqs -> Record(Sets, Texts)]
  BY DEF IInv, ReqsTyped
<1>6. /\ req' \in [Reqs -> Record(Sets, Texts)]
      /\ \A q \in Reqs : /\ req'[q].op = req[q].op /\ req'[q].conf = req[q].conf
                         /\ req'[q].moved = (req[q].moved \/ undoes)
                         /\ req'[q].pc = IF q = r THEN pc ELSE req[q].pc
                         /\ q # r => req'[q].text = req[q].text
  <2> DEFINE m(q) == req[q].moved \/ undoes
             p(q) == IF q = r THEN pc ELSE req[q].pc
             t(q) == IF q = r THEN << >> ELSE req[q].text
  <2>1. req' = [q \in Reqs |-> [req[q] EXCEPT !.pc = p(q), !.text = t(q), !.moved = m(q)]]
    BY <1>1
  <2>2. ASSUME NEW q \in Reqs
        PROVE  /\ req[q] \in Record(Sets, Texts)
               /\ m(q) \in BOOLEAN /\ p(q) \in Places /\ t(q) \in Texts
    BY <1>4, <1>5 DEF Record, Places, Fine
  <2> HIDE DEF m, p, t
  <2>3. ASSUME NEW q \in Reqs
        PROVE  LET w == [req[q] EXCEPT !.pc = p(q), !.text = t(q), !.moved = m(q)]
               IN /\ w \in Record(Sets, Texts) /\ w.op = req[q].op /\ w.conf = req[q].conf
                  /\ w.moved = m(q) /\ w.pc = p(q) /\ w.text = t(q)
    BY <2>2 DEF Record
  <2>4. /\ req' \in [Reqs -> Record(Sets, Texts)]
        /\ \A q \in Reqs :
              /\ req'[q].op = req[q].op /\ req'[q].conf = req[q].conf
              /\ req'[q].moved = m(q) /\ req'[q].pc = p(q) /\ req'[q].text = t(q)
    BY <2>1, <2>3
  <2> QED BY <2>4 DEF m, p, t
<1>7. TypeOK'
  <2>1. \A f \in DOMAIN files' : IsText(files'[f])
    BY <1>3 DEF IInv, TypeOK
  <2>2. DOMAIN files' \subseteq Mains \cup VaultFiles \cup {"sourced"}
    BY <1>3 DEF IInv, TypeOK
  <2>3. \A q \in Reqs : req'[q].pc \in Places /\ req'[q].op \in {"", "save", "remove"}
    BY <1>6 DEF Record
  <2> QED BY <1>1, <2>1, <2>2, <2>3 DEF IInv, TypeOK, Places
<1>8. ReqsTyped'
  <2>1. \A q \in Reqs : req'[q].pc # "idle" => req'[q].conf \in Mains
    BY <1>2, <1>6 DEF IInv, ReqsTyped
  <2> QED BY <1>5, <1>6, <2>1 DEF ReqsTyped
<1>9. IncludeIsOurs'
  <2>1. ASSUME NEW q \in Reqs, req'[q].pc = "include", FileFor(req'[q].conf) \in DOMAIN files'
        PROVE  Written(files'[FileFor(req'[q].conf)])
    <3> DEFINE v == FileFor(req[q].conf)
    <3>1. req[q].pc = "include" /\ req'[q].conf = req[q].conf
      BY <1>6, <2>1
    <3>2. v \in VaultFiles /\ v \in DOMAIN files /\ v # c
      BY <1>2, <1>3, <2>1, <3>1, FileNames
    <3> QED BY <1>3, <2>1, <3>1, <3>2 DEF IInv, IncludeIsOurs
  <2> QED BY <2>1 DEF IncludeIsOurs
<1>10. ReadStands'
  <2>1. ASSUME NEW q \in Reqs, req'[q].pc \in {"include", "load", "clean"}
        PROVE  /\ req'[q].conf \in DOMAIN files'
               /\ req'[q].moved \/ Theirs(req'[q].text) = Theirs(files'[req'[q].conf])
    <3>1. q # r /\ req[q].pc = req'[q].pc
      BY <1>6, <2>1
    <3>2. /\ req[q].conf \in DOMAIN files
          /\ req[q].moved \/ Theirs(req[q].text) = Theirs(files[req[q].conf])
      BY <2>1, <3>1 DEF IInv, ReadStands
    <3>3. CASE undoes
      BY <1>3, <1>6, <3>2, <3>3
    <3>4. CASE ~undoes
      <4>1. Theirs(text) = Theirs(files[c])
        BY <3>4 DEF undoes
      <4>2. Theirs(files'[req[q].conf]) = Theirs(files[req[q].conf])
        BY <1>3, <3>2, <4>1
      <4> QED BY <1>3, <1>6, <3>1, <3>2, <4>2
    <3> QED BY <3>3, <3>4
  <2> QED BY <2>1 DEF ReadStands
<1> QED BY <1>7, <1>8, <1>9, <1>10 DEF IInv

(* A request goes on, or begins, which the others notice: what it becomes  *)
(* has its type, and the files stay what they were but for Vault's own.    *)
LEMMA RecordsGrow ==
  ASSUME NEW S1, NEW T1, NEW S2, NEW T2, Fine(S1, T1), Fine(S2, T2)
  PROVE  /\ Fine(S1 \cup S2, T1 \cup T2)
         /\ Record(S1, T1) \subseteq Record(S1 \cup S2, T1 \cup T2)
         /\ Record(S2, T2) \subseteq Record(S1 \cup S2, T1 \cup T2)
<1>1. Fine(S1 \cup S2, T1 \cup T2)
  BY DEF Fine
<1>2. Record(S1, T1) \subseteq Record(S1 \cup S2, T1 \cup T2)
  BY DEF Record
<1>3. Record(S2, T2) \subseteq Record(S1 \cup S2, T1 \cup T2)
  BY DEF Record
<1> QED BY <1>1, <1>2, <1>3

LEMMA OneMoves ==
  ASSUME ReqsTyped, NEW r \in Reqs, NEW new, NEW S, NEW T, Fine(S, T), new \in Record(S, T),
         new.pc # "idle" => new.conf \in Mains,
         \/ req' = [req EXCEPT ![r] = new]
         \/ req' = [q \in Reqs |-> IF q = r THEN new ELSE [req[q] EXCEPT !.alone = FALSE]]
  PROVE  ReqsTyped' /\ OnlyMoves(r) /\ req'[r] = new
<1>1. PICK S0, T0 : Fine(S0, T0) /\ req \in [Reqs -> Record(S0, T0)]
  BY DEF ReqsTyped
<1> DEFINE S1 == S0 \cup S
           T1 == T0 \cup T
<1>2. Fine(S1, T1) /\ req \in [Reqs -> Record(S1, T1)] /\ new \in Record(S1, T1)
  BY <1>1, RecordsGrow
<1> HIDE DEF S1, T1
<1>3. /\ req' \in [Reqs -> Record(S1, T1)] /\ req'[r] = new
      /\ \A q \in Reqs \ {r} : /\ req'[q].pc = req[q].pc /\ req'[q].conf = req[q].conf
                               /\ req'[q].text = req[q].text /\ req'[q].moved = req[q].moved
  <2>1. CASE req' = [req EXCEPT ![r] = new]
    BY <1>2, <2>1
  <2>2. CASE req' = [q \in Reqs |-> IF q = r THEN new ELSE [req[q] EXCEPT !.alone = FALSE]]
    <3>1. \A q \in Reqs : /\ [req[q] EXCEPT !.alone = FALSE] \in Record(S1, T1)
                          /\ [req[q] EXCEPT !.alone = FALSE].pc = req[q].pc
                          /\ [req[q] EXCEPT !.alone = FALSE].conf = req[q].conf
                          /\ [req[q] EXCEPT !.alone = FALSE].text = req[q].text
                          /\ [req[q] EXCEPT !.alone = FALSE].moved = req[q].moved
      BY <1>2 DEF Record
    <3>2. \A q \in Reqs : req'[q] = IF q = r THEN new ELSE [req[q] EXCEPT !.alone = FALSE]
      BY <2>2
    <3>3. req' \in [Reqs -> Record(S1, T1)]
      BY <1>2, <2>2, <3>1
    <3> QED BY <3>1, <3>2, <3>3
  <2> QED BY <2>1, <2>2
<1>4. ReqsTyped'
  <2>1. \A q \in Reqs : req'[q].pc # "idle" => req'[q].conf \in Mains
    BY <1>3 DEF ReqsTyped
  <2> QED BY <1>2, <1>3, <2>1 DEF ReqsTyped
<1> QED BY <1>3, <1>4 DEF OnlyMoves

LEMMA StepKeeps ==
  ASSUME IInv, NEW r \in Reqs, NEW new, NEW S, NEW T, Fine(S, T), new \in Record(S, T),
         new.pc # "idle" => new.conf \in Mains,
         \/ req' = [req EXCEPT ![r] = new]
         \/ req' = [q \in Reqs |-> IF q = r THEN new ELSE [req[q] EXCEPT !.alone = FALSE]],
         conf' = conf, trouble' \in 0 .. MaxTrouble, FilesTyped', MainsStay, OwnWritten,
         new.pc = "include" /\ FileFor(new.conf) \in DOMAIN files' => Written(files'[FileFor(new.conf)]),
         new.pc \in {"include", "load", "clean"} =>
           new.conf \in DOMAIN files /\ (new.moved \/ Theirs(new.text) = Theirs(files[new.conf]))
  PROVE  IInv'
<1>1. ReqsTyped' /\ OnlyMoves(r) /\ req'[r] = new
  BY OneMoves DEF IInv
<1>2. TypeOK'
  <2>1. \A q \in Reqs : req'[q].pc \in Places /\ req'[q].op \in {"", "save", "remove"}
    BY <1>1 DEF ReqsTyped, Record
  <2> QED BY <2>1 DEF IInv, TypeOK, FilesTyped, Places
<1>3. IncludeIsOurs' /\ ReadStands'
  BY <1>1, MoveKeeps
<1> QED BY <1>1, <1>2, <1>3 DEF IInv

(* The record of a request, and what may be changed in it.                 *)
LEMMA ItsRecord ==
  ASSUME IInv, NEW r \in Reqs
  PROVE  /\ \E S, T : Fine(S, T) /\ req[r] \in Record(S, T)
         /\ IsFiniteSet(req[r].bs) /\ IsText(req[r].text)
         /\ req[r].pc # "idle" => req[r].conf \in Mains
<1>1. PICK S, T : Fine(S, T) /\ req \in [Reqs -> Record(S, T)]
  BY DEF IInv, ReqsTyped
<1>2. req[r] \in Record(S, T)
  BY <1>1
<1>3. IsFiniteSet(req[r].bs) /\ IsText(req[r].text)
  BY <1>1, <1>2 DEF Record, Fine
<1> QED BY <1>1, <1>2, <1>3 DEF IInv, ReqsTyped

LEMMA IdleTyped ==
  \E S, T : Fine(S, T) /\ Idle \in Record(S, T)
<1>1. IsText(<< >>)
  BY DEF IsText
<1>2. IsFiniteSet({})
  BY FS_EmptySet
<1>3. Fine({{}}, {<< >>})
  BY <1>1, <1>2 DEF Fine
<1>4. Idle \in Record({{}}, {<< >>})
  BY DEF Idle, Record, Places
<1> QED BY <1>3, <1>4

(* The files: nothing is written, or a file of Vault's.                    *)
LEMMA FilesSame ==
  ASSUME IInv, files' = files
  PROVE  FilesTyped' /\ MainsStay /\ OwnWritten
BY DEF IInv, TypeOK, FilesTyped, MainsStay, OwnWritten

LEMMA FileWritten ==
  ASSUME IInv, NEW v \in VaultFiles, NEW text, IsText(text), Written(text), files' = WithFile(v, text)
  PROVE  /\ FilesTyped' /\ MainsStay /\ OwnWritten /\ v \in DOMAIN files' /\ files'[v] = text
         /\ DOMAIN files' = DOMAIN files \cup {v}
         /\ \A f \in DOMAIN files : f # v => files'[f] = files[f]
<1>1. DOMAIN files' = DOMAIN files \cup {v} /\ \A f \in DOMAIN files' : files'[f] = IF f = v THEN text ELSE files[f]
  BY DEF WithFile
<1>2. v \notin Mains
  BY FileNames
<1>3. FilesTyped'
  BY <1>1 DEF IInv, TypeOK, FilesTyped
<1>4. MainsStay
  BY <1>1, <1>2 DEF MainsStay
<1>5. OwnWritten
  BY <1>1 DEF OwnWritten
<1> QED BY <1>1, <1>3, <1>4, <1>5

LEMMA FileRemoved ==
  ASSUME IInv, NEW v \in VaultFiles, files' = WithoutFile(v)
  PROVE  /\ FilesTyped' /\ MainsStay /\ OwnWritten
         /\ DOMAIN files' = DOMAIN files \ {v}
         /\ \A f \in DOMAIN files' : files'[f] = files[f]
<1>1. DOMAIN files' = DOMAIN files \ {v} /\ \A f \in DOMAIN files' : files'[f] = files[f]
  BY DEF WithoutFile
<1>2. v \notin Mains
  BY FileNames
<1>3. FilesTyped'
  BY <1>1 DEF IInv, TypeOK, FilesTyped
<1>4. MainsStay
  BY <1>1, <1>2 DEF MainsStay
<1>5. OwnWritten
  BY <1>1 DEF OwnWritten
<1> QED BY <1>1, <1>3, <1>4, <1>5

-------------------------------------------------------------------------------
(* The invariant is inductive: one lemma per action. *)

LEMMA InitIInv ==
  ASSUME Init
  PROVE  IInv
<1>1. PICK S, T : Fine(S, T) /\ Idle \in Record(S, T)
  BY IdleTyped
<1>2. \A r \in Reqs : req[r] = Idle
  BY DEF Init
<1>3. req \in [Reqs -> Record(S, T)]
  BY <1>1 DEF Init
<1>4. Idle.pc = "idle" /\ Idle.op = ""
  BY DEF Idle
<1>5. FilesTyped
  BY ShortcutsAssumption DEF Init, FilesTyped, IsText
<1>6. conf \in Mains
  BY FileNames DEF Init
<1>7. trouble \in 0 .. MaxTrouble
  <2>1. trouble = 0 /\ MaxTrouble \in Nat
    BY ShortcutsAssumption DEF Init
  <2> QED BY <2>1
<1>8. TypeOK
  BY <1>2, <1>4, <1>5, <1>6, <1>7 DEF TypeOK, FilesTyped
<1>9. ReqsTyped
  BY <1>1, <1>2, <1>3, <1>4 DEF ReqsTyped
<1>10. IncludeIsOurs /\ ReadStands
  BY <1>2, <1>4 DEF IncludeIsOurs, ReadStands
<1> QED BY <1>8, <1>9, <1>10 DEF IInv

(* One text that is edited in place.                                       *)
LEMMA EditsOne ==
  ASSUME IInv, NEW m \in Mains \cap DOMAIN files, NEW text, IsText(text), Edited([files EXCEPT ![m] = text])
  PROVE  IInv'
<1> DEFINE g == [files EXCEPT ![m] = text]
<1>1. DOMAIN g = DOMAIN files /\ \A f \in DOMAIN files : g[f] = IF f = m THEN text ELSE files[f]
  OBVIOUS
<1>2. files' = g
  BY DEF Edited
<1>3. m \notin VaultFiles
  BY FileNames
<1> HIDE DEF g
<1>4. FilesTyped'
  BY <1>1, <1>2 DEF IInv, TypeOK, FilesTyped
<1>5. \A v \in VaultFiles \cap DOMAIN g : v \in DOMAIN files /\ g[v] = files[v]
  BY <1>1, <1>3
<1>6. DOMAIN files \subseteq DOMAIN g
  BY <1>1
<1>7. Edited(g)
  BY DEF g
<1> QED BY <1>4, <1>5, <1>6, <1>7, EditKeeps

LEMMA AppendText ==
  ASSUME NEW text, IsText(text), NEW line
  PROVE  IsText(Append(text, line))
<1> DEFINE S == {text[i] : i \in DOMAIN text} \cup {line}
           u == Append(text, line)
<1>1. text \in Seq(S)
  <2>1. text \in [1 .. Len(text) -> S] /\ Len(text) \in Nat
    BY DEF IsText
  <2> QED BY <2>1
<1> HIDE DEF S
<1>2. line \in S
  BY DEF S
<1>3. u \in Seq(S)
  BY <1>1, <1>2
<1> HIDE DEF u
<1>4. u \in [1 .. Len(u) -> S] /\ Len(u) \in Nat
  BY <1>3
<1>5. u = [i \in 1 .. Len(u) |-> u[i]]
  BY <1>4
<1> QED BY <1>4, <1>5, FunctionIsText DEF u

LEMMA UserEditsKeeps ==
  ASSUME IInv, UserEdits
  PROVE  IInv'
<1>1. PICK m \in Mains \cap DOMAIN files :
        \/ \E line \in UserBinds : Edited([files EXCEPT ![m] = Append(@, line)])
        \/ \E i \in DOMAIN files[m] : files[m][i].kind = "bind" /\ Edited([files EXCEPT ![m] = Drop(@, i)])
        \/ \E i \in DOMAIN files[m] : files[m][i].kind = "load" /\ Edited([files EXCEPT ![m][i].kind = "commented"])
  BY DEF UserEdits
<1>2. IsText(files[m])
  BY DEF IInv, TypeOK
<1>3. Len(files[m]) \in Nat /\ DOMAIN files[m] = 1 .. Len(files[m])
  BY <1>2, TextPlaces
<1>4. CASE \E line \in UserBinds : Edited([files EXCEPT ![m] = Append(@, line)])
  <2>1. PICK line \in UserBinds : Edited([files EXCEPT ![m] = Append(files[m], line)])
    BY <1>4
  <2>2. IsText(Append(files[m], line))
    BY <1>2, AppendText
  <2> QED BY <2>1, <2>2, EditsOne
<1>5. CASE \E i \in DOMAIN files[m] : files[m][i].kind = "bind" /\ Edited([files EXCEPT ![m] = Drop(@, i)])
  <2>1. PICK i \in DOMAIN files[m] : Edited([files EXCEPT ![m] = Drop(files[m], i)])
    BY <1>5
  <2>2. Len(files[m]) - 1 \in Nat
    BY <1>3
  <2>3. Drop(files[m], i) = [j \in 1 .. Len(files[m]) - 1 |-> Drop(files[m], i)[j]]
    BY DEF Drop
  <2>4. IsText(Drop(files[m], i))
    BY <2>2, <2>3, FunctionIsText
  <2> QED BY <2>1, <2>4, EditsOne
<1>6. CASE \E i \in DOMAIN files[m] : files[m][i].kind = "load" /\ Edited([files EXCEPT ![m][i].kind = "commented"])
  <2>1. PICK i \in DOMAIN files[m] : Edited([files EXCEPT ![m] = [files[m] EXCEPT ![i].kind = "commented"]])
    BY <1>6
  <2> DEFINE u == [files[m] EXCEPT ![i].kind = "commented"]
  <2>2. DOMAIN u = 1 .. Len(files[m])
    BY <1>3
  <2>3. u = [j \in 1 .. Len(files[m]) |-> u[j]]
    BY <1>3
  <2>4. Edited([files EXCEPT ![m] = u])
    BY <2>1
  <2> HIDE DEF u
  <2>5. IsText(u)
    BY <1>3, <2>3, FunctionIsText
  <2> QED BY <2>4, <2>5, EditsOne
<1> QED BY <1>1, <1>4, <1>5, <1>6

LEMMA UserMigratesKeeps ==
  ASSUME IInv, UserMigrates
  PROVE  IInv'
<1> DEFINE old == files["hyprland.conf"]
           g == [f \in DOMAIN files \cup {"hyprland.lua"} |-> IF f = "hyprland.lua" THEN Picked(old, Ported(old)) ELSE files[f]]
<1>1. Edited(g) /\ "hyprland.conf" \in DOMAIN files
  BY DEF UserMigrates
<1>2. files' = g
  BY <1>1 DEF Edited
<1>3. IsText(old) /\ Ported(old) \in SUBSET DOMAIN old
  BY <1>1 DEF IInv, TypeOK, Ported
<1> HIDE DEF old
<1>4. IsText(Picked(old, Ported(old)))
  BY <1>3, PickedText
<1>5. /\ DOMAIN g = DOMAIN files \cup {"hyprland.lua"}
      /\ \A f \in DOMAIN g : f = "hyprland.lua" => IsText(g[f])
      /\ \A f \in DOMAIN g : f # "hyprland.lua" => f \in DOMAIN files /\ g[f] = files[f]
  BY <1>4
<1>6. "hyprland.lua" \in Mains /\ "hyprland.lua" \notin VaultFiles
  BY FileNames DEF Mains
<1> HIDE DEF g
<1>7. FilesTyped'
  BY <1>2, <1>5, <1>6 DEF IInv, TypeOK, FilesTyped
<1>8. /\ DOMAIN files \subseteq DOMAIN g
      /\ \A v \in VaultFiles \cap DOMAIN g : v \in DOMAIN files /\ g[v] = files[v]
  BY <1>5, <1>6
<1> QED BY <1>1, <1>7, <1>8, EditKeeps

(* A request begins: what it was asked for is a finite set.                *)
LEMMA BeginsKeeps ==
  ASSUME IInv, NEW r \in Reqs, NEW c \in Mains, NEW bs, IsFiniteSet(bs), Begins(r, Chosen("save", c, bs))
  PROVE  IInv'
<1> DEFINE a == Lone(r)
           s == Sure(c)
           S == {{}, bs}
           T == {<< >>}
           new == [Chosen("save", c, bs) EXCEPT !.alone = a]
<1>1. a \in BOOLEAN /\ s \in BOOLEAN
  BY DEF Lone, Sure
<1>2. Chosen("save", c, bs) = [Idle EXCEPT !.pc = "read", !.op = "save", !.conf = c, !.bs = bs, !.sure = s]
  BY DEF Chosen
<1>3. /\ req' = [q \in Reqs |-> IF q = r THEN new ELSE [req[q] EXCEPT !.alone = FALSE]]
      /\ files' = files /\ conf' = conf /\ trouble' = trouble
  BY DEF Begins
<1> HIDE DEF a, s
<1>4. Idle \in Record(S, T)
  BY DEF Idle, Record, Places
<1>5. Fine(S, T)
  <2>1. IsText(<< >>)
    BY DEF IsText
  <2>2. IsFiniteSet({})
    BY FS_EmptySet
  <2> QED BY <2>1, <2>2 DEF Fine
<1>6. bs \in S
  OBVIOUS
<1> HIDE DEF S, T
<1>7. new \in Record(S, T) /\ new.pc = "read" /\ new.conf = c
  BY <1>1, <1>2, <1>4, <1>6 DEF Record, Places
<1> HIDE DEF new
<1>8. trouble' \in 0 .. MaxTrouble
  BY <1>3 DEF IInv, TypeOK
<1>9. FilesTyped' /\ MainsStay /\ OwnWritten
  BY <1>3, FilesSame
<1> QED BY <1>3, <1>5, <1>7, <1>8, <1>9, StepKeeps

LEMMA SaveKeeps ==
  ASSUME IInv, NEW r \in Reqs, NEW want \in Wants, Save(r, want)
  PROVE  IInv'
<1>1. Begins(r, Chosen("save", conf, want)) /\ conf \in Mains /\ IsFiniteSet(want)
  BY ShortcutsAssumption DEF Save, IInv, TypeOK
<1> QED BY <1>1, BeginsKeeps

LEMMA CtlInstallKeeps ==
  ASSUME IInv, NEW r \in Reqs, NEW useSuggestions \in BOOLEAN, CtlInstall(r, useSuggestions)
  PROVE  IInv'
<1> DEFINE c == FindConfig(files)
           bs == Choose(Existing(c), useSuggestions)
<1>1. Begins(r, Chosen("save", c, bs))
  BY DEF CtlInstall
<1>2. c \in Mains /\ IsFiniteSet(bs)
  BY FileNames, ChooseFinite
<1> HIDE DEF c, bs
<1> QED BY <1>1, <1>2, BeginsKeeps

(* The request goes back to idle, whatever happened to Vault's files.      *)
LEMMA EndsKeeps ==
  ASSUME IInv, NEW r \in Reqs, req' = [req EXCEPT ![r] = Idle], files' = files, conf' = conf,
         trouble' \in 0 .. MaxTrouble
  PROVE  IInv'
<1>1. PICK S, T : Fine(S, T) /\ Idle \in Record(S, T)
  BY IdleTyped
<1>2. Idle.pc = "idle"
  BY DEF Idle
<1>3. FilesTyped' /\ MainsStay /\ OwnWritten
  BY FilesSame
<1> HIDE DEF Idle
<1> QED BY <1>1, <1>2, <1>3, StepKeeps

LEMMA ReadKeeps ==
  ASSUME IInv, NEW r \in Reqs, Read(r)
  PROVE  IInv'
<1> DEFINE c == req[r].conf
           theirs == FileFor(c) \in DOMAIN files /\ ~Written(files[FileFor(c)])
           new == [req[r] EXCEPT !.pc = "include", !.text = files[c]]
<1>1. /\ req[r].pc = "read" /\ files' = files /\ conf' = conf /\ trouble' = trouble
      /\ IF c \notin DOMAIN files \/ theirs THEN req' = [req EXCEPT ![r] = Idle] ELSE req' = [req EXCEPT ![r] = new]
  BY DEF Read, Become, Same
<1>2. trouble' \in 0 .. MaxTrouble
  BY <1>1 DEF IInv, TypeOK
<1>3. CASE c \notin DOMAIN files \/ theirs
  BY <1>1, <1>2, <1>3, EndsKeeps
<1>4. CASE ~(c \notin DOMAIN files \/ theirs)
  <2>1. req' = [req EXCEPT ![r] = new] /\ c \in Mains /\ c \in DOMAIN files /\ IsText(files[c])
    BY <1>1, <1>4, ItsRecord DEF IInv, TypeOK
  <2>2. FileFor(c) \in DOMAIN files => Written(files[FileFor(c)])
    BY <1>4
  <2>3. PICK S, T : Fine(S, T) /\ req[r] \in Record(S, T)
    BY ItsRecord
  <2>4. Fine(S, T \cup {files[c]})
    BY <2>1, <2>3 DEF Fine
  <2>5. new \in Record(S, T \cup {files[c]}) /\ new.pc = "include" /\ new.conf = c /\ new.text = files[c]
    BY <2>3 DEF Record, Places
  <2>6. FilesTyped' /\ MainsStay /\ OwnWritten
    BY <1>1, FilesSame
  <2> HIDE DEF new
  <2> QED BY <1>1, <1>2, <2>1, <2>2, <2>4, <2>5, <2>6, StepKeeps
<1> QED BY <1>3, <1>4

LEMMA WriteIncludeKeeps ==
  ASSUME IInv, NEW r \in Reqs, WriteInclude(r)
  PROVE  IInv'
<1> DEFINE c == req[r].conf
           reloads == [req[r] EXCEPT !.pc = "reload", !.text = << >>]
           loads == [req[r] EXCEPT !.pc = "load"]
<1>1. /\ req[r].pc = "include" /\ conf' = conf /\ trouble' = trouble
      /\ files' = WithFile(FileFor(c), Render(req[r].bs))
      /\ req' = [req EXCEPT ![r] = reloads] \/ req' = [req EXCEPT ![r] = loads]
  BY DEF WriteInclude, Goto, Become
<1>2. c \in Mains /\ c \in DOMAIN files /\ (req[r].moved \/ Theirs(req[r].text) = Theirs(files[c]))
  BY <1>1, ItsRecord DEF IInv, ReadStands
<1>3. PICK S, T : Fine(S, T) /\ req[r] \in Record(S, T)
  BY ItsRecord
<1>4. << >> \in T
  BY <1>3 DEF Fine
<1>5. reloads \in Record(S, T) /\ reloads.pc = "reload" /\ reloads.conf = c
  BY <1>3, <1>4 DEF Record, Places
<1>6. /\ loads \in Record(S, T) /\ loads.pc = "load" /\ loads.conf = c
      /\ loads.text = req[r].text /\ loads.moved = req[r].moved
  BY <1>3 DEF Record, Places
<1>7. FilesTyped' /\ MainsStay /\ OwnWritten
  <2>1. IsText(Render(req[r].bs)) /\ Written(Render(req[r].bs))
    BY ItsRecord, RenderWritten
  <2> QED BY <1>1, <2>1, FileNames, FileWritten
<1>8. trouble' \in 0 .. MaxTrouble
  BY <1>1 DEF IInv, TypeOK
<1> HIDE DEF reloads, loads
<1>9. CASE req' = [req EXCEPT ![r] = reloads]
  BY <1>1, <1>2, <1>3, <1>5, <1>7, <1>8, <1>9, StepKeeps
<1>10. CASE req' = [req EXCEPT ![r] = loads]
  BY <1>1, <1>2, <1>3, <1>6, <1>7, <1>8, <1>10, StepKeeps
<1> QED BY <1>1, <1>9, <1>10

LEMMA WriteLoadLineKeeps ==
  ASSUME IInv, NEW r \in Reqs, WriteLoadLine(r)
  PROVE  IInv'
<1> DEFINE text == WithLoadLine(req[r].text, req[r].conf)
<1>1. req[r].pc = "load" /\ WriteConf(r, text, "reload")
  BY DEF WriteLoadLine
<1>2. IsText(text) /\ Theirs(text) = Theirs(req[r].text)
  BY ItsRecord, TheirsLoadLine
<1> HIDE DEF text
<1> QED BY <1>1, <1>2, WriteConfKeeps

LEMMA RemoveIncludeKeeps ==
  ASSUME IInv, NEW r \in Reqs, NEW c \in Mains, RemoveInclude(r, c)
  PROVE  IInv'
<1> DEFINE a == Lone(r)
           new == [Idle EXCEPT !.pc = "strip", !.op = "remove", !.conf = c, !.alone = a]
<1>1. /\ files' = WithoutFile(FileFor(c)) /\ conf' = conf /\ trouble' = trouble
      /\ req' = [q \in Reqs |-> IF q = r THEN new ELSE [req[q] EXCEPT !.alone = FALSE]]
  BY DEF RemoveInclude
<1>2. a \in BOOLEAN
  BY DEF Lone
<1> HIDE DEF a
<1>3. PICK S, T : Fine(S, T) /\ Idle \in Record(S, T)
  BY IdleTyped
<1>4. new \in Record(S, T) /\ new.pc = "strip" /\ new.conf = c
  BY <1>2, <1>3 DEF Record, Places
<1> HIDE DEF new
<1>5. trouble' \in 0 .. MaxTrouble
  BY <1>1 DEF IInv, TypeOK
<1>6. FilesTyped' /\ MainsStay /\ OwnWritten
  BY <1>1, FileNames, FileRemoved
<1> QED BY <1>1, <1>3, <1>4, <1>5, <1>6, StepKeeps

(* A step that leaves the files alone and goes on to the next place.       *)
LEMMA GoesOn ==
  ASSUME IInv, NEW r \in Reqs, req[r].pc # "idle", NEW pc \in {"old", "reload", "done"}, Goto(r, pc),
         FilesTyped', MainsStay, OwnWritten
  PROVE  IInv'
<1> DEFINE new == [req[r] EXCEPT !.pc = pc]
<1>1. req' = [req EXCEPT ![r] = new] /\ conf' = conf /\ trouble' = trouble
  BY DEF Goto, Become
<1>2. PICK S, T : Fine(S, T) /\ req[r] \in Record(S, T)
  BY ItsRecord
<1>3. new \in Record(S, T) /\ new.pc = pc /\ new.conf = req[r].conf /\ req[r].conf \in Mains
  BY <1>2, ItsRecord DEF Record, Places
<1> HIDE DEF new
<1>4. trouble' \in 0 .. MaxTrouble
  BY <1>1 DEF IInv, TypeOK
<1> QED BY <1>1, <1>2, <1>3, <1>4, StepKeeps

LEMMA StripKeeps ==
  ASSUME IInv, NEW r \in Reqs, Strip(r)
  PROVE  IInv'
<1> DEFINE c == req[r].conf
           new == [req[r] EXCEPT !.pc = "clean", !.text = files[c]]
<1>1. /\ req[r].pc = "strip" /\ files' = files
      /\ IF c \in DOMAIN files THEN req' = [req EXCEPT ![r] = new] /\ conf' = conf /\ trouble' = trouble ELSE Goto(r, "old")
  BY DEF Strip, Become, Same
<1>2. FilesTyped' /\ MainsStay /\ OwnWritten
  BY <1>1, FilesSame
<1>3. CASE c \in DOMAIN files
  <2>1. /\ req' = [req EXCEPT ![r] = new] /\ conf' = conf /\ trouble' = trouble
        /\ c \in Mains /\ IsText(files[c])
    BY <1>1, <1>3, ItsRecord DEF IInv, TypeOK
  <2>2. PICK S, T : Fine(S, T) /\ req[r] \in Record(S, T)
    BY ItsRecord
  <2>3. Fine(S, T \cup {files[c]})
    BY <2>1, <2>2 DEF Fine
  <2>4. new \in Record(S, T \cup {files[c]}) /\ new.pc = "clean" /\ new.conf = c /\ new.text = files[c]
    BY <2>2 DEF Record, Places
  <2>5. trouble' \in 0 .. MaxTrouble
    BY <2>1 DEF IInv, TypeOK
  <2> HIDE DEF new
  <2> QED BY <1>2, <1>3, <2>1, <2>3, <2>4, <2>5, StepKeeps
<1>4. CASE c \notin DOMAIN files
  BY <1>1, <1>2, <1>4, GoesOn
<1> QED BY <1>3, <1>4

LEMMA WriteCleanKeeps ==
  ASSUME IInv, NEW r \in Reqs, WriteClean(r)
  PROVE  IInv'
<1> DEFINE text == writeWithout(req[r].text)
           new == [req[r] EXCEPT !.pc = "old", !.text = << >>]
<1>1. /\ req[r].pc = "clean"
      /\ \/ req' = [req EXCEPT ![r] = new] /\ conf' = conf /\ trouble' = trouble /\ files' = files
         \/ WriteConf(r, text, "old")
  BY DEF WriteClean, Become, Same
<1>2. CASE WriteConf(r, text, "old")
  <2>1. IsText(text) /\ Theirs(text) = Theirs(req[r].text)
    BY ItsRecord, TheirsWithout
  <2> HIDE DEF text
  <2> QED BY <1>1, <1>2, <2>1, WriteConfKeeps
<1>3. CASE req' = [req EXCEPT ![r] = new] /\ conf' = conf /\ trouble' = trouble /\ files' = files
  <2>1. PICK S, T : Fine(S, T) /\ req[r] \in Record(S, T)
    BY ItsRecord
  <2>2. << >> \in T
    BY <2>1 DEF Fine
  <2>3. new \in Record(S, T) /\ new.pc = "old" /\ new.conf = req[r].conf /\ req[r].conf \in Mains
    BY <1>1, <2>1, <2>2, ItsRecord DEF Record, Places
  <2> HIDE DEF new
  <2>4. trouble' \in 0 .. MaxTrouble
    BY <1>3 DEF IInv, TypeOK
  <2>5. FilesTyped' /\ MainsStay /\ OwnWritten
    BY <1>3, FilesSame
  <2> QED BY <1>3, <2>1, <2>3, <2>4, <2>5, StepKeeps
<1> QED BY <1>1, <1>2, <1>3

LEMMA RemoveOldKeeps ==
  ASSUME IInv, NEW r \in Reqs, RemoveOld(r)
  PROVE  IInv'
<1>1. req[r].pc = "old" /\ Goto(r, "reload") /\ (files' = files \/ files' = WithoutFile(includeName))
  BY DEF RemoveOld
<1>2. includeName \in VaultFiles
  BY DEF VaultFiles
<1>3. FilesTyped' /\ MainsStay /\ OwnWritten
  BY <1>1, <1>2, FilesSame, FileRemoved
<1> QED BY <1>1, <1>3, GoesOn

LEMMA ReloadKeeps ==
  ASSUME IInv, NEW r \in Reqs, Reload(r)
  PROVE  IInv'
<1> DEFINE new == [req[r] EXCEPT !.pc = "done", !.loaded = TRUE]
<1>1. /\ req[r].pc = "reload" /\ req' = [req EXCEPT ![r] = new]
      /\ conf' = conf /\ trouble' = trouble /\ files' = files
  BY DEF Reload, Become
<1>2. PICK S, T : Fine(S, T) /\ req[r] \in Record(S, T)
  BY ItsRecord
<1>3. new \in Record(S, T) /\ new.pc = "done" /\ new.conf = req[r].conf /\ req[r].conf \in Mains
  BY <1>1, <1>2, ItsRecord DEF Record, Places
<1> HIDE DEF new
<1>4. trouble' \in 0 .. MaxTrouble
  BY <1>1 DEF IInv, TypeOK
<1> QED BY <1>1, <1>2, <1>3, <1>4, FilesSame, StepKeeps

LEMMA ReloadFailsKeeps ==
  ASSUME IInv, NEW r \in Reqs, ReloadFails(r)
  PROVE  IInv'
<1> DEFINE new == [req[r] EXCEPT !.pc = "done", !.loaded = FALSE]
<1>1. /\ req[r].pc = "reload" /\ req' = [req EXCEPT ![r] = new]
      /\ conf' = conf /\ trouble < MaxTrouble /\ trouble' = trouble + 1 /\ files' = files
  BY DEF ReloadFails
<1>2. PICK S, T : Fine(S, T) /\ req[r] \in Record(S, T)
  BY ItsRecord
<1>3. new \in Record(S, T) /\ new.pc = "done" /\ new.conf = req[r].conf /\ req[r].conf \in Mains
  BY <1>1, <1>2, ItsRecord DEF Record, Places
<1> HIDE DEF new
<1>4. trouble' \in 0 .. MaxTrouble
  <2>1. trouble \in 0 .. MaxTrouble /\ MaxTrouble \in Nat
    BY ShortcutsAssumption DEF IInv, TypeOK
  <2> QED BY <1>1, <2>1
<1> QED BY <1>1, <1>2, <1>3, <1>4, FilesSame, StepKeeps

LEMMA AnswerKeeps ==
  ASSUME IInv, NEW r \in Reqs, Answer(r)
  PROVE  IInv'
<1>1. req' = [req EXCEPT ![r] = Idle] /\ files' = files /\ conf' = conf /\ trouble' \in 0 .. MaxTrouble
  BY DEF Answer, Become, Same, IInv, TypeOK
<1> QED BY <1>1, EndsKeeps

LEMMA StopKeeps ==
  ASSUME IInv, NEW r \in Reqs, Stop(r)
  PROVE  IInv'
<1>1. req' = [req EXCEPT ![r] = Idle] /\ files' = files /\ conf' = conf
  BY DEF Stop
<1>2. trouble' \in 0 .. MaxTrouble
  <2>1. trouble \in 0 .. MaxTrouble /\ MaxTrouble \in Nat
    BY ShortcutsAssumption DEF IInv, TypeOK
  <2>2. trouble < MaxTrouble /\ trouble' = trouble + 1
    BY DEF Stop
  <2> QED BY <2>1, <2>2
<1> QED BY <1>1, <1>2, EndsKeeps

(* Steps that touch neither files nor requests.                            *)
LEMMA OthersKeep ==
  ASSUME IInv, files' = files, req' = req, trouble' = trouble, conf' \in Mains
  PROVE  IInv'
BY DEF IInv, TypeOK, ReqsTyped, IncludeIsOurs, ReadStands

LEMMA NextIInv ==
  ASSUME IInv, [Next]_vars
  PROVE  IInv'
<1> SUFFICES ASSUME Next \/ UNCHANGED vars PROVE IInv'
  OBVIOUS
<1>1. conf \in Mains /\ FindConfig(files) \in Mains
  BY FileNames DEF IInv, TypeOK
<1>2. CASE UNCHANGED vars
  BY <1>1, <1>2, OthersKeep DEF vars
<1>3. CASE HyprReloads
  BY <1>1, <1>3, OthersKeep DEF HyprReloads
<1>4. CASE VaultdStarts
  BY <1>1, <1>4, OthersKeep DEF VaultdStarts
<1>5. CASE UserEdits \/ UserMigrates
  BY <1>5, UserEditsKeeps, UserMigratesKeeps
<1>6. ASSUME NEW r \in Reqs,
             \/ \E want \in Wants : Save(r, want)
             \/ \E useSuggestions \in BOOLEAN : CtlInstall(r, useSuggestions)
             \/ \E c \in {conf, FindConfig(files)} : RemoveInclude(r, c)
      PROVE  IInv'
  BY <1>1, <1>6, SaveKeeps, CtlInstallKeeps, RemoveIncludeKeeps
<1>7. ASSUME NEW r \in Reqs,
             \/ Read(r) \/ WriteInclude(r) \/ WriteLoadLine(r)
             \/ Strip(r) \/ WriteClean(r) \/ RemoveOld(r)
             \/ Reload(r) \/ ReloadFails(r) \/ Answer(r) \/ Stop(r)
      PROVE  IInv'
  BY <1>7, ReadKeeps, WriteIncludeKeeps, WriteLoadLineKeeps, StripKeeps, WriteCleanKeeps, RemoveOldKeeps,
     ReloadKeeps, ReloadFailsKeeps, AnswerKeeps, StopKeeps
<1> QED BY <1>2, <1>3, <1>4, <1>5, <1>6, <1>7 DEF Next

LEMMA Invariant ==
  Spec => []IInv
<1>1. Init => IInv
  BY InitIInv
<1>2. IInv /\ [Next]_vars => IInv'
  BY NextIInv
<1> QED BY <1>1, <1>2, PTL DEF Spec

-------------------------------------------------------------------------------
(* The theorems. *)

(* Whatever the requests and the user do, all the files are texts, a       *)
(* request has one of its states and the config that vaultd found is one   *)
(* that FindConfig gives.                                                  *)
THEOREM TypeCorrect ==
  Spec => []TypeOK
<1>1. IInv => TypeOK
  BY DEF IInv
<1> QED BY <1>1, Invariant, PTL

(* Nothing is locked, and still a request that is about to write a config  *)
(* has read the user's lines as they are, or the user edited them since:   *)
(* another request that wrote it in between has not changed them.          *)
THEOREM ReadIsCurrent ==
  Spec => []ReadStands
<1>1. IInv => ReadStands
  BY DEF IInv
<1> QED BY <1>1, Invariant, PTL

(* Between Install's look at Vault's file and its write nobody puts a file *)
(* of somebody else's there: what it overwrites is Vault's.                *)
THEOREM IncludeStaysOurs ==
  Spec => []IncludeIsOurs
<1>1. IInv => IncludeIsOurs
  BY DEF IInv
<1> QED BY <1>1, Invariant, PTL

(* A write of the user's config keeps the user's lines, unless the user    *)
(* edited them since it was read.                                          *)
LEMMA ConfWritten ==
  ASSUME IInv, NEW r \in Reqs, req[r].pc \in {"load", "clean"},
         NEW text, Theirs(text) = Theirs(req[r].text), files' = WithFile(req[r].conf, text)
  PROVE  /\ DOMAIN files' = DOMAIN files
         /\ \A f \in DOMAIN files : files'[f] # files[f] =>
              /\ f \in Mains /\ req[r].conf = f
              /\ \/ Theirs(files'[f]) = Theirs(files[f])
                 \/ req[r].moved /\ Theirs(req[r].text) # Theirs(files[f])
<1> DEFINE c == req[r].conf
<1>1. c \in Mains /\ c \in DOMAIN files /\ (req[r].moved \/ Theirs(req[r].text) = Theirs(files[c]))
  BY ItsRecord DEF IInv, ReadStands
<1>2. DOMAIN files' = DOMAIN files /\ \A f \in DOMAIN files : files'[f] = IF f = c THEN text ELSE files[f]
  BY <1>1 DEF WithFile
<1> HIDE DEF c
<1>3. ASSUME NEW f \in DOMAIN files, files'[f] # files[f]
      PROVE  /\ f \in Mains /\ c = f
             /\ \/ Theirs(files'[f]) = Theirs(files[f])
                \/ req[r].moved /\ Theirs(req[r].text) # Theirs(files[f])
  <2>1. f = c /\ files'[f] = text
    BY <1>2, <1>3
  <2> QED BY <1>1, <2>1
<1> QED BY <1>2, <1>3 DEF c

(* What UserLinesKept says of one step.                                    *)
LinesStay ==
  /\ DOMAIN files' \subseteq DOMAIN files \cup VaultFiles
  /\ \A f \in DOMAIN files : (f \notin DOMAIN files' \/ files'[f] # files[f]) =>
       \/ f \in VaultFiles /\ Written(files[f])
       \/ /\ f \in Mains \cap DOMAIN files'
          /\ \/ Theirs(files'[f]) = Theirs(files[f])
             \/ \E r \in Reqs : /\ req[r].pc \in {"load", "clean"} /\ req[r].conf = f
                                /\ req[r].moved /\ Theirs(req[r].text) # Theirs(files[f])

LEMMA StepKeepsLines ==
  ASSUME IInv, [Next]_vars, trouble' = trouble
  PROVE  LinesStay
<1>1. CASE files' = files
  BY <1>1 DEF LinesStay
<1>2. \A g : ~Edited(g)
  <2>1. trouble \in Nat
    <3>1. trouble \in 0 .. MaxTrouble /\ MaxTrouble \in Nat
      BY ShortcutsAssumption DEF IInv, TypeOK
    <3> QED BY <3>1
  <2>2. trouble + 1 # trouble
    BY <2>1
  <2> QED BY <2>2 DEF Edited
<1>3. ASSUME NEW r \in Reqs, WriteInclude(r)
      PROVE  LinesStay
  <2> DEFINE v == FileFor(req[r].conf)
  <2>1. req[r].pc = "include" /\ files' = WithFile(v, Render(req[r].bs)) /\ v \in VaultFiles
    BY <1>3, FileNames DEF WriteInclude
  <2>2. v \in DOMAIN files => Written(files[v])
    BY <2>1 DEF IInv, IncludeIsOurs
  <2>3. IsText(Render(req[r].bs)) /\ Written(Render(req[r].bs))
    BY ItsRecord, RenderWritten
  <2> HIDE DEF v
  <2>4. DOMAIN files' = DOMAIN files \cup {v} /\ \A f \in DOMAIN files : f # v => files'[f] = files[f]
    BY <2>1, <2>3, FileWritten
  <2> QED BY <2>1, <2>2, <2>4 DEF LinesStay
<1>4. ASSUME NEW r \in Reqs, WriteLoadLine(r)
      PROVE  LinesStay
  <2> DEFINE text == WithLoadLine(req[r].text, req[r].conf)
  <2>1. req[r].pc = "load" /\ files' = WithFile(req[r].conf, text)
    BY <1>4 DEF WriteLoadLine, WriteConf
  <2>2. Theirs(text) = Theirs(req[r].text)
    BY ItsRecord, TheirsLoadLine
  <2> HIDE DEF text
  <2> QED BY <2>1, <2>2, ConfWritten DEF LinesStay
<1>5. ASSUME NEW r \in Reqs, WriteClean(r), files' # files
      PROVE  LinesStay
  <2> DEFINE text == writeWithout(req[r].text)
  <2>1. req[r].pc = "clean" /\ files' = WithFile(req[r].conf, text)
    BY <1>5 DEF WriteClean, WriteConf, Same
  <2>2. Theirs(text) = Theirs(req[r].text)
    BY ItsRecord, TheirsWithout
  <2> HIDE DEF text
  <2> QED BY <2>1, <2>2, ConfWritten DEF LinesStay
<1>6. ASSUME NEW v \in VaultFiles, v \in DOMAIN files => Written(files[v]), files' = WithoutFile(v)
      PROVE  LinesStay
  <2>1. DOMAIN files' = DOMAIN files \ {v} /\ \A f \in DOMAIN files' : files'[f] = files[f]
    BY <1>6, FileRemoved
  <2> QED BY <1>6, <2>1 DEF LinesStay
<1>7. ASSUME NEW r \in Reqs, NEW c \in {conf, FindConfig(files)}, RemoveInclude(r, c)
      PROVE  LinesStay
  BY <1>6, <1>7, FileNames DEF RemoveInclude
<1>8. ASSUME NEW r \in Reqs, RemoveOld(r)
      PROVE  LinesStay
  <2>1. includeName \in VaultFiles
    BY DEF VaultFiles
  <2> QED BY <1>1, <1>6, <1>8, <2>1 DEF RemoveOld
<1>9. CASE UserEdits \/ UserMigrates
  BY <1>2, <1>9 DEF UserEdits, UserMigrates
<1>10. CASE HyprReloads \/ VaultdStarts \/ UNCHANGED vars
  BY <1>1, <1>10 DEF HyprReloads, VaultdStarts, vars
<1>11. ASSUME NEW r \in Reqs,
              \/ \E want \in Wants : Save(r, want)
              \/ \E useSuggestions \in BOOLEAN : CtlInstall(r, useSuggestions)
       PROVE  LinesStay
  BY <1>1, <1>11 DEF Save, CtlInstall, Begins
<1>12. ASSUME NEW r \in Reqs, Read(r) \/ Strip(r) \/ Reload(r) \/ ReloadFails(r) \/ Answer(r) \/ Stop(r)
       PROVE  LinesStay
  BY <1>1, <1>12 DEF Read, Strip, Reload, ReloadFails, Answer, Stop, Same
<1> QED BY <1>1, <1>3, <1>4, <1>5, <1>7, <1>8, <1>9, <1>10, <1>11, <1>12 DEF Next

(* docs/shortcuts.md, "Only Vault's own file and its one source line are   *)
(* ever written", for any number of requests and any config; of the user's *)
(* empty lines Remove keeps one of several in a row and none at the end    *)
(* (install.go:188-191), although docs/shortcuts.md:90 says byte for byte. *)
THEOREM LinesKept ==
  Spec => UserLinesKept
<1>1. IInv /\ [Next]_vars => (trouble' = trouble => LinesStay)
  BY StepKeepsLines
<1>2. (trouble' = trouble => LinesStay) =>
        [ trouble' = trouble =>
            /\ DOMAIN files' \subseteq DOMAIN files \cup VaultFiles
            /\ \A f \in DOMAIN files : (f \notin DOMAIN files' \/ files'[f] # files[f]) =>
                 \/ f \in VaultFiles /\ Written(files[f])
                 \/ /\ f \in Mains \cap DOMAIN files'
                    /\ \/ Theirs(files'[f]) = Theirs(files[f])
                       \/ \E r \in Reqs : /\ req[r].pc \in {"load", "clean"} /\ req[r].conf = f
                                          /\ req[r].moved /\ Theirs(req[r].text) # Theirs(files[f]) ]_vars
  BY DEF LinesStay
<1> QED BY <1>1, <1>2, Invariant, PTL DEF Spec, UserLinesKept

-------------------------------------------------------------------------------
(* A request that runs alone. *)

(* How far it is, as one can tell from the files f and the bindings h of a *)
(* Hyprland that is on.                                                    *)
DidSave(q, f) ==
  /\ q.pc \in {"load", "reload", "done"} => FileFor(q.conf) \in DOMAIN f /\ f[FileFor(q.conf)] = Render(q.bs)
  /\ q.pc \in {"reload", "done"} => q.conf \in DOMAIN f /\ hasLoadLine(f[q.conf])

DidRemove(q, f) ==
  /\ FileFor(q.conf) \notin DOMAIN f
  /\ q.pc \in {"old", "reload", "done"} /\ q.conf \in DOMAIN f => Undropped(f[q.conf]) = DOMAIN f[q.conf]
  /\ q.pc \in {"reload", "done"} /\ IsLua(q.conf) /\ includeName \in DOMAIN f => ~Written(f[includeName])

Did(q, f, h, on) ==
  /\ q.pc \in {"read", "include", "load"} => q.op = "save"
  /\ q.pc \in {"strip", "clean", "old"} => q.op = "remove"
  /\ q.pc \in {"include", "load", "clean"} => q.conf \in DOMAIN f /\ f[q.conf] = q.text
  /\ q.op = "save" => DidSave(q, f)
  /\ q.op = "remove" => DidRemove(q, f)
  /\ q.pc = "done" /\ on /\ q.loaded => h = Loaded(f)

Alones ==
  \A r \in Reqs : req[r].alone => Lone(r) /\ Did(req[r], files, hypr, running)

AInv == IInv /\ Alones

LEMMA AloneStep ==
  ASSUME Alones, NEW r \in Reqs,
         \A q \in Reqs \ {r} : req'[q].pc = req[q].pc /\ (req'[q].alone => req[q].alone /\ req[r].pc # "idle"),
         req'[r].alone => req[r].alone \/ Lone(r),
         req'[r].alone => Did(req'[r], files', hypr', running')
  PROVE  Alones'
<1>1. ASSUME NEW q \in Reqs, req'[q].alone
      PROVE  (\A p \in Reqs \ {q} : req'[p].pc = "idle") /\ Did(req'[q], files', hypr', running')
  <2>1. CASE q # r
    <3>1. req[q].alone /\ req[r].pc # "idle"
      BY <1>1, <2>1
    <3>2. req[r].pc = "idle"
      BY <2>1, <3>1 DEF Alones, Lone
    <3> QED BY <3>1, <3>2
  <2>2. CASE q = r
    <3>1. \A p \in Reqs \ {r} : req[p].pc = "idle"
      BY <1>1, <2>2 DEF Alones, Lone
    <3> QED BY <1>1, <2>2, <3>1
  <2> QED BY <2>1, <2>2
<1> QED BY <1>1 DEF Alones, Lone

(* The request goes on.                                                    *)
LEMMA AloneGoes ==
  ASSUME IInv, Alones, NEW r \in Reqs, req[r].pc # "idle", NEW new, req' = [req EXCEPT ![r] = new],
         new.alone => req[r].alone /\ Did(new, files', hypr', running')
  PROVE  Alones'
<1>1. req'[r] = new /\ \A q \in Reqs \ {r} : req'[q] = req[q]
  BY DEF IInv, ReqsTyped
<1> QED BY <1>1, AloneStep

(* The request begins.                                                     *)
LEMMA AloneBegins ==
  ASSUME IInv, Alones, NEW r \in Reqs, NEW new,
         req' = [q \in Reqs |-> IF q = r THEN new ELSE [req[q] EXCEPT !.alone = FALSE]],
         new.alone => Lone(r) /\ Did(new, files', hypr', running')
  PROVE  Alones'
<1>1. PICK S, T : req \in [Reqs -> Record(S, T)]
  BY DEF IInv, ReqsTyped
<1>2. \A q \in Reqs : /\ [req[q] EXCEPT !.alone = FALSE].pc = req[q].pc
                      /\ [req[q] EXCEPT !.alone = FALSE].alone = FALSE
  BY <1>1 DEF Record
<1>3. \A q \in Reqs : req'[q] = IF q = r THEN new ELSE [req[q] EXCEPT !.alone = FALSE]
  OBVIOUS
<1>4. req'[r] = new /\ \A q \in Reqs \ {r} : req'[q].pc = req[q].pc /\ ~req'[q].alone
  BY <1>2, <1>3
<1> QED BY <1>4, AloneStep

(* The user edits something, and nobody is alone any more.                 *)
LEMMA EditedAlones ==
  ASSUME IInv, NEW g, Edited(g)
  PROVE  Alones'
<1>1. PICK S, T : req \in [Reqs -> Record(S, T)]
  BY DEF IInv, ReqsTyped
<1>2. req' = [r \in Reqs |-> [req[r] EXCEPT !.alone = FALSE, !.moved = TRUE]]
  BY DEF Edited
<1>3. \A r \in Reqs : req'[r].alone = FALSE
  BY <1>1, <1>2 DEF Record
<1> QED BY <1>3 DEF Alones

LEMMA EndsAlones ==
  ASSUME IInv, Alones, NEW r \in Reqs, req[r].pc # "idle", req' = [req EXCEPT ![r] = Idle]
  PROVE  Alones'
<1>1. ~Idle.alone
  BY DEF Idle
<1> HIDE DEF Idle
<1> QED BY <1>1, AloneGoes

LEMMA BeginsAlones ==
  ASSUME IInv, Alones, NEW r \in Reqs, NEW c, NEW bs, Begins(r, Chosen("save", c, bs))
  PROVE  Alones'
<1> DEFINE a == Lone(r)
           s == Sure(c)
           S == {{}, bs}
           T == {<< >>}
           C == {c, ""}
           R == [pc : Places, op : {"", "save", "remove"}, conf : C, bs : S, text : T,
                 alone : BOOLEAN, moved : BOOLEAN, sure : BOOLEAN, loaded : BOOLEAN]
           new == [Chosen("save", c, bs) EXCEPT !.alone = a]
<1>1. a \in BOOLEAN /\ s \in BOOLEAN
  BY DEF Lone, Sure
<1>2. Chosen("save", c, bs) = [Idle EXCEPT !.pc = "read", !.op = "save", !.conf = c, !.bs = bs, !.sure = s]
  BY DEF Chosen
<1>3. req' = [q \in Reqs |-> IF q = r THEN new ELSE [req[q] EXCEPT !.alone = FALSE]]
  BY DEF Begins
<1> HIDE DEF a, s
<1>4. Idle \in R
  BY DEF Idle, Places
<1>5. bs \in S /\ c \in C
  OBVIOUS
<1> HIDE DEF S, T, C
<1>6. new.pc = "read" /\ new.op = "save" /\ new.alone = a
  BY <1>1, <1>2, <1>4, <1>5 DEF Places
<1> HIDE DEF new
<1>7. Did(new, files', hypr', running')
  BY <1>6 DEF Did, DidSave
<1> QED BY <1>3, <1>6, <1>7, AloneBegins DEF a

LEMMA ReadAlones ==
  ASSUME IInv, Alones, NEW r \in Reqs, Read(r)
  PROVE  Alones'
<1> DEFINE c == req[r].conf
           new == [req[r] EXCEPT !.pc = "include", !.text = files[c]]
<1>1. /\ req[r].pc = "read" /\ files' = files
      /\ \/ req' = [req EXCEPT ![r] = Idle]
         \/ c \in DOMAIN files /\ req' = [req EXCEPT ![r] = new]
  BY DEF Read, Become, Same
<1>2. CASE req' = [req EXCEPT ![r] = Idle]
  BY <1>1, <1>2, EndsAlones
<1>3. CASE c \in DOMAIN files /\ req' = [req EXCEPT ![r] = new]
  <2>1. PICK S, T : req[r] \in Record(S, T)
    BY ItsRecord
  <2>2. new.pc = "include" /\ new.conf = c /\ new.text = files[c] /\ new.op = req[r].op /\ new.alone = req[r].alone
    BY <2>1 DEF Record
  <2>3. new.alone => req[r].op = "save"
    BY <1>1, <2>2 DEF Alones, Did
  <2> HIDE DEF new
  <2>4. new.alone => Did(new, files', hypr', running')
    BY <1>1, <1>3, <2>2, <2>3 DEF Did, DidSave
  <2> QED BY <1>1, <1>3, <2>2, <2>4, AloneGoes
<1> QED BY <1>1, <1>2, <1>3

LEMMA WriteIncludeAlones ==
  ASSUME IInv, Alones, NEW r \in Reqs, WriteInclude(r)
  PROVE  Alones'
<1> DEFINE c == req[r].conf
           v == FileFor(c)
           reloads == [req[r] EXCEPT !.pc = "reload", !.text = << >>]
           loads == [req[r] EXCEPT !.pc = "load"]
<1>1. /\ req[r].pc = "include" /\ files' = WithFile(v, Render(req[r].bs))
      /\ \/ hasLoadLine(req[r].text) /\ req' = [req EXCEPT ![r] = reloads]
         \/ req' = [req EXCEPT ![r] = loads]
  BY DEF WriteInclude, Goto, Become
<1>2. c \in Mains /\ c \in DOMAIN files /\ c # v
  BY <1>1, ItsRecord, FileNames DEF IInv, ReadStands
<1>3. v \in DOMAIN files' /\ files'[v] = Render(req[r].bs) /\ c \in DOMAIN files' /\ files'[c] = files[c]
  BY <1>1, <1>2 DEF WithFile
<1>4. req[r].alone => files[c] = req[r].text /\ req[r].op = "save"
  BY <1>1 DEF Alones, Did
<1>5. PICK S, T : Fine(S, T) /\ req[r] \in Record(S, T)
  BY ItsRecord
<1>6. << >> \in T
  BY <1>5 DEF Fine
<1>7. /\ reloads.pc = "reload" /\ reloads.conf = c /\ reloads.op = req[r].op /\ reloads.bs = req[r].bs
      /\ reloads.alone = req[r].alone
  BY <1>5, <1>6 DEF Record, Places
<1>8. /\ loads.pc = "load" /\ loads.conf = c /\ loads.op = req[r].op /\ loads.bs = req[r].bs
      /\ loads.text = req[r].text /\ loads.alone = req[r].alone
  BY <1>5 DEF Record, Places
<1> HIDE DEF reloads, loads
<1>9. CASE hasLoadLine(req[r].text) /\ req' = [req EXCEPT ![r] = reloads]
  <2>1. reloads.alone => Did(reloads, files', hypr', running')
    BY <1>3, <1>4, <1>7, <1>9 DEF Did, DidSave
  <2> QED BY <1>1, <1>7, <1>9, <2>1, AloneGoes
<1>10. CASE req' = [req EXCEPT ![r] = loads]
  <2>1. loads.alone => Did(loads, files', hypr', running')
    BY <1>3, <1>4, <1>8 DEF Did, DidSave
  <2> QED BY <1>1, <1>8, <1>10, <2>1, AloneGoes
<1> QED BY <1>1, <1>9, <1>10

LEMMA LoadLineIsThere ==
  ASSUME NEW text, IsText(text), NEW c
  PROVE  hasLoadLine(WithLoadLine(text, c))
<1> DEFINE u == WithLoadLine(text, c)
           x == Line("blank", "")
           y == Line("note", "")
           z == Line("load", FileFor(c))
           n == Len(text)
<1>1. n \in Nat
  BY TextPlaces
<1>2. u = text \o <<x, y, z>>
  BY DEF WithLoadLine
<1>3. z.kind = "load"
  BY DEF Line
<1> HIDE DEF u, x, y, z
<1>4. IsText(u) /\ Len(u) = Len(text) + 3 /\ u[Len(text) + 3] = z
  BY <1>2, ThreeMore
<1>5. DOMAIN u = 1 .. n + 3
  BY <1>4, TextPlaces
<1>6. n + 3 \in 1 .. n + 3
  BY <1>1
<1> HIDE DEF n
<1>7. u[n + 3].kind = "load" /\ n + 3 \in DOMAIN u
  BY <1>3, <1>4, <1>5, <1>6 DEF n
<1>8. hasLoadLine(u)
  BY <1>7 DEF hasLoadLine, HasOf
<1> QED BY <1>8 DEF u

(* What WriteConf writes is what the lone request wants of the config.     *)
LEMMA ConfAlones ==
  ASSUME IInv, Alones, NEW r \in Reqs, NEW text, NEW pc,
         \/ req[r].pc = "load" /\ pc = "reload" /\ hasLoadLine(text)
         \/ req[r].pc = "clean" /\ pc = "old" /\ Undropped(text) = DOMAIN text,
         WriteConf(r, text, pc)
  PROVE  Alones'
<1> DEFINE c == req[r].conf
           undoes == c \notin DOMAIN files \/ Theirs(files[c]) # Theirs(req[r].text)
           p(q) == IF q = r THEN pc ELSE req[q].pc
           t(q) == IF q = r THEN << >> ELSE req[q].text
           m(q) == req[q].moved \/ undoes
<1>1. /\ files' = WithFile(c, text)
      /\ req' = [q \in Reqs |-> [req[q] EXCEPT !.pc = p(q), !.text = t(q), !.moved = m(q)]]
  BY DEF WriteConf
<1>2. c \in Mains
  BY ItsRecord
<1>3. PICK S, T : Fine(S, T) /\ req \in [Reqs -> Record(S, T)]
  BY DEF IInv, ReqsTyped
<1>4. ASSUME NEW q \in Reqs
      PROVE  req[q] \in Record(S, T) /\ m(q) \in BOOLEAN /\ p(q) \in Places /\ t(q) \in T
  BY <1>3 DEF Record, Places, Fine
<1> HIDE DEF p, t, m
<1>5. \A q \in Reqs : /\ req'[q].pc = p(q) /\ req'[q].op = req[q].op /\ req'[q].conf = req[q].conf
                      /\ req'[q].bs = req[q].bs /\ req'[q].alone = req[q].alone
  BY <1>1, <1>4 DEF Record
<1>6. /\ \A q \in Reqs \ {r} : req'[q].pc = req[q].pc
      /\ req'[r].pc = pc
  BY <1>5 DEF p
<1>7. c \in DOMAIN files' /\ files'[c] = text /\ \A f \in VaultFiles : f \in DOMAIN files' <=> f \in DOMAIN files
  BY <1>1, <1>2, FileNames DEF WithFile
<1>8. \A f \in VaultFiles \cap DOMAIN files : files'[f] = files[f]
  BY <1>1, <1>2, FileNames DEF WithFile
<1>9. FileFor(c) \in VaultFiles
  BY FileNames
<1>10. ASSUME req'[r].alone
       PROVE  Did(req'[r], files', hypr', running')
  <2>1. Did(req[r], files, hypr, running)
    BY <1>5, <1>10 DEF Alones
  <2>2. CASE req[r].pc = "load" /\ pc = "reload" /\ hasLoadLine(text)
    <3>1. req[r].op = "save" /\ FileFor(c) \in DOMAIN files /\ files[FileFor(c)] = Render(req[r].bs)
      BY <2>1, <2>2 DEF Did, DidSave
    <3> HIDE DEF c
    <3>2. req'[r].conf = c /\ req'[r].op = "save" /\ req'[r].pc = "reload" /\ req'[r].bs = req[r].bs
      BY <1>5, <1>6, <2>2, <3>1 DEF c
    <3>3. DidSave(req'[r], files')
      BY <1>7, <1>8, <1>9, <2>2, <3>1, <3>2 DEF DidSave
    <3> QED BY <3>2, <3>3 DEF Did
  <2>3. CASE req[r].pc = "clean" /\ pc = "old" /\ Undropped(text) = DOMAIN text
    <3>1. req[r].op = "remove" /\ FileFor(c) \notin DOMAIN files
      BY <2>1, <2>3 DEF Did, DidRemove
    <3> HIDE DEF c
    <3>2. req'[r].conf = c /\ req'[r].op = "remove" /\ req'[r].pc = "old"
      BY <1>5, <1>6, <2>3, <3>1 DEF c
    <3>3. DidRemove(req'[r], files')
      BY <1>7, <1>9, <2>3, <3>1, <3>2 DEF DidRemove
    <3> QED BY <3>2, <3>3 DEF Did
  <2> QED BY <2>2, <2>3
<1>11. req[r].pc # "idle"
  OBVIOUS
<1> QED BY <1>5, <1>6, <1>10, <1>11, AloneStep

LEMMA WriteLoadLineAlones ==
  ASSUME IInv, Alones, NEW r \in Reqs, WriteLoadLine(r)
  PROVE  Alones'
<1>1. req[r].pc = "load" /\ WriteConf(r, WithLoadLine(req[r].text, req[r].conf), "reload")
  BY DEF WriteLoadLine
<1>2. hasLoadLine(WithLoadLine(req[r].text, req[r].conf))
  BY ItsRecord, LoadLineIsThere
<1> QED BY <1>1, <1>2, ConfAlones

LEMMA WriteCleanAlones ==
  ASSUME IInv, Alones, NEW r \in Reqs, WriteClean(r)
  PROVE  Alones'
<1> DEFINE c == req[r].conf
           text == writeWithout(req[r].text)
           new == [req[r] EXCEPT !.pc = "old", !.text = << >>]
<1>1. /\ req[r].pc = "clean"
      /\ \/ text = req[r].text /\ req' = [req EXCEPT ![r] = new] /\ files' = files
         \/ WriteConf(r, text, "old")
  BY DEF WriteClean, Become, Same
<1>2. Undropped(text) = DOMAIN text
  BY ItsRecord, WithoutIs
<1> HIDE DEF text
<1>3. CASE WriteConf(r, text, "old")
  BY <1>1, <1>2, <1>3, ConfAlones
<1>4. CASE text = req[r].text /\ req' = [req EXCEPT ![r] = new] /\ files' = files
  <2>1. PICK S, T : Fine(S, T) /\ req[r] \in Record(S, T)
    BY ItsRecord
  <2>2. << >> \in T
    BY <2>1 DEF Fine
  <2>3. new.pc = "old" /\ new.conf = c /\ new.op = req[r].op /\ new.alone = req[r].alone
    BY <2>1, <2>2 DEF Record, Places
  <2> HIDE DEF new
  <2>4. ASSUME new.alone
        PROVE  Did(new, files', hypr', running')
    <3>1. req[r].op = "remove" /\ FileFor(c) \notin DOMAIN files /\ files[c] = text
      BY <1>1, <1>4, <2>3, <2>4 DEF Alones, Did, DidRemove
    <3>2. DidRemove(new, files')
      BY <1>2, <1>4, <2>3, <3>1 DEF DidRemove
    <3> QED BY <2>3, <3>1, <3>2 DEF Did
  <2> QED BY <1>1, <1>4, <2>3, <2>4, AloneGoes
<1> QED BY <1>1, <1>3, <1>4

LEMMA RemoveIncludeAlones ==
  ASSUME IInv, Alones, NEW r \in Reqs, NEW c \in Mains, RemoveInclude(r, c)
  PROVE  Alones'
<1> DEFINE a == Lone(r)
           new == [Idle EXCEPT !.pc = "strip", !.op = "remove", !.conf = c, !.alone = a]
<1>1. /\ files' = WithoutFile(FileFor(c))
      /\ req' = [q \in Reqs |-> IF q = r THEN new ELSE [req[q] EXCEPT !.alone = FALSE]]
  BY DEF RemoveInclude
<1>2. a \in BOOLEAN
  BY DEF Lone
<1> HIDE DEF a
<1>3. PICK S, T : Fine(S, T) /\ Idle \in Record(S, T)
  BY IdleTyped
<1>4. new.pc = "strip" /\ new.op = "remove" /\ new.conf = c /\ new.alone = a
  BY <1>2, <1>3 DEF Record, Places
<1> HIDE DEF new
<1>5. FileFor(c) \notin DOMAIN files'
  BY <1>1 DEF WithoutFile
<1>6. Did(new, files', hypr', running')
  BY <1>4, <1>5 DEF Did, DidRemove
<1> QED BY <1>1, <1>4, <1>6, AloneBegins DEF a

LEMMA StripAlones ==
  ASSUME IInv, Alones, NEW r \in Reqs, Strip(r)
  PROVE  Alones'
<1> DEFINE c == req[r].conf
           cleans == [req[r] EXCEPT !.pc = "clean", !.text = files[c]]
           skips == [req[r] EXCEPT !.pc = "old"]
<1>1. /\ req[r].pc = "strip" /\ files' = files
      /\ \/ c \in DOMAIN files /\ req' = [req EXCEPT ![r] = cleans]
         \/ c \notin DOMAIN files /\ req' = [req EXCEPT ![r] = skips]
  BY DEF Strip, Goto, Become, Same
<1>2. PICK S, T : Fine(S, T) /\ req[r] \in Record(S, T)
  BY ItsRecord
<1>3. /\ cleans.pc = "clean" /\ cleans.text = files[c] /\ cleans.conf = c
      /\ cleans.op = req[r].op /\ cleans.alone = req[r].alone
  BY <1>2 DEF Record
<1>4. skips.pc = "old" /\ skips.conf = c /\ skips.op = req[r].op /\ skips.alone = req[r].alone
  BY <1>2 DEF Record
<1>5. req[r].alone => req[r].op = "remove" /\ FileFor(c) \notin DOMAIN files
  BY <1>1 DEF Alones, Did, DidRemove
<1> HIDE DEF cleans, skips
<1>6. CASE c \in DOMAIN files /\ req' = [req EXCEPT ![r] = cleans]
  <2>1. cleans.alone => Did(cleans, files', hypr', running')
    BY <1>1, <1>3, <1>5, <1>6 DEF Did, DidRemove
  <2> QED BY <1>1, <1>3, <1>6, <2>1, AloneGoes
<1>7. CASE c \notin DOMAIN files /\ req' = [req EXCEPT ![r] = skips]
  <2>1. skips.alone => Did(skips, files', hypr', running')
    BY <1>1, <1>4, <1>5, <1>7 DEF Did, DidRemove
  <2> QED BY <1>1, <1>4, <1>7, <2>1, AloneGoes
<1> QED BY <1>1, <1>6, <1>7

LEMMA RemoveOldAlones ==
  ASSUME IInv, Alones, NEW r \in Reqs, RemoveOld(r)
  PROVE  Alones'
<1> DEFINE c == req[r].conf
           old == IsLua(c) /\ includeName \in DOMAIN files /\ Written(files[includeName])
           new == [req[r] EXCEPT !.pc = "reload"]
<1>1. /\ req[r].pc = "old" /\ req' = [req EXCEPT ![r] = new]
      /\ files' = IF old THEN WithoutFile(includeName) ELSE files
  BY DEF RemoveOld, Goto, Become
<1>2. PICK S, T : Fine(S, T) /\ req[r] \in Record(S, T)
  BY ItsRecord
<1>3. new.pc = "reload" /\ new.conf = c /\ new.op = req[r].op /\ new.alone = req[r].alone
  BY <1>2 DEF Record
<1> HIDE DEF new
<1>4. c \in Mains /\ includeName \notin Mains
  BY <1>1, ItsRecord, FileNames DEF VaultFiles
<1>5. ASSUME new.alone
      PROVE  Did(new, files', hypr', running')
  <2>1. /\ req[r].op = "remove" /\ FileFor(c) \notin DOMAIN files
        /\ c \in DOMAIN files => Undropped(files[c]) = DOMAIN files[c]
    BY <1>1, <1>3, <1>5 DEF Alones, Did, DidRemove
  <2>2. DOMAIN files' \subseteq DOMAIN files /\ (c \in DOMAIN files' => files'[c] = files[c])
    BY <1>1, <1>4 DEF WithoutFile
  <2>3. IsLua(c) /\ includeName \in DOMAIN files' => ~Written(files'[includeName])
    BY <1>1 DEF WithoutFile
  <2>4. DidRemove(new, files')
    BY <1>3, <2>1, <2>2, <2>3 DEF DidRemove
  <2> QED BY <1>3, <2>1, <2>4 DEF Did
<1> QED BY <1>1, <1>3, <1>5, AloneGoes

LEMMA ReloadAlones ==
  ASSUME IInv, Alones, NEW r \in Reqs, Reload(r) \/ ReloadFails(r)
  PROVE  Alones'
<1> DEFINE c == req[r].conf
           new == IF Reload(r) THEN [req[r] EXCEPT !.pc = "done", !.loaded = TRUE] ELSE [req[r] EXCEPT !.pc = "done", !.loaded = FALSE]
<1>1. /\ req[r].pc = "reload" /\ req' = [req EXCEPT ![r] = new] /\ files' = files /\ running' = running
      /\ Reload(r) /\ running => hypr' = Loaded(files)
  BY DEF Reload, ReloadFails, Become
<1>2. PICK S, T : Fine(S, T) /\ req[r] \in Record(S, T)
  BY ItsRecord
<1>3. /\ new.pc = "done" /\ new.conf = c /\ new.op = req[r].op /\ new.bs = req[r].bs
      /\ new.alone = req[r].alone
      /\ ~Reload(r) => ~new.loaded
  BY <1>2 DEF Record
<1> HIDE DEF new
<1>4. ASSUME new.alone
      PROVE  Did(new, files', hypr', running')
  <2>1. Did(req[r], files, hypr, running)
    BY <1>3, <1>4 DEF Alones
  <2>2. new.op = "save" => DidSave(new, files')
    BY <1>1, <1>3, <2>1 DEF Did, DidSave
  <2>3. new.op = "remove" => DidRemove(new, files')
    BY <1>1, <1>3, <2>1 DEF Did, DidRemove
  <2>4. new.loaded /\ running' => hypr' = Loaded(files')
    BY <1>1, <1>3
  <2> QED BY <1>3, <2>2, <2>3, <2>4 DEF Did
<1> QED BY <1>1, <1>3, <1>4, AloneGoes

(* Steps that only bring the bindings of Hyprland up to date.              *)
LEMMA OthersAlones ==
  ASSUME Alones, files' = files, req' = req, running' = running, hypr' \in {hypr, Loaded(files)}
  PROVE  Alones'
BY DEF Alones, Lone, Did

LEMMA NextAInv ==
  ASSUME AInv, [Next]_vars
  PROVE  AInv'
<1> SUFFICES ASSUME Next \/ UNCHANGED vars PROVE Alones'
  BY NextIInv DEF AInv
<1> USE DEF AInv
<1>1. conf \in Mains /\ FindConfig(files) \in Mains
  BY FileNames DEF IInv, TypeOK
<1>2. CASE UNCHANGED vars \/ HyprReloads \/ VaultdStarts
  BY <1>2, OthersAlones DEF vars, HyprReloads, VaultdStarts
<1>3. CASE UserEdits \/ UserMigrates
  BY <1>3, EditedAlones DEF UserEdits, UserMigrates
<1>4. ASSUME NEW r \in Reqs,
             \/ \E want \in Wants : Save(r, want)
             \/ \E useSuggestions \in BOOLEAN : CtlInstall(r, useSuggestions)
             \/ \E c \in {conf, FindConfig(files)} : RemoveInclude(r, c)
      PROVE  Alones'
  <2>1. ASSUME NEW want \in Wants, Save(r, want)
        PROVE  Alones'
    BY <2>1, BeginsAlones DEF Save
  <2>2. ASSUME NEW useSuggestions \in BOOLEAN, CtlInstall(r, useSuggestions)
        PROVE  Alones'
    BY <2>2, BeginsAlones DEF CtlInstall
  <2> QED BY <1>1, <1>4, <2>1, <2>2, RemoveIncludeAlones
<1>5. ASSUME NEW r \in Reqs, Answer(r) \/ Stop(r)
      PROVE  Alones'
  <2>1. req[r].pc # "idle" /\ req' = [req EXCEPT ![r] = Idle]
    BY <1>5 DEF Answer, Stop, Become
  <2> QED BY <2>1, EndsAlones
<1>6. ASSUME NEW r \in Reqs,
             \/ Read(r) \/ WriteInclude(r) \/ WriteLoadLine(r)
             \/ Strip(r) \/ WriteClean(r) \/ RemoveOld(r) \/ Reload(r) \/ ReloadFails(r)
      PROVE  Alones'
  BY <1>6, ReadAlones, WriteIncludeAlones, WriteLoadLineAlones, StripAlones, WriteCleanAlones,
     RemoveOldAlones, ReloadAlones
<1> QED BY <1>2, <1>3, <1>4, <1>5, <1>6 DEF Next

(* A request that ran alone has left on the disk what it answers, whatever *)
(* an earlier one left there.  Saved: Vault's file has exactly the         *)
(* shortcuts that were asked for, and the config loads it, unless a line   *)
(* of the user's only passes for the one that does (install.go:88,         *)
(* lua.go:77).  Removed: Vault's file is gone, with a Lua config the one   *)
(* of an older install too, and the config has no line of Vault's.  And a  *)
(* Hyprland that runs has loaded these files, unless its reload failed.    *)
LoneRequestWrote ==
  \A r \in Reqs :
    req[r].pc = "done" /\ req[r].alone =>
      LET c == req[r].conf
          inc == FileFor(c)
      IN /\ req[r].op = "save" =>
              /\ inc \in DOMAIN files /\ files[inc] = Render(req[r].bs)
              /\ c \in DOMAIN files /\ (OnlyMentioned(files[c]) \/ HasOf(files[c], {"load", "loadish"}))
         /\ req[r].op = "remove" =>
              /\ inc \notin DOMAIN files
              /\ IsLua(c) /\ includeName \in DOMAIN files => ~Written(files[includeName])
              /\ c \in DOMAIN files => \A i \in DOMAIN files[c] : ~Dropped(files[c][i])
         /\ running /\ req[r].loaded => hypr = Loaded(files)

(* Install and Remove do what they answer when nobody interferes, also     *)
(* after a request that ended half way: LoneRequestTakes without what the  *)
(* parsers make of the files.                                              *)
THEOREM LoneWrites ==
  Spec => []LoneRequestWrote
<1>1. Init => AInv
  <2>1. Init => Alones
    <3>1. ~Idle.alone
      BY DEF Idle
    <3> HIDE DEF Idle
    <3> QED BY <3>1 DEF Init, Alones
  <2> QED BY <2>1, InitIInv DEF AInv
<1>2. AInv /\ [Next]_vars => AInv'
  BY NextAInv
<1>3. AInv => LoneRequestWrote
  <2>1. ASSUME Alones, NEW r \in Reqs, req[r].pc = "done", req[r].alone
        PROVE  LET c == req[r].conf
                   inc == FileFor(c)
               IN /\ req[r].op = "save" =>
                       /\ inc \in DOMAIN files /\ files[inc] = Render(req[r].bs)
                       /\ c \in DOMAIN files /\ (OnlyMentioned(files[c]) \/ HasOf(files[c], {"load", "loadish"}))
                  /\ req[r].op = "remove" =>
                       /\ inc \notin DOMAIN files
                       /\ IsLua(c) /\ includeName \in DOMAIN files => ~Written(files[includeName])
                       /\ c \in DOMAIN files => \A i \in DOMAIN files[c] : ~Dropped(files[c][i])
                  /\ running /\ req[r].loaded => hypr = Loaded(files)
    BY <2>1 DEF Alones, Did, DidSave, DidRemove, Undropped, hasLoadLine, OnlyMentioned, HasOf
  <2> QED BY <2>1 DEF AInv, LoneRequestWrote
<1> QED BY <1>1, <1>2, <1>3, PTL DEF Spec

===============================================================================
