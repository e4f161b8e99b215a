------------------------ MODULE ManagerQueriesProofs ------------------------
(***************************************************************************)
(* Theorems about ManagerQueries, for any systems, rows, workspaces,       *)
(* settings, grants and requests: type correctness, what a client sees     *)
(* that follows the links of a list, the agreement of the counts with the  *)
(* lists behind them, and the detail of an advisory.                       *)
(***************************************************************************)
EXTENDS ManagerQueries, TLAPS, FiniteSetTheorems, SequenceTheorems, WellFoundedInduction

-----------------------------------------------------------------------------
(* Naturals and finite sets *)

\* The order of the naturals as a relation, for the theorems on well-founded ones.
Less == {p \in Nat \X Nat : p[1] < p[2]}
LEMMA LessWF == IsWellFoundedOn(Less, Nat)
  BY NatLessThanWellFounded DEF OpToRel, Less

\* A non-empty set of naturals has a smallest element.
LEMMA NatMin ==
  ASSUME NEW T \in SUBSET Nat, T # {}
  PROVE  \E x \in T : \A y \in T : x <= y
<1>1. \E x \in T : \A y \in T : ~(<<y, x>> \in Less)
  BY LessWF, WFMin
<1>2. PICK x \in T : \A y \in T : ~(<<y, x>> \in Less)
  BY <1>1
<1>3. \A y \in T : ~(y < x)
  BY <1>2 DEF Less
<1> QED
  BY <1>3

-----------------------------------------------------------------------------
(* Ordered lists *)

Ahead(S, B, r) == {x \in S : <<x, r>> \in B}
IsStrictTotal(B, S) ==
  /\ \A x \in S : <<x, x>> \notin B
  /\ \A x, y, z \in S : <<x, y>> \in B /\ <<y, z>> \in B => <<x, z>> \in B
  /\ \A x, y \in S : x = y \/ <<x, y>> \in B \/ <<y, x>> \in B

\* A strict total order gives every element of a finite set a place of its own.
LEMMA Ranked ==
  ASSUME NEW S, IsFiniteSet(S), NEW B, IsStrictTotal(B, S)
  PROVE  /\ Cardinality(S) \in Nat
         /\ \A i \in 1 .. Cardinality(S) : \E r \in S : Cardinality(Ahead(S, B, r)) = i - 1
         /\ \A r \in S : \E i \in 1 .. Cardinality(S) : Cardinality(Ahead(S, B, r)) = i - 1
         /\ \A r, s \in S : Cardinality(Ahead(S, B, r)) = Cardinality(Ahead(S, B, s)) => r = s
<1> DEFINE n == Cardinality(S)
           ahead(r) == Ahead(S, B, r)
           rank == [r \in S |-> Cardinality(ahead(r)) + 1]
<1>1. n \in Nat
  BY FS_CardinalityType
<1>2. \A r \in S : IsFiniteSet(ahead(r)) /\ Cardinality(ahead(r)) \in Nat /\ Cardinality(ahead(r)) < n
  <2> SUFFICES ASSUME NEW r \in S
      PROVE  IsFiniteSet(ahead(r)) /\ Cardinality(ahead(r)) \in Nat /\ Cardinality(ahead(r)) < n
    OBVIOUS
  <2>1. ahead(r) \subseteq S /\ ahead(r) # S
    BY DEF Ahead, IsStrictTotal
  <2> HIDE DEF ahead
  <2> QED
    BY <2>1, FS_Subset, FS_CardinalityType
<1>3. \A x, y \in S : <<x, y>> \in B => Cardinality(ahead(x)) < Cardinality(ahead(y))
  <2> SUFFICES ASSUME NEW x \in S, NEW y \in S, <<x, y>> \in B
      PROVE  Cardinality(ahead(x)) < Cardinality(ahead(y))
    OBVIOUS
  <2>1. ahead(x) \subseteq ahead(y) /\ ahead(x) # ahead(y)
    BY DEF Ahead, IsStrictTotal
  <2>2. IsFiniteSet(ahead(y))
    BY <1>2
  <2> HIDE DEF ahead
  <2> QED
    BY <2>1, <2>2, FS_Subset, FS_CardinalityType
<1>4. \A x, y \in S : x = y \/ <<x, y>> \in B \/ <<y, x>> \in B
  BY DEF IsStrictTotal
<1> HIDE DEF ahead
<1>5. rank \in [S -> 1 .. n] /\ \A r \in S : rank[r] = Cardinality(ahead(r)) + 1
  <2>1. \A r \in S : Cardinality(ahead(r)) + 1 \in 1 .. n
    BY <1>1, <1>2
  <2> QED
    BY <2>1
<1> HIDE DEF rank
<1>6. \A x, y \in S : rank[x] = rank[y] => x = y
  <2> SUFFICES ASSUME NEW x \in S, NEW y \in S, rank[x] = rank[y] PROVE x = y
    OBVIOUS
  <2>1. Cardinality(ahead(x)) \in Nat /\ Cardinality(ahead(y)) \in Nat
    BY <1>2
  <2>2. Cardinality(ahead(x)) = Cardinality(ahead(y))
    BY <1>5, <2>1
  <2>3. ~(<<x, y>> \in B) /\ ~(<<y, x>> \in B)
    BY <1>3, <2>1, <2>2
  <2> QED
    BY <1>4, <2>3
<1>7. IsFiniteSet(1 .. n) /\ Cardinality(1 .. n) = n
  BY <1>1, FS_Interval
<1>8. rank \in Injection(S, 1 .. n)
  BY <1>5, <1>6 DEF Injection, IsInjective
<1>9. rank \in Surjection(S, 1 .. n)
  BY <1>7, <1>8, FS_Injection
<1>10. \A i \in 1 .. n : \E r \in S : rank[r] = i
  BY <1>9 DEF Surjection
<1>11. \A r \in S, i \in 1 .. n : Cardinality(ahead(r)) = i - 1 <=> rank[r] = i
  BY <1>1, <1>2, <1>5
<1>12. \A i \in 1 .. n : \E r \in S : Cardinality(ahead(r)) = i - 1
  BY <1>10, <1>11
<1>13. \A r \in S : rank[r] \in 1 .. n /\ Cardinality(ahead(r)) = rank[r] - 1
  BY <1>5, <1>11
<1>14. \A r, s \in S : Cardinality(ahead(r)) = Cardinality(ahead(s)) => r = s
  BY <1>5, <1>6
<1> QED
  BY <1>1, <1>12, <1>13, <1>14 DEF ahead

\* A list that has every element of S in its place of the order B.
Lists(e, S, B) ==
  /\ e \in Seq(S) /\ Len(e) = Cardinality(S) /\ Cardinality(S) \in Nat
  /\ \A i \in 1 .. Len(e) : Cardinality(Ahead(S, B, e[i])) = i - 1
  /\ \A x \in S : \E i \in 1 .. Len(e) : e[i] = x

\* Whatever gives each place an element that has it is that list.
LEMMA PlacesList ==
  ASSUME NEW S, IsFiniteSet(S), NEW B, IsStrictTotal(B, S),
         NEW e, e = [i \in 1 .. Cardinality(S) |-> e[i]],
         \A i \in 1 .. Cardinality(S) :
           (\E r \in S : Cardinality(Ahead(S, B, r)) = i - 1)
             => e[i] \in S /\ Cardinality(Ahead(S, B, e[i])) = i - 1
  PROVE  Lists(e, S, B)
<1> DEFINE n == Cardinality(S)
<1>1. /\ n \in Nat
      /\ \A i \in 1 .. n : \E r \in S : Cardinality(Ahead(S, B, r)) = i - 1
      /\ \A r \in S : \E i \in 1 .. n : Cardinality(Ahead(S, B, r)) = i - 1
      /\ \A r, s \in S : Cardinality(Ahead(S, B, r)) = Cardinality(Ahead(S, B, s)) => r = s
  BY Ranked
<1>2. \A i \in 1 .. n : e[i] \in S /\ Cardinality(Ahead(S, B, e[i])) = i - 1
  BY <1>1
<1>3. \A x \in S : \E i \in 1 .. n : e[i] = x
  BY <1>1, <1>2
<1>4. e \in [1 .. n -> S]
  BY <1>2
<1>5. e \in Seq(S) /\ Len(e) = n
  BY <1>1, <1>4
<1> QED
  BY <1>1, <1>2, <1>3, <1>5 DEF Lists

\* There is one such list.
LEMMA ListsUnique ==
  ASSUME NEW S, IsFiniteSet(S), NEW B, IsStrictTotal(B, S), NEW d, NEW e,
         Lists(d, S, B), Lists(e, S, B)
  PROVE  d = e
<1>1. \A r, s \in S : Cardinality(Ahead(S, B, r)) = Cardinality(Ahead(S, B, s)) => r = s
  BY Ranked
<1>2. d \in Seq(S) /\ e \in Seq(S) /\ Len(d) = Len(e)
  BY DEF Lists
<1>3. \A i \in 1 .. Len(d) : d[i] \in S /\ e[i] \in S
  BY <1>2
<1>4. \A i \in 1 .. Len(d) : d[i] = e[i]
  BY <1>1, <1>2, <1>3 DEF Lists
<1> QED
  BY <1>2, <1>4, SeqEqual

\* What ByID makes of rows with different ids.
IDOrder(S) == {p \in S \X S : p[1][1] < p[2][1]}
LEMMA ByIDLists ==
  ASSUME NEW S, IsFiniteSet(S), \A r \in S : r[1] \in Nat,
         \A r, s \in S : r[1] = s[1] => r = s
  PROVE  Lists(ByID(S), S, IDOrder(S))
<1> DEFINE B == IDOrder(S)
           n == Cardinality(S)
           before(r) == {x \in S : x[1] < r[1]}
           e == [i \in 1 .. n |-> CHOOSE r \in S : Cardinality(before(r)) = i - 1]
<1>1. ByID(S) = e
  BY DEF ByID, Ordered
<1>2. IsStrictTotal(B, S)
  BY DEF IsStrictTotal, IDOrder
<1>3. \A r \in S : before(r) = Ahead(S, B, r)
  BY DEF Ahead, IDOrder
<1> HIDE DEF before, B
<1>4. \A i \in 1 .. n : (\E r \in S : Cardinality(Ahead(S, B, r)) = i - 1)
                         => e[i] \in S /\ Cardinality(Ahead(S, B, e[i])) = i - 1
  <2> SUFFICES ASSUME NEW i \in 1 .. n, NEW r \in S, Cardinality(Ahead(S, B, r)) = i - 1
      PROVE  e[i] \in S /\ Cardinality(Ahead(S, B, e[i])) = i - 1
    OBVIOUS
  <2>1. e[i] = CHOOSE x \in S : Cardinality(before(x)) = i - 1
    OBVIOUS
  <2>2. Cardinality(before(r)) = i - 1
    BY <1>3
  <2>3. e[i] \in S /\ Cardinality(before(e[i])) = i - 1
    BY <2>1, <2>2, Zenon
  <2> QED
    BY <1>3, <2>3
<1>5. e = [i \in 1 .. n |-> e[i]]
  OBVIOUS
<1> HIDE DEF e
<1> QED
  BY <1>1, <1>2, <1>4, <1>5, PlacesList DEF B

\* The order of a list of systems, as ApplySort has it.
KeyBefore(D, desc, r1, r2) ==
  LET Key(r) == D.sys[r[1]].key
  IN  CASE Key(r1) = NIL -> FALSE
        [] Key(r1) # NIL /\ Key(r2) = NIL -> TRUE
        [] Key(r1) # NIL /\ Key(r2) # NIL ->
             IF desc THEN Key(r1) > Key(r2) ELSE Key(r1) < Key(r2)
TieBefore(tie, r1, r2) == IF tie = "asc" THEN r1[2] < r2[2] ELSE r1[2] > r2[2]
SortBefore(D, desc, byID, tie, r1, r2) ==
  \/ ~byID /\ KeyBefore(D, desc, r1, r2)
  \/ /\ byID \/ ~KeyBefore(D, desc, r2, r1)
     /\ r1[1] < r2[1] \/ (r1[1] = r2[1] /\ TieBefore(tie, r1, r2))
SortOrder(S, D, desc, byID, tie) == {p \in S \X S : SortBefore(D, desc, byID, tie, p[1], p[2])}

\* Rows of systems, with keys that can be compared.
CanSort(S, D) ==
  /\ IsFiniteSet(S) /\ S \subseteq Nat \X Nat
  /\ \A r \in S : D.sys[r[1]].key \in Nat \cup {NIL}

LEMMA SortTotal ==
  ASSUME NEW S, NEW D, CanSort(S, D), NEW desc, NEW byID \in BOOLEAN, NEW tie
  PROVE  IsStrictTotal(SortOrder(S, D, desc, byID, tie), S)
<1> DEFINE K(x, y) == KeyBefore(D, desc, x, y)
           I(x, y) == x[1] < y[1] \/ (x[1] = y[1] /\ TieBefore(tie, x, y))
           key(x) == D.sys[x[1]].key
<1>1. \A x \in S : x[1] \in Nat /\ x[2] \in Nat /\ x = <<x[1], x[2]>> /\ key(x) \in Nat \cup {NIL}
  BY DEF CanSort
<1>2. /\ \A x \in S : ~K(x, x)
      /\ \A x, y, z \in S : K(x, y) /\ K(y, z) => K(x, z)
      /\ \A x, y, z \in S : ~K(x, y) /\ ~K(y, z) => ~K(x, z)
      /\ \A x, y \in S : ~(K(x, y) /\ K(y, x))
  <2>1. \A x, y \in S : K(x, y) <=> key(x) # NIL /\ (key(y) = NIL \/ IF desc THEN key(x) > key(y)
                                                                          ELSE key(x) < key(y))
    BY DEF KeyBefore
  <2>2. \A x \in S : key(x) \in Nat \cup {NIL}
    BY <1>1
  <2> HIDE DEF K, key
  <2>3. CASE desc
    BY <2>1, <2>2, <2>3
  <2>4. CASE ~desc
    BY <2>1, <2>2, <2>4
  <2> QED
    BY <2>3, <2>4
<1>3. /\ \A x \in S : ~I(x, x)
      /\ \A x, y, z \in S : I(x, y) /\ I(y, z) => I(x, z)
      /\ \A x, y \in S : x = y \/ I(x, y) \/ I(y, x)
  <2>1. CASE tie = "asc"
    BY <1>1, <2>1 DEF TieBefore
  <2>2. CASE tie # "asc"
    BY <1>1, <2>2 DEF TieBefore
  <2> QED
    BY <2>1, <2>2
<1>4. \A x, y \in S : <<x, y>> \in SortOrder(S, D, desc, byID, tie)
                        <=> (~byID /\ K(x, y)) \/ ((byID \/ ~K(y, x)) /\ I(x, y))
  BY DEF SortOrder, SortBefore
<1> HIDE DEF K, I
<1> DEFINE B == SortOrder(S, D, desc, byID, tie)
<1>5. \A x \in S : <<x, x>> \notin B
  BY <1>2, <1>3, <1>4
<1>6. \A x, y, z \in S : <<x, y>> \in B /\ <<y, z>> \in B => <<x, z>> \in B
  <2> SUFFICES ASSUME NEW x \in S, NEW y \in S, NEW z \in S, <<x, y>> \in B, <<y, z>> \in B
      PROVE  <<x, z>> \in B
    OBVIOUS
  <2>1. /\ (~byID /\ K(x, y)) \/ ((byID \/ ~K(y, x)) /\ I(x, y))
        /\ (~byID /\ K(y, z)) \/ ((byID \/ ~K(z, y)) /\ I(y, z))
    BY <1>4
  <2>2. <<x, z>> \in B <=> (~byID /\ K(x, z)) \/ ((byID \/ ~K(z, x)) /\ I(x, z))
    BY <1>4
  <2> HIDE DEF B
  <2> QED
    BY <1>2, <1>3, <2>1, <2>2
<1>7. \A x, y \in S : x = y \/ <<x, y>> \in B \/ <<y, x>> \in B
  BY <1>2, <1>3, <1>4
<1> QED
  BY <1>5, <1>6, <1>7 DEF IsStrictTotal

\* What ApplySort makes of rows of systems.
LEMMA SortLists ==
  ASSUME NEW S, NEW D, CanSort(S, D), NEW desc, NEW byID \in BOOLEAN, NEW tie
  PROVE  Lists(ApplySort(S, D, desc, byID, tie), S, SortOrder(S, D, desc, byID, tie))
<1> DEFINE B == SortOrder(S, D, desc, byID, tie)
           n == Cardinality(S)
           before(r) == {x \in S : SortBefore(D, desc, byID, tie, x, r)}
           e == [i \in 1 .. n |-> CHOOSE r \in S : Cardinality(before(r)) = i - 1]
<1>1. ApplySort(S, D, desc, byID, tie) = e
  BY DEF ApplySort, Ordered, SortBefore, KeyBefore, TieBefore
<1>2. IsStrictTotal(B, S) /\ IsFiniteSet(S)
  BY SortTotal DEF CanSort
<1>3. \A r \in S : before(r) = Ahead(S, B, r)
  BY DEF Ahead, SortOrder
<1> HIDE DEF before, B
<1>4. \A i \in 1 .. n : (\E r \in S : Cardinality(Ahead(S, B, r)) = i - 1)
                         => e[i] \in S /\ Cardinality(Ahead(S, B, e[i])) = i - 1
  <2> SUFFICES ASSUME NEW i \in 1 .. n, NEW r \in S, Cardinality(Ahead(S, B, r)) = i - 1
      PROVE  e[i] \in S /\ Cardinality(Ahead(S, B, e[i])) = i - 1
    OBVIOUS
  <2>1. e[i] = CHOOSE x \in S : Cardinality(before(x)) = i - 1
    OBVIOUS
  <2>2. Cardinality(before(r)) = i - 1
    BY <1>3
  <2>3. e[i] \in S /\ Cardinality(before(e[i])) = i - 1
    BY <2>1, <2>2, Zenon
  <2> QED
    BY <1>3, <2>3
<1>5. e = [i \in 1 .. n |-> e[i]]
  OBVIOUS
<1> HIDE DEF e
<1> QED
  BY <1>1, <1>2, <1>4, <1>5, PlacesList DEF B

\* A list of systems without ties is the same whichever comes first of a tie.
NoTies(S) == \A r, s \in S : r[1] = s[1] => r = s
SortedAlike(S, D, desc, tie, other) ==
  ApplySort(S, D, desc, FALSE, tie) = ApplySort(S, D, desc, FALSE, other)
LEMMA SortUntied ==
  ASSUME NEW S, NEW D, CanSort(S, D), NEW desc, NEW tie, NEW other, NoTies(S)
  PROVE  SortedAlike(S, D, desc, tie, other)
<1>1. \A x, y \in S : x[1] = y[1] => (TieBefore(tie, x, y) <=> TieBefore(other, x, y))
  BY DEF CanSort, TieBefore, NoTies
<1>2. \A x, y \in S : SortBefore(D, desc, FALSE, tie, x, y) <=> SortBefore(D, desc, FALSE, other, x, y)
  BY <1>1, Zenon DEF SortBefore
<1>3. SortOrder(S, D, desc, FALSE, tie) = SortOrder(S, D, desc, FALSE, other)
  BY <1>2 DEF SortOrder
<1> QED
  BY <1>3, SortLists, SortTotal, ListsUnique DEF CanSort, SortedAlike

-----------------------------------------------------------------------------
(* WithSystems: the rows that are shown, in their order *)

KeptStep(kept, rows, i) ==
  IF i = 0 THEN <<>> ELSE IF rows[i][2] = {} THEN kept[i - 1] ELSE Append(kept[i - 1], rows[i])
IsKept(kept, rows, k) == kept = [i \in 0 .. k |-> KeptStep(kept, rows, i)]

\* The recursive function in WithSystems exists, prefix by prefix.
LEMMA KeptExists ==
  ASSUME NEW rows, NEW n \in Nat
  PROVE  \E kept : IsKept(kept, rows, n)
<1> DEFINE T == {k \in Nat : ~\E kept : IsKept(kept, rows, k)}
<1> SUFFICES ASSUME T # {} PROVE FALSE
  OBVIOUS
<1>1. PICK k \in T : \A l \in T : k <= l
  BY NatMin
<1>2. CASE k = 0
  <2> DEFINE g == [i \in 0 .. 0 |-> <<>>]
  <2>1. g = [i \in 0 .. 0 |-> KeptStep(g, rows, i)]
    BY DEF KeptStep
  <2> QED
    BY <1>1, <1>2, <2>1 DEF IsKept
<1>3. CASE k # 0
  <2>1. k - 1 \in Nat /\ k - 1 \notin T
    BY <1>1, <1>3
  <2>2. PICK g : IsKept(g, rows, k - 1)
    BY <2>1
  <2> DEFINE h == [i \in 0 .. k |-> IF i < k THEN g[i] ELSE KeptStep(g, rows, k)]
  <2>3. \A i \in 0 .. k : i # 0 => h[i - 1] = g[i - 1]
    BY <1>1
  <2>4. \A i \in 0 .. k : KeptStep(h, rows, i) = KeptStep(g, rows, i)
    BY <2>3 DEF KeptStep
  <2>5. \A i \in 0 .. k - 1 : g[i] = KeptStep(g, rows, i)
    BY <2>2 DEF IsKept
  <2>6. \A i \in 0 .. k : h[i] = KeptStep(h, rows, i)
    BY <1>1, <2>4, <2>5
  <2>7. h = [i \in 0 .. k |-> KeptStep(h, rows, i)]
    BY <2>6
  <2> HIDE DEF h
  <2> QED
    BY <1>1, <2>7 DEF IsKept
<1> QED
  BY <1>2, <1>3

\* And is the only one.
LEMMA KeptIs ==
  ASSUME NEW T, NEW rows \in Seq(T)
  PROVE  \E kept : IsKept(kept, rows, Len(rows)) /\ WithSystems(rows) = kept[Len(rows)]
<1> DEFINE kept == CHOOSE kept : IsKept(kept, rows, Len(rows))
<1>1. Len(rows) \in Nat
  OBVIOUS
<1>2. IsKept(kept, rows, Len(rows))
  BY <1>1, KeptExists
<1>3. WithSystems(rows) = kept[Len(rows)]
  BY Zenon DEF WithSystems, IsKept, KeptStep
<1> QED
  BY <1>2, <1>3

\* Two such functions agree where both are defined and the rows are the same.
LEMMA KeptAgree ==
  ASSUME NEW r, NEW s, NEW n \in Nat, NEW m \in Nat, NEW f, NEW g,
         IsKept(f, r, n), IsKept(g, s, m), NEW k \in Nat, k <= n, k <= m,
         \A i \in 1 .. k : r[i] = s[i]
  PROVE  f[k] = g[k]
<1> DEFINE T == {i \in Nat : i <= k /\ f[i] # g[i]}
<1> SUFFICES ASSUME T # {} PROVE FALSE
  OBVIOUS
<1>1. PICK i \in T : \A j \in T : i <= j
  BY NatMin
<1>2. f[i] = KeptStep(f, r, i) /\ g[i] = KeptStep(g, s, i)
  <2>1. i \in 0 .. n /\ i \in 0 .. m
    BY <1>1
  <2>2. f = [j \in 0 .. n |-> KeptStep(f, r, j)] /\ g = [j \in 0 .. m |-> KeptStep(g, s, j)]
    BY DEF IsKept
  <2> HIDE DEF T
  <2> QED
    BY <2>1, <2>2, Zenon
<1>3. CASE i = 0
  BY <1>1, <1>2, <1>3 DEF KeptStep
<1>4. CASE i # 0
  <2>1. i - 1 \notin T /\ i - 1 \in Nat /\ i - 1 <= k
    BY <1>1, <1>4
  <2>2. f[i - 1] = g[i - 1] /\ r[i] = s[i]
    BY <1>1, <1>4, <2>1
  <2> QED
    BY <1>1, <1>2, <2>2 DEF KeptStep
<1> QED
  BY <1>3, <1>4

\* A row more is shown if it has a system.
LEMMA ShowsOneMore ==
  ASSUME NEW T, NEW rows \in Seq(T), NEW x \in T
  PROVE  WithSystems(Append(rows, x)) =
           IF x[2] = {} THEN WithSystems(rows) ELSE Append(WithSystems(rows), x)
<1> DEFINE more == Append(rows, x)
           n == Len(rows)
<1>1. /\ n \in Nat /\ more \in Seq(T) /\ Len(more) = n + 1 /\ more[n + 1] = x
      /\ \A i \in 1 .. n : more[i] = rows[i]
  BY AppendProperties
<1>2. PICK f : IsKept(f, rows, n) /\ WithSystems(rows) = f[n]
  BY KeptIs
<1> HIDE DEF more
<1>3. PICK g : IsKept(g, more, n + 1) /\ WithSystems(more) = g[n + 1]
  BY <1>1, KeptIs
<1>4. f[n] = g[n]
  BY <1>1, <1>2, <1>3, KeptAgree
<1>5. g[n + 1] = KeptStep(g, more, n + 1)
  BY <1>1, <1>3 DEF IsKept
<1>6. n + 1 # 0 /\ n + 1 - 1 = n
  BY <1>1
<1> QED
  BY <1>1, <1>2, <1>3, <1>4, <1>5, <1>6 DEF KeptStep, more

\* Nothing of nothing.
LEMMA ShowsNothing == WithSystems(<<>>) = <<>>
<1>1. <<>> \in Seq({}) /\ Len(<<>>) = 0
  OBVIOUS
<1>2. PICK f : IsKept(f, <<>>, 0) /\ WithSystems(<<>>) = f[0]
  BY <1>1, KeptIs
<1> QED
  BY <1>2 DEF IsKept, KeptStep

\* A list that is not empty ends with a row.
LEMMA LastRow ==
  ASSUME NEW T
  PROVE  \A u \in Seq(T) : Len(u) # 0 =>
           \E v \in Seq(T), x \in T : u = Append(v, x) /\ Len(v) = Len(u) - 1
<1> SUFFICES ASSUME NEW u \in Seq(T), Len(u) # 0
    PROVE  \E v \in Seq(T), x \in T : u = Append(v, x) /\ Len(v) = Len(u) - 1
  OBVIOUS
<1>1. u # <<>>
  BY EmptySeq
<1>2. PICK v \in Seq(T), x \in T : u = Append(v, x)
  BY <1>1, SequenceEmptyOrAppend
<1>3. Len(v) = Len(u) - 1
  BY <1>2, AppendProperties, LenProperties
<1> QED
  BY <1>2, <1>3

\* To append to the second of two lists is to append to both.
LEMMA AppendToBoth ==
  ASSUME NEW T, NEW r \in Seq(T), NEW s \in Seq(T), NEW x \in T
  PROVE  r \o s \in Seq(T) /\ r \o Append(s, x) = Append(r \o s, x)
<1>1. r \o s \in Seq(T) /\ <<x>> \in Seq(T)
  BY ConcatProperties
<1>2. Append(s, x) = s \o <<x>> /\ Append(r \o s, x) = (r \o s) \o <<x>>
  BY <1>1, AppendIsConcat
<1>3. (r \o s) \o <<x>> = r \o (s \o <<x>>)
  BY <1>1, ConcatAssociative
<1> QED
  BY <1>1, <1>2, <1>3

\* The rows shown of two lists, one after the other, are those shown of each.
LEMMA ShowsBoth ==
  ASSUME NEW T, NEW r \in Seq(T), NEW s \in Seq(T)
  PROVE  /\ WithSystems(r) \in Seq(T)
         /\ WithSystems(r \o s) = WithSystems(r) \o WithSystems(s)
<1>1. \A u \in Seq(T) : WithSystems(u) \in Seq(T)
  <2> DEFINE X == {k \in Nat : \E u \in Seq(T) : Len(u) = k /\ WithSystems(u) \notin Seq(T)}
  <2>1. SUFFICES ASSUME X # {} PROVE FALSE
    BY LenProperties
  <2>2. PICK k \in X : \A j \in X : k <= j
    BY <2>1, NatMin
  <2>3. PICK u \in Seq(T) : Len(u) = k /\ WithSystems(u) \notin Seq(T)
    BY <2>2
  <2>4. CASE k = 0
    BY <2>3, <2>4, ShowsNothing, EmptySeq
  <2>5. CASE k # 0
    <3>1. \E v \in Seq(T), x \in T : u = Append(v, x) /\ Len(v) = Len(u) - 1
      BY <2>3, <2>5, LastRow
    <3>2. PICK v \in Seq(T), x \in T : u = Append(v, x) /\ Len(v) = k - 1
      BY <2>3, <3>1
    <3>3. k - 1 \in Nat /\ ~(k <= k - 1)
      BY <2>2, <2>5
    <3>4. WithSystems(v) \in Seq(T)
      BY <2>2, <3>2, <3>3
    <3>5. WithSystems(u) = IF x[2] = {} THEN WithSystems(v) ELSE Append(WithSystems(v), x)
      BY <3>2, ShowsOneMore
    <3>6. Append(WithSystems(v), x) \in Seq(T)
      BY <3>4, AppendProperties
    <3> QED
      BY <2>3, <3>4, <3>5, <3>6
  <2> QED
    BY <2>4, <2>5
<1> DEFINE X == {k \in Nat : \E u \in Seq(T) :
                   Len(u) = k /\ WithSystems(r \o u) # WithSystems(r) \o WithSystems(u)}
<1>2. SUFFICES ASSUME X # {} PROVE FALSE
  BY <1>1, LenProperties
<1>3. PICK k \in X : \A j \in X : k <= j
  BY <1>2, NatMin
<1>4. PICK u \in Seq(T) : Len(u) = k /\ WithSystems(r \o u) # WithSystems(r) \o WithSystems(u)
  BY <1>3
<1>5. CASE k = 0
  <2>1. u = <<>>
    BY <1>4, <1>5, EmptySeq
  <2>2. r \o u = r /\ WithSystems(r) \o <<>> = WithSystems(r)
    BY <1>1, <2>1, ConcatEmptySeq
  <2> QED
    BY <1>4, <2>1, <2>2, ShowsNothing
<1>6. CASE k # 0
  <2>1. \E v \in Seq(T), x \in T : u = Append(v, x) /\ Len(v) = Len(u) - 1
    BY <1>4, <1>6, LastRow
  <2>2. PICK v \in Seq(T), x \in T : u = Append(v, x) /\ Len(v) = k - 1
    BY <1>4, <2>1
  <2>3. k - 1 \in Nat /\ ~(k <= k - 1)
    BY <1>3, <1>6
  <2>4. WithSystems(r \o v) = WithSystems(r) \o WithSystems(v)
    BY <1>3, <2>2, <2>3
  <2>5. r \o v \in Seq(T) /\ r \o u = Append(r \o v, x)
    BY <2>2, AppendToBoth
  <2>6. WithSystems(r) \in Seq(T) /\ WithSystems(v) \in Seq(T)
    BY <1>1, <2>2
  <2>7. CASE x[2] = {}
    BY <1>4, <2>2, <2>4, <2>5, <2>7, ShowsOneMore
  <2>8. CASE x[2] # {}
    <3>1. WithSystems(r \o u) = Append(WithSystems(r) \o WithSystems(v), x)
      BY <2>4, <2>5, <2>8, ShowsOneMore
    <3>2. WithSystems(u) = Append(WithSystems(v), x)
      BY <2>2, <2>8, ShowsOneMore
    <3>3. WithSystems(r) \o Append(WithSystems(v), x) = Append(WithSystems(r) \o WithSystems(v), x)
      <4> DEFINE a == WithSystems(r)
                 b == WithSystems(v)
      <4>1. a \in Seq(T) /\ b \in Seq(T) /\ x \in T
        BY <2>2, <2>6
      <4> HIDE DEF a, b
      <4>2. a \o Append(b, x) = Append(a \o b, x)
        BY <4>1, AppendToBoth
      <4> QED
        BY <4>2 DEF a, b
    <3>4. WithSystems(r) \o WithSystems(u) = Append(WithSystems(r) \o WithSystems(v), x)
      BY <3>2, <3>3, Zenon
    <3> QED
      BY <1>4, <3>1, <3>4
  <2> QED
    BY <2>7, <2>8
<1> QED
  BY <1>5, <1>6
-----------------------------------------------------------------------------
(* Sums over workspaces *)

\* What MapThenSumSet iterates, with the counts as a function.
SumStep(it, g, S) ==
  IF S = {} THEN 0 ELSE g[CHOOSE x \in S : TRUE] + it[S \ {CHOOSE x \in S : TRUE}]
SumUpTo(it, g, W, k) ==
  it = [S \in {T \in SUBSET W : Cardinality(T) <= k} |-> SumStep(it, g, S)]

\* One element less.
LEMMA OneLess ==
  ASSUME NEW S, IsFiniteSet(S), S # {}
  PROVE  LET x == CHOOSE x \in S : TRUE
         IN  /\ x \in S /\ IsFiniteSet(S \ {x}) /\ Cardinality(S) \in Nat \ {0}
             /\ Cardinality(S \ {x}) = Cardinality(S) - 1
<1>1. (CHOOSE x \in S : TRUE) \in S
  OBVIOUS
<1>2. Cardinality(S) \in Nat \ {0}
  BY FS_CardinalityType, FS_EmptySet
<1> QED
  BY <1>1, <1>2, FS_RemoveElement

LEMMA SumExists ==
  ASSUME NEW W, IsFiniteSet(W), NEW g, NEW n \in Nat
  PROVE  \E it : SumUpTo(it, g, W, n)
<1> DEFINE T == {k \in Nat : ~\E it : SumUpTo(it, g, W, k)}
<1> SUFFICES ASSUME T # {} PROVE FALSE
  OBVIOUS
<1>1. PICK k \in T : \A l \in T : k <= l
  BY NatMin
<1>2. \A S \in SUBSET W : IsFiniteSet(S) /\ Cardinality(S) \in Nat
  BY FS_Subset, FS_CardinalityType
<1>3. CASE k = 0
  <2> DEFINE it == [S \in {R \in SUBSET W : Cardinality(R) <= 0} |-> 0]
  <2>1. \A S \in SUBSET W : Cardinality(S) <= 0 => S = {}
    BY <1>2, FS_EmptySet
  <2>2. it = [S \in {R \in SUBSET W : Cardinality(R) <= 0} |-> SumStep(it, g, S)]
    BY <2>1 DEF SumStep
  <2> HIDE DEF it
  <2> QED
    BY <1>1, <1>3, <2>2 DEF SumUpTo
<1>4. CASE k # 0
  <2>1. k - 1 \in Nat /\ k - 1 \notin T
    BY <1>1, <1>4
  <2>2. PICK f : SumUpTo(f, g, W, k - 1)
    BY <2>1
  <2> DEFINE U == {R \in SUBSET W : Cardinality(R) <= k}
             it == [S \in U |-> IF Cardinality(S) <= k - 1 THEN f[S] ELSE SumStep(f, g, S)]
  <2>3. \A S \in U : S # {} => /\ S \ {CHOOSE x \in S : TRUE} \in U
                               /\ Cardinality(S \ {CHOOSE x \in S : TRUE}) <= k - 1
    <3> SUFFICES ASSUME NEW S \in U, S # {}
        PROVE  /\ S \ {CHOOSE x \in S : TRUE} \in U
               /\ Cardinality(S \ {CHOOSE x \in S : TRUE}) <= k - 1
      OBVIOUS
    <3>1. Cardinality(S) \in Nat /\ Cardinality(S) <= k /\ IsFiniteSet(S) /\ S \subseteq W
      BY <1>2
    <3>2. Cardinality(S \ {CHOOSE x \in S : TRUE}) = Cardinality(S) - 1
      BY <3>1, OneLess
    <3> QED
      BY <1>1, <3>1, <3>2
  <2>4. \A S \in U : S # {} => it[S \ {CHOOSE x \in S : TRUE}] = f[S \ {CHOOSE x \in S : TRUE}]
    BY <2>3
  <2>5. /\ \A S \in U : it[S] = IF Cardinality(S) <= k - 1 THEN f[S] ELSE SumStep(f, g, S)
        /\ it = [S \in U |-> it[S]]
    OBVIOUS
  <2>6. \A S \in U : Cardinality(S) <= k - 1 => f[S] = SumStep(f, g, S)
    BY <2>2 DEF SumUpTo
  <2> HIDE DEF it
  <2>7. \A S \in U : SumStep(it, g, S) = SumStep(f, g, S)
    <3> HIDE DEF U
    <3> SUFFICES ASSUME NEW S \in U PROVE SumStep(it, g, S) = SumStep(f, g, S)
      OBVIOUS
    <3>1. CASE S = {}
      BY <3>1 DEF SumStep
    <3>2. CASE S # {}
      <4>1. it[S \ {CHOOSE x \in S : TRUE}] = f[S \ {CHOOSE x \in S : TRUE}]
        BY <2>4, <3>2
      <4> QED
        BY <4>1, <3>2 DEF SumStep
    <3> QED
      BY <3>1, <3>2
  <2>8. \A S \in U : it[S] = SumStep(it, g, S)
    BY <2>5, <2>6, <2>7
  <2>9. it = [S \in U |-> SumStep(it, g, S)]
    BY <2>5, <2>8
  <2> QED
    BY <1>1, <2>9 DEF SumUpTo
<1> QED
  BY <1>3, <1>4

\* The sum of numbers of elements that are counted apart is the number of all of them.
CountAt(X, h, w) == Cardinality({s \in X : h[s] = w})
CountIn(X, h, W) == Cardinality({s \in X : h[s] \in W})
LEMMA SumCounts ==
  ASSUME NEW W, IsFiniteSet(W), NEW g, NEW it, SumUpTo(it, g, W, Cardinality(W)),
         NEW X, IsFiniteSet(X), NEW h, \A w \in W : g[w] = CountAt(X, h, w)
  PROVE  it[W] = CountIn(X, h, W)
<1> USE DEF CountAt, CountIn
<1> DEFINE part(S) == {s \in X : h[s] \in S}
           T == {k \in Nat : \E S \in SUBSET W : Cardinality(S) = k /\ it[S] # Cardinality(part(S))}
<1>1. \A S \in SUBSET W : /\ IsFiniteSet(S) /\ Cardinality(S) \in Nat
                          /\ Cardinality(S) <= Cardinality(W) /\ it[S] = SumStep(it, g, S)
  BY FS_Subset, FS_CardinalityType DEF SumUpTo
<1> SUFFICES ASSUME T # {} PROVE FALSE
  BY <1>1
<1>2. PICK k \in T : \A l \in T : k <= l
  BY NatMin
<1>3. PICK S \in SUBSET W : Cardinality(S) = k /\ it[S] # Cardinality(part(S))
  BY <1>2
<1>4. CASE S = {}
  <2>1. it[S] = 0
    BY <1>1, <1>4 DEF SumStep
  <2>2. part(S) = {}
    BY <1>4
  <2> QED
    BY <1>3, <2>1, <2>2, FS_EmptySet
<1>5. CASE S # {}
  <2> DEFINE x == CHOOSE x \in S : TRUE
             rest == S \ {x}
  <2>1. x \in S /\ x \in W /\ rest \in SUBSET W /\ Cardinality(rest) = k - 1 /\ k \in Nat \ {0}
    BY <1>1, <1>3, <1>5, OneLess
  <2>2. it[S] = g[x] + it[rest]
    BY <1>1, <1>5 DEF SumStep
  <2> HIDE DEF x
  <2>3. k - 1 \in Nat /\ k - 1 \notin T
    BY <1>2, <2>1
  <2>4. it[rest] = Cardinality(part(rest))
    BY <2>1, <2>3
  <2>5. g[x] = Cardinality(part({x}))
    <3>1. part({x}) = {s \in X : h[s] = x}
      OBVIOUS
    <3> QED
      BY <2>1, <3>1
  <2>6. part(S) = part({x}) \cup part(rest) /\ part({x}) \cap part(rest) = {}
    BY <2>1
  <2>7. IsFiniteSet(part({x})) /\ IsFiniteSet(part(rest))
    BY FS_Subset
  <2> HIDE DEF part
  <2>8. Cardinality(part(S)) = Cardinality(part({x})) + Cardinality(part(rest)) - 0
    <3>1. Cardinality(part({x}) \cap part(rest)) = 0
      BY <2>6, FS_EmptySet
    <3>2. Cardinality(part({x}) \cup part(rest))
            = Cardinality(part({x})) + Cardinality(part(rest)) - Cardinality(part({x}) \cap part(rest))
      BY <2>7, FS_Union
    <3> QED
      BY <2>6, <3>1, <3>2
  <2>9. Cardinality(part({x})) \in Nat /\ Cardinality(part(rest)) \in Nat
    BY <2>7, FS_CardinalityType
  <2> QED
    BY <1>3, <2>2, <2>4, <2>5, <2>8, <2>9
<1> QED
  BY <1>4, <1>5

\* A sum of numbers is a number.
LEMMA SumIsNat ==
  ASSUME NEW W, IsFiniteSet(W), NEW g, NEW it, SumUpTo(it, g, W, Cardinality(W)),
         \A w \in W : g[w] \in Nat
  PROVE  it[W] \in Nat
<1> DEFINE T == {k \in Nat : \E S \in SUBSET W : Cardinality(S) = k /\ it[S] \notin Nat}
<1>1. \A S \in SUBSET W : /\ IsFiniteSet(S) /\ Cardinality(S) \in Nat
                          /\ Cardinality(S) <= Cardinality(W) /\ it[S] = SumStep(it, g, S)
  BY FS_Subset, FS_CardinalityType DEF SumUpTo
<1> SUFFICES ASSUME T # {} PROVE FALSE
  BY <1>1
<1>2. PICK k \in T : \A l \in T : k <= l
  BY NatMin
<1>3. PICK S \in SUBSET W : Cardinality(S) = k /\ it[S] \notin Nat
  BY <1>2
<1>4. CASE S = {}
  BY <1>1, <1>3, <1>4 DEF SumStep
<1>5. CASE S # {}
  <2> DEFINE x == CHOOSE x \in S : TRUE
             rest == S \ {x}
  <2>1. x \in W /\ rest \in SUBSET W /\ Cardinality(rest) = k - 1 /\ k \in Nat \ {0}
    BY <1>1, <1>3, <1>5, OneLess
  <2>2. it[S] = g[x] + it[rest]
    BY <1>1, <1>5 DEF SumStep
  <2> HIDE DEF x
  <2>3. k - 1 \in Nat /\ k - 1 \notin T
    BY <1>2, <2>1
  <2>4. it[rest] \in Nat
    BY <2>1, <2>3
  <2> QED
    BY <1>3, <2>1, <2>2, <2>4
<1> QED
  BY <1>4, <1>5

\* The counts of account_advisory, added up.
SumOver(D, a, W) == MapThenSumSet(LAMBDA w : D.accountAdvisory[w][a], W)
LEMMA SumOfWorkspaces ==
  ASSUME NEW D, NEW a, NEW W, IsFiniteSet(W)
  PROVE  \E it : /\ SumUpTo(it, [w \in W |-> D.accountAdvisory[w][a]], W, Cardinality(W))
                 /\ SumOver(D, a, W) = it[W]
<1> DEFINE g == [w \in W |-> D.accountAdvisory[w][a]]
           Step(it, S) == IF S = {} THEN 0
                          ELSE D.accountAdvisory[CHOOSE x \in S : TRUE][a] + it[S \ {CHOOSE x \in S : TRUE}]
           it == CHOOSE it : it = [S \in SUBSET W |-> Step(it, S)]
<1>1. SumOver(D, a, W) = it[W]
  BY DEF SumOver, MapThenSumSet, MapThenFoldSet
<1>2. Cardinality(W) \in Nat /\ \A S \in SUBSET W : Cardinality(S) <= Cardinality(W)
  BY FS_CardinalityType, FS_Subset
<1>3. {T \in SUBSET W : Cardinality(T) <= Cardinality(W)} = SUBSET W
  BY <1>2
<1>4. PICK f : SumUpTo(f, g, W, Cardinality(W))
  BY <1>2, SumExists
<1>5. \A j : \A S \in SUBSET W : Step(j, S) = SumStep(j, g, S)
  BY DEF SumStep
<1>6. f = [S \in SUBSET W |-> Step(f, S)]
  BY <1>3, <1>4, <1>5 DEF SumUpTo
<1>7. it = [S \in SUBSET W |-> Step(it, S)]
  BY <1>6, Zenon
<1> HIDE DEF it
<1>8. SumUpTo(it, g, W, Cardinality(W))
  BY <1>3, <1>5, <1>7 DEF SumUpTo
<1> QED
  BY <1>1, <1>8
-----------------------------------------------------------------------------
(* What a database answers *)

SystemEndpoints ==
  {"systems", "advisory_systems", "package_systems", "template_systems", "views_systems"}
ListEndpoints ==
  SystemEndpoints \cup {"advisories", "packages", "templates", "tags", "versions",
                        "system_advisories", "system_packages", "views_advisories"}
ListRow == Nat \X (Nat \cup SUBSET SystemIDs)

\* Part of the systems, with rows.
LEMMA SystemsAre ==
  ASSUME NEW D \in Databases, NEW account, NEW workspaces
  PROVE  /\ Systems(D, account, workspaces) \subseteq SystemIDs
         /\ IsFiniteSet(Systems(D, account, workspaces))
         /\ \A s \in Systems(D, account, workspaces) :
              /\ s \in Nat /\ D.sys[s] \in Rows
              /\ D.sys[s].key \in Nat \cup {NIL} /\ D.sys[s].workspace \in Workspaces
              /\ D.sys[s].versions \subseteq Versions
<1>1. Systems(D, account, workspaces) \subseteq SystemIDs
  BY DEF Systems
<1>2. IsFiniteSet(Systems(D, account, workspaces))
  BY <1>1, QueryAssumption, FS_Subset
<1>3. \A s \in Systems(D, account, workspaces) : s \in Nat /\ D.sys[s] \in Rows
  BY QueryAssumption DEF Systems, Databases
<1> QED
  BY <1>1, <1>2, <1>3, TableAssumption

\* The rows of the versions of a package.
LEMMA PackageRows ==
  ASSUME NEW D \in Databases, NEW account, NEW workspaces
  PROVE  /\ packageSystemsQuery(D, account, workspaces) \subseteq SystemIDs \X Versions
         /\ IsFiniteSet(packageSystemsQuery(D, account, workspaces))
         /\ \A r \in packageSystemsQuery(D, account, workspaces) :
              /\ r[1] \in Systems(D, account, workspaces) /\ r[2] \in Versions /\ r[2] \in Nat
              /\ r = <<r[1], r[2]>> /\ ~D.sys[r[1]].stale /\ r[2] \in D.sys[r[1]].versions
<1>1. packageSystemsQuery(D, account, workspaces) \subseteq Systems(D, account, workspaces) \X Versions
  BY DEF packageSystemsQuery
<1>2. IsFiniteSet(Systems(D, account, workspaces) \X Versions)
  BY SystemsAre, QueryAssumption, FS_Product
<1>3. IsFiniteSet(packageSystemsQuery(D, account, workspaces))
  BY <1>1, <1>2, FS_Subset
<1>4. packageSystemsQuery(D, account, workspaces) \subseteq SystemIDs \X Versions
  BY <1>1, SystemsAre
<1>5. \A r \in packageSystemsQuery(D, account, workspaces) :
        ~D.sys[r[1]].stale /\ r[2] \in D.sys[r[1]].versions
  BY DEF packageSystemsQuery
<1> QED
  BY <1>1, <1>3, <1>4, <1>5, QueryAssumption

\* As many rows as systems.
LEMMA OneIs ==
  ASSUME NEW S, S \subseteq SystemIDs
  PROVE  /\ IsFiniteSet(S) /\ IsFiniteSet(One(S)) /\ Cardinality(One(S)) = Cardinality(S)
         /\ \A r \in One(S) : r[1] \in S /\ r[2] = 0 /\ r = <<r[1], 0>>
<1>1. IsFiniteSet(S)
  BY QueryAssumption, FS_Subset
<1> DEFINE f == [s \in S |-> <<s, 0>>]
<1>2. f \in Bijection(S, One(S))
  <2>1. f \in [S -> One(S)] /\ \A a, b \in S : f[a] = f[b] => a = b
    BY DEF One
  <2>2. \A r \in One(S) : \E s \in S : f[s] = r
    BY DEF One
  <2> QED
    BY <2>1, <2>2 DEF Bijection, Injection, IsInjective, Surjection
<1>3. IsFiniteSet(One(S)) /\ Cardinality(One(S)) = Cardinality(S)
  BY <1>1, <1>2, FS_Bijection DEF ExistsBijection
<1> QED
  BY <1>1, <1>3 DEF One

\* The rows that a list of systems sorts.
Selected(q, filter, D, account, workspaces) ==
  {r \in SystemRows(q, D, account, workspaces) :
     /\ ApplyInventoryWhere(q.inventory, D.sys[r[1]])
     /\ filter # NIL => ToWhere(filter, D.sys[r[1]].key)}

LEMMA SystemRowsAre ==
  ASSUME NEW D \in Databases, NEW account, NEW workspaces, NEW q, q.endpoint \in SystemEndpoints
  PROVE  /\ IsFiniteSet(SystemRows(q, D, account, workspaces))
         /\ \A r \in SystemRows(q, D, account, workspaces) :
              r[1] \in Systems(D, account, workspaces) /\ r[2] \in Nat /\ r = <<r[1], r[2]>>
<1> DEFINE rows == SystemRows(q, D, account, workspaces)
           all == Systems(D, account, workspaces)
<1>1. ASSUME NEW S \in SUBSET all, rows = One(S)
      PROVE  IsFiniteSet(rows) /\ \A r \in rows : r[1] \in all /\ r[2] \in Nat /\ r = <<r[1], r[2]>>
  BY <1>1, SystemsAre, OneIs
<1>2. CASE q.endpoint = "systems"
  BY <1>1, <1>2 DEF SystemRows, systemsCommon
<1>3. CASE q.endpoint = "views_systems"
  BY <1>1, <1>3 DEF SystemRows, systemsAdvisoriesQuery
<1>4. CASE q.endpoint = "advisory_systems"
  BY <1>1, <1>4 DEF SystemRows, buildAdvisorySystemsQuery
<1>5. CASE q.endpoint = "template_systems"
  BY <1>1, <1>5 DEF SystemRows, templateSystemsQuery
<1>6. CASE q.endpoint = "package_systems"
  <2>1. rows = packageSystemsQuery(D, account, workspaces)
    BY <1>6 DEF SystemRows
  <2> QED
    BY <2>1, PackageRows
<1> QED
  BY <1>2, <1>3, <1>4, <1>5, <1>6 DEF SystemEndpoints

\* A list of systems is the sorted list of its rows.
LEMMA SystemListIs ==
  ASSUME NEW D \in Databases, NEW account, NEW workspaces, NEW q, q.endpoint \in SystemEndpoints,
         NEW filter, NEW byID \in BOOLEAN, NEW tie
  PROVE  /\ CanSort(Selected(q, filter, D, account, workspaces), D)
         /\ SystemList(q, filter, D, account, workspaces, byID, tie)
              = ApplySort(Selected(q, filter, D, account, workspaces), D, q.desc, byID, tie)
         /\ Lists(SystemList(q, filter, D, account, workspaces, byID, tie),
                  Selected(q, filter, D, account, workspaces),
                  SortOrder(Selected(q, filter, D, account, workspaces), D, q.desc, byID, tie))
         /\ SystemList(q, filter, D, account, workspaces, byID, tie) \in Seq(ListRow)
<1> DEFINE S == Selected(q, filter, D, account, workspaces)
           list == SystemList(q, filter, D, account, workspaces, byID, tie)
<1>1. S \subseteq SystemRows(q, D, account, workspaces)
  BY DEF Selected
<1>2. IsFiniteSet(S)
  BY <1>1, SystemRowsAre, FS_Subset
<1>3. \A r \in S : /\ r[1] \in Systems(D, account, workspaces) /\ r[2] \in Nat /\ r = <<r[1], r[2]>>
  BY <1>1, SystemRowsAre
<1>4. \A s \in Systems(D, account, workspaces) : s \in Nat /\ D.sys[s].key \in Nat \cup {NIL}
  BY SystemsAre
<1>5. S \subseteq Nat \X Nat
  BY <1>3, <1>4
<1>6. CanSort(S, D)
  BY <1>2, <1>3, <1>4, <1>5 DEF CanSort
<1>7. list = ApplySort(S, D, q.desc, byID, tie)
  BY DEF SystemList, Selected
<1>8. Lists(list, S, SortOrder(S, D, q.desc, byID, tie))
  BY <1>6, <1>7, SortLists
<1>9. list \in Seq(ListRow)
  <2>1. S \subseteq ListRow /\ list \in Seq(S)
    BY <1>5, <1>8 DEF ListRow, Lists
  <2> QED
    BY <2>1, SeqMonotonic
<1> QED
  BY <1>6, <1>7, <1>8, <1>9
\* Most of the lists of systems are not sorted by id first.
Plain(q, filter, D, account, workspaces, tie) ==
  LET S == Selected(q, filter, D, account, workspaces)
      list == SystemList(q, filter, D, account, workspaces, FALSE, tie)
  IN  /\ CanSort(S, D)
      /\ list = ApplySort(S, D, q.desc, FALSE, tie)
      /\ Lists(list, S, SortOrder(S, D, q.desc, FALSE, tie))
LEMMA PlainList ==
  ASSUME NEW D \in Databases, NEW account, NEW workspaces, NEW q, q.endpoint \in SystemEndpoints,
         NEW filter, NEW tie
  PROVE  Plain(q, filter, D, account, workspaces, tie)
<1> DEFINE S == Selected(q, filter, D, account, workspaces)
           list == SystemList(q, filter, D, account, workspaces, FALSE, tie)
<1>1. CanSort(S, D)
  BY SystemListIs
<1>2. list = ApplySort(S, D, q.desc, FALSE, tie)
  BY DEF SystemList, Selected
<1>3. Lists(list, S, SortOrder(S, D, q.desc, FALSE, tie))
  BY <1>1, <1>2, SortLists
<1> QED
  BY <1>1, <1>2, <1>3, Zenon DEF Plain

\* Rows with different ids from a finite set.
LEMMA IDsList ==
  ASSUME NEW S, IsFiniteSet(S), S \subseteq Nat, NEW R,
         \A r \in R : r[1] \in S /\ r \in ListRow,
         \A r, s \in R : r[1] = s[1] => r = s
  PROVE  /\ IsFiniteSet(R) /\ Cardinality(R) \in Nat
         /\ Lists(ByID(R), R, IDOrder(R)) /\ ByID(R) \in Seq(ListRow)
<1> DEFINE f == [r \in R |-> r[1]]
<1>1. f \in Injection(R, S)
  BY DEF Injection, IsInjective
<1>2. IsFiniteSet(R)
  BY <1>1, FS_Injection
<1>3. Lists(ByID(R), R, IDOrder(R))
  BY <1>2, ByIDLists
<1>4. ByID(R) \in Seq(ListRow)
  <2>1. R \subseteq ListRow /\ ByID(R) \in Seq(R)
    BY <1>3 DEF Lists
  <2> QED
    BY <2>1, SeqMonotonic
<1> QED
  BY <1>2, <1>3, <1>4, FS_CardinalityType

\* Advisories or versions, with nothing or with systems beside them.
LEMMA IDsWith ==
  ASSUME NEW R, \/ \A r \in R : r[1] \in Advisories
                \/ \A r \in R : r[1] \in Versions,
         \A r \in R : \E x \in {0} \cup SUBSET SystemIDs : r = <<r[1], x>>,
         \A r, s \in R : r[1] = s[1] => r = s
  PROVE  ByID(R) \in Seq(ListRow)
<1>1. PICK S \in {Advisories, Versions} : \A r \in R : r[1] \in S
  OBVIOUS
<1>2. IsFiniteSet(S) /\ S \subseteq Nat
  BY QueryAssumption
<1>3. \A r \in R : r[1] \in S /\ r \in ListRow
  BY <1>1, <1>2 DEF ListRow
<1> QED
  BY <1>2, <1>3, IDsList

Paths == {"nothing", "account_advisory", "advisory_account_data", "tagged"}

\* The number of systems of an advisory, wherever it comes from.
LEMMA AdvisoryCountIsNat ==
  ASSUME NEW D \in Databases, NEW account, NEW prepared, prepared.path \in Paths, NEW inventory,
         NEW a \in Advisories
  PROVE  AdvisoryCount(D, account, prepared, inventory, a) \in Nat
<1>1. CASE prepared.path = "nothing"
  BY <1>1 DEF AdvisoryCount
<1>2. CASE prepared.path = "account_advisory"
  <2> DEFINE W == prepared.workspaces \cap Workspaces
             g == [w \in W |-> D.accountAdvisory[w][a]]
  <2>1. IsFiniteSet(W)
    BY QueryAssumption, FS_Subset
  <2>2. PICK it : /\ SumUpTo(it, g, W, Cardinality(W))
                  /\ SumOver(D, a, W) = it[W]
    BY <2>1, SumOfWorkspaces
  <2>3. \A w \in W : g[w] \in Nat
    BY DEF Databases
  <2>4. it[W] \in Nat
    BY <2>1, <2>2, <2>3, SumIsNat
  <2>5. AdvisoryCount(D, account, prepared, inventory, a)
          = IF account = Own THEN SumOver(D, a, W) ELSE 0
    BY <1>2 DEF AdvisoryCount, buildAccountAdvisorySubquery, SumOver
  <2> QED
    BY <2>2, <2>4, <2>5
<1>3. CASE prepared.path = "advisory_account_data"
  BY <1>3 DEF AdvisoryCount, buildQueryAdvisories, Databases
<1>4. CASE prepared.path = "tagged"
  <2> DEFINE S == {s \in Systems(D, account, prepared.workspaces) :
                     /\ Affects(D, a, s) /\ ~D.sys[s].stale
                     /\ ApplyInventoryWhere(inventory, D.sys[s])}
  <2>1. IsFiniteSet(S)
    BY SystemsAre, FS_Subset
  <2>2. AdvisoryCount(D, account, prepared, inventory, a) = Cardinality(S)
    BY <1>4 DEF AdvisoryCount, buildQueryAdvisoriesTagged
  <2> QED
    BY <2>1, <2>2, FS_CardinalityType
<1> QED
  BY <1>1, <1>2, <1>3, <1>4 DEF Paths

LEMMA PackageCountIsNat ==
  ASSUME NEW D \in Databases, NEW account, NEW workspaces, NEW inventory, NEW useCache
  PROVE  packagesQuery(D, account, workspaces, inventory, useCache) \in Nat
<1> DEFINE S == {r \in packageSystemsQuery(D, account, workspaces) :
                   ApplyInventoryWhere(inventory, D.sys[r[1]])}
<1>1. Cardinality(S) \in Nat
  BY PackageRows, FS_Subset, FS_CardinalityType
<1>2. D.packageData \in Nat
  BY DEF Databases
<1> QED
  BY <1>1, <1>2 DEF packagesQuery

LEMMA TemplateCountIsNat ==
  ASSUME NEW D \in Databases, NEW account, NEW workspaces, NEW inventory
  PROVE  templatesQuery(D, account, workspaces, inventory) \in Nat
<1> DEFINE S == {s \in templateSystemsQuery(D, account, workspaces) :
                   ApplyInventoryWhere(inventory, D.sys[s])}
<1>1. S \subseteq Systems(D, account, workspaces)
  BY DEF templateSystemsQuery
<1>2. Cardinality(S) \in Nat
  BY <1>1, SystemsAre, FS_Subset, FS_CardinalityType
<1> QED
  BY <1>2 DEF templatesQuery

LEMMA TagCountIsNat ==
  ASSUME NEW D \in Databases, NEW account, NEW workspaces, NEW t
  PROVE  TagCount(D, account, workspaces, t) \in Nat
  BY SystemsAre, FS_Subset, FS_CardinalityType DEF TagCount

\* The versions are no more than the rows they come from.
LEMMA VersionsAre ==
  ASSUME NEW D \in Databases, NEW account, NEW workspaces
  PROVE  LET V == packageVersionsQuery(D, account, workspaces)
         IN  /\ ByID(V) \in Seq(ListRow) /\ Len(ByID(V)) \in Nat
             /\ Cardinality(packageSystemsQuery(D, account, workspaces)) \in Nat
             /\ Len(ByID(V)) <= Cardinality(packageSystemsQuery(D, account, workspaces))
<1> DEFINE R == packageSystemsQuery(D, account, workspaces)
           V == packageVersionsQuery(D, account, workspaces)
           f == [r \in R |-> <<r[2], 0>>]
<1>1. f \in Surjection(R, V)
  BY DEF packageVersionsQuery, Surjection
<1>2. Cardinality(V) <= Cardinality(R) /\ Cardinality(R) \in Nat
  BY <1>1, PackageRows, FS_Surjection, FS_CardinalityType
<1>3. \A v \in V : v[1] \in Versions /\ v = <<v[1], 0>>
  BY PackageRows DEF packageVersionsQuery
<1>4. Versions \subseteq Nat /\ IsFiniteSet(Versions)
  BY QueryAssumption
<1>5. \A v \in V : v[1] \in Versions /\ v \in ListRow
  BY <1>3, <1>4 DEF ListRow
<1>6. \A u, v \in V : u[1] = v[1] => u = v
  BY <1>3
<1> HIDE DEF V
<1>7. Cardinality(V) \in Nat /\ Lists(ByID(V), V, IDOrder(V)) /\ ByID(V) \in Seq(ListRow)
  BY <1>4, <1>5, <1>6, IDsList
<1> QED
  BY <1>2, <1>7 DEF V, Lists

\* Whatever a request asks for is a list of rows.
LEMMA ListTyped ==
  ASSUME NEW D \in Databases, NEW account, NEW workspaces, NEW q, q.endpoint \in ListEndpoints,
         NEW filter, NEW prepared, q.endpoint = "advisories" => prepared.path \in Paths, NEW tie
  PROVE  List(q, filter, D, account, workspaces, prepared, tie) \in Seq(ListRow)
<1> DEFINE list == List(q, filter, D, account, workspaces, prepared, tie)
<1>0. /\ IsFiniteSet(Advisories) /\ Advisories \subseteq Nat /\ IsFiniteSet(Versions) /\ Versions \subseteq Nat
      /\ IsFiniteSet(Tags) /\ Tags \subseteq Nat /\ IsFiniteSet({1}) /\ {1} \subseteq Nat
  <2>1. IsFiniteSet({1})
    BY FS_Singleton
  <2> QED
    BY <2>1, QueryAssumption
<1>1. CASE q.endpoint \in SystemEndpoints
  <2>1. list = SystemList(q, filter, D, account, workspaces, FALSE, tie)
    BY <1>1 DEF List, SystemEndpoints
  <2>2. SystemList(q, filter, D, account, workspaces, FALSE, tie) \in Seq(ListRow)
    BY <1>1, SystemListIs
  <2> QED
    BY <2>1, <2>2
<1>2. CASE q.endpoint = "advisories"
  <2> DEFINE c(a) == AdvisoryCount(D, account, prepared, q.inventory, a)
             R == {r \in {<<a, c(a)>> : a \in Advisories} : r[2] > 0}
  <2>1. list = ByID(R)
    BY <1>2 DEF List, Counted
  <2>2. \A a \in Advisories : c(a) \in Nat
    BY <1>2, AdvisoryCountIsNat
  <2> HIDE DEF c
  <2>3. \A r \in R : r[1] \in Advisories /\ r = <<r[1], c(r[1])>>
    OBVIOUS
  <2>4. \A r \in R : r[1] \in Advisories /\ r \in ListRow
    BY <1>0, <2>2, <2>3 DEF ListRow
  <2>5. \A r, s \in R : r[1] = s[1] => r = s
    BY <2>3
  <2> HIDE DEF R
  <2> QED
    BY <1>0, <2>1, <2>4, <2>5, IDsList
<1>3. CASE q.endpoint = "packages"
  <2> DEFINE c(a) == packagesQuery(D, account, workspaces, q.inventory,
                                   prepared.path = "package_account_data")
             R == {r \in {<<a, c(a)>> : a \in {1}} : r[2] > 0}
  <2>1. list = ByID(R)
    BY <1>3 DEF List, Counted
  <2>2. \A a \in {1} : c(a) \in Nat
    BY PackageCountIsNat
  <2> HIDE DEF c
  <2>3. \A r \in R : r[1] \in {1} /\ r = <<r[1], c(r[1])>>
    OBVIOUS
  <2>4. \A r \in R : r[1] \in {1} /\ r \in ListRow
    BY <1>0, <2>2, <2>3 DEF ListRow
  <2>5. \A r, s \in R : r[1] = s[1] => r = s
    BY <2>3
  <2> HIDE DEF R
  <2> QED
    BY <1>0, <2>1, <2>4, <2>5, IDsList
<1>4. CASE q.endpoint = "templates"
  <2>1. list = IF account = Own THEN <<<<1, templatesQuery(D, account, workspaces, q.inventory)>>>>
               ELSE <<>>
    BY <1>4 DEF List
  <2>2. <<1, templatesQuery(D, account, workspaces, q.inventory)>> \in ListRow
    BY TemplateCountIsNat DEF ListRow
  <2> QED
    BY <2>1, <2>2
<1>5. CASE q.endpoint = "tags"
  <2> DEFINE c(a) == TagCount(D, account, workspaces, a)
             R == {r \in {<<a, c(a)>> : a \in Tags} : r[2] > 0}
  <2>1. list = ByID(R)
    BY <1>5 DEF List, Counted
  <2>2. \A a \in Tags : c(a) \in Nat
    BY TagCountIsNat
  <2> HIDE DEF c
  <2>3. \A r \in R : r[1] \in Tags /\ r = <<r[1], c(r[1])>>
    OBVIOUS
  <2>4. \A r \in R : r[1] \in Tags /\ r \in ListRow
    BY <1>0, <2>2, <2>3 DEF ListRow
  <2>5. \A r, s \in R : r[1] = s[1] => r = s
    BY <2>3
  <2> HIDE DEF R
  <2> QED
    BY <1>0, <2>1, <2>4, <2>5, IDsList
<1>6. CASE q.endpoint = "versions"
  <2>1. list = ByID(packageVersionsQuery(D, account, workspaces))
    BY <1>6 DEF List
  <2> QED
    BY <2>1, VersionsAre
<1>7. CASE q.endpoint = "system_advisories"
  <2> DEFINE R == buildSystemAdvisoriesQuery(D, account, workspaces, q.target)
  <2>1. list = ByID(R)
    BY <1>7 DEF List
  <2>2. \A r \in R : r[1] \in Advisories /\ r = <<r[1], 0>>
    BY DEF buildSystemAdvisoriesQuery
  <2> HIDE DEF R
  <2> QED
    BY <2>1, <2>2, IDsWith
<1>8. CASE q.endpoint = "system_packages"
  <2> DEFINE R == systemPackageQuery(D, account, workspaces, q.target)
  <2>1. list = ByID(R)
    BY <1>8 DEF List
  <2>2. \A r \in R : r[1] \in Versions /\ r = <<r[1], 0>>
    BY DEF systemPackageQuery
  <2> HIDE DEF R
  <2> QED
    BY <2>1, <2>2, IDsWith
<1>9. CASE q.endpoint = "views_advisories"
  <2> DEFINE c(a) == SystemsOfAdvisory(D, account, a)
             R == {<<a, c(a)>> : a \in advisoriesSystemsQuery(D, account, workspaces)}
  <2>1. list = ByID(R)
    BY <1>9 DEF List
  <2>2. \A a \in Advisories : c(a) \in SUBSET SystemIDs
    BY SystemsAre DEF SystemsOfAdvisory
  <2> HIDE DEF c
  <2>3. \A r \in R : r[1] \in Advisories /\ r = <<r[1], c(r[1])>>
    BY DEF advisoriesSystemsQuery
  <2> HIDE DEF R
  <2> QED
    BY <2>1, <2>2, <2>3, IDsWith
<1> QED
  BY <1>1, <1>2, <1>3, <1>4, <1>5, <1>6, <1>7, <1>8, <1>9 DEF ListEndpoints
-----------------------------------------------------------------------------
(* The database and the pod *)

DataOK ==
  /\ config \in Configs /\ grant \in Grants /\ changes \in 0..MaxChanges
  /\ primary \in Databases /\ replica \in Databases
  /\ \A s \in SystemIDs, a \in Advisories :
       primary.sys[s] # NIL /\ Affects(primary, a, s) => primary.meta[a] # Absent
  /\ idCache \in BOOLEAN /\ details \in [Advisories -> Absent..Modified]

\* What a request reads is a database.
LEMMA ViewIs ==
  ASSUME DataOK, NEW method
  PROVE  View(method) \in Databases
  BY DEF DataOK, View

\* Counting makes a database of the tables.
IsDatabase(D) ==
  D = [sys |-> D.sys, meta |-> D.meta, advisoryData |-> D.advisoryData,
       accountAdvisory |-> D.accountAdvisory, packageData |-> D.packageData,
       validPackages |-> D.validPackages]
LEMMA RecountedIs ==
  ASSUME NEW D, IsDatabase(D), D.sys \in [SystemIDs -> Rows \cup {NIL}],
         D.meta \in [Advisories -> Absent..Modified]
  PROVE  /\ Recounted(D) \in Databases
         /\ Recounted(D).sys = D.sys /\ Recounted(D).meta = D.meta
<1> DEFINE count(w, a) == Cardinality({s \in Fresh(D, w) : Affects(D, a, s)})
           rows == packageSystemsQuery(D, Own, {})
<1>1. \A w : Systems(D, Own, w) \subseteq SystemIDs
  BY DEF Systems
<1>2. \A w, a : count(w, a) \in Nat
  <2> SUFFICES ASSUME NEW w, NEW a PROVE count(w, a) \in Nat
    OBVIOUS
  <2>1. {s \in Fresh(D, w) : Affects(D, a, s)} \subseteq SystemIDs
    BY <1>1 DEF Fresh
  <2> QED
    BY <2>1, QueryAssumption, FS_Subset, FS_CardinalityType
<1>3. Cardinality(rows) \in Nat
  <2>1. rows \subseteq SystemIDs \X Versions
    BY <1>1 DEF packageSystemsQuery
  <2>2. IsFiniteSet(SystemIDs \X Versions)
    BY QueryAssumption, FS_Product
  <2> QED
    BY <2>1, <2>2, FS_Subset, FS_CardinalityType
<1> DEFINE A == [a \in Advisories |-> count({}, a)]
           B == [w \in Workspaces |-> [a \in Advisories |-> count({w}, a)]]
           C == Cardinality(rows)
           V == TRUE
           N == Recounted(D)
<1>4. N = [D EXCEPT !.advisoryData = A, !.accountAdvisory = B, !.packageData = C, !.validPackages = V]
  BY DEF Recounted
<1>5. /\ A \in [Advisories -> Nat] /\ B \in [Workspaces -> [Advisories -> Nat]] /\ C \in Nat
      /\ V \in BOOLEAN
  BY <1>2, <1>3
<1> HIDE DEF A, B, C, V, N
<1>6. N.sys = D.sys /\ N.meta = D.meta
  BY <1>4 DEF IsDatabase
<1>7. N.advisoryData = A /\ N.accountAdvisory = B /\ N.packageData = C /\ N.validPackages = V
  BY <1>4 DEF IsDatabase
<1>8. IsDatabase(N)
  BY <1>4 DEF IsDatabase
<1>9. N \in Databases
  BY <1>5, <1>6, <1>7, <1>8 DEF Databases, IsDatabase
<1> QED
  BY <1>6, <1>9 DEF N

\* The steps around the client.
Around ==
  \/ \E s \in {t \in SystemIDs : Account[t] = Own}, row \in Rows \cup {NIL} : WriteSystem(s, row)
  \/ \E a \in Advisories, state \in {Absent, Hollow, Complete, Modified} : WriteAdvisory(a, state)
  \/ \E g \in Grants : ChangeGrant(g)
  \/ \E kept \in {{}, Advisories} : OtherPod(kept)
  \/ RefreshCaches \/ Replicate

LEMMA DataInit ==
  ASSUME Init
  PROVE  DataOK
<1>1. PICK sys \in Tables, meta \in Metadata :
        primary = Recounted([sys |-> sys, meta |-> meta, advisoryData |-> NIL,
                             accountAdvisory |-> NIL, packageData |-> NIL, validPackages |-> TRUE])
  BY DEF Init
<1>2. sys \in [SystemIDs -> Rows \cup {NIL}] /\ meta \in [Advisories -> Absent..Modified]
  BY TableAssumption DEF Absent, Modified
<1>3. primary \in Databases /\ primary.sys = sys /\ primary.meta = meta
  <2> DEFINE D == [sys |-> sys, meta |-> meta, advisoryData |-> NIL,
                   accountAdvisory |-> NIL, packageData |-> NIL, validPackages |-> TRUE]
  <2>1. IsDatabase(D) /\ D.sys = sys /\ D.meta = meta
    BY DEF IsDatabase
  <2> HIDE DEF D
  <2>2. Recounted(D) \in Databases /\ Recounted(D).sys = sys /\ Recounted(D).meta = meta
    BY <1>2, <2>1, RecountedIs
  <2> QED
    BY <1>1, <2>2 DEF D
<1>4. \A s \in SystemIDs, a \in Advisories :
        primary.sys[s] # NIL /\ Affects(primary, a, s) => primary.meta[a] # Absent
  BY <1>1, <1>3, TableAssumption DEF Affects, Absent
<1>5. details \in [Advisories -> Absent..Modified]
  BY <1>2, <1>3 DEF Init, Absent, Modified
<1>6. config \in Configs /\ grant \in Grants /\ replica = primary /\ idCache \in BOOLEAN
  BY DEF Init
<1>7. changes \in 0..MaxChanges
  BY QueryAssumption DEF Init
<1> QED
  BY <1>3, <1>4, <1>5, <1>6, <1>7 DEF DataOK

LEMMA AroundKeepsData ==
  ASSUME DataOK, Around
  PROVE  DataOK' /\ config' = config /\ UNCHANGED <<call, walk>>
<1>1. ASSUME NEW s \in SystemIDs, NEW row \in Rows \cup {NIL}, WriteSystem(s, row)
      PROVE  DataOK' /\ config' = config /\ UNCHANGED <<call, walk>>
  <2>1. primary' = [primary EXCEPT !.sys[s] = row,
                                   !.validPackages = @ /\ ~IsEvaluated(primary.sys[s], row)]
    BY <1>1 DEF WriteSystem
  <2>2. primary \in Databases
    BY DEF DataOK
  <2>3. /\ primary'.sys = [primary.sys EXCEPT ![s] = row] /\ primary'.meta = primary.meta
        /\ primary'.advisoryData = primary.advisoryData
        /\ primary'.accountAdvisory = primary.accountAdvisory
        /\ primary'.packageData = primary.packageData
        /\ primary'.validPackages = (primary.validPackages /\ ~IsEvaluated(primary.sys[s], row))
        /\ primary' = [sys |-> primary'.sys, meta |-> primary'.meta,
                       advisoryData |-> primary'.advisoryData,
                       accountAdvisory |-> primary'.accountAdvisory,
                       packageData |-> primary'.packageData,
                       validPackages |-> primary'.validPackages]
    BY <2>1, <2>2 DEF Databases
  <2>4. primary'.validPackages \in BOOLEAN
    BY <2>3
  <2>5. primary' \in Databases
    BY <2>2, <2>3, <2>4 DEF Databases
  <2>6. \A t \in SystemIDs, a \in Advisories :
          primary'.sys[t] # NIL /\ Affects(primary', a, t) => primary'.meta[a] # Absent
    <3> SUFFICES ASSUME NEW t \in SystemIDs, NEW a \in Advisories, primary'.sys[t] # NIL,
                        Affects(primary', a, t)
        PROVE  primary'.meta[a] # Absent
      OBVIOUS
    <3>1. primary.sys \in [SystemIDs -> Rows \cup {NIL}]
      BY <2>2 DEF Databases
    <3>2. CASE t = s
      BY <1>1, <2>3, <3>1, <3>2 DEF WriteSystem, Affects
    <3>3. CASE t # s
      BY <2>3, <3>1, <3>3 DEF DataOK, Affects
    <3> QED
      BY <3>2, <3>3
  <2>7. changes' \in 0..MaxChanges
    BY <1>1, QueryAssumption DEF WriteSystem, Change, DataOK
  <2> QED
    BY <1>1, <2>5, <2>6, <2>7 DEF WriteSystem, DataOK, podVars
<1>2. ASSUME NEW a \in Advisories, NEW state \in {Absent, Hollow, Complete, Modified},
             WriteAdvisory(a, state)
      PROVE  DataOK' /\ config' = config /\ UNCHANGED <<call, walk>>
  <2>1. primary' = [primary EXCEPT !.meta[a] = state] /\ primary \in Databases
    BY <1>2 DEF WriteAdvisory, DataOK
  <2>2. state \in Absent..Modified
    BY DEF Absent, Hollow, Complete, Modified
  <2>3. /\ primary'.meta = [primary.meta EXCEPT ![a] = state] /\ primary'.sys = primary.sys
        /\ primary' \in Databases
    BY <2>1, <2>2 DEF Databases
  <2>4. primary.meta \in [Advisories -> Absent..Modified]
    BY <2>1 DEF Databases
  <2>5. \A s \in SystemIDs, b \in Advisories :
          primary'.sys[s] # NIL /\ Affects(primary', b, s) => primary'.meta[b] # Absent
    <3> SUFFICES ASSUME NEW s \in SystemIDs, NEW b \in Advisories, primary'.sys[s] # NIL,
                        Affects(primary', b, s)
        PROVE  primary'.meta[b] # Absent
      OBVIOUS
    <3>1. primary.sys[s] # NIL /\ Affects(primary, b, s)
      BY <2>3 DEF Affects
    <3>2. CASE b = a
      <4>1. state # Absent
        BY <1>2, <3>1, <3>2 DEF WriteAdvisory, Absent, Hollow, Complete, Modified
      <4> QED
        BY <2>3, <2>4, <3>2, <4>1
    <3>3. CASE b # a
      BY <2>3, <2>4, <3>1, <3>3 DEF DataOK
    <3> QED
      BY <3>2, <3>3
  <2>6. changes' \in 0..MaxChanges
    BY <1>2, QueryAssumption DEF WriteAdvisory, Change, DataOK
  <2> QED
    BY <1>2, <2>3, <2>5, <2>6 DEF WriteAdvisory, DataOK, podVars
<1>3. ASSUME NEW g \in Grants, ChangeGrant(g)
      PROVE  DataOK' /\ config' = config /\ UNCHANGED <<call, walk>>
  <2>1. changes' \in 0..MaxChanges
    BY <1>3, QueryAssumption DEF ChangeGrant, Change, DataOK
  <2> QED
    BY <1>3, <2>1 DEF ChangeGrant, DataOK, podVars, Affects
<1>4. ASSUME NEW kept \in {{}, Advisories}, OtherPod(kept)
      PROVE  DataOK' /\ config' = config /\ UNCHANGED <<call, walk>>
  <2>1. changes' \in 0..MaxChanges
    BY <1>4, QueryAssumption DEF OtherPod, Change, DataOK
  <2>2. details' \in [Advisories -> Absent..Modified]
    <3>1. primary.meta \in [Advisories -> Absent..Modified]
      BY DEF DataOK, Databases
    <3> QED
      BY <1>4, <3>1 DEF OtherPod, Absent, Modified
  <2> QED
    BY <1>4, <2>1, <2>2 DEF OtherPod, DataOK, Affects
<1>5. ASSUME RefreshCaches
      PROVE  DataOK' /\ config' = config /\ UNCHANGED <<call, walk>>
  <2>1. primary' = Recounted(primary) /\ primary \in Databases
    BY <1>5 DEF RefreshCaches, DataOK
  <2>2. /\ primary.sys \in [SystemIDs -> Rows \cup {NIL}] /\ primary.meta \in [Advisories -> Absent..Modified]
        /\ IsDatabase(primary)
    BY <2>1 DEF Databases, IsDatabase
  <2>3. primary' \in Databases /\ primary'.sys = primary.sys /\ primary'.meta = primary.meta
    BY <2>1, <2>2, RecountedIs
  <2> QED
    BY <1>5, <2>3 DEF RefreshCaches, DataOK, podVars, Affects
<1>6. ASSUME Replicate
      PROVE  DataOK' /\ config' = config /\ UNCHANGED <<call, walk>>
  BY <1>6 DEF Replicate, DataOK, podVars, Affects
<1> QED
  BY <1>1, <1>2, <1>3, <1>4, <1>5, <1>6 DEF Around
-----------------------------------------------------------------------------
(* The kinds of steps *)

Views == {"views_systems", "views_advisories"}
Steady == UNCHANGED <<podVars, aroundVars>>

Starts == \E q \in Requests : Start(q)
Enters ==
  \E account \in {0, Own} :
    findAccount(account) /\ idCache' \in {idCache, TRUE} /\ UNCHANGED <<config, details, aroundVars>>
GivesUp ==
  /\ walk.pc \in {"auth", "handler", "fetch"}
  /\ \E err \in {"auth", "notfound", "failed"} : walk' = GiveUp(err)
  /\ Steady /\ UNCHANGED call
IsToldBad ==
  /\ walk.pc = "handler" /\ walk.request.endpoint # "advisory" /\ ~IsValid
  /\ walk' = [walk EXCEPT !.pc = "done", !.err = "bad"]
  /\ Steady /\ UNCHANGED call
PreparedFor(endpoint, prepared) ==
  endpoint \in ListEndpoints \ Views /\ (endpoint = "advisories" => prepared.path \in Paths)
Prepares ==
  \E endpoint, prepared : PreparedFor(endpoint, prepared) /\ AtFirst(endpoint) /\ Prepare(prepared)
Turns(endpoint, r) ==
  \/ endpoint \notin Views /\ AtList(endpoint, Paged) /\ UpdateMetaLinks(r)
  \/ endpoint \in Views /\ AtList(endpoint, Paged) /\ AnswerView(r)
  \/ endpoint \notin Views /\ AtList(endpoint, {"ids"}) /\ (systemsIDs(r) \/ advisoriesIDs(r))
Pages ==
  \E endpoint \in ListEndpoints, tie \in {"asc", "desc"} :
    (tie = "asc" \/ endpoint = "package_systems") /\ Turns(endpoint, Statement(tie))
Exports == \E endpoint \in ListEndpoints \ Views : AtList(endpoint, {"export"}) /\ OutputExportData
ShowsDetail ==
  LET q == walk.request
      a == q.target
      D == View(q.method)
      cached == tryGetAdvisoryFromCache(a)
  IN /\ walk.pc = "handler" /\ q.endpoint = "advisory"
     /\ cached \/ D.meta[a] # Absent
     /\ walk' = [walk EXCEPT !.pc = "done", !.expected = <<D.meta[a]>>,
                             !.seen = <<IF cached THEN details[a] ELSE D.meta[a]>>]
     /\ details' = IF cached THEN details ELSE [details EXCEPT ![a] = D.meta[a]]
     /\ UNCHANGED <<config, idCache, aroundVars, call>>
Follows == FollowNext \/ FollowLast \/ FollowPrevious
Finishes ==
  /\ walk.pc = "page"
  /\ IF walk.back THEN walk.links.previous = NIL
     ELSE walk.request.mode # "last" /\ walk.links.next = NIL
  /\ walk' = [walk EXCEPT !.pc = "done", !.err = NIL]
  /\ Steady /\ UNCHANGED call

LEMMA EndIs ==
  /\ \A err \in {"auth", "notfound", "failed"} : End(err) => walk' = GiveUp(err)
  /\ End("bad") => walk' = [walk EXCEPT !.pc = "done", !.err = "bad"]
  /\ End(NIL) => walk' = [walk EXCEPT !.pc = "done", !.err = NIL]
<1>1. \A err \in {"auth", "notfound", "failed"} : err \notin {NIL, "bad"}
  BY NilAssumption
<1> QED
  BY <1>1 DEF End

\* The paths that resolveAdvisoriesQuery chooses from.
LEMMA PathIs ==
  ASSUME NEW D, NEW account, NEW workspaces, NEW inventory
  PROVE  resolveAdvisoriesQuery(D, account, workspaces, inventory).path \in Paths
  BY DEF resolveAdvisoriesQuery, Paths

LEMMA FirstKind ==
  ASSUME FirstStatement
  PROVE  Prepares \/ queryDB
<1>1. CASE advisorySystemsCommon
  BY <1>1 DEF advisorySystemsCommon, Prepares, PreparedFor, ListEndpoints, SystemEndpoints, Views
<1>2. CASE packageSystemsCommon
  BY <1>2 DEF packageSystemsCommon, Prepares, PreparedFor, ListEndpoints, SystemEndpoints, Views
<1>3. CASE getTemplate
  BY <1>3 DEF getTemplate, Prepares, PreparedFor, ListEndpoints, SystemEndpoints, Views
<1>4. CASE systemAdvisoriesCommon
  BY <1>4 DEF systemAdvisoriesCommon, Prepares, PreparedFor, ListEndpoints, SystemEndpoints, Views
<1>5. CASE advisoriesCommon
  <2> DEFINE prepared == resolveAdvisoriesQuery(View("GET"), call.account, call.workspaces,
                                                walk.request.inventory)
  <2>1. AtFirst("advisories") /\ Prepare(prepared)
    BY <1>5 DEF advisoriesCommon
  <2>2. PreparedFor("advisories", prepared)
    BY PathIs DEF PreparedFor, ListEndpoints, Views
  <2> QED
    BY <2>1, <2>2 DEF Prepares
<1>6. CASE choosePackageCounts
  <2>1. PICK prepared : AtFirst("packages") /\ Prepare(prepared)
    BY <1>6 DEF choosePackageCounts
  <2>2. PreparedFor("packages", prepared)
    BY DEF PreparedFor, ListEndpoints, Views
  <2> QED
    BY <2>1, <2>2 DEF Prepares
<1> QED
  BY <1>1, <1>2, <1>3, <1>4, <1>5, <1>6 DEF FirstStatement

LEMMA ListKind ==
  ASSUME ListHandler \/ IDsHandler
  PROVE  Pages
<1>1. ASSUME NEW endpoint \in ListEndpoints, NEW tie \in {"asc", "desc"},
             tie = "asc" \/ endpoint = "package_systems", Turns(endpoint, Statement(tie))
      PROVE  Pages
  BY <1>1 DEF Pages
<1>2. /\ {"systems", "advisory_systems", "package_systems", "template_systems", "advisories",
          "packages", "versions", "templates", "tags", "system_advisories", "system_packages"}
           \subseteq ListEndpoints \ Views
      /\ Views \subseteq ListEndpoints
  BY DEF ListEndpoints, SystemEndpoints, Views
<1>3. CASE ListHandler
  <2>1. \/ \E endpoint \in {"systems", "advisory_systems", "package_systems", "template_systems",
                            "advisories", "packages", "versions", "templates", "tags",
                            "system_advisories", "system_packages"} :
             AtList(endpoint, Paged) /\ UpdateMetaLinks(Statement("asc"))
        \/ \E tie \in {"asc", "desc"} : AtList("package_systems", Paged) /\ UpdateMetaLinks(Statement(tie))
        \/ \E endpoint \in Views : AtList(endpoint, Paged) /\ AnswerView(Statement("asc"))
    BY <1>3 DEF ListHandler, SystemsListHandler, SystemsListPostHandler, AdvisorySystemsListHandler,
       PackageSystemsListHandler, TemplateSystemsListHandler, AdvisoriesListHandler,
       PackagesListHandler, PackageVersionsListHandler, TemplatesListHandler, SystemTagListHandler,
       SystemAdvisoriesHandler, SystemPackagesHandler, PostSystemsAdvisories, PostAdvisoriesSystems,
       Views
  <2> QED
    BY <1>2, <2>1 DEF Turns, Pages
<1>4. CASE IDsHandler
  <2>1. \/ \E endpoint \in {"systems", "advisory_systems", "template_systems", "advisories",
                            "system_advisories"} :
             /\ AtList(endpoint, {"ids"})
             /\ systemsIDs(Statement("asc")) \/ advisoriesIDs(Statement("asc"))
        \/ \E tie \in {"asc", "desc"} : AtList("package_systems", {"ids"}) /\ systemsIDs(Statement(tie))
    BY <1>4 DEF IDsHandler, SystemsListIDsHandler, AdvisorySystemsListIDsHandler,
       PackageSystemsListIDsHandler, TemplateSystemsListIDsHandler, AdvisoriesListIDsHandler,
       SystemAdvisoriesIDsHandler
  <2> QED
    BY <1>2, <2>1 DEF Turns, Pages
<1> QED
  BY <1>3, <1>4

LEMMA ExportKind ==
  ASSUME ExportHandler
  PROVE  Exports
  BY DEF ExportHandler, SystemsExportHandler, AdvisorySystemsExportHandler,
     PackageSystemsExportHandler, TemplateSystemsExportHandler, AdvisoriesExportHandler,
     PackagesExportHandler, SystemAdvisoriesExportHandler, SystemPackagesExportHandler, Exports,
     ListEndpoints, SystemEndpoints, Views

\* Every step is of one of these kinds.
LEMMA Kinds ==
  ASSUME Next
  PROVE  \/ Around \/ Starts \/ Enters \/ GivesUp \/ IsToldBad \/ Prepares \/ queryDB \/ Pages
         \/ Exports \/ ShowsDetail \/ Follows \/ Finishes \/ AskAgain
<1>1. CASE Around
  BY <1>1
<1>2. CASE PublicAuthenticator \/ AccountNotFound
  BY <1>2 DEF PublicAuthenticator, AccountNotFound, Enters, podVars
<1>3. CASE PermissionDenied \/ AuthServiceFails \/ NotFound \/ StatementFails
  BY <1>3, EndIs DEF PermissionDenied, AuthServiceFails, NotFound, StatementFails, GivesUp, Steady
<1>4. CASE BadRequest
  <2>1. CASE walk.request.endpoint = "tags"
    BY <1>4, <2>1, EndIs DEF BadRequest, GivesUp, Steady
  <2>2. CASE walk.request.endpoint # "tags"
    BY <1>4, <2>2, EndIs DEF BadRequest, IsToldBad, Steady
  <2> QED
    BY <2>1, <2>2
<1>5. CASE getAdvisory
  <2> DEFINE a == walk.request.target
             found == tryGetAdvisoryFromCache(a) \/ View(walk.request.method).meta[a] # Absent
  <2>1. CASE found
    BY <1>5, <2>1 DEF getAdvisory, ShowsDetail
  <2>2. CASE ~found
    BY <1>5, <2>2, EndIs DEF getAdvisory, GivesUp, Steady, podVars
  <2> QED
    BY <2>1, <2>2
<1>6. CASE NoMoreLinks
  BY <1>6, EndIs DEF NoMoreLinks, Finishes, Steady
<1>7. CASE FirstStatement \/ ListHandler \/ IDsHandler \/ ExportHandler
  BY <1>7, FirstKind, ListKind, ExportKind
<1>8. CASE \/ \E q \in Requests : Start(q)
           \/ FollowNext \/ FollowLast \/ FollowPrevious \/ AskAgain
  BY <1>8 DEF Starts, Follows
<1> QED
  BY <1>1, <1>2, <1>3, <1>4, <1>5, <1>6, <1>7, <1>8 DEF Next, Around
-----------------------------------------------------------------------------
(* Pages and links *)

\* Division with remainder.
LEMMA DivisionIs ==
  ASSUME NEW a \in Nat, NEW b \in Nat \ {0}
  PROVE  a \div b \in Nat /\ a % b \in 0 .. b - 1 /\ a = b * (a \div b) + (a % b)
<1>1. a \in Int /\ b \in Int /\ b > 0
  OBVIOUS
<1>2. a = b * (a \div b) + (a % b)
  BY <1>1
<1>3. a \div b \in Nat /\ a % b \in 0 .. b - 1
  OBVIOUS
<1> QED
  BY <1>2, <1>3

LEMMA ProductIsNat ==
  ASSUME NEW a \in Nat, NEW b \in Nat
  PROVE  a * b \in Nat
  OBVIOUS

LEMMA NextMultiple ==
  ASSUME NEW j \in Nat, NEW b \in Nat
  PROVE  (j + 1) * b = j * b + b
  OBVIOUS

\* A multiple is divided without remainder.
LEMMA DivideMultiple ==
  ASSUME NEW k \in Nat, NEW b \in Nat \ {0}
  PROVE  (k * b) \div b = k
<1> DEFINE a == k * b
           d == a \div b
           r == a % b
<1>1. a \in Nat /\ d \in Nat /\ r \in 0 .. b - 1 /\ a = b * d + r
  BY DivisionIs, ProductIsNat
<1>2. k * b = b * d + r
  BY <1>1
<1> HIDE DEF a, d, r
<1>3. ~(d > k)
  <2> SUFFICES ASSUME d > k PROVE FALSE
    OBVIOUS
  <2>1. b * (d - k) = r - 2 * r
    BY <1>1, <1>2
  <2>2. b * (d - k) \in Nat /\ b * (d - k) >= b
    BY <1>1
  <2> QED
    BY <1>1, <2>1, <2>2
<1>4. ~(d < k)
  <2> SUFFICES ASSUME d < k PROVE FALSE
    OBVIOUS
  <2>1. b * (k - d) = r
    BY <1>1, <1>2
  <2>2. b * (k - d) >= b
    BY <1>1
  <2> QED
    BY <1>1, <2>1, <2>2
<1> QED
  BY <1>1, <1>3, <1>4 DEF d, a

CanPage(limit, offset) == limit \in Int /\ (limit >= 1 \/ limit = -1) /\ offset \in Nat

\* The rows of a page.
LEMMA PageIs ==
  ASSUME NEW list \in Seq(ListRow), NEW limit, NEW offset, CanPage(limit, offset)
  PROVE  /\ Len(list) \in Nat
         /\ ApplyLimitOffset(list, limit, offset)
              = SubSeq(list, offset + 1, IF limit # -1 /\ offset + limit <= Len(list)
                                           THEN offset + limit ELSE Len(list))
         /\ ApplyLimitOffset(list, limit, offset) \in Seq(ListRow)
         /\ ApplyLimitOffset(list, limit, offset) = <<>> <=> Len(list) <= offset
         /\ limit # -1 /\ offset + limit <= Len(list)
              <=> Len(ApplyLimitOffset(list, limit, offset)) = limit
<1> DEFINE n == Len(list)
           last == IF limit # -1 /\ offset + limit <= n THEN offset + limit ELSE n
           page == SubSeq(list, offset + 1, last)
<1>1. n \in Nat /\ last \in Nat /\ last <= n
  BY LenProperties DEF CanPage
<1>2. ApplyLimitOffset(list, limit, offset) = page
  <2>1. \A a, b \in Int : Min({a, b}) = IF a <= b THEN a ELSE b
    BY DEF Min
  <2>2. limit # -1 => Min({offset + limit, n}) = IF offset + limit <= n THEN offset + limit ELSE n
    BY <1>1, <2>1 DEF CanPage
  <2> QED
    BY <2>2 DEF ApplyLimitOffset
<1>3. \A i \in offset + 1 .. last : list[i] \in ListRow
  BY <1>1, ElementOfSeq DEF CanPage
<1>4. page \in Seq(ListRow) /\ Len(page) = IF offset + 1 <= last THEN last - offset ELSE 0
  <2>1. offset + 1 \in Int /\ last \in Int
    BY <1>1 DEF CanPage
  <2>2. Len(page) = IF offset + 1 <= last THEN last - (offset + 1) + 1 ELSE 0
    BY <1>3, <2>1, SubSeqProperties
  <2>3. page \in Seq(ListRow)
    BY <1>3, <2>1, SubSeqProperties
  <2> QED
    BY <1>1, <2>2, <2>3 DEF CanPage
<1>5. page = <<>> <=> Len(page) = 0
  BY <1>4, EmptySeq
<1> HIDE DEF page
<1>6. page = <<>> <=> n <= offset
  BY <1>1, <1>4, <1>5 DEF CanPage
<1>7. limit # -1 /\ offset + limit <= n <=> Len(page) = limit
  BY <1>1, <1>4 DEF CanPage
<1> QED
  BY <1>1, <1>2, <1>4, <1>6, <1>7 DEF page

\* The links of a page.
LEMMA LinksAre ==
  ASSUME NEW limit, NEW offset, CanPage(limit, offset), NEW total \in Nat
  PROVE  LET links == CreateLinks(offset, limit, total)
         IN  /\ links.next = IF total <= offset + limit THEN NIL ELSE offset + limit
             /\ offset = 0 => links.previous = NIL
             /\ offset # 0 => /\ links.previous \in Nat /\ links.previous # NIL
                              /\ links.previous < offset \/ limit = -1
                              /\ \A k \in Nat : limit >= 1 /\ offset = k * limit
                                   => \E j \in Nat : k = j + 1 /\ links.previous = j * limit
             /\ links.last \in Nat
             /\ limit >= 1 => /\ links.last = 0 \/ links.last < total
                              /\ total % limit = 0 =>
                                   /\ total = 0 => links.last = 0
                                   /\ total # 0 => \E j \in Nat : /\ total = (j + 1) * limit
                                                                  /\ links.last = j * limit
<1> DEFINE links == CreateLinks(offset, limit, total)
<1>1. links.next = IF total <= offset + limit THEN NIL ELSE offset + limit
  BY DEF CreateLinks, createNextLink
<1>2. offset = 0 => links.previous = NIL
  BY DEF CreateLinks, createPreviousLink
<1>3. ASSUME offset # 0
      PROVE  /\ links.previous \in Nat
             /\ links.previous < offset \/ limit = -1
             /\ \A k \in Nat : limit >= 1 /\ offset = k * limit
                   => \E j \in Nat : k = j + 1 /\ links.previous = j * limit
  <2>1. links.previous = IF Quotient(offset, limit) > 0 THEN (Quotient(offset, limit) - 1) * limit ELSE 0
    BY <1>3 DEF CreateLinks, createPreviousLink
  <2>2. CASE limit = -1
    <3>1. Quotient(offset, limit) = -(offset \div 1)
      BY <2>2 DEF Quotient
    <3>2. offset \div 1 \in Nat
      BY DivisionIs DEF CanPage
    <3>3. links.previous = 0
      BY <2>1, <3>1, <3>2
    <3> QED
      BY <2>2, <3>3
  <2>3. CASE limit >= 1
    <3> DEFINE d == offset \div limit
    <3>1. Quotient(offset, limit) = d /\ limit \in Nat \ {0} /\ offset \in Nat
      BY <2>3 DEF Quotient, CanPage
    <3>2. d \in Nat /\ offset % limit \in 0 .. limit - 1 /\ offset = limit * d + (offset % limit)
      BY <3>1, DivisionIs
    <3>3. \A k \in Nat : offset = k * limit => d = k
      BY <3>1, DivideMultiple
    <3> HIDE DEF d
    <3>4. links.previous = IF d > 0 THEN (d - 1) * limit ELSE 0
      BY <2>1, <3>1
    <3>5. links.previous \in Nat
      <4>1. d > 0 => d - 1 \in Nat
        BY <3>2
      <4> QED
        BY <3>1, <3>4, <4>1, ProductIsNat
    <3>6. links.previous < offset
      <4>1. CASE d > 0
        <5>1. (d - 1) * limit = limit * d - limit
          BY <3>1, <3>2
        <5>2. limit * d \in Nat
          BY <3>1, <3>2, ProductIsNat
        <5> QED
          BY <3>1, <3>2, <3>4, <4>1, <5>1, <5>2
      <4>2. CASE ~(d > 0)
        BY <1>3, <3>1, <3>4, <4>2
      <4> QED
        BY <4>1, <4>2
    <3>7. ASSUME NEW k \in Nat, offset = k * limit
          PROVE  \E j \in Nat : k = j + 1 /\ links.previous = j * limit
      <4>1. d = k /\ k # 0
        BY <1>3, <3>1, <3>3, <3>7
      <4> QED
        BY <3>4, <4>1
    <3> QED
      BY <3>5, <3>6, <3>7
  <2> QED
    BY <2>2, <2>3 DEF CanPage
<1>4. links.last = IF (Quotient(total, limit) - 1) * limit < 0 THEN 0
                   ELSE (Quotient(total, limit) - 1) * limit
  BY DEF CreateLinks, createLastLink
<1>5. CASE limit = -1
  <2>1. Quotient(total, limit) = -(total \div 1) /\ total \div 1 \in Nat
    BY <1>5, DivisionIs DEF Quotient
  <2>2. links.last \in Nat
    BY <1>4, <1>5, <2>1
  <2> QED
    BY <1>1, <1>2, <1>3, <1>5, <2>2, NilAssumption
<1>6. CASE limit >= 1
  <2> DEFINE d == total \div limit
  <2>1. Quotient(total, limit) = d /\ limit \in Nat \ {0}
    BY <1>6 DEF Quotient, CanPage
  <2>2. d \in Nat /\ total % limit \in 0 .. limit - 1 /\ total = limit * d + (total % limit)
    BY <2>1, DivisionIs
  <2> HIDE DEF d
  <2>3. links.last = IF (d - 1) * limit < 0 THEN 0 ELSE (d - 1) * limit
    BY <1>4, <2>1
  <2>4. (d - 1) * limit = limit * d - limit /\ limit * d \in Nat
    BY <2>1, <2>2, ProductIsNat
  <2>5. links.last \in Nat /\ (links.last = 0 \/ links.last < total)
    BY <2>1, <2>2, <2>3, <2>4
  <2>6. ASSUME total % limit = 0
        PROVE  /\ total = 0 => links.last = 0
               /\ total # 0 => \E j \in Nat : total = (j + 1) * limit /\ links.last = j * limit
    <3>1. total = limit * d
      BY <2>1, <2>2, <2>4, <2>6
    <3>2. total = 0 => links.last = 0
      BY <2>5
    <3>3. ASSUME total # 0
          PROVE  \E j \in Nat : total = (j + 1) * limit /\ links.last = j * limit
      <4>1. d # 0
        BY <2>1, <3>1, <3>3
      <4>2. d - 1 \in Nat /\ (d - 1) * limit \in Nat
        BY <2>1, <2>2, <4>1, ProductIsNat
      <4>3. links.last = (d - 1) * limit
        BY <2>3, <4>2
      <4>4. total = ((d - 1) + 1) * limit
        BY <2>1, <2>2, <3>1
      <4> QED
        BY <4>2, <4>3, <4>4
    <3> QED
      BY <3>2, <3>3
  <2> QED
    BY <1>1, <1>2, <1>3, <2>5, <2>6, NilAssumption
<1> QED
  BY <1>5, <1>6 DEF CanPage
-----------------------------------------------------------------------------
(* Types *)

IsWalk(w) ==
  w = [pc |-> w.pc, request |-> w.request, raw |-> w.raw, badTag |-> w.badTag,
       altered |-> w.altered, offset |-> w.offset, back |-> w.back, seen |-> w.seen,
       expected |-> w.expected, changed |-> w.changed, unknown |-> w.unknown, links |-> w.links, err |-> w.err]
IsCall(c) == c = [account |-> c.account, workspaces |-> c.workspaces, prepared |-> c.prepared]

LinksOK(links, limit) ==
  /\ links.last \in Nat
  /\ links.previous # NIL => links.previous \in Nat
  /\ links.next # NIL => links.next \in Int /\ (links.next \in Nat \/ limit = -1)

(* What the first of two statements left for the second. *)
PreparedOK ==
  walk.pc = "fetch" =>
    /\ walk.request.endpoint = "advisories" => call.prepared.path \in Paths
    /\ walk.request.endpoint \in Views => call.prepared.total \in Nat

WalkOK ==
  /\ IsWalk(walk)
  /\ walk.pc \in {"idle", "auth", "handler", "fetch", "page", "done"}
  /\ walk.pc # "idle" => walk.request \in Requests
  /\ walk.offset \in Int
  /\ LinksOK(walk.links, walk.request.limit)
  /\ walk.err \in {NIL, "auth", "bad", "notfound", "failed"}

CallOK == IsCall(call) /\ call.account \in {0, Own} /\ call.workspaces \subseteq Workspaces

TypeInv == DataOK /\ CallOK /\ WalkOK /\ PreparedOK

\* RBAC and Kessel name workspaces.
LEMMA AccessIs ==
  ASSUME config \in Configs, grant \in Grants, NEW handler, NEW method
  PROVE  Authorized(config.auth, grant, handler, method).workspaces \subseteq Workspaces
<1> DEFINE access == grant.rbac
           hosts == {i \in DOMAIN access :
                       access[i].perm \in expandedPermission(inventoryHostsReadPerm)}
           definitions == UNION {access[i].definitions : i \in hosts}
           values == UNION {rd.values : rd \in {d \in definitions : IsGroupDefinition(d)}}
<1>1. {WorkspaceOf(v) : v \in values \ Malformed} \subseteq Workspaces
  <2> SUFFICES ASSUME NEW v \in values \ Malformed PROVE WorkspaceOf(v) \in Workspaces
    OBVIOUS
  <2>1. PICK i \in DOMAIN access :
          \E rd \in access[i].definitions : IsGroupDefinition(rd) /\ v \in rd.values
    OBVIOUS
  <2>2. PICK rd \in access[i].definitions : IsGroupDefinition(rd) /\ v \in rd.values
    BY <2>1
  <2>3. {WorkspaceOf(u) : u \in rd.values \ Malformed} \subseteq Workspaces
    BY <2>2, GrantAssumption
  <2> QED
    BY <2>2, <2>3
<1>2. findInventoryWorkspaces(access).workspaces \in {{}, {WorkspaceOf(v) : v \in values \ Malformed}}
  BY DEF findInventoryWorkspaces, Granted, Refused
<1>3. isAccessGranted(access, handler, method).workspaces \subseteq Workspaces
  BY <1>1, <1>2 DEF isAccessGranted, Refused
<1>4. hasPermissionKessel(grant.kessel).workspaces \subseteq Workspaces
  BY GrantAssumption DEF hasPermissionKessel, Granted, Refused
<1>5. Granted({}).workspaces \subseteq Workspaces
  BY DEF Granted
<1>6. config.auth \in {"kessel", "rbac", "off"}
  BY GrantAssumption
<1> QED
  BY <1>3, <1>4, <1>5, <1>6 DEF Authorized

\* What a look at the list adds to the walk.
LEMMA LookedIs ==
  ASSUME IsWalk(walk), NEW list
  PROVE  LET l == Looked(list)
         IN  /\ IsWalk(l)
             /\ l.pc = walk.pc /\ l.request = walk.request /\ l.raw = walk.raw
             /\ l.badTag = walk.badTag
             /\ l.altered = walk.altered /\ l.offset = walk.offset /\ l.back = walk.back
             /\ l.seen = walk.seen /\ l.unknown = walk.unknown /\ l.links = walk.links
             /\ l.err = walk.err
             /\ l.expected = IF walk.expected = NIL THEN list ELSE walk.expected
             /\ ~l.changed => ~walk.changed /\ (walk.expected # NIL => list = walk.expected)
<1>1. CASE walk.expected = NIL
  <2>1. Looked(list) = [walk EXCEPT !.expected = list]
    BY <1>1 DEF Looked
  <2> QED
    BY <1>1, <2>1 DEF IsWalk
<1>2. CASE walk.expected # NIL
  <2> DEFINE V == walk.changed \/ list # walk.expected
  <2>1. Looked(list) = [walk EXCEPT !.changed = V]
    BY <1>2 DEF Looked
  <2>2. ~V => ~walk.changed /\ list = walk.expected
    OBVIOUS
  <2> HIDE DEF V
  <2> QED
    BY <1>2, <2>1, <2>2 DEF IsWalk
<1> QED
  BY <1>1, <1>2

\* The list that is read, its page, the total beside it, and the list as it was first asked for.
Listed(tie) ==
  List(walk.request, ParseFilters(walk.raw), View(walk.request.method), call.account,
       call.workspaces, call.prepared, tie)
PageOf(tie) == ApplyLimitOffset(Listed(tie), walk.request.limit, walk.offset)
TotalOf(tie) ==
  IF PageOf(tie) = <<>> THEN 0
  ELSE MetaTotalHelper(walk.request, Listed(tie), View(walk.request.method), call.account,
                       call.workspaces)
AskedNow == Asked(View(walk.request.method), call.account, call.workspaces, call.prepared)

(* What an answer does to the walk. *)
Answers(page, asked, refused, links) ==
  /\ IsWalk(walk')
  /\ walk'.request = walk.request /\ walk'.raw = walk.raw /\ walk'.badTag = walk.badTag
  /\ walk'.altered = walk.altered
  /\ walk'.offset = walk.offset /\ walk'.back = walk.back /\ walk'.unknown = walk.unknown
  /\ walk'.expected = IF walk.expected = NIL THEN asked ELSE walk.expected
  /\ ~walk'.changed => ~walk.changed /\ (walk.expected # NIL => asked = walk.expected)
  /\ refused => /\ walk'.pc = "done" /\ walk'.err = "bad" /\ walk'.links = walk.links
                /\ walk'.seen = walk.seen
  /\ ~refused => /\ walk'.pc = "page" /\ walk'.err = walk.err /\ walk'.links = links
                 /\ walk'.seen = IF walk.back THEN Shown(walk.request, page) \o walk.seen
                                 ELSE walk.seen \o Shown(walk.request, page)

LEMMA RespondIs ==
  ASSUME IsWalk(walk), NEW r, NEW asked, r.looked = Looked(asked), NEW refused \in BOOLEAN,
         NEW links, Respond(r, refused, links)
  PROVE  Answers(r.page, asked, refused, links) /\ Steady /\ UNCHANGED call
<1> DEFINE rows == Shown(walk.request, r.page)
           l == Looked(asked)
<1>1. walk' = IF refused THEN [l EXCEPT !.pc = "done", !.err = "bad"]
              ELSE [l EXCEPT !.pc = "page", !.links = links,
                             !.seen = IF walk.back THEN rows \o @ ELSE @ \o rows]
  BY DEF Respond
<1>2. Steady /\ UNCHANGED call
  BY DEF Respond, Steady
<1>3. /\ IsWalk(l)
      /\ l.pc = walk.pc /\ l.request = walk.request /\ l.raw = walk.raw
      /\ l.badTag = walk.badTag
      /\ l.altered = walk.altered /\ l.offset = walk.offset /\ l.back = walk.back
      /\ l.seen = walk.seen /\ l.unknown = walk.unknown /\ l.links = walk.links
      /\ l.err = walk.err
      /\ l.expected = IF walk.expected = NIL THEN asked ELSE walk.expected
      /\ ~l.changed => ~walk.changed /\ (walk.expected # NIL => asked = walk.expected)
  BY LookedIs
<1> HIDE DEF l, rows
<1>4. CASE refused
  <2>1. walk' = [l EXCEPT !.pc = "done", !.err = "bad"]
    BY <1>1, <1>4
  <2>2. IsWalk(walk')
    BY <1>3, <2>1 DEF IsWalk
  <2>3. /\ walk'.request = l.request /\ walk'.raw = l.raw /\ walk'.badTag = l.badTag
        /\ walk'.altered = l.altered
        /\ walk'.offset = l.offset /\ walk'.back = l.back /\ walk'.unknown = l.unknown
        /\ walk'.expected = l.expected /\ walk'.changed = l.changed
        /\ walk'.pc = "done" /\ walk'.err = "bad" /\ walk'.links = l.links
        /\ walk'.seen = l.seen
    BY <1>3, <2>1 DEF IsWalk
  <2> QED
    BY <1>2, <1>3, <1>4, <2>2, <2>3 DEF Answers
<1>5. CASE ~refused
  <2> DEFINE seen == IF walk.back THEN rows \o l.seen ELSE l.seen \o rows
  <2>1. walk' = [l EXCEPT !.pc = "page", !.links = links, !.seen = seen]
    BY <1>1, <1>5
  <2> HIDE DEF seen
  <2>2. IsWalk(walk')
    BY <1>3, <2>1 DEF IsWalk
  <2>3. /\ walk'.request = l.request /\ walk'.raw = l.raw /\ walk'.badTag = l.badTag
        /\ walk'.altered = l.altered
        /\ walk'.offset = l.offset /\ walk'.back = l.back /\ walk'.unknown = l.unknown
        /\ walk'.expected = l.expected /\ walk'.changed = l.changed
        /\ walk'.pc = "page" /\ walk'.err = l.err /\ walk'.links = links /\ walk'.seen = seen
    BY <1>3, <2>1 DEF IsWalk
  <2>4. seen = IF walk.back THEN Shown(walk.request, r.page) \o walk.seen
               ELSE walk.seen \o Shown(walk.request, r.page)
    BY <1>3 DEF seen, rows
  <2> QED
    BY <1>2, <1>3, <1>5, <2>2, <2>3, <2>4 DEF Answers
<1> QED
  BY <1>4, <1>5

\* The request that a page or an export answers, and the lists it reads.
ReadyFor(modes) ==
  /\ walk.request \in Requests /\ walk.request.endpoint \in ListEndpoints
  /\ walk.request.mode \in modes /\ IsValid
  /\ walk.pc = IF walk.request.endpoint \in TwoStatements THEN "fetch" ELSE "handler"

LEMMA ReadyIs ==
  ASSUME TypeInv, NEW modes, ReadyFor(modes), NEW tie
  PROVE  /\ View(walk.request.method) \in Databases
         /\ Listed(tie) \in Seq(ListRow) /\ AskedNow \in Seq(ListRow)
         /\ walk.request.limit \in Int
         /\ walk.request.mode # "export" => CanPage(walk.request.limit, walk.offset)
         /\ walk.request.mode # "export" => TotalOf(tie) \in Nat
         /\ walk.pc \in {"handler", "fetch"}
         /\ walk.request.endpoint \in Views => walk.pc = "fetch" /\ call.prepared.total \in Nat
<1> DEFINE q == walk.request
           D == View(q.method)
<1>1. D \in Databases
  BY ViewIs DEF TypeInv
<1>2. q \in Requests /\ q.endpoint \in ListEndpoints /\ q.limit \in Int /\ IsValid
  BY RequestAssumption DEF ReadyFor
<1>3. /\ walk.pc \in {"handler", "fetch"}
      /\ q.endpoint = "advisories" => walk.pc = "fetch"
      /\ q.endpoint \in Views => walk.pc = "fetch"
  BY DEF ReadyFor, TwoStatements, Views
<1>4. /\ q.endpoint = "advisories" => call.prepared.path \in Paths
      /\ q.endpoint \in Views => call.prepared.total \in Nat
  BY <1>3 DEF TypeInv, PreparedOK
<1>5. Listed(tie) \in Seq(ListRow) /\ AskedNow \in Seq(ListRow)
  BY <1>1, <1>2, <1>4, ListTyped DEF Listed, AskedNow, Asked
<1>6. q.mode # "export" => CanPage(q.limit, walk.offset)
  BY <1>2 DEF IsValid, CheckLimitOffset, CanPage, TypeInv, WalkOK
<1>7. TotalOf(tie) \in Nat
  <2>1. Len(Listed(tie)) \in Nat
    BY <1>5, LenProperties
  <2>2. Cardinality(packageSystemsQuery(D, call.account, call.workspaces)) \in Nat
    BY <1>1, PackageRows, FS_CardinalityType
  <2> QED
    BY <2>1, <2>2 DEF TotalOf, MetaTotalHelper
<1> QED
  BY <1>1, <1>2, <1>3, <1>4, <1>5, <1>6, <1>7

\* What the client gets for a page.
TurnIs(tie) ==
  /\ tie = "asc" \/ walk.request.endpoint = "package_systems"
  /\ \/ /\ walk.request.endpoint \notin Views /\ ReadyFor(Paged)
        /\ Answers(PageOf(tie), AskedNow, walk.offset > TotalOf(tie),
                   CreateLinks(walk.offset, walk.request.limit, TotalOf(tie)))
     \/ /\ walk.request.endpoint \in Views /\ ReadyFor(Paged)
        /\ Answers(PageOf(tie), AskedNow, FALSE,
                   CreateLinks(walk.offset, walk.request.limit, call.prepared.total))
     \/ /\ walk.request.endpoint \notin Views /\ ReadyFor({"ids"})
        /\ \E refused \in {FALSE, walk.offset > TotalOf(tie)} :
             Answers(PageOf(tie), AskedNow, refused, Onward(Statement(tie)))

LEMMA StatementIs ==
  ASSUME NEW tie
  PROVE  /\ Statement(tie).page = PageOf(tie) /\ Statement(tie).total = TotalOf(tie)
         /\ Statement(tie).looked = Looked(AskedNow)
  BY DEF Statement, PageOf, TotalOf, Listed, AskedNow

LEMMA PagesIs ==
  ASSUME TypeInv, Pages
  PROVE  /\ \E tie \in {"asc", "desc"} : TurnIs(tie)
         /\ Steady /\ UNCHANGED call
<1>1. PICK endpoint \in ListEndpoints : \E tie \in {"asc", "desc"} :
        (tie = "asc" \/ endpoint = "package_systems") /\ Turns(endpoint, Statement(tie))
  BY DEF Pages
<1>2. PICK tie \in {"asc", "desc"} :
        (tie = "asc" \/ endpoint = "package_systems") /\ Turns(endpoint, Statement(tie))
  BY <1>1
<1> DEFINE r == Statement(tie)
<1>3. r.page = PageOf(tie) /\ r.total = TotalOf(tie) /\ r.looked = Looked(AskedNow)
  BY StatementIs
<1>4. \A modes : AtList(endpoint, modes) => ReadyFor(modes) /\ walk.request.endpoint = endpoint
  BY DEF AtList, Serves, ReadyFor, TypeInv, WalkOK
<1>5. IsWalk(walk)
  BY DEF TypeInv, WalkOK
<1> DEFINE late == walk.offset > r.total
<1>6. late \in BOOLEAN
  OBVIOUS
<1> HIDE DEF r
<1>7. CASE endpoint \notin Views /\ AtList(endpoint, Paged) /\ UpdateMetaLinks(r)
  <2>1. Respond(r, late, CreateLinks(walk.offset, walk.request.limit, r.total))
    BY <1>7 DEF UpdateMetaLinks
  <2>2. /\ Answers(r.page, AskedNow, late, CreateLinks(walk.offset, walk.request.limit, r.total))
        /\ Steady /\ UNCHANGED call
    BY <1>3, <1>5, <1>6, <2>1, RespondIs
  <2> QED
    BY <1>2, <1>3, <1>4, <1>7, <2>2 DEF TurnIs
<1>8. CASE endpoint \in Views /\ AtList(endpoint, Paged) /\ AnswerView(r)
  <2>1. Respond(r, FALSE, CreateLinks(walk.offset, walk.request.limit, call.prepared.total))
    BY <1>8 DEF AnswerView
  <2>2. /\ Answers(r.page, AskedNow, FALSE,
                   CreateLinks(walk.offset, walk.request.limit, call.prepared.total))
        /\ Steady /\ UNCHANGED call
    BY <1>3, <1>5, <2>1, RespondIs
  <2> QED
    BY <1>2, <1>3, <1>4, <1>8, <2>2 DEF TurnIs
<1>9. CASE /\ endpoint \notin Views /\ AtList(endpoint, {"ids"})
           /\ systemsIDs(r) \/ advisoriesIDs(r)
  <2>1. PICK refused \in {FALSE, late} : Respond(r, refused, Onward(r))
    BY <1>9 DEF systemsIDs, advisoriesIDs
  <2>2. Answers(r.page, AskedNow, refused, Onward(r)) /\ Steady /\ UNCHANGED call
    BY <1>3, <1>5, <1>6, <2>1, RespondIs
  <2> QED
    BY <1>2, <1>3, <1>4, <1>9, <2>2 DEF TurnIs, r
<1> QED
  BY <1>2, <1>7, <1>8, <1>9 DEF Turns, r

\* The steps of a walk, field by field.
LEMMA StartsIs ==
  ASSUME NEW q \in Requests, Start(q)
  PROVE  /\ IsWalk(walk') /\ walk'.pc = "auth" /\ walk'.request = q /\ walk'.raw = q.raw
         /\ ~walk'.badTag /\ walk'.offset = 0 /\ ~walk'.back /\ walk'.seen = <<>>
         /\ walk'.expected = NIL /\ walk'.links = NoLinks /\ walk'.err = NIL
         /\ Steady /\ UNCHANGED call
<1>1. walk' = [NoWalk EXCEPT !.pc = "auth", !.request = q, !.raw = q.raw]
  BY DEF Start
<1>2. IsWalk(walk')
  BY <1>1 DEF NoWalk, IsWalk
<1> QED
  BY <1>1, <1>2 DEF NoWalk, Start, Steady

LEMMA EntersIs ==
  ASSUME TypeInv, Enters
  PROVE  /\ walk.pc = "auth"
         /\ IsWalk(walk') /\ walk'.pc = "handler" /\ walk'.request = walk.request
         /\ walk'.raw = walk.raw /\ walk'.badTag = walk.badTag
         /\ walk'.altered = walk.altered /\ walk'.offset = walk.offset
         /\ walk'.back = walk.back /\ walk'.seen = walk.seen /\ walk'.expected = walk.expected
         /\ walk'.changed = walk.changed /\ walk'.links = walk.links /\ walk'.err = walk.err
         /\ CallOK'
         /\ UNCHANGED <<config, details, aroundVars>> /\ idCache' \in BOOLEAN
<1>1. PICK account \in {0, Own} :
        /\ findAccount(account) /\ idCache' \in {idCache, TRUE}
        /\ UNCHANGED <<config, details, aroundVars>>
  BY DEF Enters
<1> DEFINE access == Authorized(config.auth, grant, walk.request.endpoint, walk.request.method)
           U == walk.unknown \/ account = 0
<1>2. /\ walk.pc = "auth" /\ walk' = [walk EXCEPT !.pc = "handler", !.unknown = U]
      /\ call' = [account |-> account, workspaces |-> access.workspaces, prepared |-> NIL]
  BY <1>1 DEF findAccount
<1>3. access.workspaces \subseteq Workspaces
  BY AccessIs DEF TypeInv, DataOK
<1>4. CallOK'
  BY <1>2, <1>3 DEF CallOK, IsCall
<1> HIDE DEF U
<1>5. IsWalk(walk)
  BY DEF TypeInv, WalkOK
<1>6. IsWalk(walk')
  BY <1>2, <1>5 DEF IsWalk
<1>7. /\ walk'.pc = "handler" /\ walk'.request = walk.request
      /\ walk'.raw = walk.raw /\ walk'.badTag = walk.badTag
      /\ walk'.altered = walk.altered /\ walk'.offset = walk.offset
      /\ walk'.back = walk.back /\ walk'.seen = walk.seen /\ walk'.expected = walk.expected
      /\ walk'.changed = walk.changed /\ walk'.links = walk.links /\ walk'.err = walk.err
  BY <1>2, <1>5 DEF IsWalk
<1>8. idCache' \in BOOLEAN
  BY <1>1 DEF TypeInv, DataOK
<1> QED
  BY <1>1, <1>2, <1>4, <1>6, <1>7, <1>8

LEMMA GivesUpIs ==
  ASSUME GivesUp
  PROVE  /\ walk.pc \in {"auth", "handler", "fetch"}
         /\ IsWalk(walk') /\ walk'.pc = "done" /\ walk'.request = walk.request
         /\ walk'.offset = 0 /\ walk'.seen = <<>> /\ walk'.expected = NIL
         /\ walk'.links = NoLinks /\ walk'.err \in {"auth", "notfound", "failed"}
         /\ Steady /\ UNCHANGED call
<1>1. PICK err \in {"auth", "notfound", "failed"} : walk' = GiveUp(err)
  BY DEF GivesUp
<1>2. walk' = [NoWalk EXCEPT !.pc = "done", !.request = walk.request, !.err = err]
  BY <1>1 DEF GiveUp
<1>3. IsWalk(walk')
  BY <1>2 DEF NoWalk, IsWalk
<1> QED
  BY <1>2, <1>3 DEF NoWalk, GivesUp

\* A walk that ends with what it has.
Ends(err) ==
  /\ IsWalk(walk') /\ walk'.pc = "done" /\ walk'.err = err /\ walk'.request = walk.request
  /\ walk'.offset = walk.offset /\ walk'.badTag = walk.badTag
  /\ walk'.altered = walk.altered /\ walk'.seen = walk.seen
  /\ walk'.expected = walk.expected /\ walk'.changed = walk.changed
  /\ walk'.links = walk.links
LEMMA EndsIs ==
  ASSUME IsWalk(walk), NEW err, walk' = [walk EXCEPT !.pc = "done", !.err = err]
  PROVE  Ends(err)
<1>1. IsWalk(walk')
  BY DEF IsWalk
<1>2. /\ walk'.pc = "done" /\ walk'.err = err /\ walk'.request = walk.request
      /\ walk'.offset = walk.offset /\ walk'.badTag = walk.badTag
      /\ walk'.altered = walk.altered /\ walk'.seen = walk.seen
      /\ walk'.expected = walk.expected /\ walk'.changed = walk.changed /\ walk'.links = walk.links
  BY DEF IsWalk
<1> QED
  BY <1>1, <1>2 DEF Ends

LEMMA PreparesIs ==
  ASSUME TypeInv, Prepares
  PROVE  /\ walk.pc = "handler" /\ walk.request.endpoint \in ListEndpoints \ Views /\ IsValid
         /\ IsWalk(walk') /\ walk' = [walk EXCEPT !.pc = "fetch"]
         /\ walk'.pc = "fetch" /\ walk'.request = walk.request
         /\ walk'.raw = walk.raw /\ walk'.badTag = walk.badTag
         /\ walk'.altered = walk.altered /\ walk'.offset = walk.offset
         /\ walk'.back = walk.back /\ walk'.seen = walk.seen /\ walk'.expected = walk.expected
         /\ walk'.changed = walk.changed /\ walk'.links = walk.links /\ walk'.err = walk.err
         /\ CallOK' /\ PreparedOK' /\ Steady
<1>1. PICK endpoint, prepared :
        PreparedFor(endpoint, prepared) /\ AtFirst(endpoint) /\ Prepare(prepared)
  BY DEF Prepares
<1>2. /\ walk.request.endpoint = endpoint /\ walk.pc = "handler" /\ IsValid
      /\ endpoint \in ListEndpoints \ Views
      /\ endpoint = "advisories" => prepared.path \in Paths
  BY <1>1 DEF AtFirst, Serves, PreparedFor
<1>3. /\ call' = [call EXCEPT !.prepared = prepared] /\ walk' = [walk EXCEPT !.pc = "fetch"]
      /\ Steady
  BY <1>1 DEF Prepare, Steady
<1>4. IsWalk(walk) /\ IsCall(call)
  BY DEF TypeInv, WalkOK, CallOK
<1>5. IsWalk(walk') /\ IsCall(call')
  BY <1>3, <1>4 DEF IsWalk, IsCall
<1>6. /\ walk'.pc = "fetch" /\ walk'.request = walk.request
      /\ walk'.raw = walk.raw /\ walk'.badTag = walk.badTag
      /\ walk'.altered = walk.altered /\ walk'.offset = walk.offset
      /\ walk'.back = walk.back /\ walk'.seen = walk.seen /\ walk'.expected = walk.expected
      /\ walk'.changed = walk.changed /\ walk'.links = walk.links /\ walk'.err = walk.err
  BY <1>3, <1>4 DEF IsWalk
<1>7. /\ call'.prepared = prepared /\ call'.account = call.account
      /\ call'.workspaces = call.workspaces
  BY <1>3, <1>4 DEF IsCall
<1>8. CallOK' /\ PreparedOK'
  BY <1>2, <1>5, <1>6, <1>7 DEF CallOK, PreparedOK, TypeInv
<1> QED
  BY <1>2, <1>3, <1>5, <1>6, <1>8

\* The total of a view is that of the list as it was first asked for.
FirstAsked == Asked(View("POST"), call.account, call.workspaces, NIL)
LEMMA QueryIs ==
  ASSUME TypeInv, queryDB
  PROVE  /\ walk.pc = "handler" /\ walk.request \in Requests /\ walk.request.endpoint \in Views
         /\ IsValid /\ FirstAsked \in Seq(ListRow)
         /\ IsWalk(walk') /\ walk'.request = walk.request
         /\ walk'.raw = walk.raw /\ walk'.badTag = walk.badTag
         /\ walk'.altered = walk.altered /\ walk'.offset = walk.offset
         /\ walk'.back = walk.back /\ walk'.seen = walk.seen /\ walk'.links = walk.links
         /\ walk'.expected = IF walk.expected = NIL THEN FirstAsked ELSE walk.expected
         /\ ~walk'.changed => ~walk.changed /\ (walk.expected # NIL => FirstAsked = walk.expected)
         /\ walk.offset > Len(FirstAsked) => walk'.pc = "done" /\ walk'.err = "bad"
         /\ ~(walk.offset > Len(FirstAsked)) => walk'.pc = "fetch" /\ walk'.err = walk.err
         /\ CallOK' /\ PreparedOK' /\ call'.prepared.total = Len(FirstAsked) /\ Steady
<1>1. /\ walk.pc = "handler" /\ walk.request.endpoint \in Views /\ IsValid
      /\ call' = [call EXCEPT !.prepared = [total |-> Len(FirstAsked)]]
      /\ walk' = IF walk.offset > Len(FirstAsked)
                   THEN [Looked(FirstAsked) EXCEPT !.pc = "done", !.err = "bad"]
                   ELSE [Looked(FirstAsked) EXCEPT !.pc = "fetch"]
      /\ Steady
  BY DEF queryDB, FirstAsked, AtFirst, Serves, Views, Steady
<1>2. IsWalk(walk) /\ IsCall(call) /\ walk.request \in Requests
  BY <1>1 DEF TypeInv, WalkOK, CallOK
<1>3. FirstAsked \in Seq(ListRow)
  <2>1. View("POST") \in Databases
    BY ViewIs DEF TypeInv
  <2>2. walk.request.endpoint \in ListEndpoints /\ walk.request.endpoint # "advisories"
    BY <1>1 DEF Views, ListEndpoints, SystemEndpoints
  <2> QED
    BY <2>1, <2>2, ListTyped DEF FirstAsked, Asked
<1> DEFINE l == Looked(FirstAsked)
<1>4. /\ IsWalk(l)
      /\ l.pc = walk.pc /\ l.request = walk.request /\ l.raw = walk.raw
      /\ l.badTag = walk.badTag
      /\ l.altered = walk.altered /\ l.offset = walk.offset /\ l.back = walk.back
      /\ l.seen = walk.seen /\ l.unknown = walk.unknown /\ l.links = walk.links
      /\ l.err = walk.err
      /\ l.expected = IF walk.expected = NIL THEN FirstAsked ELSE walk.expected
      /\ ~l.changed => ~walk.changed /\ (walk.expected # NIL => FirstAsked = walk.expected)
  BY <1>2, LookedIs
<1> HIDE DEF l
<1>5. /\ IsWalk(walk') /\ walk'.request = l.request /\ walk'.raw = l.raw
      /\ walk'.badTag = l.badTag
      /\ walk'.altered = l.altered /\ walk'.offset = l.offset /\ walk'.back = l.back
      /\ walk'.seen = l.seen /\ walk'.links = l.links /\ walk'.expected = l.expected
      /\ walk'.changed = l.changed
      /\ walk.offset > Len(FirstAsked) => walk'.pc = "done" /\ walk'.err = "bad"
      /\ ~(walk.offset > Len(FirstAsked)) => walk'.pc = "fetch" /\ walk'.err = l.err
  <2>1. CASE walk.offset > Len(FirstAsked)
    <3>1. walk' = [l EXCEPT !.pc = "done", !.err = "bad"]
      BY <1>1, <2>1 DEF l
    <3>2. IsWalk(walk')
      BY <1>4, <3>1 DEF IsWalk
    <3> QED
      BY <1>4, <2>1, <3>1, <3>2 DEF IsWalk
  <2>2. CASE ~(walk.offset > Len(FirstAsked))
    <3>1. walk' = [l EXCEPT !.pc = "fetch"]
      BY <1>1, <2>2 DEF l
    <3>2. IsWalk(walk')
      BY <1>4, <3>1 DEF IsWalk
    <3> QED
      BY <1>4, <2>2, <3>1, <3>2 DEF IsWalk
  <2> QED
    BY <2>1, <2>2
<1>6. IsCall(call') /\ call'.prepared.total = Len(FirstAsked)
      /\ call'.account = call.account /\ call'.workspaces = call.workspaces
  <2> DEFINE P == [total |-> Len(FirstAsked)]
  <2>1. call' = [call EXCEPT !.prepared = P] /\ P.total = Len(FirstAsked)
    BY <1>1
  <2> HIDE DEF P
  <2>2. IsCall(call')
    BY <1>2, <2>1 DEF IsCall
  <2>3. call'.prepared = P /\ call'.account = call.account /\ call'.workspaces = call.workspaces
    BY <1>2, <2>1 DEF IsCall
  <2> QED
    BY <2>1, <2>2, <2>3
<1>7. CallOK' /\ PreparedOK'
  <2>1. walk'.request.endpoint \in Views /\ "advisories" \notin Views
    BY <1>1, <1>4, <1>5 DEF Views
  <2>2. Len(FirstAsked) \in Nat
    BY <1>3, LenProperties
  <2> QED
    BY <1>6, <2>1, <2>2 DEF CallOK, PreparedOK, TypeInv
<1> QED
  BY <1>1, <1>2, <1>3, <1>4, <1>5, <1>6, <1>7

\* An export is the whole list.
ExportNow ==
  ExportList(walk.request, ParseFilters(walk.raw), View(walk.request.method), call.account,
             call.workspaces, call.prepared)
LEMMA ExportsIs ==
  ASSUME TypeInv, Exports
  PROVE  /\ walk.request.endpoint \in ListEndpoints \ Views /\ ReadyFor({"export"})
         /\ IsWalk(walk') /\ walk'.pc = "done" /\ walk'.request = walk.request
         /\ walk'.offset = walk.offset /\ walk'.badTag = walk.badTag
         /\ walk'.altered = walk.altered
         /\ walk'.links = walk.links /\ walk'.err = walk.err /\ walk'.seen = ExportNow
         /\ walk'.expected = IF walk.expected = NIL THEN AskedNow ELSE walk.expected
         /\ ~walk'.changed => ~walk.changed /\ (walk.expected # NIL => AskedNow = walk.expected)
         /\ Steady /\ UNCHANGED call
<1>1. PICK endpoint \in ListEndpoints \ Views : AtList(endpoint, {"export"}) /\ OutputExportData
  BY DEF Exports
<1>2. ReadyFor({"export"}) /\ walk.request.endpoint = endpoint
  BY <1>1 DEF AtList, Serves, ReadyFor, TypeInv, WalkOK
<1> DEFINE l == Looked(AskedNow)
<1>3. /\ walk' = [l EXCEPT !.pc = "done", !.seen = ExportNow]
      /\ Steady /\ UNCHANGED call
  BY <1>1 DEF OutputExportData, ExportNow, AskedNow, Steady
<1>4. /\ IsWalk(l)
      /\ l.pc = walk.pc /\ l.request = walk.request /\ l.raw = walk.raw
      /\ l.badTag = walk.badTag
      /\ l.altered = walk.altered /\ l.offset = walk.offset /\ l.back = walk.back
      /\ l.seen = walk.seen /\ l.unknown = walk.unknown /\ l.links = walk.links
      /\ l.err = walk.err
      /\ l.expected = IF walk.expected = NIL THEN AskedNow ELSE walk.expected
      /\ ~l.changed => ~walk.changed /\ (walk.expected # NIL => AskedNow = walk.expected)
  BY LookedIs DEF TypeInv, WalkOK
<1> HIDE DEF l
<1>5. IsWalk(walk')
  BY <1>3, <1>4 DEF IsWalk
<1>6. /\ walk'.pc = "done" /\ walk'.request = l.request /\ walk'.offset = l.offset
      /\ walk'.badTag = l.badTag
      /\ walk'.altered = l.altered /\ walk'.links = l.links /\ walk'.err = l.err
      /\ walk'.seen = ExportNow /\ walk'.expected = l.expected /\ walk'.changed = l.changed
  BY <1>3, <1>4 DEF IsWalk
<1> QED
  BY <1>1, <1>2, <1>3, <1>4, <1>5, <1>6

\* The detail of an advisory, from the cache if it is complete there.
LEMMA DetailIs ==
  ASSUME TypeInv, ShowsDetail
  PROVE  LET a == walk.request.target
             D == View(walk.request.method)
             cached == details[a] \notin {Absent, Hollow}
         IN  /\ walk.pc = "handler" /\ walk.request.endpoint = "advisory"
             /\ IsWalk(walk') /\ walk'.pc = "done" /\ walk'.request = walk.request
             /\ walk'.offset = walk.offset /\ walk'.links = walk.links /\ walk'.err = walk.err
             /\ walk'.expected = <<D.meta[a]>>
             /\ walk'.seen = <<IF cached THEN details[a] ELSE D.meta[a]>>
             /\ details' \in [Advisories -> Absent..Modified]
             /\ UNCHANGED <<config, idCache, aroundVars, call>>
<1> DEFINE a == walk.request.target
           D == View(walk.request.method)
           cached == details[a] \notin {Absent, Hollow}
           e == <<D.meta[a]>>
           s == <<IF cached THEN details[a] ELSE D.meta[a]>>
<1>1. /\ walk.pc = "handler" /\ walk.request.endpoint = "advisory"
      /\ walk' = [walk EXCEPT !.pc = "done", !.expected = e, !.seen = s]
      /\ details' = IF cached THEN details ELSE [details EXCEPT ![a] = D.meta[a]]
      /\ UNCHANGED <<config, idCache, aroundVars, call>>
  BY DEF ShowsDetail, tryGetAdvisoryFromCache
<1>2. details' \in [Advisories -> Absent..Modified]
  <2>1. D.meta \in [Advisories -> Absent..Modified] /\ details \in [Advisories -> Absent..Modified]
    BY ViewIs DEF TypeInv, DataOK, Databases
  <2> HIDE DEF D
  <2>2. a \in Advisories => D.meta[a] \in Absent..Modified
    BY <2>1
  <2> HIDE DEF a
  <2> QED
    BY <1>1, <2>1, <2>2
<1> HIDE DEF e, s
<1>3. IsWalk(walk)
  BY DEF TypeInv, WalkOK
<1>4. IsWalk(walk')
  BY <1>1, <1>3 DEF IsWalk
<1>5. /\ walk'.pc = "done" /\ walk'.request = walk.request /\ walk'.offset = walk.offset
      /\ walk'.links = walk.links /\ walk'.err = walk.err /\ walk'.expected = e /\ walk'.seen = s
  BY <1>1, <1>3 DEF IsWalk
<1> QED
  BY <1>1, <1>2, <1>4, <1>5 DEF e, s

\* FlattenSeq, step by step; what it makes of one list.
FlatStep(f, s, i) == IF i = 1 THEN s[i] ELSE f[i - 1] \o s[i]
LEMMA FlatOfOne ==
  ASSUME NEW V
  PROVE  FlattenSeq(Reverse(<<V>>)) = V
<1> DEFINE s == <<V>>
           f == [i \in 1 .. 1 |-> V]
           flatten == CHOOSE g : g = [i \in 1 .. Len(s) |-> FlatStep(g, s, i)]
<1>1. Len(s) = 1 /\ s[1] = V
  OBVIOUS
<1>2. Reverse(s) = s
  BY DEF Reverse
<1> HIDE DEF s
<1>3. f = [i \in 1 .. Len(s) |-> FlatStep(f, s, i)]
  BY <1>1 DEF FlatStep
<1> HIDE DEF f
<1>4. flatten = [i \in 1 .. Len(s) |-> FlatStep(flatten, s, i)]
  BY <1>3, Zenon
<1>5. FlattenSeq(s) = flatten[Len(s)]
  <2>1. Len(s) # 0
    BY <1>1
  <2> QED
    BY <2>1, Zenon DEF FlattenSeq, FlatStep
<1> HIDE DEF flatten
<1>6. flatten[1] = FlatStep(flatten, s, 1)
  BY <1>1, <1>4
<1>7. flatten[1] = V
  BY <1>1, <1>6 DEF FlatStep
<1> QED
  BY <1>1, <1>2, <1>5, <1>7 DEF s

\* Filters that were parsed and written to a link are parsed again to the same.
LEMMA FiltersAgain ==
  ASSUME NEW q, q \notin DOMAIN Unescaped, NEW raw
  PROVE  /\ ParseFilters(ToQueryParams(q, raw)) = ParseFilters(raw)
         /\ raw = <<>> => ToQueryParams(q, raw) = <<>>
<1>1. CASE raw = <<>>
  BY <1>1 DEF ParseFilters, ToQueryParams
<1>2. CASE raw # <<>>
  <2> DEFINE A == IF Last(raw).op = NIL THEN "eq" ELSE Last(raw).op
             V == FlattenSeq(Reverse([i \in DOMAIN raw |-> raw[i].values]))
             x == [op |-> A, values |-> V]
  <2>1. ParseFilters(raw) = x
    BY <1>2 DEF ParseFilters
  <2>2. (IF A = NIL THEN "eq" ELSE A) = A
    OBVIOUS
  <2> HIDE DEF A, V
  <2>3. x.op = A /\ x.values = V
    OBVIOUS
  <2>4. ToQueryParams(q, raw) = <<x>>
    BY <1>2, <2>1 DEF ToQueryParams
  <2> HIDE DEF x
  <2>5. <<x>> # <<>> /\ Last(<<x>>) = x /\ DOMAIN <<x>> = 1 .. 1 /\ <<x>>[1] = x
    BY DEF Last
  <2>6. [i \in DOMAIN <<x>> |-> <<x>>[i].values] = <<V>>
    <3>1. \A i \in 1 .. 1 : <<x>>[i].values = V
      BY <2>3, <2>5
    <3>2. [i \in 1 .. 1 |-> V] = <<V>>
      OBVIOUS
    <3> QED
      BY <2>5, <3>1, <3>2
  <2>7. ParseFilters(<<x>>) = x
    <3>1. ParseFilters(<<x>>) = [op |-> A, values |-> V]
      BY <2>2, <2>3, <2>5, <2>6, FlatOfOne DEF ParseFilters
    <3> QED
      BY <3>1 DEF x
  <2> QED
    BY <1>2, <2>1, <2>4, <2>7
<1> QED
  BY <1>1, <1>2

\* A link asks for the same thing, unless its filters had to be escaped.
LinkOf(q, raw, back, sent, altered) ==
  /\ back \in Requests /\ back.endpoint = q.endpoint /\ back.mode = q.mode /\ back.limit = q.limit
  /\ ParseFilters(raw) = ParseFilters(q.raw) => ParseFilters(sent) = ParseFilters(back.raw)
  /\ ~altered => /\ back = q /\ ParseFilters(sent) = ParseFilters(raw)
                 /\ raw = <<>> => sent = <<>>
LEMMA LinkIs ==
  ASSUME NEW q \in Requests, NEW raw
  PROVE  LinkOf(q, raw, createLink(q), ToQueryParams(q, raw), q \in DOMAIN Unescaped)
<1>1. CASE q \in DOMAIN Unescaped
  <2>1. createLink(q) = Unescaped[q] /\ ToQueryParams(q, raw) = Unescaped[q].raw
    BY <1>1 DEF createLink, ToQueryParams
  <2> QED
    BY <1>1, <2>1, LinkAssumption DEF LinkOf
<1>2. CASE q \notin DOMAIN Unescaped
  <2>1. createLink(q) = q
    BY <1>2 DEF createLink
  <2>2. /\ ParseFilters(ToQueryParams(q, raw)) = ParseFilters(raw)
        /\ raw = <<>> => ToQueryParams(q, raw) = <<>>
    BY <1>2, FiltersAgain
  <2> QED
    BY <2>1, <2>2, Zenon DEF LinkOf
<1> QED
  BY <1>1, <1>2

\* A link that is followed.
Linked ==
  /\ LinkOf(walk.request, walk.raw, walk'.request, walk'.raw,
            walk.request \in DOMAIN Unescaped)
  /\ walk'.altered = (walk.altered \/ walk.request \in DOMAIN Unescaped)
LEMMA FollowIs ==
  ASSUME IsWalk(walk), walk.request \in Requests,
         NEW offset, NEW back \in BOOLEAN, Follow(offset, back)
  PROVE  /\ IsWalk(walk') /\ walk'.pc = "auth" /\ Linked
         /\ walk'.offset = offset /\ walk'.back = back
         /\ walk'.seen = IF back /\ ~walk.back THEN <<>> ELSE walk.seen
         /\ walk'.expected = walk.expected /\ walk'.changed = walk.changed
         /\ walk'.links = NoLinks /\ walk'.err = walk.err
<1> DEFINE S == IF back /\ ~walk.back THEN <<>> ELSE walk.seen
           Q == createLink(walk.request)
           R == ToQueryParams(walk.request, walk.raw)
           B == \E f \in Q.inventory : f.type = "tag" /\ ~f.namespaced
           A == walk.altered \/ walk.request \in DOMAIN Unescaped
<1>1. walk' = [walk EXCEPT !.pc = "auth", !.offset = offset, !.back = back, !.seen = S,
                           !.request = Q, !.raw = R, !.badTag = B, !.altered = A,
                           !.links = NoLinks]
  BY DEF Follow
<1>2. LinkOf(walk.request, walk.raw, Q, R, walk.request \in DOMAIN Unescaped)
  BY LinkIs
<1>3. A = (walk.altered \/ walk.request \in DOMAIN Unescaped)
  OBVIOUS
<1> HIDE DEF S, Q, R, B, A
<1>4. IsWalk(walk')
  BY <1>1 DEF IsWalk
<1>5. /\ walk'.pc = "auth" /\ walk'.request = Q /\ walk'.altered = A
      /\ walk'.offset = offset /\ walk'.back = back /\ walk'.raw = R /\ walk'.seen = S
      /\ walk'.expected = walk.expected /\ walk'.changed = walk.changed
      /\ walk'.links = NoLinks /\ walk'.err = walk.err
  BY <1>1 DEF IsWalk
<1>6. Linked
  BY <1>2, <1>3, <1>5, Zenon DEF Linked
<1> QED
  BY <1>4, <1>5, <1>6 DEF S

\* The three links that are followed.
LEMMA FollowsIs ==
  ASSUME TypeInv, Follows
  PROVE  /\ walk.pc = "page" /\ Steady /\ UNCHANGED call
         /\ IsWalk(walk') /\ walk'.pc = "auth" /\ Linked
         /\ walk'.seen = IF walk'.back /\ ~walk.back THEN <<>> ELSE walk.seen
         /\ walk'.expected = walk.expected /\ walk'.changed = walk.changed
         /\ walk'.links = NoLinks /\ walk'.err = walk.err
         /\ \/ /\ ~walk.back /\ walk.request.mode # "last" /\ walk.links.next # NIL
               /\ walk'.offset = walk.links.next /\ ~walk'.back
            \/ /\ ~walk.back /\ walk.request.mode = "last"
               /\ walk'.offset = walk.links.last /\ walk'.back
            \/ /\ walk.back /\ walk.links.previous # NIL
               /\ walk'.offset = walk.links.previous /\ walk'.back
<1>1. IsWalk(walk) /\ (walk.pc = "page" => walk.request \in Requests)
  BY DEF TypeInv, WalkOK
<1>2. CASE FollowNext
  <2>1. Follow(walk.links.next, FALSE) /\ walk.pc = "page"
    BY <1>2 DEF FollowNext
  <2> QED
    BY <1>1, <1>2, <2>1, FollowIs DEF FollowNext, Steady
<1>3. CASE FollowLast
  <2>1. Follow(walk.links.last, TRUE) /\ walk.pc = "page"
    BY <1>3 DEF FollowLast
  <2> QED
    BY <1>1, <1>3, <2>1, FollowIs DEF FollowLast, Steady
<1>4. CASE FollowPrevious
  <2>1. Follow(walk.links.previous, TRUE) /\ walk.pc = "page"
    BY <1>4 DEF FollowPrevious
  <2> QED
    BY <1>1, <1>4, <2>1, FollowIs DEF FollowPrevious, Steady
<1> QED
  BY <1>2, <1>3, <1>4 DEF Follows

LEMMA AskAgainIs ==
  ASSUME AskAgain
  PROVE  /\ IsWalk(walk') /\ walk' = NoWalk /\ walk'.pc = "idle" /\ walk'.request = NIL
         /\ walk'.offset = 0 /\ walk'.links = NoLinks /\ walk'.err = NIL /\ walk'.seen = <<>>
         /\ walk'.expected = NIL
         /\ CallOK' /\ Steady
  BY DEF AskAgain, NoWalk, NoCall, IsWalk, CallOK, IsCall, Steady

\* The links of an answer.
LEMMA OnwardIs ==
  ASSUME NEW tie
  PROVE  LET links == Onward(Statement(tie))
         IN  /\ links.previous = NIL /\ links.last = 0
             /\ links.next = IF Len(PageOf(tie)) = walk.request.limit
                               THEN walk.offset + walk.request.limit ELSE NIL
  BY StatementIs DEF Onward, NoLinks

LEMMA NoLinksOK ==
  ASSUME NEW limit
  PROVE  LinksOK(NoLinks, limit)
  BY DEF LinksOK, NoLinks

LEMMA CreatedOK ==
  ASSUME NEW limit, NEW offset, CanPage(limit, offset), NEW total \in Nat
  PROVE  LinksOK(CreateLinks(offset, limit, total), limit)
<1> DEFINE links == CreateLinks(offset, limit, total)
<1>1. /\ links.next = IF total <= offset + limit THEN NIL ELSE offset + limit
      /\ offset = 0 => links.previous = NIL
      /\ offset # 0 => links.previous \in Nat /\ links.previous # NIL
      /\ links.last \in Nat
  BY LinksAre
<1> HIDE DEF links
<1>2. links.next # NIL => links.next \in Int /\ (links.next \in Nat \/ limit = -1)
  BY <1>1 DEF CanPage
<1>3. links.previous # NIL => links.previous \in Nat
  BY <1>1
<1> QED
  BY <1>1, <1>2, <1>3 DEF LinksOK, links

LEMMA TurnKeepsTypes ==
  ASSUME TypeInv, NEW tie \in {"asc", "desc"}, TurnIs(tie)
  PROVE  WalkOK' /\ PreparedOK'
<1> DEFINE q == walk.request
<1>1. PICK page, refused, links :
        Answers(page, AskedNow, refused, links) /\ LinksOK(links, q.limit) /\ ReadyFor({"next", "last", "ids"})
  <2>1. CASE /\ q.endpoint \notin Views /\ ReadyFor(Paged)
             /\ Answers(PageOf(tie), AskedNow, walk.offset > TotalOf(tie),
                        CreateLinks(walk.offset, q.limit, TotalOf(tie)))
    <3>1. CanPage(q.limit, walk.offset) /\ TotalOf(tie) \in Nat
      BY <2>1, ReadyIs DEF ReadyFor, Paged
    <3>2. LinksOK(CreateLinks(walk.offset, q.limit, TotalOf(tie)), q.limit)
      BY <3>1, CreatedOK
    <3>3. ReadyFor({"next", "last", "ids"})
      BY <2>1 DEF ReadyFor, Paged
    <3> QED
      BY <2>1, <3>2, <3>3
  <2>2. CASE /\ q.endpoint \in Views /\ ReadyFor(Paged)
             /\ Answers(PageOf(tie), AskedNow, FALSE,
                        CreateLinks(walk.offset, q.limit, call.prepared.total))
    <3>1. CanPage(q.limit, walk.offset) /\ call.prepared.total \in Nat
      BY <2>2, ReadyIs DEF ReadyFor, Paged
    <3>2. LinksOK(CreateLinks(walk.offset, q.limit, call.prepared.total), q.limit)
      BY <3>1, CreatedOK
    <3>3. ReadyFor({"next", "last", "ids"})
      BY <2>2 DEF ReadyFor, Paged
    <3> QED
      BY <2>2, <3>2, <3>3
  <2>3. CASE /\ q.endpoint \notin Views /\ ReadyFor({"ids"})
             /\ \E refused \in {FALSE, walk.offset > TotalOf(tie)} :
                  Answers(PageOf(tie), AskedNow, refused, Onward(Statement(tie)))
    <3> DEFINE links == Onward(Statement(tie))
    <3>1. CanPage(q.limit, walk.offset) /\ Listed(tie) \in Seq(ListRow)
      BY <2>3, ReadyIs DEF ReadyFor
    <3>2. PageOf(tie) \in Seq(ListRow)
      BY <3>1, PageIs DEF PageOf
    <3>3. Len(PageOf(tie)) \in Nat
      BY <3>2, LenProperties
    <3>4. /\ links.previous = NIL /\ links.last = 0
          /\ links.next = IF Len(PageOf(tie)) = q.limit THEN walk.offset + q.limit ELSE NIL
      BY OnwardIs
    <3> HIDE DEF links
    <3>5. links.next # NIL => links.next \in Int /\ links.next \in Nat
      BY <3>1, <3>3, <3>4 DEF CanPage
    <3>6. LinksOK(links, q.limit)
      BY <3>4, <3>5 DEF LinksOK
    <3>7. ReadyFor({"next", "last", "ids"})
      BY <2>3 DEF ReadyFor
    <3> QED
      BY <2>3, <3>6, <3>7 DEF links
  <2> QED
    BY <2>1, <2>2, <2>3 DEF TurnIs
<1>2. /\ IsWalk(walk') /\ walk'.request = q /\ walk'.offset = walk.offset
      /\ walk'.pc \in {"page", "done"} /\ walk'.err \in {"bad", walk.err}
      /\ walk'.links \in {links, walk.links}
  BY <1>1 DEF Answers
<1>3. q \in Requests /\ WalkOK
  BY <1>1 DEF ReadyFor, TypeInv
<1>4. LinksOK(walk'.links, walk'.request.limit)
  BY <1>1, <1>2, <1>3 DEF WalkOK
<1> QED
  BY <1>2, <1>3, <1>4 DEF WalkOK, PreparedOK

\* A step of the client changes at most the caches of the pod.
LEMMA SteadyKeepsData ==
  ASSUME DataOK, UNCHANGED <<config, aroundVars>>, idCache' \in BOOLEAN,
         details' \in [Advisories -> Absent..Modified]
  PROVE  DataOK'
  BY DEF DataOK, aroundVars, Affects

LEMMA TypeInit ==
  ASSUME Init
  PROVE  TypeInv
<1>1. DataOK /\ CallOK
  BY DataInit DEF Init, NoCall, CallOK, IsCall
<1>2. walk = NoWalk
  BY DEF Init
<1>3. IsWalk(NoWalk)
  BY DEF NoWalk, IsWalk
<1>4. WalkOK /\ PreparedOK
  BY <1>2, <1>3, NoLinksOK DEF WalkOK, PreparedOK, NoWalk
<1> QED
  BY <1>1, <1>4 DEF TypeInv

LEMMA TypeStep ==
  ASSUME TypeInv, [Next]_vars
  PROVE  TypeInv'
<1> USE DEF TypeInv
<1>1. CASE UNCHANGED vars
  <2>1. UNCHANGED <<call, walk>> /\ DataOK'
    BY <1>1 DEF vars, DataOK, Affects
  <2> QED
    BY <2>1 DEF CallOK, WalkOK, PreparedOK
<1>2. CASE Around
  <2>1. DataOK' /\ UNCHANGED <<call, walk>>
    BY <1>2, AroundKeepsData
  <2> QED
    BY <2>1 DEF CallOK, WalkOK, PreparedOK
<1>3. Steady => DataOK'
  BY SteadyKeepsData DEF Steady, podVars, DataOK
<1>4. UNCHANGED call => CallOK'
  BY DEF CallOK
<1>5. CASE Starts
  <2>1. PICK q \in Requests : Start(q)
    BY <1>5 DEF Starts
  <2> QED
    BY <1>3, <1>4, <2>1, StartsIs, NoLinksOK DEF WalkOK, PreparedOK
<1>6. CASE Enters
  <2>1. DataOK'
    BY <1>6, EntersIs, SteadyKeepsData DEF DataOK
  <2>2. WalkOK' /\ PreparedOK' /\ CallOK'
    BY <1>6, EntersIs DEF WalkOK, PreparedOK
  <2> QED
    BY <2>1, <2>2
<1>7. CASE GivesUp
  BY <1>3, <1>4, <1>7, GivesUpIs, NoLinksOK DEF WalkOK, PreparedOK
<1>8. CASE IsToldBad \/ Finishes
  <2>1. PICK err \in {NIL, "bad"} : Ends(err)
    BY <1>8, EndsIs DEF IsToldBad, Finishes, WalkOK
  <2>2. Steady /\ UNCHANGED call /\ walk.pc # "idle"
    BY <1>8 DEF IsToldBad, Finishes
  <2> QED
    BY <1>3, <1>4, <2>1, <2>2 DEF Ends, WalkOK, PreparedOK
<1>9. CASE Prepares
  <2>1. WalkOK'
    BY <1>9, PreparesIs DEF WalkOK
  <2> QED
    BY <1>3, <1>9, <2>1, PreparesIs
<1>10. CASE queryDB
  <2>1. WalkOK'
    BY <1>10, QueryIs DEF WalkOK
  <2> QED
    BY <1>3, <1>10, <2>1, QueryIs
<1>11. CASE Pages
  <2>1. Steady /\ UNCHANGED call
    BY <1>11, PagesIs
  <2>2. PICK tie \in {"asc", "desc"} : TurnIs(tie)
    BY <1>11, PagesIs
  <2> QED
    BY <1>3, <1>4, <2>1, <2>2, TurnKeepsTypes
<1>12. CASE Exports
  <2>1. walk.request \in Requests
    BY <1>12, ExportsIs DEF ReadyFor
  <2> QED
    BY <1>3, <1>4, <1>12, <2>1, ExportsIs DEF WalkOK, PreparedOK
<1>13. CASE ShowsDetail
  <2>1. DataOK'
    BY <1>13, DetailIs, SteadyKeepsData DEF DataOK
  <2>2. /\ walk.pc = "handler" /\ UNCHANGED call
        /\ IsWalk(walk') /\ walk'.pc = "done" /\ walk'.request = walk.request
        /\ walk'.offset = walk.offset /\ walk'.links = walk.links /\ walk'.err = walk.err
    BY <1>13, DetailIs
  <2> QED
    BY <1>4, <2>1, <2>2 DEF WalkOK, PreparedOK
<1>14. CASE Follows
  <2>1. walk'.request \in Requests /\ walk'.offset \in Int
    BY <1>14, FollowsIs DEF WalkOK, LinksOK, Linked, LinkOf
  <2>2. LinksOK(walk'.links, walk'.request.limit)
    BY <1>14, FollowsIs, NoLinksOK
  <2> QED
    BY <1>3, <1>4, <1>14, <2>1, <2>2, FollowsIs DEF WalkOK, PreparedOK
<1>15. CASE AskAgain
  <2>1. WalkOK' /\ PreparedOK'
    BY <1>15, AskAgainIs, NoLinksOK DEF WalkOK, PreparedOK
  <2> QED
    BY <1>3, <1>15, <2>1, AskAgainIs
<1> QED
  BY <1>1, <1>2, <1>5, <1>6, <1>7, <1>8, <1>9, <1>10, <1>11, <1>12, <1>13, <1>14, <1>15, Kinds

\* The tables hold what the jobs can write, the foreign key of the advisories of a system, and
\* a link of an answer has an offset that can be asked for: TypeOK of ManagerQueries.
THEOREM TypeCorrect == Spec => []TypeOK
<1>1. Init => TypeInv
  BY TypeInit
<1>2. TypeInv /\ [Next]_vars => TypeInv'
  BY TypeStep
<1>3. TypeInv => TypeOK
  BY DEF TypeInv, DataOK, CallOK, WalkOK, LinksOK, TypeOK
<1> QED
  BY <1>1, <1>2, <1>3, PTL DEF Spec
-----------------------------------------------------------------------------
(* The detail of an advisory *)

\* Only lists have a second statement and pages.
OnlyListsPage == walk.pc \in {"fetch", "page"} => walk.request.endpoint \in ListEndpoints

LEMMA NotAList == "advisory" \notin ListEndpoints
  BY DEF ListEndpoints, SystemEndpoints

DetailInv == OnlyListsPage /\ DetailCompleteOnceSynced

LEMMA DetailStep ==
  ASSUME TypeInv, DetailInv, [Next]_vars
  PROVE  DetailInv'
<1> USE NotAList DEF DetailInv, OnlyListsPage, DetailCompleteOnceSynced
<1>0. IsWalk(walk)
  BY DEF TypeInv, WalkOK
<1>1. CASE UNCHANGED walk
  BY <1>1
<1>2. CASE Around
  BY <1>1, <1>2, AroundKeepsData DEF TypeInv
<1>3. CASE Starts
  BY <1>3, StartsIs DEF Starts
<1>4. CASE Enters
  BY <1>4, EntersIs
<1>5. CASE GivesUp
  BY <1>5, GivesUpIs, NilAssumption
<1>6. CASE IsToldBad
  <2>1. Ends("bad")
    BY <1>0, <1>6, EndsIs DEF IsToldBad
  <2> QED
    BY <2>1, NilAssumption DEF Ends
<1>7. CASE Finishes
  <2>1. Ends(NIL) /\ walk.pc = "page"
    BY <1>0, <1>7, EndsIs DEF Finishes
  <2> QED
    BY <2>1 DEF Ends
<1>8. CASE Prepares
  BY <1>8, PreparesIs
<1>9. CASE queryDB
  <2>1. Views \subseteq ListEndpoints
    BY DEF Views, ListEndpoints, SystemEndpoints
  <2> QED
    BY <1>9, <2>1, QueryIs
<1>10. CASE Pages
  <2>1. PICK tie \in {"asc", "desc"} : TurnIs(tie)
    BY <1>10, PagesIs
  <2>2. walk.request.endpoint \in ListEndpoints /\ walk'.request = walk.request
    BY <2>1 DEF TurnIs, ReadyFor, Answers
  <2> QED
    BY <2>2
<1>11. CASE Exports
  BY <1>11, ExportsIs
<1>12. CASE ShowsDetail
  BY <1>12, DetailIs DEF Absent, Hollow
<1>13. CASE Follows
  BY <1>13, FollowsIs DEF Linked, LinkOf
<1>14. CASE AskAgain
  BY <1>14, AskAgainIs
<1> QED
  BY <1>1, <1>2, <1>3, <1>4, <1>5, <1>6, <1>7, <1>8, <1>9, <1>10, <1>11, <1>12, <1>13, <1>14, Kinds
     DEF vars

\* An advisory that an upload inserted without its details is shown with them as soon as the
\* database that is read has them, whatever the cache of the pod holds:
\* DetailCompleteOnceSynced of ManagerQueries.
THEOREM DetailComplete == Spec => []DetailCompleteOnceSynced
<1>1. ASSUME Init
      PROVE  TypeInv /\ DetailInv
  <2>1. walk.pc = "idle"
    BY <1>1 DEF Init, NoWalk
  <2>2. DetailInv
    BY <2>1 DEF DetailInv, OnlyListsPage, DetailCompleteOnceSynced
  <2> QED
    BY <1>1, <2>2, TypeInit
<1>2. TypeInv /\ DetailInv /\ [Next]_vars => TypeInv' /\ DetailInv'
  BY TypeStep, DetailStep
<1>3. DetailInv => DetailCompleteOnceSynced
  BY DEF DetailInv
<1> QED
  BY <1>1, <1>2, <1>3, PTL DEF Spec
-----------------------------------------------------------------------------
(* Counts and the lists behind them *)

ListBehind(D, ws, endpoint, target, inventory) ==
  Len(SystemList([endpoint |-> endpoint, target |-> target, inventory |-> inventory,
                  ids |-> {}, desc |-> FALSE], NIL, D, Own, ws, FALSE, "asc"))

\* The systems that a list shows, filtered.
Kept(S, D, inventory) == {s \in S : ApplyInventoryWhere(inventory, D.sys[s])}

LEMMA BehindIs ==
  ASSUME NEW D \in Databases, NEW ws, NEW inventory
  PROVE  /\ \A a : ListBehind(D, ws, "advisory_systems", a, inventory)
                     = Cardinality(Kept(buildAdvisorySystemsQuery(D, Own, ws, a), D, inventory))
         /\ \A t : ListBehind(D, ws, "template_systems", t, inventory)
                     = Cardinality(Kept(templateSystemsQuery(D, Own, ws), D, inventory))
         /\ \A t : ListBehind(D, ws, "package_systems", t, inventory)
                     = Cardinality({r \in packageSystemsQuery(D, Own, ws) :
                                      ApplyInventoryWhere(inventory, D.sys[r[1]])})
<1> DEFINE q(e, t) == [endpoint |-> e, target |-> t, inventory |-> inventory,
                       ids |-> {}, desc |-> FALSE]
           rows(e, t) == SystemRows(q(e, t), D, Own, ws)
           sel(e, t) == {r \in rows(e, t) : ApplyInventoryWhere(inventory, D.sys[r[1]])}
<1>1. \A e \in SystemEndpoints : \A t : ListBehind(D, ws, e, t, inventory) = Cardinality(sel(e, t))
  <2> SUFFICES ASSUME NEW e \in SystemEndpoints, NEW t
      PROVE  ListBehind(D, ws, e, t, inventory) = Cardinality(sel(e, t))
    OBVIOUS
  <2>1. q(e, t).endpoint \in SystemEndpoints
    OBVIOUS
  <2>2. Selected(q(e, t), NIL, D, Own, ws) = sel(e, t)
    BY DEF Selected
  <2> HIDE DEF sel, rows, q
  <2>3. Lists(SystemList(q(e, t), NIL, D, Own, ws, FALSE, "asc"), sel(e, t),
              SortOrder(sel(e, t), D, q(e, t).desc, FALSE, "asc"))
    BY <2>1, <2>2, SystemListIs
  <2>4. ListBehind(D, ws, e, t, inventory) = Len(SystemList(q(e, t), NIL, D, Own, ws, FALSE, "asc"))
    BY DEF ListBehind, q
  <2> QED
    BY <2>3, <2>4 DEF Lists
<1>2. \A S \in SUBSET SystemIDs :
        Cardinality({r \in One(S) : ApplyInventoryWhere(inventory, D.sys[r[1]])})
          = Cardinality(Kept(S, D, inventory))
  <2> SUFFICES ASSUME NEW S \in SUBSET SystemIDs
      PROVE  Cardinality({r \in One(S) : ApplyInventoryWhere(inventory, D.sys[r[1]])})
               = Cardinality(Kept(S, D, inventory))
    OBVIOUS
  <2>1. {r \in One(S) : ApplyInventoryWhere(inventory, D.sys[r[1]])} = One(Kept(S, D, inventory))
    BY DEF One, Kept
  <2>2. Kept(S, D, inventory) \subseteq SystemIDs
    BY DEF Kept
  <2> QED
    BY <2>1, <2>2, OneIs
<1>3. {"advisory_systems", "template_systems", "package_systems"} \subseteq SystemEndpoints
  BY DEF SystemEndpoints
<1>4. Systems(D, Own, ws) \subseteq SystemIDs
  BY DEF Systems
<1>5. ASSUME NEW a
      PROVE  ListBehind(D, ws, "advisory_systems", a, inventory)
               = Cardinality(Kept(buildAdvisorySystemsQuery(D, Own, ws, a), D, inventory))
  <2>1. rows("advisory_systems", a) = One(buildAdvisorySystemsQuery(D, Own, ws, a))
    BY DEF SystemRows
  <2>2. buildAdvisorySystemsQuery(D, Own, ws, a) \in SUBSET SystemIDs
    BY <1>4 DEF buildAdvisorySystemsQuery
  <2> QED
    BY <1>1, <1>2, <1>3, <2>1, <2>2
<1>6. ASSUME NEW t
      PROVE  ListBehind(D, ws, "template_systems", t, inventory)
               = Cardinality(Kept(templateSystemsQuery(D, Own, ws), D, inventory))
  <2>1. rows("template_systems", t) = One(templateSystemsQuery(D, Own, ws))
    BY DEF SystemRows
  <2>2. templateSystemsQuery(D, Own, ws) \in SUBSET SystemIDs
    BY <1>4 DEF templateSystemsQuery
  <2> QED
    BY <1>1, <1>2, <1>3, <2>1, <2>2
<1>7. ASSUME NEW t
      PROVE  ListBehind(D, ws, "package_systems", t, inventory)
               = Cardinality({r \in packageSystemsQuery(D, Own, ws) :
                                ApplyInventoryWhere(inventory, D.sys[r[1]])})
  <2>1. rows("package_systems", t) = packageSystemsQuery(D, Own, ws)
    BY DEF SystemRows
  <2> QED
    BY <1>1, <1>3, <2>1
<1> QED
  BY <1>5, <1>6, <1>7

\* Counts that are current are those of the tables.
LEMMA CurrentIs ==
  ASSUME NEW D \in Databases, CountsAreCurrent(D)
  PROVE  /\ \A a \in Advisories :
              /\ D.advisoryData[a] = Cardinality({s \in Fresh(D, {}) : Affects(D, a, s)})
              /\ \A w \in Workspaces :
                   D.accountAdvisory[w][a] = Cardinality({s \in Fresh(D, {w}) : Affects(D, a, s)})
         /\ D.packageData = Cardinality(packageSystemsQuery(D, Own, {}))
<1> DEFINE A == [a \in Advisories |-> Cardinality({s \in Fresh(D, {}) : Affects(D, a, s)})]
           B == [w \in Workspaces |->
                   [a \in Advisories |-> Cardinality({s \in Fresh(D, {w}) : Affects(D, a, s)})]]
           C == Cardinality(packageSystemsQuery(D, Own, {}))
           V == TRUE
<1>1. /\ [D EXCEPT !.advisoryData = A, !.accountAdvisory = B, !.packageData = C, !.validPackages = V]
           = [D EXCEPT !.validPackages = V]
  BY DEF CountsAreCurrent, Recounted
<1> HIDE DEF A, B, C, V
<1>2. D.advisoryData = A /\ D.accountAdvisory = B /\ D.packageData = C
  <2> DEFINE N == [D EXCEPT !.advisoryData = A, !.accountAdvisory = B, !.packageData = C,
                            !.validPackages = V]
             O == [D EXCEPT !.validPackages = V]
  <2>1. IsDatabase(D)
    BY DEF Databases, IsDatabase
  <2>2. N.advisoryData = A /\ N.accountAdvisory = B /\ N.packageData = C
    BY <2>1 DEF IsDatabase
  <2>3. /\ O.advisoryData = D.advisoryData /\ O.accountAdvisory = D.accountAdvisory
        /\ O.packageData = D.packageData
    BY <2>1 DEF IsDatabase
  <2> HIDE DEF N, O
  <2>4. N = O
    BY <1>1 DEF N, O
  <2> QED
    BY <2>2, <2>3, <2>4
<1> QED
  BY <1>2 DEF A, B, C

\* The counts of account_advisory, added up over workspaces, count the systems of those.
LEMMA SumsAreCurrent ==
  ASSUME NEW D \in Databases, CountsAreCurrent(D), NEW W \in SUBSET Workspaces, NEW a \in Advisories
  PROVE  buildAccountAdvisorySubquery(D, Own, W, a)
           = Cardinality({s \in Fresh(D, {}) : Affects(D, a, s) /\ D.sys[s].workspace \in W})
<1> DEFINE X == {s \in Fresh(D, {}) : Affects(D, a, s)}
           h == [s \in X |-> D.sys[s].workspace]
           g == [w \in W |-> D.accountAdvisory[w][a]]
<1>1. IsFiniteSet(W) /\ W \cap Workspaces = W
  BY QueryAssumption, FS_Subset
<1>2. X \subseteq SystemIDs
  BY DEF Fresh, Systems
<1>3. IsFiniteSet(X)
  BY <1>2, QueryAssumption, FS_Subset
<1>4. PICK it : SumUpTo(it, g, W, Cardinality(W)) /\ SumOver(D, a, W) = it[W]
  BY <1>1, SumOfWorkspaces
<1>5. buildAccountAdvisorySubquery(D, Own, W, a) = SumOver(D, a, W)
  BY <1>1 DEF buildAccountAdvisorySubquery, SumOver
<1>6. \A w \in W : g[w] = Cardinality({s \in X : h[s] = w})
  <2> SUFFICES ASSUME NEW w \in W PROVE g[w] = Cardinality({s \in X : h[s] = w})
    OBVIOUS
  <2>1. D.accountAdvisory[w][a] = Cardinality({s \in Fresh(D, {w}) : Affects(D, a, s)})
    BY CurrentIs
  <2>2. {s \in Fresh(D, {w}) : Affects(D, a, s)} = {s \in X : h[s] = w}
    BY DEF Fresh, Systems
  <2> QED
    BY <2>1, <2>2
<1>7. it[W] = Cardinality({s \in X : h[s] \in W})
  <2>1. \A w \in W : g[w] = CountAt(X, h, w)
    BY <1>6 DEF CountAt
  <2> HIDE DEF X, h, g
  <2>2. it[W] = CountIn(X, h, W)
    BY <1>1, <1>3, <1>4, <2>1, SumCounts
  <2> QED
    BY <2>2 DEF CountIn
<1>8. {s \in X : h[s] \in W} = {s \in Fresh(D, {}) : Affects(D, a, s) /\ D.sys[s].workspace \in W}
  OBVIOUS
<1> QED
  BY <1>4, <1>5, <1>7, <1>8

Excused(D, ws, inventory) ==
  LET names == GroupNames(inventory)
      prepared == resolveAdvisoriesQuery(D, Own, ws, inventory)
  IN  \/ prepared.path = "nothing" /\ ws = {} /\ names = {}
      \/ prepared.path = "advisory_account_data" /\ ~CountsAreCurrent(D)
      \/ /\ prepared.path = "account_advisory"
         /\ \/ ~CountsAreCurrent(D)
            \/ \E f \in inventory : f.type = "workload"
            \/ names # {} /\ NamesApart(D, names, prepared.workspaces)

\* A filter of a group names its names; at most one filter does.
IsInventory(inventory) ==
  /\ \A f \in inventory : f.type \in {"tag", "workload", "group"}
  /\ \A f, g \in inventory : f.type = "group" => f.names # {} /\ (g.type = "group" => f = g)

LEMMA GroupsAre ==
  ASSUME NEW inventory, IsInventory(inventory)
  PROVE  /\ GroupNames(inventory) = {} => \A f \in inventory : f.type # "group"
         /\ GroupNames(inventory) # {} =>
              \E g \in inventory : /\ g.type = "group" /\ g.names = GroupNames(inventory)
                                   /\ \A f \in inventory : f.type = "group" => f = g
<1> DEFINE G == {g \in inventory : g.type = "group"}
<1>1. CASE G = {}
  BY <1>1 DEF GroupNames
<1>2. CASE G # {}
  <2>1. PICK g \in G : TRUE
    BY <1>2
  <2>2. \A f \in inventory : f.type = "group" => f = g
    BY <2>1 DEF IsInventory
  <2>3. GroupNames(inventory) = g.names /\ g.names # {}
    BY <2>1, <2>2 DEF GroupNames, IsInventory
  <2> QED
    BY <2>1, <2>2, <2>3
<1> QED
  BY <1>1, <1>2

LEMMA AdvisoryCounts ==
  ASSUME NEW D \in Databases, NEW ws \in SUBSET Workspaces, NEW inventory, IsInventory(inventory),
         ~Excused(D, ws, inventory), NEW a \in Advisories
  PROVE  AdvisoryCount(D, Own, resolveAdvisoriesQuery(D, Own, ws, inventory), inventory, a)
           = ListBehind(D, ws, "advisory_systems", a, inventory)
<1> DEFINE names == GroupNames(inventory)
           resolved == resolveWorkspaceNameToIDs(D, Own, names, ws)
           effective == IF names = {} THEN ws ELSE resolved
           prepared == resolveAdvisoriesQuery(D, Own, ws, inventory)
           count == AdvisoryCount(D, Own, prepared, inventory, a)
           S == Kept(buildAdvisorySystemsQuery(D, Own, ws, a), D, inventory)
           tags == \E f \in inventory : f.type = "tag"
<1>1. ListBehind(D, ws, "advisory_systems", a, inventory) = Cardinality(S)
  BY BehindIs
<1>2. S = {s \in Systems(D, Own, ws) : /\ Affects(D, a, s) /\ ~D.sys[s].stale
                                       /\ ApplyInventoryWhere(inventory, D.sys[s])}
  BY DEF Kept, buildAdvisorySystemsQuery
<1>3. \/ /\ prepared.path = "nothing" /\ effective = {} /\ ~tags
      \/ /\ prepared.path = "account_advisory" /\ effective # {} /\ ~tags
         /\ prepared.workspaces = effective
      \/ prepared.path = "advisory_account_data" /\ inventory = {} /\ ws = {}
      \/ prepared.path = "tagged" /\ prepared.workspaces = ws
  BY DEF resolveAdvisoriesQuery, hasNonGroupInventoryFilter
<1>4. CASE prepared.path = "tagged"
  <2>1. count = Cardinality(S)
    BY <1>2, <1>3, <1>4 DEF AdvisoryCount, buildQueryAdvisoriesTagged
  <2> QED
    BY <1>1, <2>1
<1>5. CASE prepared.path = "nothing"
  <2>1. names # {} /\ resolved = {}
    BY <1>3, <1>5 DEF Excused
  <2>2. PICK g \in inventory : g.type = "group" /\ g.names = names
    BY <2>1, GroupsAre
  <2>3. \A s \in Systems(D, Own, ws) : D.sys[s].name \notin names
    BY <2>1 DEF resolveWorkspaceNameToIDs
  <2>4. S = {}
    BY <1>2, <2>2, <2>3 DEF ApplyInventoryWhere
  <2>5. count = 0
    BY <1>5 DEF AdvisoryCount
  <2> QED
    BY <1>1, <2>4, <2>5, FS_EmptySet
<1>6. CASE prepared.path = "advisory_account_data"
  <2>1. inventory = {} /\ ws = {} /\ CountsAreCurrent(D)
    BY <1>3, <1>6 DEF Excused
  <2>2. count = D.advisoryData[a]
    BY <1>6 DEF AdvisoryCount, buildQueryAdvisories
  <2>3. D.advisoryData[a] = Cardinality({s \in Fresh(D, {}) : Affects(D, a, s)})
    BY <2>1, CurrentIs
  <2>4. S = {s \in Fresh(D, {}) : Affects(D, a, s)}
    BY <1>2, <2>1 DEF Fresh, ApplyInventoryWhere
  <2> QED
    BY <1>1, <2>2, <2>3, <2>4
<1>7. CASE prepared.path = "account_advisory"
  <2>1. /\ CountsAreCurrent(D) /\ ~tags /\ prepared.workspaces = effective /\ effective # {}
        /\ ~\E f \in inventory : f.type = "workload"
        /\ names # {} => ~NamesApart(D, names, effective)
    BY <1>3, <1>7 DEF Excused
  <2>2. effective \subseteq Workspaces
    BY SystemsAre DEF resolveWorkspaceNameToIDs
  <2>3. count = buildAccountAdvisorySubquery(D, Own, effective, a)
    BY <1>7, <2>1 DEF AdvisoryCount
  <2> DEFINE E == {s \in Fresh(D, {}) : Affects(D, a, s) /\ D.sys[s].workspace \in effective}
  <2>4. count = Cardinality(E)
    <3> HIDE DEF effective, count, prepared
    <3> QED
      BY <2>1, <2>2, <2>3, SumsAreCurrent
  <2>5. CASE names = {}
    <3>1. inventory = {}
      BY <2>1, <2>5, GroupsAre DEF IsInventory
    <3>2. E = S
      BY <1>2, <2>1, <2>5, <3>1 DEF Fresh, Systems, ApplyInventoryWhere
    <3> QED
      BY <1>1, <2>4, <3>2
  <2>6. CASE names # {}
    <3>1. PICK g \in inventory : /\ g.type = "group" /\ g.names = names
                                 /\ \A f \in inventory : f.type = "group" => f = g
      BY <2>6, GroupsAre
    <3>2. inventory = {g}
      BY <2>1, <3>1 DEF IsInventory
    <3>3. \A row : ApplyInventoryWhere(inventory, row) <=> row.name \in names
      BY <3>1, <3>2 DEF ApplyInventoryWhere
    <3>4. \A s \in Fresh(D, effective) : D.sys[s].name \in names
      BY <2>1, <2>6 DEF NamesApart
    <3>5. effective = {D.sys[t].workspace : t \in {u \in Systems(D, Own, ws) : D.sys[u].name \in names}}
      BY <2>6 DEF resolveWorkspaceNameToIDs
    <3>6. ASSUME NEW s \in E
          PROVE  s \in S
      <4>1. s \in Fresh(D, effective)
        BY <3>6 DEF Fresh, Systems
      <4>2. PICK t \in Systems(D, Own, ws) : D.sys[t].workspace = D.sys[s].workspace
        BY <3>5, <3>6
      <4>3. s \in Systems(D, Own, ws)
        BY <3>6, <4>2 DEF Fresh, Systems
      <4> QED
        BY <1>2, <3>3, <3>4, <3>6, <4>1, <4>3 DEF Fresh
    <3>7. ASSUME NEW s \in S
          PROVE  s \in E
      <4>1. s \in Systems(D, Own, ws) /\ Affects(D, a, s) /\ ~D.sys[s].stale /\ D.sys[s].name \in names
        BY <1>2, <3>3, <3>7
      <4>2. D.sys[s].workspace \in effective
        BY <3>5, <4>1
      <4>3. s \in Fresh(D, {})
        BY <4>1 DEF Fresh, Systems
      <4> QED
        BY <4>1, <4>2, <4>3
    <3>8. E = S
      BY <3>6, <3>7
    <3> QED
      BY <1>1, <2>4, <3>8
  <2> QED
    BY <2>5, <2>6
<1> QED
  BY <1>3, <1>4, <1>5, <1>6, <1>7

LEMMA PackageCounts ==
  ASSUME NEW D \in Databases, NEW ws, NEW inventory, NEW useCache \in BOOLEAN,
         useCache => inventory = {} /\ ws = {} /\ CountsAreCurrent(D)
  PROVE  packagesQuery(D, Own, ws, inventory, useCache)
           = ListBehind(D, ws, "package_systems", 0, inventory)
<1> DEFINE R == {r \in packageSystemsQuery(D, Own, ws) : ApplyInventoryWhere(inventory, D.sys[r[1]])}
<1>1. ListBehind(D, ws, "package_systems", 0, inventory) = Cardinality(R)
  BY BehindIs
<1>2. CASE useCache
  <2>1. packagesQuery(D, Own, ws, inventory, useCache) = D.packageData
    BY <1>2 DEF packagesQuery
  <2>2. D.packageData = Cardinality(packageSystemsQuery(D, Own, {}))
    BY <1>2, CurrentIs
  <2>3. R = packageSystemsQuery(D, Own, {})
    BY <1>2 DEF ApplyInventoryWhere
  <2> QED
    BY <1>1, <2>1, <2>2, <2>3
<1>3. CASE ~useCache
  BY <1>1, <1>3 DEF packagesQuery
<1> QED
  BY <1>2, <1>3

LEMMA TemplateCounts ==
  ASSUME NEW D \in Databases, NEW ws, NEW inventory
  PROVE  templatesQuery(D, Own, ws, inventory) = ListBehind(D, ws, "template_systems", 0, inventory)
  BY BehindIs DEF templatesQuery, Kept

LEMMA CountsHold ==
  ASSUME TypeInv
  PROVE  CountsMatchLists
<1> DEFINE D == View("GET")
           access == Authorized(config.auth, grant, "list", "GET")
           ws == access.workspaces
<1>1. D \in Databases
  BY ViewIs DEF TypeInv
<1>2. ws \in SUBSET Workspaces
  BY AccessIs DEF TypeInv, DataOK
<1> HIDE DEF D, ws
<1>3. ASSUME NEW inventory \in {q.inventory : q \in Requests}
      PROVE  /\ Excused(D, ws, inventory) \/ \A a \in Advisories :
                  AdvisoryCount(D, Own, resolveAdvisoriesQuery(D, Own, ws, inventory), inventory, a)
                    = ListBehind(D, ws, "advisory_systems", a, inventory)
             /\ (shouldUseCache(D, ws, inventory) => CountsAreCurrent(D)) =>
                  packagesQuery(D, Own, ws, inventory, shouldUseCache(D, ws, inventory))
                    = ListBehind(D, ws, "package_systems", 0, inventory)
             /\ templatesQuery(D, Own, ws, inventory)
                  = ListBehind(D, ws, "template_systems", 0, inventory)
  <2>1. IsInventory(inventory)
    BY RequestAssumption DEF IsInventory
  <2> DEFINE useCache == shouldUseCache(D, ws, inventory)
  <2>2. (useCache => inventory = {} /\ ws = {}) /\ useCache \in BOOLEAN
    BY DEF shouldUseCache
  <2> HIDE DEF useCache
  <2>3. (useCache => CountsAreCurrent(D)) =>
          packagesQuery(D, Own, ws, inventory, useCache)
            = ListBehind(D, ws, "package_systems", 0, inventory)
    BY <1>1, <2>2, PackageCounts
  <2> QED
    BY <1>1, <1>2, <2>1, <2>3, AdvisoryCounts, TemplateCounts DEF useCache
<1> QED
  BY <1>3, Zenon DEF CountsMatchLists, Excused, ListBehind, D, ws

\* The systems counted beside an advisory, a package or a template are those that the list of
\* its systems shows to the same client with the same filters, when cached counts are up to
\* date and with the exceptions named there: CountsMatchLists of ManagerQueries.
THEOREM CountsMatch == Spec => []CountsMatchLists
<1>1. Init => TypeInv
  BY TypeInit
<1>2. TypeInv /\ [Next]_vars => TypeInv'
  BY TypeStep
<1>3. TypeInv => CountsMatchLists
  BY CountsHold
<1> QED
  BY <1>1, <1>2, <1>3, PTL DEF Spec
-----------------------------------------------------------------------------
(* What the client has seen *)

(* What is shown of the rows of a list after the a-th, up to the b-th. *)
Part(q, e, a, b) == Shown(q, SubSeq(e, a + 1, b))
Joins(q, e, a, b, c) == Part(q, e, a, b) \o Part(q, e, b, c) = Part(q, e, a, c)

\* What is shown of two adjacent parts of a list is what is shown of both.
LEMMA ShownJoins ==
  ASSUME NEW q, NEW e \in Seq(ListRow), NEW a \in Nat, NEW b \in Nat, NEW c \in Nat,
         a <= b, b <= c, c <= Len(e)
  PROVE  Joins(q, e, a, b, c)
<1> USE DEF Joins, Part
<1>1. Len(e) \in Nat
  BY LenProperties
<1>2. SubSeq(e, a + 1, b) \o SubSeq(e, b + 1, c) = SubSeq(e, a + 1, c)
  <2>1. a + 1 \in 1 .. Len(e) + 1 /\ b \in (a + 1) - 1 .. Len(e) /\ c \in b .. Len(e)
    BY <1>1
  <2> QED
    BY <2>1, ConcatAdjacentSubSeq
<1>3. \A i \in 1 .. Len(e) : e[i] \in ListRow
  BY ElementOfSeq
<1>4. SubSeq(e, a + 1, b) \in Seq(ListRow) /\ SubSeq(e, b + 1, c) \in Seq(ListRow)
  <2>1. \A i \in a + 1 .. b : e[i] \in ListRow
    BY <1>1, <1>3
  <2>2. \A i \in b + 1 .. c : e[i] \in ListRow
    BY <1>1, <1>3
  <2>3. SubSeq(e, a + 1, b) \in Seq(ListRow)
    BY <2>1, SubSeqProperties
  <2>4. SubSeq(e, b + 1, c) \in Seq(ListRow)
    BY <2>2, SubSeqProperties
  <2> QED
    BY <2>3, <2>4
<1>5. CASE q.endpoint = "views_advisories"
  BY <1>2, <1>4, <1>5, ShowsBoth DEF Shown
<1>6. CASE q.endpoint # "views_advisories"
  BY <1>2, <1>6 DEF Shown
<1> QED
  BY <1>5, <1>6

LEMMA ShownNothing ==
  ASSUME NEW q
  PROVE  Shown(q, <<>>) = <<>>
  BY ShowsNothing DEF Shown

LEMMA ShownTyped ==
  ASSUME NEW q, NEW rows \in Seq(ListRow)
  PROVE  Shown(q, rows) \in Seq(ListRow)
  BY ShowsBoth DEF Shown
Active == {"auth", "handler", "fetch", "page"}
Waiting == {"auth", "handler", "fetch"}

(* Rows that the order of the list of a package does not tell apart. *)
Tied(q, e) ==
  /\ q.endpoint = "package_systems"
  /\ \E r1, r2 \in Range(e) : r1[1] = r2[1] /\ r1[2] # r2[2]

(* The rows up to the k-th, and the rows after it. *)
UpTo(q, e, k) == Part(q, e, 0, IF k <= Len(e) THEN k ELSE Len(e))
After(q, e, k) == Part(q, e, k, Len(e))

(* Where a client is that waits for the page at the offset o of the list e. *)
Onwards(q, e, o, back, seen) ==
  q.mode = "next" =>
    /\ ~back
    /\ q.limit # -1 => /\ o \in Nat /\ (o = 0 \/ o < Len(e) \/ q.endpoint = "versions")
                       /\ Tied(q, e) \/ seen = UpTo(q, e, o)
    /\ q.limit = -1 => /\ o \in {0, -1}
                       /\ o = 0 => seen = <<>>
                       /\ o = -1 => Tied(q, e) \/ seen = Shown(q, e)
ByIDs(q, e, o, back, seen) ==
  q.mode = "ids" =>
    /\ ~back /\ o \in 0 .. Len(e)
    /\ q.limit = -1 => o = 0
    /\ Tied(q, e) \/ seen = UpTo(q, e, o)
Backwards(q, e, o, back, seen) ==
  q.mode = "last" =>
    /\ o \in Nat
    /\ ~back => o = 0
    /\ back /\ q.limit # -1 /\ q.endpoint # "versions" =>
         /\ o = 0 \/ o < Len(e)
         /\ Len(e) % q.limit = 0 /\ ~Tied(q, e) =>
              \E k \in Nat : o = k * q.limit /\ seen = After(q, e, o + q.limit)
Before(q, e, o, back, seen) ==
  Onwards(q, e, o, back, seen) /\ ByIDs(q, e, o, back, seen) /\ Backwards(q, e, o, back, seen)

(* And one that has that page. *)
OnwardsGot(q, e, o, back, seen, links) ==
  q.mode = "next" =>
    /\ ~back
    /\ q.limit # -1 => /\ Tied(q, e) \/ seen = UpTo(q, e, o + q.limit)
                       /\ links.next = NIL => Len(e) <= o + q.limit
                       /\ links.next # NIL => /\ links.next = o + q.limit
                                              /\ o + q.limit < Len(e) \/ q.endpoint = "versions"
    /\ q.limit = -1 => /\ links.next \in {NIL, -1}
                       /\ Tied(q, e) \/ seen = Shown(q, e)
ByIDsGot(q, e, o, back, seen, links) ==
  q.mode = "ids" =>
    /\ ~back
    /\ q.limit # -1 => /\ Tied(q, e) \/ seen = UpTo(q, e, o + q.limit)
                       /\ links.next = NIL => Len(e) <= o + q.limit
                       /\ links.next # NIL => links.next = o + q.limit /\ o + q.limit <= Len(e)
    /\ q.limit = -1 => /\ links.next = NIL
                       /\ Tied(q, e) \/ seen = Shown(q, e)
BackwardsGot(q, e, o, back, seen, links) ==
  q.mode = "last" /\ q.limit # -1 /\ q.endpoint # "versions" =>
    /\ ~back => /\ links.last = 0 \/ links.last < Len(e)
                /\ Len(e) % q.limit = 0 =>
                     /\ Len(e) = 0 => links.last = 0
                     /\ Len(e) # 0 =>
                          \E j \in Nat : Len(e) = (j + 1) * q.limit /\ links.last = j * q.limit
    /\ back => /\ o = 0 \/ o < Len(e)
               /\ links.previous = NIL => o = 0
               /\ links.previous # NIL =>
                    /\ o # 0 /\ links.previous < o
                    /\ \A k \in Nat : o = k * q.limit =>
                         \E j \in Nat : k = j + 1 /\ links.previous = j * q.limit
               /\ Len(e) % q.limit = 0 /\ ~Tied(q, e) =>
                    \E k \in Nat : o = k * q.limit /\ seen = After(q, e, o)
Got(q, e, o, back, seen, links) ==
  /\ OnwardsGot(q, e, o, back, seen, links) /\ ByIDsGot(q, e, o, back, seen, links)
  /\ BackwardsGot(q, e, o, back, seen, links)

(* A request that was answered once can be answered again, if its links bring back its filters. *)
Askable ==
  /\ walk.expected \in Seq(ListRow)
  /\ walk.pc # "fetch" => walk.request.mode # "export"
  /\ walk.request.mode # "export" => CheckLimitOffset(walk.request.limit, 0)
  /\ walk.altered \/ walk.raw = <<>> \/ IsAccepted(ParseFilters(walk.raw))

ClientInv ==
  /\ OnlyListsPage
  /\ walk.pc \in Active => walk.err = NIL
  /\ walk.pc \in Active => ParseFilters(walk.raw) = ParseFilters(walk.request.raw)
  /\ walk.pc \in Waiting /\ walk.expected = NIL =>
       walk.offset = 0 /\ walk.seen = <<>> /\ ~walk.back
  /\ walk.pc = "page" => walk.expected # NIL /\ walk.offset \in Nat
  /\ walk.pc \in Active /\ walk.expected # NIL => Askable

PlaceInv ==
  ~walk.changed /\ ~walk.altered =>
    /\ walk.pc \in Waiting /\ walk.expected # NIL =>
         Before(walk.request, walk.expected, walk.offset, walk.back, walk.seen)
    /\ walk.pc = "fetch" /\ walk.request.endpoint \in Views =>
         walk.expected # NIL /\ call.prepared.total = Len(walk.expected)
    /\ walk.pc = "page" =>
         Got(walk.request, walk.expected, walk.offset, walk.back, walk.seen, walk.links)

WalkInv == ClientInv /\ PlaceInv /\ WalkExactUnlessChanged

\* Parts of what is shown of a list.
LEMMA Parts ==
  ASSUME NEW q, NEW e \in Seq(ListRow)
  PROVE  /\ Part(q, e, 0, Len(e)) = Shown(q, e)
         /\ \A a, b \in Nat : b <= a => Part(q, e, a, b) = <<>>
         /\ \A a, b, c \in Nat : a <= b /\ b <= c /\ c <= Len(e) => Joins(q, e, a, b, c)
<1>1. Part(q, e, 0, Len(e)) = Shown(q, e)
  <2>1. 0 + 1 = 1
    OBVIOUS
  <2>2. SubSeq(e, 0 + 1, Len(e)) = e
    BY <2>1, SubSeqFull, Zenon
  <2> QED
    BY <2>2, Zenon DEF Part
<1>2. ASSUME NEW a \in Nat, NEW b \in Nat, b <= a
      PROVE  Part(q, e, a, b) = <<>>
  <2>1. a + 1 \in Int /\ b \in Int /\ b < a + 1
    BY <1>2
  <2>2. SubSeq(e, a + 1, b) = <<>>
    BY <2>1, SubSeqEmpty
  <2> QED
    BY <2>2, ShownNothing, Zenon DEF Part
<1>3. \A a, b, c \in Nat : a <= b /\ b <= c /\ c <= Len(e) => Joins(q, e, a, b, c)
  BY ShownJoins
<1> QED
  BY <1>1, <1>2, <1>3

\* A page is a part.
PageEnd(e, limit, o) == IF limit # -1 /\ o + limit <= Len(e) THEN o + limit ELSE Len(e)
LEMMA PagePart ==
  ASSUME NEW q, NEW e \in Seq(ListRow), NEW limit, NEW o, CanPage(limit, o)
  PROVE  Shown(q, ApplyLimitOffset(e, limit, o)) = Part(q, e, o, PageEnd(e, limit, o))
<1>1. ApplyLimitOffset(e, limit, o)
        = SubSeq(e, o + 1, IF limit # -1 /\ o + limit <= Len(e) THEN o + limit ELSE Len(e))
  BY PageIs
<1> QED
  BY <1>1, Zenon DEF Part, PageEnd

\* The rows of a page come after those before it.
ComesAfter(q, e, limit, o) ==
  LET rows == Shown(q, ApplyLimitOffset(e, limit, o))
  IN  /\ limit # -1 => UpTo(q, e, o) \o rows = UpTo(q, e, o + limit)
      /\ limit = -1 /\ o = 0 => <<>> \o rows = Shown(q, e)
LEMMA SeenOnwards ==
  ASSUME NEW q, NEW e \in Seq(ListRow), NEW limit, NEW o, CanPage(limit, o), o <= Len(e)
  PROVE  ComesAfter(q, e, limit, o)
<1> DEFINE last == PageEnd(e, limit, o)
           rows == Shown(q, ApplyLimitOffset(e, limit, o))
<1>1. rows = Part(q, e, o, last)
  BY PagePart
<1>2. Len(e) \in Nat /\ o \in Nat /\ limit \in Int /\ (limit >= 1 \/ limit = -1)
  BY LenProperties DEF CanPage
<1>3. /\ last \in Nat /\ o <= last /\ last <= Len(e)
      /\ limit # -1 => last = IF o + limit <= Len(e) THEN o + limit ELSE Len(e)
      /\ limit = -1 => last = Len(e)
  BY <1>2 DEF PageEnd
<1> HIDE DEF last, rows
<1>4. ASSUME limit # -1
      PROVE  UpTo(q, e, o) \o rows = UpTo(q, e, o + limit)
  <2>1. (IF o <= Len(e) THEN o ELSE Len(e)) = o
    OBVIOUS
  <2>2. UpTo(q, e, o) = Part(q, e, 0, o) /\ UpTo(q, e, o + limit) = Part(q, e, 0, last)
    BY <1>3, <1>4, <2>1, Zenon DEF UpTo
  <2>3. 0 \in Nat /\ 0 <= o
    BY <1>2
  <2>4. Joins(q, e, 0, o, last)
    BY <1>2, <1>3, <2>3, Parts
  <2> QED
    BY <1>1, <2>2, <2>4, Zenon DEF Joins
<1>5. ASSUME limit = -1, o = 0
      PROVE  <<>> \o rows = Shown(q, e)
  <2>1. rows = Shown(q, e)
    BY <1>1, <1>3, <1>5, Parts, Zenon
  <2>2. Shown(q, e) \in Seq(ListRow)
    BY ShownTyped
  <2> QED
    BY <2>1, <2>2, ConcatEmptySeq, Zenon
<1> QED
  BY <1>4, <1>5, Zenon DEF ComesAfter, rows

\* Nothing was seen before the first page.
LEMMA SeenAtFirst ==
  ASSUME NEW q, NEW e \in Seq(ListRow)
  PROVE  UpTo(q, e, 0) = <<>>
<1>1. Len(e) \in Nat
  BY LenProperties
<1>2. (IF 0 <= Len(e) THEN 0 ELSE Len(e)) = 0 /\ 0 \in Nat /\ 0 <= 0
  BY <1>1
<1> QED
  BY <1>2, Parts, Zenon DEF UpTo

\* Everything was seen with the last one.
LEMMA SeenAll ==
  ASSUME NEW q, NEW e \in Seq(ListRow)
  PROVE  /\ \A k \in Nat : Len(e) <= k => UpTo(q, e, k) = Shown(q, e)
         /\ After(q, e, 0) = Shown(q, e)
         /\ \A k \in Nat : Len(e) <= k => After(q, e, k) = <<>>
<1>1. Len(e) \in Nat
  BY LenProperties
<1>2. ASSUME NEW k \in Nat, Len(e) <= k
      PROVE  UpTo(q, e, k) = Shown(q, e)
  <2> DEFINE n == Len(e)
  <2>1. n \in Nat /\ n <= k
    BY <1>1, <1>2
  <2> HIDE DEF n
  <2>2. (IF k <= n THEN k ELSE n) = n
    BY <2>1
  <2>3. UpTo(q, e, k) = Part(q, e, 0, n)
    BY <2>2, Zenon DEF UpTo, n
  <2> QED
    BY <2>3, Parts, Zenon DEF n
<1>3. After(q, e, 0) = Shown(q, e)
  BY Parts, Zenon DEF After
<1>4. ASSUME NEW k \in Nat, Len(e) <= k
      PROVE  After(q, e, k) = <<>>
  BY <1>1, <1>4, Parts, Zenon DEF After
<1> QED
  BY <1>2, <1>3, <1>4, Zenon

\* A multiple below a multiple leaves room for one more.
LEMMA MultipleFits ==
  ASSUME NEW limit \in Nat \ {0}, NEW n \in Nat, n % limit = 0, NEW k \in Nat, k * limit < n
  PROVE  k * limit + limit <= n
<1> DEFINE d == n \div limit
<1>1. d \in Nat /\ n = limit * d
  BY DivisionIs
<1> HIDE DEF d
<1>2. k < d
  <2> SUFFICES ASSUME ~(k < d) PROVE FALSE
    OBVIOUS
  <2>1. limit * (k - d) \in Nat
    BY <1>1, ProductIsNat
  <2> QED
    BY <1>1, <2>1
<1>3. limit * (d - k - 1) \in Nat
  BY <1>1, <1>2, ProductIsNat
<1> QED
  BY <1>1, <1>3

\* Going back, the rows of a page come before those after it.
ComesBefore(q, e, limit, o) ==
  Shown(q, ApplyLimitOffset(e, limit, o)) \o After(q, e, o + limit) = After(q, e, o)
LEMMA SeenBackwards ==
  ASSUME NEW q, NEW e \in Seq(ListRow), NEW limit \in Nat \ {0}, Len(e) % limit = 0,
         NEW k \in Nat, NEW o, o = k * limit, o = 0 \/ o < Len(e)
  PROVE  ComesBefore(q, e, limit, o)
<1> USE DEF ComesBefore
<1> DEFINE rows == Shown(q, ApplyLimitOffset(e, limit, o))
<1>1. Len(e) \in Nat /\ o \in Nat /\ CanPage(limit, o)
  BY LenProperties, ProductIsNat DEF CanPage
<1>2. rows = Part(q, e, o, PageEnd(e, limit, o))
  BY <1>1, PagePart
<1> HIDE DEF rows
<1>3. CASE o < Len(e)
  <2>1. o + limit <= Len(e)
    BY <1>1, <1>3, MultipleFits
  <2>2. PageEnd(e, limit, o) = o + limit
    BY <1>1, <2>1 DEF PageEnd
  <2>3. o + limit \in Nat /\ o <= o + limit /\ Len(e) <= Len(e)
    BY <1>1
  <2>4. Joins(q, e, o, o + limit, Len(e))
    BY <1>1, <2>1, <2>3, Parts
  <2> QED
    BY <1>2, <2>2, <2>4, Zenon DEF Joins, After, rows
<1>4. CASE ~(o < Len(e))
  <2>1. o = 0 /\ Len(e) = 0
    BY <1>1, <1>4
  <2>2. PageEnd(e, limit, o) = 0
    BY <2>1 DEF PageEnd
  <2>3. 0 \in Nat /\ 0 <= 0 /\ o + limit \in Nat /\ Len(e) <= o /\ Len(e) <= o + limit
    BY <2>1
  <2>4. rows = <<>> /\ After(q, e, o + limit) = <<>> /\ After(q, e, o) = <<>>
    <3>1. rows = Part(q, e, 0, 0)
      BY <1>2, <2>1, <2>2, Zenon
    <3>2. rows = <<>>
      BY <2>3, <3>1, Parts, Zenon
    <3> QED
      BY <1>1, <2>3, <3>2, SeenAll, Zenon
  <2>5. <<>> \o <<>> = <<>>
    OBVIOUS
  <2> QED
    BY <2>4, <2>5, Zenon DEF rows
<1> QED
  BY <1>3, <1>4

\* What a client has seen with a page more.
Seen(q, page, back, seen) == IF back THEN Shown(q, page) \o seen ELSE seen \o Shown(q, page)

LEMMA OnwardsStep ==
  ASSUME NEW q, q.mode = "next", NEW e \in Seq(ListRow), NEW o, CanPage(q.limit, o), o <= Len(e),
         NEW back, NEW seen, Onwards(q, e, o, back, seen),
         NEW list, Tied(q, e) \/ list = e,
         NEW total \in Nat, total = Len(e) \/ (q.endpoint = "versions" /\ Len(e) <= total)
  PROVE  OnwardsGot(q, e, o, back, Seen(q, ApplyLimitOffset(list, q.limit, o), back, seen),
                    CreateLinks(o, q.limit, total))
<1> DEFINE links == CreateLinks(o, q.limit, total)
           new == Seen(q, ApplyLimitOffset(list, q.limit, o), back, seen)
<1>1. links.next = IF total <= o + q.limit THEN NIL ELSE o + q.limit
  BY LinksAre
<1>2. /\ ~back
      /\ q.limit # -1 => Tied(q, e) \/ seen = UpTo(q, e, o)
      /\ q.limit = -1 => /\ o \in {0, -1}
                         /\ o = 0 => seen = <<>>
  BY DEF Onwards
<1>3. Len(e) \in Nat /\ o \in Nat /\ q.limit \in Int /\ (q.limit >= 1 \/ q.limit = -1)
  BY LenProperties DEF CanPage
<1>4. new = seen \o Shown(q, ApplyLimitOffset(list, q.limit, o))
  BY <1>2 DEF Seen
<1> HIDE DEF links, new
<1>5. CASE q.limit # -1
  <2>1. Tied(q, e) \/ new = UpTo(q, e, o + q.limit)
    <3>1. UpTo(q, e, o) \o Shown(q, ApplyLimitOffset(e, q.limit, o)) = UpTo(q, e, o + q.limit)
      <4>1. ComesAfter(q, e, q.limit, o)
        BY SeenOnwards
      <4> QED
        BY <1>5, <4>1, Zenon DEF ComesAfter
    <3> QED
      BY <1>2, <1>4, <1>5, <3>1, Zenon
  <2>2. links.next = NIL => Len(e) <= o + q.limit
    BY <1>1, <1>3, NilAssumption
  <2>3. links.next # NIL => links.next = o + q.limit /\ (o + q.limit < Len(e) \/ q.endpoint = "versions")
    BY <1>1, <1>3
  <2> QED
    BY <1>2, <1>5, <2>1, <2>2, <2>3 DEF OnwardsGot, links, new
<1>6. CASE q.limit = -1
  <2>1. o = 0 /\ seen = <<>>
    BY <1>2, <1>3, <1>6
  <2>2. Tied(q, e) \/ new = Shown(q, e)
    <3>1. <<>> \o Shown(q, ApplyLimitOffset(e, q.limit, o)) = Shown(q, e)
      <4>1. ComesAfter(q, e, q.limit, o)
        BY SeenOnwards
      <4> QED
        BY <1>6, <2>1, <4>1, Zenon DEF ComesAfter
    <3> QED
      BY <1>4, <2>1, <3>1, Zenon
  <2>3. links.next \in {NIL, -1}
    BY <1>1, <1>6, <2>1
  <2> QED
    BY <1>2, <1>6, <2>2, <2>3 DEF OnwardsGot, links, new
<1> QED
  BY <1>5, <1>6

LEMMA ByIDsStep ==
  ASSUME NEW q, q.mode = "ids", NEW e \in Seq(ListRow), NEW o, CanPage(q.limit, o),
         NEW back, NEW seen, ByIDs(q, e, o, back, seen),
         NEW list \in Seq(ListRow), Len(list) = Len(e), Tied(q, e) \/ list = e,
         NEW links, links.next = IF Len(ApplyLimitOffset(list, q.limit, o)) = q.limit
                                   THEN o + q.limit ELSE NIL
  PROVE  ByIDsGot(q, e, o, back, Seen(q, ApplyLimitOffset(list, q.limit, o), back, seen), links)
<1> DEFINE page == ApplyLimitOffset(list, q.limit, o)
           new == Seen(q, page, back, seen)
<1>1. Len(e) \in Nat /\ o \in Nat /\ o <= Len(e) /\ q.limit \in Int /\ (q.limit >= 1 \/ q.limit = -1)
  BY LenProperties DEF CanPage, ByIDs
<1>2. page \in Seq(ListRow) /\ (q.limit # -1 /\ o + q.limit <= Len(e) <=> Len(page) = q.limit)
  BY PageIs
<1>3. /\ ~back /\ (q.limit = -1 => o = 0)
      /\ Tied(q, e) \/ seen = UpTo(q, e, o)
  BY DEF ByIDs
<1>4. new = seen \o Shown(q, page)
  BY <1>3 DEF Seen
<1> HIDE DEF new, page
<1>5. CASE q.limit # -1
  <2>1. Tied(q, e) \/ new = UpTo(q, e, o + q.limit)
    <3>1. UpTo(q, e, o) \o Shown(q, ApplyLimitOffset(e, q.limit, o)) = UpTo(q, e, o + q.limit)
      <4>1. ComesAfter(q, e, q.limit, o)
        BY <1>1, SeenOnwards
      <4> QED
        BY <1>5, <4>1, Zenon DEF ComesAfter
    <3> QED
      BY <1>3, <1>4, <3>1, Zenon DEF page
  <2>2. links.next = NIL => Len(e) <= o + q.limit
    BY <1>1, <1>2, <1>5, NilAssumption DEF page
  <2>3. links.next # NIL => links.next = o + q.limit /\ o + q.limit <= Len(e)
    BY <1>2 DEF page
  <2> QED
    BY <1>3, <1>5, <2>1, <2>2, <2>3 DEF ByIDsGot, new, page
<1>6. CASE q.limit = -1
  <2>1. o = 0 /\ (Tied(q, e) \/ seen = <<>>)
    BY <1>3, <1>6, SeenAtFirst
  <2>2. Tied(q, e) \/ new = Shown(q, e)
    <3>1. <<>> \o Shown(q, ApplyLimitOffset(e, q.limit, o)) = Shown(q, e)
      <4>1. ComesAfter(q, e, q.limit, o)
        BY <1>1, SeenOnwards
      <4> QED
        BY <1>6, <2>1, <4>1, Zenon DEF ComesAfter
    <3> QED
      BY <1>4, <2>1, <3>1, Zenon DEF page
  <2>3. links.next = NIL
    BY <1>2, <1>6 DEF page
  <2> QED
    BY <1>3, <1>6, <2>2, <2>3 DEF ByIDsGot, new, page
<1> QED
  BY <1>5, <1>6

LEMMA BackwardsStep ==
  ASSUME NEW q, q.mode = "last", q.limit # -1, q.endpoint # "versions",
         NEW e \in Seq(ListRow), NEW o, CanPage(q.limit, o),
         NEW back, NEW seen, Backwards(q, e, o, back, seen),
         NEW list, Tied(q, e) \/ list = e
  PROVE  BackwardsGot(q, e, o, back, Seen(q, ApplyLimitOffset(list, q.limit, o), back, seen),
                      CreateLinks(o, q.limit, Len(e)))
<1> DEFINE links == CreateLinks(o, q.limit, Len(e))
           new == Seen(q, ApplyLimitOffset(list, q.limit, o), back, seen)
<1>1. Len(e) \in Nat /\ o \in Nat /\ q.limit \in Nat \ {0}
  BY LenProperties DEF CanPage
<1>2. /\ o = 0 => links.previous = NIL
      /\ o # 0 => /\ links.previous \in Nat /\ links.previous # NIL
                  /\ links.previous < o \/ q.limit = -1
                  /\ \A k \in Nat : q.limit >= 1 /\ o = k * q.limit
                       => \E j \in Nat : k = j + 1 /\ links.previous = j * q.limit
      /\ q.limit >= 1 => /\ links.last = 0 \/ links.last < Len(e)
                         /\ Len(e) % q.limit = 0 =>
                              /\ Len(e) = 0 => links.last = 0
                              /\ Len(e) # 0 => \E j \in Nat : /\ Len(e) = (j + 1) * q.limit
                                                              /\ links.last = j * q.limit
  BY <1>1, LinksAre
<1> HIDE DEF links
<1>3. /\ links.last = 0 \/ links.last < Len(e)
      /\ Len(e) % q.limit = 0 =>
           /\ Len(e) = 0 => links.last = 0
           /\ Len(e) # 0 => \E j \in Nat : Len(e) = (j + 1) * q.limit /\ links.last = j * q.limit
  BY <1>1, <1>2
<1>4. ASSUME back
      PROVE  /\ o = 0 \/ o < Len(e)
             /\ links.previous = NIL => o = 0
             /\ links.previous # NIL =>
                  /\ o # 0 /\ links.previous < o
                  /\ \A k \in Nat : o = k * q.limit =>
                       \E j \in Nat : k = j + 1 /\ links.previous = j * q.limit
             /\ Len(e) % q.limit = 0 /\ ~Tied(q, e) =>
                  \E k \in Nat : o = k * q.limit /\ new = After(q, e, o)
  <2>1. o = 0 \/ o < Len(e)
    BY <1>4 DEF Backwards
  <2>2. links.previous = NIL => o = 0
    BY <1>2
  <2>3. links.previous # NIL =>
          /\ o # 0 /\ links.previous < o
          /\ \A k \in Nat : o = k * q.limit =>
               \E j \in Nat : k = j + 1 /\ links.previous = j * q.limit
    BY <1>1, <1>2
  <2>4. ASSUME Len(e) % q.limit = 0, ~Tied(q, e)
        PROVE  \E k \in Nat : o = k * q.limit /\ new = After(q, e, o)
    <3>1. PICK k \in Nat : o = k * q.limit /\ seen = After(q, e, o + q.limit)
      BY <1>4, <2>4 DEF Backwards
    <3>2. new = Shown(q, ApplyLimitOffset(e, q.limit, o)) \o After(q, e, o + q.limit)
      BY <1>4, <2>4, <3>1 DEF Seen
    <3>3. Shown(q, ApplyLimitOffset(e, q.limit, o)) \o After(q, e, o + q.limit) = After(q, e, o)
      <4>1. ComesBefore(q, e, q.limit, o)
        BY <1>1, <2>1, <2>4, <3>1, SeenBackwards
      <4> QED
        BY <4>1, Zenon DEF ComesBefore
    <3>4. new = After(q, e, o)
      BY <3>2, <3>3, Zenon
    <3> QED
      BY <3>1, <3>4
  <2> QED
    BY <2>1, <2>2, <2>3, <2>4
<1> QED
  BY <1>3, <1>4, Zenon DEF BackwardsGot, links, new

\* The list that is read is the list as it was first asked for, but for ties.
LEMMA ListedIs ==
  ASSUME TypeInv, NEW modes, ReadyFor(modes), ParseFilters(walk.raw) = ParseFilters(walk.request.raw),
         NEW tie, tie = "asc" \/ walk.request.endpoint = "package_systems"
  PROVE  /\ Len(Listed(tie)) = Len(AskedNow)
         /\ Tied(walk.request, AskedNow) \/ Listed(tie) = AskedNow
<1> DEFINE q == walk.request
           D == View(q.method)
           f == ParseFilters(q.raw)
<1>1. Listed("asc") = AskedNow
  BY DEF Listed, AskedNow, Asked
<1>2. CASE tie = "asc"
  BY <1>1, <1>2
<1>3. CASE q.endpoint = "package_systems"
  <2> DEFINE S == Selected(q, f, D, call.account, call.workspaces)
             sorted(t) == ApplySort(S, D, q.desc, FALSE, t)
  <2>1. D \in Databases /\ q.endpoint \in SystemEndpoints
    BY <1>3, ReadyIs DEF SystemEndpoints
  <2>2. \A t : Listed(t) = SystemList(q, f, D, call.account, call.workspaces, FALSE, t)
    BY <1>3 DEF Listed, List
  <2>3. /\ CanSort(S, D)
        /\ \A t : /\ SystemList(q, f, D, call.account, call.workspaces, FALSE, t) = sorted(t)
                  /\ Lists(SystemList(q, f, D, call.account, call.workspaces, FALSE, t), S,
                           SortOrder(S, D, q.desc, FALSE, t))
    <3>1. \A t : Plain(q, f, D, call.account, call.workspaces, t)
      BY <2>1, PlainList
    <3> QED
      BY <3>1, Zenon DEF Plain
  <2> HIDE DEF S, f, D
  <2>4. \A t : /\ Len(Listed(t)) = Cardinality(S)
               /\ \A x \in S : \E i \in 1 .. Len(Listed(t)) : Listed(t)[i] = x
    BY <2>2, <2>3 DEF Lists
  <2>5. ASSUME ~Tied(q, AskedNow)
        PROVE  NoTies(S)
    <3>1. AskedNow \in Seq(S)
      BY <1>1, <2>2, <2>3 DEF Lists
    <3>2. \A x \in S : x \in Range(AskedNow)
      <4> SUFFICES ASSUME NEW x \in S PROVE x \in Range(AskedNow)
        OBVIOUS
      <4>1. PICK i \in 1 .. Len(AskedNow) : AskedNow[i] = x
        BY <1>1, <2>4
      <4>2. DOMAIN AskedNow = 1 .. Len(AskedNow)
        BY <3>1
      <4> QED
        BY <4>1, <4>2 DEF Range
    <3>3. \A r, s \in S : r[1] = s[1] => r[2] = s[2]
      BY <1>3, <2>5, <3>2 DEF Tied
    <3>4. \A r \in S : r = <<r[1], r[2]>>
      BY <2>3 DEF CanSort
    <3> QED
      BY <3>3, <3>4 DEF NoTies
  <2>6. ASSUME ~Tied(q, AskedNow)
        PROVE  sorted(tie) = sorted("asc")
    <3>1. SortedAlike(S, D, q.desc, tie, "asc")
      BY <2>3, <2>5, <2>6, SortUntied
    <3> QED
      BY <3>1, Zenon DEF SortedAlike
  <2> QED
    BY <1>1, <2>2, <2>3, <2>4, <2>6
<1> QED
  BY <1>2, <1>3

\* The total is the length of the list, or more for the versions of a package; without rows it is 0.
LEMMA TotalIs ==
  ASSUME TypeInv, NEW modes, ReadyFor(modes), walk.request.mode # "export", NEW tie
  PROVE  /\ walk.offset < Len(Listed(tie)) =>
              \/ TotalOf(tie) = Len(Listed(tie))
              \/ walk.request.endpoint = "versions" /\ Len(Listed(tie)) <= TotalOf(tie)
         /\ ~(walk.offset < Len(Listed(tie))) => TotalOf(tie) = 0
         /\ Len(Listed(tie)) \in Nat /\ walk.offset \in Nat /\ TotalOf(tie) \in Nat
<1> DEFINE q == walk.request
           D == View(q.method)
           list == Listed(tie)
<1>1. /\ D \in Databases /\ list \in Seq(ListRow) /\ CanPage(q.limit, walk.offset)
      /\ TotalOf(tie) \in Nat
  BY ReadyIs
<1>2. Len(list) \in Nat /\ walk.offset \in Nat
  BY <1>1, LenProperties DEF CanPage
<1>3. PageOf(tie) = <<>> <=> Len(list) <= walk.offset
  BY <1>1, PageIs DEF PageOf
<1>4. q.endpoint = "versions" =>
        Len(list) <= MetaTotalHelper(q, list, D, call.account, call.workspaces)
  <2> SUFFICES ASSUME q.endpoint = "versions"
      PROVE  Len(list) <= MetaTotalHelper(q, list, D, call.account, call.workspaces)
    OBVIOUS
  <2>1. list = ByID(packageVersionsQuery(D, call.account, call.workspaces))
    BY DEF Listed, List
  <2>2. Len(list) <= Cardinality(packageSystemsQuery(D, call.account, call.workspaces))
    BY <1>1, <2>1, VersionsAre
  <2> QED
    BY <2>2 DEF MetaTotalHelper
<1>5. q.endpoint # "versions" => MetaTotalHelper(q, list, D, call.account, call.workspaces) = Len(list)
  BY DEF MetaTotalHelper
<1> QED
  BY <1>1, <1>2, <1>3, <1>4, <1>5 DEF TotalOf
-----------------------------------------------------------------------------
(* A page more *)

\* A client whose list did not change is at the place that its offset says.
LEMMA BeforeNow ==
  ASSUME WalkInv, walk.pc \in Waiting, ~walk.changed, ~walk.altered, NEW e, e \in Seq(ListRow),
         walk.expected # NIL => e = walk.expected
  PROVE  Before(walk.request, e, walk.offset, walk.back, walk.seen)
<1> DEFINE q == walk.request
<1>1. CASE walk.expected # NIL
  BY <1>1 DEF WalkInv, PlaceInv
<1>2. CASE walk.expected = NIL
  <2>1. walk.offset = 0 /\ walk.seen = <<>> /\ ~walk.back
    BY <1>2 DEF WalkInv, ClientInv
  <2>2. UpTo(q, e, 0) = <<>> /\ Len(e) \in Nat
    BY SeenAtFirst, LenProperties
  <2>3. Onwards(q, e, walk.offset, walk.back, walk.seen)
    BY <2>1, <2>2 DEF Onwards
  <2>4. ByIDs(q, e, walk.offset, walk.back, walk.seen)
    BY <2>1, <2>2 DEF ByIDs
  <2>5. Backwards(q, e, walk.offset, walk.back, walk.seen)
    BY <2>1 DEF Backwards
  <2> QED
    BY <2>3, <2>4, <2>5 DEF Before
<1> QED
  BY <1>1, <1>2

\* What a statement that reads a page finds then.
LEMMA TurnFacts ==
  ASSUME TypeInv, WalkInv, NEW modes, ReadyFor(modes), "export" \notin modes,
         NEW tie, tie = "asc" \/ walk.request.endpoint = "package_systems",
         ~walk.changed, ~walk.altered, walk.expected # NIL => AskedNow = walk.expected
  PROVE  /\ AskedNow \in Seq(ListRow) /\ Len(AskedNow) \in Nat
         /\ walk.request.mode \in modes
         /\ CanPage(walk.request.limit, walk.offset)
         /\ Before(walk.request, AskedNow, walk.offset, walk.back, walk.seen)
         /\ Listed(tie) \in Seq(ListRow) /\ Len(Listed(tie)) = Len(AskedNow)
         /\ Tied(walk.request, AskedNow) \/ Listed(tie) = AskedNow
<1> DEFINE q == walk.request
           e == AskedNow
<1>1. /\ e \in Seq(ListRow) /\ Listed(tie) \in Seq(ListRow) /\ CanPage(q.limit, walk.offset)
      /\ q.mode \in modes /\ walk.pc \in Waiting
  BY ReadyIs DEF ReadyFor, Waiting
<1>2. Len(e) \in Nat
  BY <1>1, LenProperties
<1>3. ParseFilters(walk.raw) = ParseFilters(q.raw)
  BY <1>1 DEF WalkInv, ClientInv, Waiting, Active
<1>4. Before(q, e, walk.offset, walk.back, walk.seen)
  BY <1>1, BeforeNow
<1>5. Len(Listed(tie)) = Len(e) /\ (Tied(q, e) \/ Listed(tie) = e)
  BY <1>3, ListedIs
<1> QED
  BY <1>1, <1>2, <1>4, <1>5
\* A page of a list whose total is known puts the client where the links say.
LEMMA PagedGot ==
  ASSUME NEW q, q.mode \in Paged, NEW e \in Seq(ListRow), NEW o, CanPage(q.limit, o),
         q.mode = "next" => o <= Len(e), NEW back, NEW seen, Before(q, e, o, back, seen),
         NEW list, Tied(q, e) \/ list = e,
         NEW total \in Nat, total = Len(e) \/ (q.endpoint = "versions" /\ Len(e) <= total)
  PROVE  Got(q, e, o, back, Seen(q, ApplyLimitOffset(list, q.limit, o), back, seen),
             CreateLinks(o, q.limit, total))
<1> DEFINE new == Seen(q, ApplyLimitOffset(list, q.limit, o), back, seen)
           links == CreateLinks(o, q.limit, total)
<1>1. OnwardsGot(q, e, o, back, new, links)
  <2>1. CASE q.mode = "next"
    BY <2>1, OnwardsStep DEF Before
  <2>2. CASE q.mode # "next"
    BY <2>2 DEF OnwardsGot
  <2> QED
    BY <2>1, <2>2
<1>2. ByIDsGot(q, e, o, back, new, links)
  BY DEF ByIDsGot, Paged
<1>3. BackwardsGot(q, e, o, back, new, links)
  <2>1. CASE q.mode = "last" /\ q.limit # -1 /\ q.endpoint # "versions"
    BY <2>1, BackwardsStep DEF Before
  <2>2. CASE ~(q.mode = "last" /\ q.limit # -1 /\ q.endpoint # "versions")
    BY <2>2 DEF BackwardsGot
  <2> QED
    BY <2>1, <2>2
<1> QED
  BY <1>1, <1>2, <1>3 DEF Got

\* So does a page of ids, with the link that the client makes of it.
LEMMA IDsGot ==
  ASSUME NEW q, q.mode = "ids", NEW e \in Seq(ListRow), NEW o, CanPage(q.limit, o),
         NEW back, NEW seen, Before(q, e, o, back, seen),
         NEW list \in Seq(ListRow), Len(list) = Len(e), Tied(q, e) \/ list = e,
         NEW links, links.next = IF Len(ApplyLimitOffset(list, q.limit, o)) = q.limit
                                   THEN o + q.limit ELSE NIL
  PROVE  Got(q, e, o, back, Seen(q, ApplyLimitOffset(list, q.limit, o), back, seen), links)
<1> DEFINE new == Seen(q, ApplyLimitOffset(list, q.limit, o), back, seen)
<1>1. ByIDsGot(q, e, o, back, new, links)
  BY ByIDsStep DEF Before
<1>2. OnwardsGot(q, e, o, back, new, links) /\ BackwardsGot(q, e, o, back, new, links)
  BY DEF OnwardsGot, BackwardsGot
<1> QED
  BY <1>1, <1>2 DEF Got

\* An offset that an answer refuses was not one to be asked for.
TurnedAway(q, e, o, seen) ==
  /\ q.limit = -1 \/ q.endpoint = "versions" \/ (q.mode = "ids" /\ o = Len(e))
  /\ \/ Tied(q, e) \/ (q.mode = "last" /\ (q.limit = -1 \/ q.endpoint = "versions"))
     \/ seen = Shown(q, e)

LEMMA RefusedIs ==
  ASSUME NEW q, q.mode \in {"next", "last", "ids"}, NEW e \in Seq(ListRow), NEW o,
         CanPage(q.limit, o), o > 0, Len(e) <= o, NEW back, NEW seen,
         Before(q, e, o, back, seen)
  PROVE  TurnedAway(q, e, o, seen)
<1>1. Len(e) \in Nat /\ o \in Nat
  BY LenProperties DEF CanPage
<1>2. UpTo(q, e, o) = Shown(q, e)
  BY <1>1, SeenAll
<1>3. CASE q.mode = "next"
  <2>1. q.limit # -1 /\ q.endpoint = "versions"
    BY <1>1, <1>3 DEF Before, Onwards
  <2>2. Tied(q, e) \/ seen = UpTo(q, e, o)
    BY <1>3, <2>1 DEF Before, Onwards
  <2> QED
    BY <1>2, <2>1, <2>2 DEF TurnedAway
<1>4. CASE q.mode = "ids"
  <2>1. o = Len(e) /\ (Tied(q, e) \/ seen = UpTo(q, e, o))
    BY <1>1, <1>4 DEF Before, ByIDs
  <2> QED
    BY <1>2, <1>4, <2>1 DEF TurnedAway
<1>5. CASE q.mode = "last"
  <2>1. q.limit = -1 \/ q.endpoint = "versions"
    BY <1>1, <1>5 DEF Before, Backwards
  <2> QED
    BY <1>5, <2>1 DEF TurnedAway
<1> QED
  BY <1>3, <1>4, <1>5

\* Which the exceptions of the property allow for.
LEMMA RefusedHolds ==
  ASSUME walk'.err = "bad", walk'.request.mode # "export",
         TurnedAway(walk'.request, walk'.expected, walk'.offset, walk'.seen)
  PROVE  WalkExactUnlessChanged'
<1>1. LinkIsBroken'
  BY DEF LinkIsBroken, TurnedAway
<1>2. (PagesMayDiffer \/ walk.seen = Shown(walk.request, walk.expected))'
  BY DEF PagesMayDiffer, TurnedAway, Tied
<1> QED
  BY <1>1, <1>2 DEF WalkExactUnlessChanged

\* A link with other filters is one of the exceptions too.
LEMMA AlteredHolds ==
  ASSUME walk'.altered, walk'.request.mode # "export"
  PROVE  WalkExactUnlessChanged'
<1>1. LinkIsBroken' /\ PagesMayDiffer'
  BY DEF LinkIsBroken, PagesMayDiffer
<1> QED
  BY <1>1 DEF WalkExactUnlessChanged

\* The total of a list, at an offset that is not refused.
LEMMA TotalFits ==
  ASSUME TypeInv, WalkInv, NEW tie, TurnIs(tie), walk.request.mode \in Paged, ~walk'.changed,
         ~walk.altered
  PROVE  LET q == walk.request
             total == IF q.endpoint \in Views THEN call.prepared.total ELSE TotalOf(tie)
             late == q.endpoint \notin Views /\ walk.offset > total
         IN  /\ Answers(PageOf(tie), AskedNow, late, CreateLinks(walk.offset, q.limit, total))
             /\ ReadyFor(Paged) /\ total \in Nat
             /\ late => walk.offset > 0 /\ Len(AskedNow) <= walk.offset
             /\ ~late => /\ q.mode = "next" => walk.offset <= Len(AskedNow)
                         /\ \/ total = Len(AskedNow)
                            \/ q.endpoint = "versions" /\ Len(AskedNow) <= total
<1> DEFINE q == walk.request
           e == AskedNow
           o == walk.offset
           total == IF q.endpoint \in Views THEN call.prepared.total ELSE TotalOf(tie)
           late == q.endpoint \notin Views /\ o > total
<1>0. q.mode \notin {"ids", "export"} /\ "export" \notin Paged
  BY DEF Paged
<1>1. ReadyFor(Paged) /\ Answers(PageOf(tie), e, late, CreateLinks(o, q.limit, total))
  <2>1. CASE q.endpoint \in Views
    <3>1. late = FALSE /\ total = call.prepared.total
      BY <2>1
    <3> QED
      BY <2>1, <3>1 DEF TurnIs
  <2>2. CASE q.endpoint \notin Views
    <3>1. late = (o > TotalOf(tie)) /\ total = TotalOf(tie)
      BY <2>2
    <3>2. ~ReadyFor({"ids"})
      BY <1>0 DEF ReadyFor
    <3> HIDE DEF late, total
    <3> QED
      BY <2>2, <3>1, <3>2 DEF TurnIs
  <2> QED
    BY <2>1, <2>2
<1>2. /\ tie = "asc" \/ q.endpoint = "package_systems"
      /\ ~walk.changed /\ (walk.expected # NIL => e = walk.expected)
  BY <1>1 DEF TurnIs, Answers
<1>3. /\ e \in Seq(ListRow) /\ Len(e) \in Nat /\ CanPage(q.limit, o)
      /\ Before(q, e, o, walk.back, walk.seen) /\ Len(Listed(tie)) = Len(e)
  BY <1>0, <1>1, <1>2, TurnFacts
<1>4. o \in Nat
  BY <1>3 DEF CanPage
<1>5. CASE q.endpoint \in Views
  <2>1. walk.pc = "fetch" /\ call.prepared.total \in Nat
    BY <1>1, <1>5, ReadyIs
  <2>2. walk.expected # NIL /\ call.prepared.total = Len(walk.expected)
    BY <1>2, <1>5, <2>1 DEF WalkInv, PlaceInv
  <2>3. total = Len(e) /\ ~late
    BY <1>2, <1>5, <2>2
  <2>4. q.mode = "next" => o <= Len(e)
    <3>1. q.endpoint # "versions"
      BY <1>5 DEF Views
    <3> QED
      BY <1>3, <1>4, <3>1 DEF Before, Onwards
  <2> QED
    BY <1>1, <1>3, <2>3, <2>4
<1>6. CASE q.endpoint \notin Views
  <2>1. /\ o < Len(e) => total = Len(e) \/ (q.endpoint = "versions" /\ Len(e) <= total)
        /\ ~(o < Len(e)) => total = 0
        /\ total \in Nat
    BY <1>0, <1>1, <1>3, <1>6, TotalIs
  <2>2. late <=> o > total
    BY <1>6
  <2> HIDE DEF total, late
  <2>3. late => o > 0 /\ Len(e) <= o
    BY <1>3, <1>4, <2>1, <2>2
  <2>4. ~late => o <= Len(e) /\ (total = Len(e) \/ (q.endpoint = "versions" /\ Len(e) <= total))
    BY <1>3, <1>4, <2>1, <2>2
  <2> QED
    BY <1>1, <2>1, <2>3, <2>4 DEF total, late
<1> QED
  BY <1>5, <1>6
\* What the client has after a page, and where it is.
LEMMA TurnFits ==
  ASSUME TypeInv, WalkInv, NEW tie, TurnIs(tie), ~walk'.changed, ~walk.altered
  PROVE  /\ walk'.expected = AskedNow
         /\ walk'.pc = "page" =>
              Got(walk'.request, walk'.expected, walk'.offset, walk'.back, walk'.seen, walk'.links)
         /\ walk'.pc = "done" =>
              /\ walk'.err = "bad" /\ walk'.request.mode # "export"
              /\ TurnedAway(walk'.request, walk'.expected, walk'.offset, walk'.seen)
<1> DEFINE q == walk.request
           e == AskedNow
           o == walk.offset
           page == PageOf(tie)
<1>1. CASE q.mode \in Paged
  <2> DEFINE total == IF q.endpoint \in Views THEN call.prepared.total ELSE TotalOf(tie)
             late == q.endpoint \notin Views /\ o > total
             links == CreateLinks(o, q.limit, total)
  <2>1. /\ Answers(page, e, late, links) /\ ReadyFor(Paged) /\ total \in Nat
        /\ late => o > 0 /\ Len(e) <= o
        /\ ~late => /\ q.mode = "next" => o <= Len(e)
                    /\ total = Len(e) \/ (q.endpoint = "versions" /\ Len(e) <= total)
    BY <1>1, TotalFits
  <2> HIDE DEF total, late
  <2>2. /\ walk'.request = q /\ walk'.offset = o /\ walk'.back = walk.back /\ walk'.expected = e
        /\ ~walk.changed /\ (walk.expected # NIL => e = walk.expected)
        /\ late => walk'.pc = "done" /\ walk'.err = "bad" /\ walk'.seen = walk.seen
        /\ ~late => /\ walk'.pc = "page" /\ walk'.links = links
                    /\ walk'.seen = Seen(q, page, walk.back, walk.seen)
    BY <2>1, Zenon DEF Answers, Seen
  <2>3. /\ e \in Seq(ListRow) /\ CanPage(q.limit, o) /\ Before(q, e, o, walk.back, walk.seen)
        /\ Tied(q, e) \/ Listed(tie) = e
    <3>1. "export" \notin Paged /\ (tie = "asc" \/ q.endpoint = "package_systems")
      BY DEF Paged, TurnIs
    <3> QED
      BY <2>1, <2>2, <3>1, TurnFacts
  <2>4. ASSUME ~late
        PROVE  Got(q, e, o, walk.back, Seen(q, page, walk.back, walk.seen), links)
    BY <1>1, <2>1, <2>3, <2>4, PagedGot DEF PageOf
  <2>5. ASSUME late
        PROVE  TurnedAway(q, e, o, walk.seen)
    BY <1>1, <2>1, <2>3, <2>5, RefusedIs DEF Paged
  <2>6. q.mode # "export" /\ "page" # "done"
    BY <1>1 DEF Paged
  <2> QED
    BY <2>2, <2>4, <2>5, <2>6, Zenon
<1>2. CASE q.mode \notin Paged
  <2> DEFINE links == Onward(Statement(tie))
  <2>1. ReadyFor({"ids"}) /\ q.mode = "ids" /\ q.endpoint \notin Views
    BY <1>2 DEF TurnIs, ReadyFor
  <2>2. PICK refused \in {FALSE, o > TotalOf(tie)} : Answers(page, e, refused, links)
    BY <1>2, Zenon DEF TurnIs, ReadyFor
  <2>3. links.next = IF Len(page) = q.limit THEN o + q.limit ELSE NIL
    BY OnwardIs
  <2> HIDE DEF links
  <2>4. /\ walk'.request = q /\ walk'.offset = o /\ walk'.back = walk.back /\ walk'.expected = e
        /\ ~walk.changed /\ (walk.expected # NIL => e = walk.expected)
        /\ refused => walk'.pc = "done" /\ walk'.err = "bad" /\ walk'.seen = walk.seen
        /\ ~refused => /\ walk'.pc = "page" /\ walk'.links = links
                       /\ walk'.seen = Seen(q, page, walk.back, walk.seen)
    BY <2>2, Zenon DEF Answers, Seen
  <2>5. /\ e \in Seq(ListRow) /\ Len(e) \in Nat /\ CanPage(q.limit, o)
        /\ Before(q, e, o, walk.back, walk.seen)
        /\ Listed(tie) \in Seq(ListRow) /\ Len(Listed(tie)) = Len(e)
        /\ Tied(q, e) \/ Listed(tie) = e
    <3>1. "export" \notin {"ids"} /\ (tie = "asc" \/ q.endpoint = "package_systems")
      BY DEF TurnIs
    <3> QED
      BY <2>1, <2>4, <3>1, TurnFacts
  <2>6. ASSUME ~refused
        PROVE  Got(q, e, o, walk.back, Seen(q, page, walk.back, walk.seen), links)
    BY <2>1, <2>3, <2>5, <2>6, IDsGot DEF PageOf
  <2>7. ASSUME refused
        PROVE  TurnedAway(q, e, o, walk.seen)
    <3>1. o > TotalOf(tie)
      BY <2>2, <2>7
    <3>2. /\ o < Len(Listed(tie)) => \/ TotalOf(tie) = Len(Listed(tie))
                                     \/ q.endpoint = "versions" /\ Len(Listed(tie)) <= TotalOf(tie)
          /\ ~(o < Len(Listed(tie))) => TotalOf(tie) = 0
          /\ o \in Nat /\ TotalOf(tie) \in Nat
      BY <2>1, TotalIs
    <3>3. o > 0 /\ Len(e) <= o
      BY <2>5, <3>1, <3>2
    <3> QED
      BY <2>1, <2>5, <3>3, RefusedIs
  <2>8. q.mode # "export" /\ "page" # "done"
    BY <2>1
  <2> QED
    BY <2>4, <2>6, <2>7, <2>8, Zenon
<1> QED
  BY <1>1, <1>2
\* A request that is valid can be asked for again, from the first page on.
LEMMA AskableNow ==
  ASSUME IsValid, walk'.request = walk.request, walk'.raw = walk.raw, UNCHANGED config,
         walk'.expected \in Seq(ListRow),
         walk'.pc # "fetch" => walk.request.mode # "export"
  PROVE  Askable'
<1>1. walk.request.mode # "export" => CheckLimitOffset(walk.request.limit, 0)
  BY DEF IsValid, CheckLimitOffset
<1>2. walk.raw = <<>> \/ IsAccepted(ParseFilters(walk.raw))
  BY DEF IsValid
<1>3. (walk.request.mode # "export" => CheckLimitOffset(walk.request.limit, 0))'
  BY <1>1 DEF CheckLimitOffset
<1>4. (walk.raw = <<>> \/ IsAccepted(ParseFilters(walk.raw)))'
  BY <1>2, Zenon
<1> QED
  BY <1>3, <1>4 DEF Askable

\* A request that could be asked for still can.
LEMMA StillAskable ==
  ASSUME Askable, UNCHANGED config, walk'.expected = walk.expected,
         walk'.request.mode = walk.request.mode, walk'.request.limit = walk.request.limit,
         walk.altered => walk'.altered,
         \/ walk'.altered \/ walk'.raw = walk.raw
         \/ /\ ParseFilters(walk'.raw) = ParseFilters(walk.raw)
            /\ walk.raw = <<>> => walk'.raw = <<>>,
         walk'.pc # "fetch" => walk.request.mode # "export"
  PROVE  Askable'
<1>1. (walk.request.mode # "export" => CheckLimitOffset(walk.request.limit, 0))'
  BY DEF CheckLimitOffset, Askable
<1>2. (walk.altered \/ walk.raw = <<>> \/ IsAccepted(ParseFilters(walk.raw)))'
  BY Zenon DEF Askable
<1> QED
  BY <1>1, <1>2 DEF Askable

\* A list of rows is not a null value.
LEMMA ListsAreNotNil == NIL \notin Seq(ListRow)
  BY NilAssumption DEF ListRow

LEMMA TurnStep ==
  ASSUME TypeInv, WalkInv, Pages
  PROVE  WalkInv'
<1> DEFINE q == walk.request
<1>1. PICK tie \in {"asc", "desc"} : TurnIs(tie)
  BY PagesIs
<1>2. UNCHANGED config
  BY PagesIs DEF Steady, podVars
<1>3. PICK page, refused, links : Answers(page, AskedNow, refused, links)
  BY <1>1 DEF TurnIs
<1>4. PICK modes : ReadyFor(modes) /\ modes \in {Paged, {"ids"}}
  BY <1>1 DEF TurnIs
<1>5. /\ q.endpoint \in ListEndpoints /\ IsValid /\ walk.pc \in Waiting /\ AskedNow \in Seq(ListRow)
      /\ walk.offset \in Nat /\ q.mode # "export"
  <2>1. q.mode # "export"
    BY <1>4 DEF ReadyFor, Paged
  <2> QED
    BY <1>4, <2>1, ReadyIs DEF ReadyFor, Waiting, CanPage
<1>6. /\ walk'.request = q /\ walk'.raw = walk.raw /\ walk'.offset = walk.offset
      /\ walk'.altered = walk.altered
      /\ walk'.expected = IF walk.expected = NIL THEN AskedNow ELSE walk.expected
      /\ (walk'.pc = "page" /\ walk'.err = walk.err) \/ walk'.pc = "done"
  BY <1>3 DEF Answers
<1>7. walk.pc \in Active /\ walk.err = NIL /\ ParseFilters(walk.raw) = ParseFilters(q.raw)
  BY <1>5 DEF Waiting, Active, WalkInv, ClientInv
<1>8. walk'.expected \in Seq(ListRow)
  BY <1>5, <1>6, <1>7 DEF WalkInv, ClientInv, Askable
<1>9. ClientInv'
  <2>1. Askable'
    BY <1>2, <1>5, <1>6, <1>8, AskableNow
  <2>2. walk'.pc \notin Waiting
    BY <1>6 DEF Waiting
  <2>3. walk'.expected # NIL
    BY <1>8, ListsAreNotNil
  <2> QED
    BY <1>5, <1>6, <1>7, <2>1, <2>2, <2>3 DEF ClientInv, OnlyListsPage, Active
<1>10. PlaceInv'
  <2>1. walk'.pc \notin Waiting
    BY <1>6 DEF Waiting
  <2>2. walk'.pc # "fetch"
    BY <1>6
  <2>3. ~walk'.changed /\ ~walk'.altered /\ walk'.pc = "page" =>
          Got(walk'.request, walk'.expected, walk'.offset, walk'.back, walk'.seen, walk'.links)
    BY <1>1, <1>6, TurnFits
  <2> QED
    BY <2>1, <2>2, <2>3 DEF PlaceInv
<1>11. WalkExactUnlessChanged'
  <2>1. CASE walk'.changed \/ walk'.pc = "page"
    BY <2>1 DEF WalkExactUnlessChanged
  <2>2. CASE ~walk'.changed /\ ~walk'.altered /\ walk'.pc = "done"
    <3>1. /\ walk'.err = "bad" /\ walk'.request.mode # "export"
          /\ TurnedAway(walk'.request, walk'.expected, walk'.offset, walk'.seen)
      BY <1>1, <1>6, <2>2, TurnFits
    <3> QED
      BY <3>1, RefusedHolds
  <2>3. CASE walk'.altered
    BY <1>5, <1>6, <2>3, AlteredHolds
  <2> QED
    BY <1>6, <2>1, <2>2, <2>3
<1> QED
  BY <1>9, <1>10, <1>11 DEF WalkInv
\* The statement that counts the rows of a view.
LEMMA QueryStep ==
  ASSUME TypeInv, WalkInv, queryDB
  PROVE  WalkInv'
<1> DEFINE q == walk.request
           e == FirstAsked
           o == walk.offset
<1>1. /\ walk.pc = "handler" /\ q \in Requests /\ q.endpoint \in Views /\ IsValid
      /\ e \in Seq(ListRow)
      /\ walk'.request = q /\ walk'.raw = walk.raw /\ walk'.offset = o
      /\ walk'.altered = walk.altered
      /\ walk'.back = walk.back /\ walk'.seen = walk.seen
      /\ walk'.expected = IF walk.expected = NIL THEN e ELSE walk.expected
      /\ ~walk'.changed => ~walk.changed /\ (walk.expected # NIL => e = walk.expected)
      /\ o > Len(e) => walk'.pc = "done" /\ walk'.err = "bad"
      /\ ~(o > Len(e)) => walk'.pc = "fetch" /\ walk'.err = walk.err
      /\ call'.prepared.total = Len(e) /\ Steady
  BY QueryIs
<1> HIDE DEF e
<1>2. UNCHANGED config
  BY <1>1 DEF Steady, podVars
<1>3. walk.pc \in Waiting /\ walk.pc \in Active /\ o \in Int /\ Len(e) \in Nat
  BY <1>1, LenProperties DEF Waiting, Active, TypeInv, WalkOK
<1>4. walk.err = NIL /\ ParseFilters(walk.raw) = ParseFilters(q.raw)
  BY <1>3 DEF WalkInv, ClientInv
<1>5. walk'.expected \in Seq(ListRow) /\ walk'.expected # NIL
  BY <1>1, <1>3, ListsAreNotNil DEF WalkInv, ClientInv, Askable
<1>6. q.endpoint \in ListEndpoints
  BY <1>1 DEF Views, ListEndpoints, SystemEndpoints
<1>7. ~walk'.changed /\ ~walk.altered =>
        Before(q, e, o, walk.back, walk.seen) /\ walk'.expected = e
  BY <1>1, <1>3, BeforeNow
<1>8. CASE ~(o > Len(e))
  <2>1. walk'.pc = "fetch" /\ walk'.err = NIL
    BY <1>1, <1>4, <1>8
  <2>2. Askable'
    BY <1>1, <1>2, <1>5, <2>1, AskableNow
  <2>3. ClientInv'
    BY <1>1, <1>4, <1>5, <1>6, <2>1, <2>2 DEF ClientInv, OnlyListsPage
  <2>4. PlaceInv'
    BY <1>1, <1>5, <1>7, <2>1 DEF PlaceInv
  <2>5. WalkExactUnlessChanged'
    BY <2>1 DEF WalkExactUnlessChanged
  <2> QED
    BY <2>3, <2>4, <2>5 DEF WalkInv
<1>9. CASE o > Len(e)
  <2>1. walk'.pc = "done" /\ walk'.err = "bad"
    BY <1>1, <1>9
  <2>2. ClientInv' /\ PlaceInv'
    BY <2>1 DEF ClientInv, PlaceInv, OnlyListsPage, Active, Waiting
  <2>3. walk.expected # NIL
    BY <1>3, <1>9 DEF WalkInv, ClientInv
  <2>4. q.mode # "export"
    BY <1>1, <1>3, <2>3 DEF WalkInv, ClientInv, Askable
  <2>5. CanPage(q.limit, o)
    <3>1. q.limit \in Int
      BY <1>1, RequestAssumption
    <3> QED
      BY <1>1, <1>3, <2>4, <3>1 DEF IsValid, CheckLimitOffset, CanPage
  <2>6. q.mode \in {"next", "last", "ids"}
    BY <1>1, <2>4, RequestAssumption
  <2>7. o > 0 /\ Len(e) <= o
    BY <1>3, <1>9
  <2>8. ~walk'.changed /\ ~walk.altered => TurnedAway(q, e, o, walk.seen)
    BY <1>1, <1>7, <2>5, <2>6, <2>7, RefusedIs
  <2>9. CASE ~walk'.changed /\ ~walk.altered
    <3>1. TurnedAway(walk'.request, walk'.expected, walk'.offset, walk'.seen)
      BY <1>1, <1>7, <2>8, <2>9, Zenon
    <3> QED
      BY <1>1, <2>1, <2>2, <2>4, <3>1, RefusedHolds DEF WalkInv
  <2>10. CASE walk'.changed
    BY <2>2, <2>10 DEF WalkInv, WalkExactUnlessChanged
  <2>11. CASE walk.altered
    BY <1>1, <2>2, <2>4, <2>11, AlteredHolds DEF WalkInv
  <2> QED
    BY <2>9, <2>10, <2>11
<1> QED
  BY <1>8, <1>9

\* A request that is not valid any more.
LEMMA ToldBadStep ==
  ASSUME TypeInv, WalkInv, IsToldBad
  PROVE  WalkInv'
<1> DEFINE q == walk.request
           e == walk.expected
           o == walk.offset
<1>1. Ends("bad")
  BY EndsIs DEF IsToldBad, TypeInv, WalkOK
<1>2. ClientInv' /\ PlaceInv'
  BY <1>1 DEF Ends, ClientInv, PlaceInv, OnlyListsPage, Active, Waiting
<1>3. SUFFICES ASSUME e # NIL, ~walk.changed
      PROVE  WalkExactUnlessChanged'
  BY <1>1, <1>2 DEF Ends, WalkInv, WalkExactUnlessChanged
<1>4. walk.pc = "handler" /\ ~IsValid /\ q \in Requests /\ o \in Int
  BY DEF IsToldBad, TypeInv, WalkOK
<1>5. Askable /\ (~walk.altered => Before(q, e, o, walk.back, walk.seen))
  BY <1>3, <1>4 DEF WalkInv, ClientInv, PlaceInv, Active, Waiting
<1>6. q.mode \in {"next", "last", "ids"}
  BY <1>4, <1>5, RequestAssumption DEF Askable
<1>7. CASE walk.badTag \/ walk.altered
  BY <1>1, <1>6, <1>7 DEF Ends, WalkExactUnlessChanged, LinkIsBroken, PagesMayDiffer
<1>8. CASE ~walk.badTag /\ ~walk.altered
  <2>1. ~CheckLimitOffset(q.limit, o) /\ CheckLimitOffset(q.limit, 0)
    BY <1>4, <1>5, <1>6, <1>8 DEF IsValid, Askable
  <2>2. ~(o >= 0)
    BY <2>1 DEF CheckLimitOffset
  <2>3. q.mode = "next" /\ q.limit = -1 /\ o = -1
    <3>1. q.mode = "next"
      <4>1. q.mode = "ids" => o \in 0 .. Len(e)
        BY <1>5, <1>8 DEF Before, ByIDs
      <4>2. q.mode = "last" => o \in Nat
        BY <1>5, <1>8 DEF Before, Backwards
      <4> QED
        BY <1>4, <1>6, <2>2, <4>1, <4>2
    <3> QED
      BY <1>4, <1>5, <1>8, <2>2, <3>1 DEF Before, Onwards
  <2>4. Tied(q, e) \/ walk.seen = Shown(q, e)
    BY <1>5, <1>8, <2>3 DEF Before, Onwards
  <2>5. TurnedAway(q, e, o, walk.seen)
    BY <2>3, <2>4 DEF TurnedAway
  <2>6. TurnedAway(walk'.request, walk'.expected, walk'.offset, walk'.seen)
    BY <1>1, <2>5, Zenon DEF Ends
  <2> QED
    BY <1>1, <1>6, <2>6, RefusedHolds DEF Ends
<1> QED
  BY <1>7, <1>8
\* Behind every link that is followed is the place that the next page is read from.
LEMMA NextLink ==
  ASSUME NEW q, q.mode \in {"next", "ids"}, q.limit \in Int, q.limit >= 1 \/ q.limit = -1,
         NEW e \in Seq(ListRow), NEW o \in Nat,
         NEW back, NEW seen, NEW links, Got(q, e, o, back, seen, links), links.next # NIL,
         NEW now, ~now
  PROVE  Before(q, e, links.next, now, seen)
<1>1. Len(e) \in Nat
  BY LenProperties
<1>2. Onwards(q, e, links.next, now, seen)
  <2>1. CASE q.mode = "next" /\ q.limit # -1
    <3>1. /\ Tied(q, e) \/ seen = UpTo(q, e, o + q.limit)
          /\ links.next = o + q.limit /\ (o + q.limit < Len(e) \/ q.endpoint = "versions")
      BY <2>1 DEF Got, OnwardsGot
    <3>2. links.next \in Nat
      BY <2>1, <3>1
    <3>3. Tied(q, e) \/ seen = UpTo(q, e, links.next)
      BY <3>1, Zenon
    <3>4. links.next < Len(e) \/ q.endpoint = "versions"
      BY <3>1
    <3> QED
      BY <2>1, <3>2, <3>3, <3>4 DEF Onwards
  <2>2. CASE q.mode = "next" /\ q.limit = -1
    <3>1. links.next = -1 /\ (Tied(q, e) \/ seen = Shown(q, e))
      BY <2>2 DEF Got, OnwardsGot
    <3> QED
      BY <2>2, <3>1 DEF Onwards
  <2> QED
    BY <2>1, <2>2 DEF Onwards
<1>3. ByIDs(q, e, links.next, now, seen)
  <2>1. CASE q.mode = "ids"
    <3>1. /\ q.limit # -1 /\ (Tied(q, e) \/ seen = UpTo(q, e, o + q.limit))
          /\ links.next = o + q.limit /\ o + q.limit <= Len(e)
      BY <2>1 DEF Got, ByIDsGot
    <3>2. links.next \in 0 .. Len(e)
      BY <1>1, <2>1, <3>1
    <3>3. Tied(q, e) \/ seen = UpTo(q, e, links.next)
      BY <3>1, Zenon
    <3> QED
      BY <2>1, <3>1, <3>2, <3>3 DEF ByIDs
  <2> QED
    BY <2>1 DEF ByIDs
<1>4. Backwards(q, e, links.next, now, seen)
  BY DEF Backwards
<1> QED
  BY <1>2, <1>3, <1>4 DEF Before

LEMMA LastLink ==
  ASSUME NEW q, q.mode = "last", q.limit \in Int, q.limit >= 1 \/ q.limit = -1,
         NEW e \in Seq(ListRow), NEW o \in Nat,
         NEW back, ~back, NEW seen, NEW links, Got(q, e, o, back, seen, links), links.last \in Nat,
         NEW now, now
  PROVE  Before(q, e, links.last, now, <<>>)
<1> DEFINE p == links.last
<1>1. Len(e) \in Nat
  BY LenProperties
<1>2. ASSUME q.limit # -1, q.endpoint # "versions"
      PROVE  /\ p = 0 \/ p < Len(e)
             /\ Len(e) % q.limit = 0 => \E k \in Nat : p = k * q.limit /\ <<>> = After(q, e, p + q.limit)
  <2>1. /\ p = 0 \/ p < Len(e)
        /\ Len(e) % q.limit = 0 =>
             /\ Len(e) = 0 => p = 0
             /\ Len(e) # 0 => \E j \in Nat : Len(e) = (j + 1) * q.limit /\ p = j * q.limit
    BY <1>2 DEF Got, BackwardsGot
  <2> HIDE DEF p
  <2>2. ASSUME Len(e) % q.limit = 0
        PROVE  \E k \in Nat : p = k * q.limit /\ <<>> = After(q, e, p + q.limit)
    <3>1. CASE Len(e) = 0
      <4>1. p = 0 * q.limit /\ p + q.limit \in Nat /\ Len(e) <= p + q.limit
        BY <1>2, <2>1, <2>2, <3>1
      <4>2. After(q, e, p + q.limit) = <<>>
        BY <4>1, SeenAll
      <4> QED
        BY <4>1, <4>2
    <3>2. CASE Len(e) # 0
      <4>1. PICK j \in Nat : Len(e) = (j + 1) * q.limit /\ p = j * q.limit
        BY <2>1, <2>2, <3>2
      <4>2. p + q.limit \in Nat /\ Len(e) <= p + q.limit
        <5>1. p \in Nat /\ q.limit \in Nat \ {0}
          BY <1>2 DEF p
        <5>2. (j + 1) * q.limit = j * q.limit + q.limit
          BY <5>1, NextMultiple
        <5>3. Len(e) = p + q.limit
          BY <4>1, <5>2, Zenon
        <5> QED
          BY <5>1, <5>3
      <4>3. After(q, e, p + q.limit) = <<>>
        BY <4>2, SeenAll
      <4> QED
        BY <4>1, <4>3
    <3> QED
      BY <3>1, <3>2
  <2> QED
    BY <2>1, <2>2
<1>3. Backwards(q, e, p, now, <<>>)
  <2> HIDE DEF p
  <2>1. p \in Nat
    BY DEF p
  <2> QED
    BY <1>2, <2>1 DEF Backwards
<1>4. Onwards(q, e, p, now, <<>>) /\ ByIDs(q, e, p, now, <<>>)
  BY DEF Onwards, ByIDs
<1> QED
  BY <1>3, <1>4 DEF Before

LEMMA PreviousLink ==
  ASSUME NEW q, q.mode = "last", q.limit \in Int, q.limit >= 1 \/ q.limit = -1,
         NEW e \in Seq(ListRow), NEW o \in Nat,
         NEW back, back, NEW seen, NEW links, Got(q, e, o, back, seen, links),
         links.previous # NIL, links.previous \in Nat, NEW now, now
  PROVE  Before(q, e, links.previous, now, seen)
<1> DEFINE p == links.previous
<1>1. Len(e) \in Nat /\ p \in Nat
  BY LenProperties
<1>2. ASSUME q.limit # -1, q.endpoint # "versions"
      PROVE  /\ p = 0 \/ p < Len(e)
             /\ Len(e) % q.limit = 0 /\ ~Tied(q, e) =>
                  \E k \in Nat : p = k * q.limit /\ seen = After(q, e, p + q.limit)
  <2>1. /\ o = 0 \/ o < Len(e)
        /\ o # 0 /\ p < o
        /\ \A k \in Nat : o = k * q.limit => \E j \in Nat : k = j + 1 /\ p = j * q.limit
        /\ Len(e) % q.limit = 0 /\ ~Tied(q, e) =>
             \E k \in Nat : o = k * q.limit /\ seen = After(q, e, o)
    BY <1>2 DEF Got, BackwardsGot
  <2> HIDE DEF p
  <2>2. p < Len(e)
    BY <1>1, <2>1
  <2>3. ASSUME Len(e) % q.limit = 0, ~Tied(q, e)
        PROVE  \E k \in Nat : p = k * q.limit /\ seen = After(q, e, p + q.limit)
    <3>1. PICK k \in Nat : o = k * q.limit /\ seen = After(q, e, o)
      BY <2>1, <2>3
    <3>2. PICK j \in Nat : k = j + 1 /\ p = j * q.limit
      BY <2>1, <3>1
    <3>3. q.limit \in Nat
      BY <1>2
    <3>4. o = p + q.limit
      BY <3>1, <3>2, <3>3, NextMultiple
    <3>5. seen = After(q, e, p + q.limit)
      BY <3>1, <3>4, Zenon
    <3> QED
      BY <3>2, <3>5
  <2> QED
    BY <2>2, <2>3
<1>3. Backwards(q, e, p, now, seen)
  <2> HIDE DEF p
  <2> QED
    BY <1>1, <1>2 DEF Backwards
<1>4. Onwards(q, e, p, now, seen) /\ ByIDs(q, e, p, now, seen)
  BY DEF Onwards, ByIDs
<1> QED
  BY <1>3, <1>4 DEF Before

LEMMA FollowsStep ==
  ASSUME TypeInv, WalkInv, Follows
  PROVE  WalkInv'
<1> DEFINE q == walk.request
           e == walk.expected
<1>1. /\ walk.pc = "page" /\ Steady
      /\ walk'.pc = "auth" /\ Linked
      /\ walk'.seen = IF walk'.back /\ ~walk.back THEN <<>> ELSE walk.seen
      /\ walk'.expected = e /\ walk'.changed = walk.changed /\ walk'.err = walk.err
      /\ \/ /\ ~walk.back /\ q.mode # "last" /\ walk.links.next # NIL
            /\ walk'.offset = walk.links.next /\ ~walk'.back
         \/ /\ ~walk.back /\ q.mode = "last"
            /\ walk'.offset = walk.links.last /\ walk'.back
         \/ /\ walk.back /\ walk.links.previous # NIL
            /\ walk'.offset = walk.links.previous /\ walk'.back
  BY FollowsIs
<1>2. UNCHANGED config
  BY <1>1 DEF Steady, podVars
<1>3. /\ e # NIL /\ walk.offset \in Nat /\ Askable /\ walk.err = NIL /\ q.endpoint \in ListEndpoints
      /\ ParseFilters(walk.raw) = ParseFilters(q.raw)
  BY <1>1 DEF WalkInv, ClientInv, Active, OnlyListsPage
<1>4. q.mode # "export" /\ e \in Seq(ListRow) /\ CheckLimitOffset(q.limit, 0)
  BY <1>1, <1>3 DEF Askable
<1>5. q \in Requests /\ q.limit \in Int /\ (q.limit >= 1 \/ q.limit = -1)
  BY <1>1, <1>4, RequestAssumption DEF CheckLimitOffset, TypeInv, WalkOK
<1>6. q.mode \in {"next", "last", "ids"}
  BY <1>4, <1>5, RequestAssumption
<1>7. /\ walk'.request.endpoint = q.endpoint /\ walk'.request.mode = q.mode
      /\ walk'.request.limit = q.limit
      /\ ParseFilters(walk'.raw) = ParseFilters(walk'.request.raw)
      /\ walk.altered => walk'.altered
      /\ ~walk'.altered => /\ walk'.request = q /\ ParseFilters(walk'.raw) = ParseFilters(walk.raw)
                           /\ walk.raw = <<>> => walk'.raw = <<>>
  BY <1>1, <1>3, Zenon DEF Linked, LinkOf
<1>8. ClientInv'
  <2>1. Askable'
    BY <1>1, <1>2, <1>3, <1>4, <1>7, StillAskable
  <2> QED
    BY <1>1, <1>3, <1>7, <2>1 DEF ClientInv, OnlyListsPage
<1>9. PlaceInv'
  <2>1. SUFFICES ASSUME ~walk.changed, ~walk'.altered
        PROVE  Before(q, walk'.expected, walk'.offset, walk'.back, walk'.seen)
    BY <1>1, <1>7 DEF PlaceInv
  <2>2. Got(q, e, walk.offset, walk.back, walk.seen, walk.links)
    BY <1>1, <1>7, <2>1 DEF WalkInv, PlaceInv
  <2>3. /\ walk.links.last \in Nat
        /\ walk.links.previous # NIL => walk.links.previous \in Nat
    BY DEF TypeInv, WalkOK, LinksOK
  <2>4. CASE /\ ~walk.back /\ q.mode # "last" /\ walk.links.next # NIL
             /\ walk'.offset = walk.links.next /\ ~walk'.back
    <3>1. q.mode \in {"next", "ids"}
      BY <1>6, <2>4
    <3>2. walk'.seen = walk.seen
      BY <1>1, <2>4
    <3>3. Before(q, e, walk.links.next, walk'.back, walk.seen)
      BY <1>3, <1>4, <1>5, <2>2, <2>4, <3>1, NextLink
    <3> QED
      BY <1>1, <2>4, <3>2, <3>3, Zenon
  <2>5. CASE ~walk.back /\ q.mode = "last" /\ walk'.offset = walk.links.last /\ walk'.back
    <3>1. walk'.seen = <<>>
      BY <1>1, <2>5
    <3>2. Before(q, e, walk.links.last, walk'.back, <<>>)
      BY <1>3, <1>4, <1>5, <2>2, <2>3, <2>5, LastLink
    <3> QED
      BY <1>1, <2>5, <3>1, <3>2, Zenon
  <2>6. CASE /\ walk.back /\ walk.links.previous # NIL
             /\ walk'.offset = walk.links.previous /\ walk'.back
    <3>1. q.mode = "last"
      BY <1>6, <2>2, <2>6 DEF Got, OnwardsGot, ByIDsGot
    <3>2. walk'.seen = walk.seen
      BY <1>1, <2>6
    <3>3. Before(q, e, walk.links.previous, walk'.back, walk.seen)
      BY <1>3, <1>4, <1>5, <2>2, <2>3, <2>6, <3>1, PreviousLink
    <3> QED
      BY <1>1, <2>6, <3>2, <3>3, Zenon
  <2> QED
    BY <1>1, <2>4, <2>5, <2>6
<1>10. WalkExactUnlessChanged'
  BY <1>1 DEF WalkExactUnlessChanged
<1> QED
  BY <1>8, <1>9, <1>10 DEF WalkInv
-----------------------------------------------------------------------------
(* The end of a walk *)

LEMMA ListsRange ==
  ASSUME NEW e, NEW S, NEW B, Lists(e, S, B)
  PROVE  Range(e) = S
<1>1. e \in Seq(S) /\ \A x \in S : \E i \in 1 .. Len(e) : e[i] = x
  BY DEF Lists
<1>2. DOMAIN e = 1 .. Len(e) /\ \A i \in 1 .. Len(e) : e[i] \in S
  BY <1>1, ElementOfSeq
<1> QED
  BY <1>1, <1>2 DEF Range

\* An export has the rows of the list, in whatever order.
LEMMA ExportRange ==
  ASSUME TypeInv, ReadyFor({"export"}), ParseFilters(walk.raw) = ParseFilters(walk.request.raw)
  PROVE  Range(ExportNow) = Range(AskedNow)
<1> DEFINE q == walk.request
           D == View(q.method)
           f == ParseFilters(q.raw)
           S == Selected(q, f, D, call.account, call.workspaces)
           list(byID) == SystemList(q, f, D, call.account, call.workspaces, byID, "asc")
<1>1. CASE q.endpoint \in {"systems", "advisory_systems"}
  <2>1. ExportNow = list(TRUE) /\ AskedNow = list(FALSE)
    BY <1>1 DEF ExportNow, ExportList, AskedNow, Asked, List
  <2>2. D \in Databases /\ q.endpoint \in SystemEndpoints
    BY <1>1, ReadyIs DEF SystemEndpoints
  <2>3. Plain(q, f, D, call.account, call.workspaces, "asc")
    BY <2>2, PlainList
  <2>4. CanSort(S, D) /\ Lists(list(FALSE), S, SortOrder(S, D, q.desc, FALSE, "asc"))
    BY <2>3, Zenon DEF Plain
  <2>5. list(TRUE) = ApplySort(S, D, q.desc, TRUE, "asc")
    BY DEF SystemList, Selected
  <2> HIDE DEF S, D, list, f
  <2>6. Lists(list(TRUE), S, SortOrder(S, D, q.desc, TRUE, "asc"))
    BY <2>4, <2>5, SortLists
  <2>7. Range(list(TRUE)) = S /\ Range(list(FALSE)) = S
    BY <2>4, <2>6, ListsRange
  <2> QED
    BY <2>1, <2>7
<1>2. CASE q.endpoint \notin {"systems", "advisory_systems"}
  BY <1>2 DEF ExportNow, ExportList, AskedNow, Asked
<1> QED
  BY <1>1, <1>2

LEMMA ExportsStep ==
  ASSUME TypeInv, WalkInv, Exports
  PROVE  WalkInv'
<1>1. /\ ReadyFor({"export"}) /\ walk'.pc = "done" /\ walk'.request = walk.request
      /\ walk'.err = walk.err /\ walk'.seen = ExportNow
      /\ walk'.expected = IF walk.expected = NIL THEN AskedNow ELSE walk.expected
      /\ ~walk'.changed => ~walk.changed /\ (walk.expected # NIL => AskedNow = walk.expected)
  BY ExportsIs
<1>2. walk.pc \in Active /\ walk.request.mode = "export"
  BY <1>1, ReadyIs DEF ReadyFor, Active
<1>3. walk.err = NIL /\ ParseFilters(walk.raw) = ParseFilters(walk.request.raw)
  BY <1>2 DEF WalkInv, ClientInv
<1>4. ClientInv' /\ PlaceInv'
  BY <1>1 DEF ClientInv, PlaceInv, OnlyListsPage, Active, Waiting
<1>5. ~walk'.changed => Range(walk'.seen) = Range(walk'.expected)
  <2>1. Range(ExportNow) = Range(AskedNow)
    BY <1>1, <1>3, ExportRange
  <2> SUFFICES ASSUME ~walk'.changed PROVE Range(walk'.seen) = Range(walk'.expected)
    OBVIOUS
  <2>2. walk'.expected = AskedNow
    BY <1>1
  <2> QED
    BY <1>1, <2>1, <2>2, Zenon
<1>6. WalkExactUnlessChanged'
  <2>1. walk'.err # "bad"
    BY <1>1, <1>3, NilAssumption
  <2>2. walk'.request.mode = "export"
    BY <1>1, <1>2
  <2>3. PagesMayDiffer'
    BY <2>2 DEF PagesMayDiffer
  <2> QED
    BY <1>5, <2>1, <2>3 DEF WalkExactUnlessChanged
<1> QED
  BY <1>4, <1>6 DEF WalkInv

\* A client that finds no link any more has seen the whole list.
LEMMA AllSeen ==
  ASSUME NEW q, q.mode \in {"next", "last", "ids"}, q.limit \in Int, q.limit >= 1 \/ q.limit = -1,
         NEW e \in Seq(ListRow), NEW o \in Nat,
         NEW back, NEW seen, NEW links, Got(q, e, o, back, seen, links),
         IF back THEN links.previous = NIL ELSE q.mode # "last" /\ links.next = NIL
  PROVE  \/ Tied(q, e)
         \/ q.mode = "last" /\ (q.limit = -1 \/ q.endpoint = "versions" \/ Len(e) % q.limit # 0)
         \/ seen = Shown(q, e)
<1>1. CASE q.mode \in {"next", "ids"}
  <2>1. ~back /\ links.next = NIL
    BY <1>1 DEF Got, OnwardsGot, ByIDsGot
  <2>2. CASE q.limit # -1
    <3>1. (Tied(q, e) \/ seen = UpTo(q, e, o + q.limit)) /\ Len(e) <= o + q.limit
      BY <1>1, <2>1, <2>2 DEF Got, OnwardsGot, ByIDsGot
    <3>2. o + q.limit \in Nat
      BY <2>2
    <3>3. UpTo(q, e, o + q.limit) = Shown(q, e)
      BY <3>1, <3>2, SeenAll
    <3> QED
      BY <3>1, <3>3, Zenon
  <2>3. CASE q.limit = -1
    BY <1>1, <2>3 DEF Got, OnwardsGot, ByIDsGot
  <2> QED
    BY <2>2, <2>3
<1>2. CASE q.mode = "last"
  <2>1. SUFFICES ASSUME q.limit # -1, q.endpoint # "versions", Len(e) % q.limit = 0, ~Tied(q, e)
        PROVE  seen = Shown(q, e)
    BY <1>2
  <2>2. back /\ links.previous = NIL
    BY <1>2
  <2>3. o = 0 /\ seen = After(q, e, o)
    BY <1>2, <2>1, <2>2 DEF Got, BackwardsGot
  <2>4. After(q, e, 0) = Shown(q, e)
    BY SeenAll
  <2> QED
    BY <2>3, <2>4, Zenon
<1> QED
  BY <1>1, <1>2

LEMMA FinishStep ==
  ASSUME TypeInv, WalkInv, Finishes
  PROVE  WalkInv'
<1> DEFINE q == walk.request
           e == walk.expected
<1>1. Ends(NIL)
  BY EndsIs DEF Finishes, TypeInv, WalkOK
<1>2. ClientInv' /\ PlaceInv'
  BY <1>1 DEF Ends, ClientInv, PlaceInv, OnlyListsPage, Active, Waiting
<1>3. SUFFICES ASSUME ~walk.changed
      PROVE  WalkExactUnlessChanged'
  BY <1>1, <1>2 DEF Ends, WalkInv, WalkExactUnlessChanged
<1>4. /\ walk.pc = "page"
      /\ IF walk.back THEN walk.links.previous = NIL ELSE q.mode # "last" /\ walk.links.next = NIL
  BY DEF Finishes
<1>5. e # NIL /\ walk.offset \in Nat /\ Askable
  BY <1>4 DEF WalkInv, ClientInv, Active
<1>6. q.mode # "export" /\ e \in Seq(ListRow) /\ CheckLimitOffset(q.limit, 0)
  BY <1>4, <1>5 DEF Askable
<1>7. q \in Requests /\ q.limit \in Int /\ (q.limit >= 1 \/ q.limit = -1)
  BY <1>4, <1>6, RequestAssumption DEF CheckLimitOffset, TypeInv, WalkOK
<1>8. q.mode \in {"next", "last", "ids"}
  BY <1>6, <1>7, RequestAssumption
<1>9. ~walk.altered => Got(q, e, walk.offset, walk.back, walk.seen, walk.links)
  BY <1>3, <1>4 DEF WalkInv, PlaceInv
<1>10. \/ Tied(q, e) \/ walk.altered
       \/ q.mode = "last" /\ (q.limit = -1 \/ q.endpoint = "versions" \/ Len(e) % q.limit # 0)
       \/ walk.seen = Shown(q, e)
  BY <1>4, <1>5, <1>6, <1>7, <1>8, <1>9, AllSeen
<1>11. /\ walk'.request = q /\ walk'.expected = e /\ walk'.seen = walk.seen /\ walk'.err = NIL
       /\ walk'.altered = walk.altered
  BY <1>1 DEF Ends
<1>12. PagesMayDiffer' \/ walk'.seen = Shown(walk'.request, walk'.expected)
  BY <1>10, <1>11, Zenon DEF PagesMayDiffer, Tied
<1>13. walk'.err # "bad" /\ walk'.request.mode # "export"
  BY <1>6, <1>11, NilAssumption
<1> QED
  BY <1>12, <1>13 DEF WalkExactUnlessChanged
-----------------------------------------------------------------------------
(* Every step of a walk *)

\* What happens around the client does not move it.
LEMMA UntouchedWalk ==
  ASSUME WalkInv, UNCHANGED <<config, call, walk>>
  PROVE  WalkInv'
<1>1. UNCHANGED config /\ UNCHANGED call /\ UNCHANGED walk
  OBVIOUS
<1>2. Askable => Askable'
  BY <1>1 DEF Askable, CheckLimitOffset
<1>3. ClientInv'
  BY <1>1, <1>2 DEF WalkInv, ClientInv, OnlyListsPage
<1>4. PlaceInv'
  BY <1>1 DEF WalkInv, PlaceInv
<1>5. WalkExactUnlessChanged'
  BY <1>1 DEF WalkInv, WalkExactUnlessChanged, LinkIsBroken, PagesMayDiffer
<1> QED
  BY <1>3, <1>4, <1>5 DEF WalkInv

\* A request that starts has nothing yet; one that ends without an answer has nothing to show.
LEMMA StartsStep ==
  ASSUME TypeInv, WalkInv, Starts
  PROVE  WalkInv'
<1>1. /\ walk'.pc = "auth" /\ walk'.raw = walk'.request.raw /\ walk'.offset = 0
      /\ ~walk'.back /\ walk'.seen = <<>> /\ walk'.expected = NIL /\ walk'.err = NIL
  BY StartsIs DEF Starts
<1> QED
  BY <1>1 DEF WalkInv, ClientInv, PlaceInv, WalkExactUnlessChanged, OnlyListsPage

LEMMA GivesUpStep ==
  ASSUME TypeInv, WalkInv, GivesUp
  PROVE  WalkInv'
<1>1. walk'.pc = "done" /\ walk'.expected = NIL
  BY GivesUpIs
<1> QED
  BY <1>1 DEF WalkInv, ClientInv, PlaceInv, WalkExactUnlessChanged, OnlyListsPage, Active, Waiting

LEMMA AskAgainStep ==
  ASSUME AskAgain
  PROVE  WalkInv'
<1>1. walk'.pc = "idle"
  BY AskAgainIs
<1> QED
  BY <1>1 DEF WalkInv, ClientInv, PlaceInv, WalkExactUnlessChanged, OnlyListsPage, Active, Waiting

LEMMA DetailShownStep ==
  ASSUME TypeInv, WalkInv, ShowsDetail
  PROVE  WalkInv'
<1>1. walk'.pc = "done" /\ walk'.request = walk.request /\ walk.request.endpoint = "advisory"
  BY DetailIs
<1> QED
  BY <1>1 DEF WalkInv, ClientInv, PlaceInv, WalkExactUnlessChanged, OnlyListsPage, Active, Waiting

\* A request that reaches its handler waits for the same page.
LEMMA EntersStep ==
  ASSUME TypeInv, WalkInv, Enters
  PROVE  WalkInv'
<1>1. /\ walk.pc = "auth" /\ walk'.pc = "handler" /\ walk'.request = walk.request
      /\ walk'.raw = walk.raw /\ walk'.offset = walk.offset
      /\ walk'.back = walk.back /\ walk'.seen = walk.seen /\ walk'.expected = walk.expected
      /\ walk'.changed = walk.changed /\ walk'.altered = walk.altered /\ walk'.err = walk.err
      /\ UNCHANGED config
  BY EntersIs
<1>2. ASSUME walk.expected # NIL
      PROVE  Askable'
  <2>1. Askable
    BY <1>1, <1>2 DEF WalkInv, ClientInv, Active
  <2>2. walk.request.mode # "export"
    BY <1>1, <2>1 DEF Askable
  <2> QED
    BY <1>1, <2>1, <2>2, StillAskable
<1>3. ClientInv'
  BY <1>1, <1>2 DEF WalkInv, ClientInv, OnlyListsPage, Active, Waiting
<1>4. PlaceInv'
  BY <1>1 DEF WalkInv, PlaceInv, Waiting
<1>5. WalkExactUnlessChanged'
  BY <1>1 DEF WalkExactUnlessChanged
<1> QED
  BY <1>3, <1>4, <1>5 DEF WalkInv

\* And so does one whose first statement is done.
LEMMA PreparesStep ==
  ASSUME TypeInv, WalkInv, Prepares
  PROVE  WalkInv'
<1>1. /\ walk.pc = "handler" /\ walk.request.endpoint \in ListEndpoints \ Views
      /\ walk'.pc = "fetch" /\ walk'.request = walk.request
      /\ walk'.raw = walk.raw /\ walk'.offset = walk.offset
      /\ walk'.back = walk.back /\ walk'.seen = walk.seen /\ walk'.expected = walk.expected
      /\ walk'.changed = walk.changed /\ walk'.altered = walk.altered /\ walk'.err = walk.err
      /\ Steady
  BY PreparesIs
<1>2. UNCHANGED config
  BY <1>1 DEF Steady, podVars
<1>3. ASSUME walk.expected # NIL
      PROVE  Askable'
  <2>1. Askable
    BY <1>1, <1>3 DEF WalkInv, ClientInv, Active
  <2> QED
    BY <1>1, <1>2, <2>1, StillAskable
<1>4. ClientInv'
  BY <1>1, <1>3 DEF WalkInv, ClientInv, OnlyListsPage, Active, Waiting
<1>5. PlaceInv'
  BY <1>1 DEF WalkInv, PlaceInv, Waiting
<1>6. WalkExactUnlessChanged'
  BY <1>1 DEF WalkExactUnlessChanged
<1> QED
  BY <1>4, <1>5, <1>6 DEF WalkInv

LEMMA WalkStep ==
  ASSUME TypeInv, WalkInv, [Next]_vars
  PROVE  WalkInv'
<1>1. CASE UNCHANGED vars
  BY <1>1, UntouchedWalk DEF vars
<1>2. CASE Around
  BY <1>2, AroundKeepsData, UntouchedWalk DEF TypeInv
<1>3. CASE Next
  BY <1>2, <1>3, Kinds, StartsStep, EntersStep, GivesUpStep, ToldBadStep, PreparesStep, QueryStep,
     TurnStep, ExportsStep, DetailShownStep, FollowsStep, FinishStep, AskAgainStep
<1> QED
  BY <1>1, <1>3

\* A client that follows the links of a list, onwards from the first page or back from the last
\* one, gets every row once and in order as long as the list does not change under it: the offsets
\* of UpdateMetaLinks, the order of ApplySort and the filters that Filters.ToQueryParams writes
\* into a link agree from page to page, but for the exceptions it names, such as filters that a link
\* does not escape.  WalkExactUnlessChanged of ManagerQueries.
THEOREM WalkExact == Spec => []WalkExactUnlessChanged
<1>1. ASSUME Init
      PROVE  TypeInv /\ WalkInv
  <2>1. walk.pc = "idle"
    BY <1>1 DEF Init, NoWalk
  <2>2. WalkInv
    BY <2>1 DEF WalkInv, ClientInv, PlaceInv, WalkExactUnlessChanged, OnlyListsPage, Active, Waiting
  <2> QED
    BY <1>1, <2>2, TypeInit
<1>2. TypeInv /\ WalkInv /\ [Next]_vars => TypeInv' /\ WalkInv'
  BY TypeStep, WalkStep
<1>3. WalkInv => WalkExactUnlessChanged
  BY DEF WalkInv
<1> QED
  BY <1>1, <1>2, <1>3, PTL DEF Spec
=============================================================================
