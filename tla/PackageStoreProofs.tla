------------------------- MODULE PackageStoreProofs -------------------------
(***************************************************************************)
(* Theorems about PackageStore, for any sets of systems, pods, nevras and  *)
(* profiles: type correctness, and that the stored packages of a system    *)
(* and the package counts of an account are those of its last upload.      *)
(***************************************************************************)
EXTENDS PackageStore, TLAPS, FiniteSetTheorems, SequenceTheorems, WellFoundedInduction

-----------------------------------------------------------------------------
(* Naturals, finite sets and sequences *)

\* The order of the naturals as a relation, for the theorems on well-founded ones.
Less == {p \in Nat \X Nat : p[1] < p[2]}
LEMMA LessWF == IsWellFoundedOn(Less, Nat)
  BY NatLessThanWellFounded DEF OpToRel, Less

\* A non-empty set of naturals has a smallest element.
LEMMA NatMin ==
  ASSUME NEW T \in SUBSET Nat, T # {}
  PROVE  \E x \in T : \A y \in T : x <= y
<1>1. \E x \in T : \A y \in T : ~(<<y, x>> \in Less)
  BY LessWF, WFMin
<1>2. PICK x \in T : \A y \in T : ~(<<y, x>> \in Less)
  BY <1>1
<1>3. \A y \in T : ~(y < x)
  BY <1>2 DEF Less
<1> QED
  BY <1>3

\* SetToSeq lists the elements of a finite set, each one once.
LEMMA SetToSeqLists ==
  ASSUME NEW S, IsFiniteSet(S)
  PROVE  /\ Cardinality(S) \in Nat
         /\ SetToSeq(S) \in [1 .. Cardinality(S) -> S]
         /\ \A i, j \in 1 .. Cardinality(S) : SetToSeq(S)[i] = SetToSeq(S)[j] => i = j
         /\ \A x \in S : \E i \in 1 .. Cardinality(S) : SetToSeq(S)[i] = x
<1>1. Cardinality(S) \in Nat /\ ExistsBijection(1 .. Cardinality(S), S)
  BY FS_CardinalityType
<1>2. PICK g : g \in Bijection(1 .. Cardinality(S), S)
  BY <1>1 DEF ExistsBijection
<1>3. g \in [1 .. Cardinality(S) -> S] /\ IsInjective(g)
  BY <1>2 DEF Bijection, Injection, IsInjective
<1> DEFINE f == SetToSeq(S)
<1>4. f \in [1 .. Cardinality(S) -> S] /\ IsInjective(f)
  BY <1>3 DEF SetToSeq
<1>5. f \in Injection(1 .. Cardinality(S), S)
  BY <1>4 DEF Injection, IsInjective
<1>6. IsFiniteSet(1 .. Cardinality(S)) /\ Cardinality(1 .. Cardinality(S)) = Cardinality(S)
  BY <1>1, FS_Interval
<1>7. f \in Surjection(1 .. Cardinality(S), S)
  BY <1>5, <1>6, FS_Injection
<1> HIDE DEF f
<1>8. \A i, j \in 1 .. Cardinality(S) : f[i] = f[j] => i = j
  BY <1>4 DEF IsInjective
<1>9. \A x \in S : \E i \in 1 .. Cardinality(S) : f[i] = x
  BY <1>7 DEF Surjection
<1> QED
  BY <1>1, <1>4, <1>8, <1>9 DEF f

-----------------------------------------------------------------------------
(* Parsable: the updates that can be parsed, in their order *)

KeptStep(kept, updates, i) ==
  IF i = 0 THEN <<>>
  ELSE IF updates[i].pkg \in Malformed THEN kept[i - 1]
  ELSE Append(kept[i - 1], updates[i])
IsKept(kept, updates, k) == kept = [i \in 0 .. k |-> KeptStep(kept, updates, i)]

\* The recursive function in Parsable exists, prefix by prefix.
LEMMA KeptExists ==
  ASSUME NEW updates, NEW n \in Nat
  PROVE  \E kept : IsKept(kept, updates, n)
<1> DEFINE T == {k \in Nat : ~\E kept : IsKept(kept, updates, k)}
<1> SUFFICES ASSUME T # {} PROVE FALSE
  OBVIOUS
<1>1. PICK k \in T : \A l \in T : k <= l
  BY NatMin
<1>2. CASE k = 0
  <2> DEFINE g == [i \in 0 .. 0 |-> <<>>]
  <2>1. g = [i \in 0 .. 0 |-> KeptStep(g, updates, i)]
    BY DEF KeptStep
  <2> QED
    BY <1>1, <1>2, <2>1 DEF IsKept
<1>3. CASE k # 0
  <2>1. k - 1 \in Nat /\ k - 1 \notin T
    BY <1>1, <1>3
  <2>2. PICK g : IsKept(g, updates, k - 1)
    BY <2>1
  <2> DEFINE h == [i \in 0 .. k |-> IF i < k THEN g[i] ELSE KeptStep(g, updates, k)]
  <2>3. \A i \in 0 .. k : i # 0 => h[i - 1] = g[i - 1]
    BY <1>1
  <2>4. \A i \in 0 .. k : KeptStep(h, updates, i) = KeptStep(g, updates, i)
    BY <2>3 DEF KeptStep
  <2>5. \A i \in 0 .. k - 1 : g[i] = KeptStep(g, updates, i)
    BY <2>2 DEF IsKept
  <2>6. \A i \in 0 .. k : h[i] = KeptStep(h, updates, i)
    BY <1>1, <2>4, <2>5
  <2>7. h = [i \in 0 .. k |-> KeptStep(h, updates, i)]
    BY <2>6
  <2> HIDE DEF h
  <2> QED
    BY <1>1, <2>7 DEF IsKept
<1> QED
  BY <1>2, <1>3

\* What a prefix yields: a sorted list of the updates in it that can be parsed.
KeptOK(u, updates, k) ==
  /\ u \in Seq(Updates)
  /\ \A i \in DOMAIN u : \E j \in 1 .. k : u[i] = updates[j] /\ updates[j].pkg \notin Malformed
  /\ \A j \in 1 .. k : updates[j].pkg \notin Malformed => \E i \in DOMAIN u : u[i] = updates[j]
  /\ SortedByVersion(updates) => SortedByVersion(u)

\* Appending keeps it.
LEMMA AppendKept ==
  ASSUME NEW updates \in Seq(Updates), NEW k \in 1 .. Len(updates), NEW u,
         KeptOK(u, updates, k - 1), updates[k].pkg \notin Malformed
  PROVE  KeptOK(Append(u, updates[k]), updates, k)
<1> DEFINE v == Append(u, updates[k])
<1>1. u \in Seq(Updates) /\ Len(u) \in Nat /\ DOMAIN u = 1 .. Len(u) /\ updates[k] \in Updates
  BY DEF KeptOK
<1>2. /\ v \in Seq(Updates) /\ DOMAIN v = 1 .. Len(u) + 1
      /\ \A i \in 1 .. Len(u) : v[i] = u[i]
      /\ v[Len(u) + 1] = updates[k]
  BY <1>1, AppendProperties
<1> HIDE DEF v
<1>3. \A i \in DOMAIN v : \E j \in 1 .. k : v[i] = updates[j] /\ updates[j].pkg \notin Malformed
  BY <1>1, <1>2 DEF KeptOK
<1>4. \A j \in 1 .. k : updates[j].pkg \notin Malformed => \E i \in DOMAIN v : v[i] = updates[j]
  <2> SUFFICES ASSUME NEW j \in 1 .. k, updates[j].pkg \notin Malformed
      PROVE \E i \in DOMAIN v : v[i] = updates[j]
    OBVIOUS
  <2>1. CASE j = k
    BY <1>1, <1>2, <2>1
  <2>2. CASE j # k
    <3>1. PICK i \in DOMAIN u : u[i] = updates[j]
      BY <2>2 DEF KeptOK
    <3> QED
      BY <1>1, <1>2, <3>1
  <2> QED
    BY <2>1, <2>2
<1>5. ASSUME SortedByVersion(updates) PROVE SortedByVersion(v)
  <2> SUFFICES ASSUME NEW i \in DOMAIN v, NEW j \in DOMAIN v, i < j
      PROVE  v[i].pkg[2] <= v[j].pkg[2]
    BY DEF SortedByVersion
  <2>1. CASE j = Len(u) + 1
    <3>1. PICK l \in 1 .. k - 1 : u[i] = updates[l]
      BY <1>1, <1>2, <2>1 DEF KeptOK
    <3>2. l \in DOMAIN updates /\ k \in DOMAIN updates /\ l < k
      BY LenProperties
    <3> QED
      BY <1>1, <1>2, <1>5, <2>1, <3>1, <3>2 DEF SortedByVersion
  <2>2. CASE j # Len(u) + 1
    BY <1>1, <1>2, <1>5, <2>2 DEF KeptOK, SortedByVersion
  <2> QED
    BY <2>1, <2>2
<1> QED
  BY <1>2, <1>3, <1>4, <1>5 DEF KeptOK, v

\* The whole list.
LEMMA ParsableKeeps ==
  ASSUME NEW updates \in Seq(Updates)
  PROVE  KeptOK(Parsable(updates), updates, Len(updates))
<1> DEFINE kept == CHOOSE kept : IsKept(kept, updates, Len(updates))
<1>1. Len(updates) \in Nat
  OBVIOUS
<1>2. IsKept(kept, updates, Len(updates))
  BY <1>1, KeptExists
<1>3. Parsable(updates) = kept[Len(updates)]
  BY Zenon DEF Parsable, IsKept, KeptStep
<1> HIDE DEF kept
<1>4. \A i \in 0 .. Len(updates) : kept[i] = KeptStep(kept, updates, i)
  BY <1>2 DEF IsKept
<1> DEFINE T == {k \in Nat : k <= Len(updates) /\ ~KeptOK(kept[k], updates, k)}
<1> SUFFICES ASSUME T # {} PROVE FALSE
  BY <1>1, <1>3
<1>5. PICK k \in T : \A l \in T : k <= l
  BY NatMin
<1>6. CASE k = 0
  <2>1. kept[0] = <<>>
    BY <1>1, <1>4 DEF KeptStep
  <2>2. KeptOK(<<>>, updates, 0)
    BY DEF KeptOK, SortedByVersion
  <2> QED
    BY <1>5, <1>6, <2>1, <2>2
<1>7. CASE k # 0
  <2>1. k \in 1 .. Len(updates) /\ KeptOK(kept[k - 1], updates, k - 1)
    BY <1>1, <1>5, <1>7
  <2>2. CASE updates[k].pkg \in Malformed
    <3>1. kept[k] = kept[k - 1]
      BY <1>4, <2>1, <2>2 DEF KeptStep
    <3>2. KeptOK(kept[k - 1], updates, k)
      BY <2>1, <2>2 DEF KeptOK
    <3> QED
      BY <1>5, <3>1, <3>2
  <2>3. CASE updates[k].pkg \notin Malformed
    <3>1. kept[k] = Append(kept[k - 1], updates[k])
      <4>1. k \in 0 .. Len(updates) /\ k # 0
        BY <1>1, <2>1
      <4>2. kept[k] = KeptStep(kept, updates, k)
        BY <1>4, <4>1
      <4> QED
        BY <2>3, <4>1, <4>2 DEF KeptStep
    <3> QED
      BY <1>5, <2>1, <2>3, <3>1, AppendKept
  <2> QED
    BY <2>2, <2>3
<1> QED
  BY <1>6, <1>7

-----------------------------------------------------------------------------
(* mergeUpdates: the merge of two sorted lists *)

\* What MergeVMaaSResponses requires of a list of updates, with any status.
GoodUpdates(u, name) ==
  u \in Seq(Updates) /\ SortedByVersion(u) /\ \A i \in DOMAIN u : u[i].pkg[1] = name

MergeStep(A, B, merge, i) ==
  IF i[1] > Len(A) THEN SubSeq(B, i[2], Len(B))
  ELSE IF i[2] > Len(B) THEN SubSeq(A, i[1], Len(A))
  ELSE IF Before(A[i[1]], B[i[2]]) THEN <<A[i[1]]>> \o merge[<<i[1] + 1, i[2]>>]
  ELSE IF Before(B[i[2]], A[i[1]]) THEN <<B[i[2]]>> \o merge[<<i[1], i[2] + 1>>]
  ELSE <<A[i[1]]>> \o merge[<<i[1] + 1, i[2] + 1>>]

\* The pairs of positions with at most k updates from them to the ends.
PairsUpTo(A, B, k) ==
  {i \in (1 .. Len(A) + 1) \X (1 .. Len(B) + 1) : Len(A) + Len(B) + 2 <= i[1] + i[2] + k}
IsMergeUpTo(merge, A, B, k) ==
  merge = [i \in PairsUpTo(A, B, k) |-> MergeStep(A, B, merge, i)]
IsMerge(merge, A, B) ==
  merge = [i \in (1 .. Len(A) + 1) \X (1 .. Len(B) + 1) |-> MergeStep(A, B, merge, i)]

\* Such a pair, taken apart.
LEMMA PairParts ==
  ASSUME NEW A, NEW B, Len(A) \in Nat, Len(B) \in Nat, NEW k \in Nat, NEW i \in PairsUpTo(A, B, k)
  PROVE  i[1] \in 1 .. Len(A) + 1 /\ i[2] \in 1 .. Len(B) + 1 /\ Len(A) + Len(B) + 2 <= i[1] + i[2] + k
  BY DEF PairsUpTo

\* And put together.
LEMMA PairOf ==
  ASSUME NEW A, NEW B, Len(A) \in Nat, Len(B) \in Nat, NEW k \in Nat,
         NEW a \in 1 .. Len(A) + 1, NEW b \in 1 .. Len(B) + 1, Len(A) + Len(B) + 2 <= a + b + k
  PROVE  <<a, b>> \in PairsUpTo(A, B, k)
  BY DEF PairsUpTo

\* The recursive function in mergeUpdates exists.
LEMMA MergeExists ==
  ASSUME NEW A, NEW B, Len(A) \in Nat, Len(B) \in Nat
  PROVE  \E merge : IsMerge(merge, A, B)
<1> DEFINE T == {k \in Nat : ~\E merge : IsMergeUpTo(merge, A, B, k)}
<1>1. PairsUpTo(A, B, Len(A) + Len(B)) = (1 .. Len(A) + 1) \X (1 .. Len(B) + 1)
  BY DEF PairsUpTo
<1>2. SUFFICES ASSUME T # {} PROVE FALSE
  <2>1. Len(A) + Len(B) \in Nat /\ Len(A) + Len(B) \notin T
    BY <1>2
  <2> QED
    BY <1>1, <2>1 DEF IsMergeUpTo, IsMerge
<1>3. PICK k \in T : \A l \in T : k <= l
  BY <1>2, NatMin
<1>4. CASE k = 0
  <2> DEFINE g == [i \in PairsUpTo(A, B, 0) |-> MergeStep(A, B, A, i)]
  <2>1. \A i \in PairsUpTo(A, B, 0) : MergeStep(A, B, A, i) = MergeStep(A, B, g, i)
    <3> SUFFICES ASSUME NEW i \in PairsUpTo(A, B, 0)
        PROVE  MergeStep(A, B, A, i) = MergeStep(A, B, g, i)
      OBVIOUS
    <3>1. i[1] > Len(A)
      BY PairParts
    <3> QED
      BY <3>1 DEF MergeStep
  <2>2. g = [i \in PairsUpTo(A, B, 0) |-> MergeStep(A, B, g, i)]
    BY <2>1
  <2> HIDE DEF g
  <2> QED
    BY <1>3, <1>4, <2>2 DEF IsMergeUpTo
<1>5. CASE k # 0
  <2>1. k - 1 \in Nat /\ k - 1 \notin T
    BY <1>3, <1>5
  <2>2. PICK g : IsMergeUpTo(g, A, B, k - 1)
    BY <2>1
  <2> DEFINE P == PairsUpTo(A, B, k)
             Q == PairsUpTo(A, B, k - 1)
             h == [i \in P |-> IF i \in Q THEN g[i] ELSE MergeStep(A, B, g, i)]
  <2>3. Q \subseteq P
    BY <1>3, <2>1 DEF PairsUpTo
  <2>4. ASSUME NEW i \in P, ~(i[1] > Len(A)), ~(i[2] > Len(B))
        PROVE  /\ <<i[1] + 1, i[2]>> \in Q /\ <<i[1], i[2] + 1>> \in Q
               /\ <<i[1] + 1, i[2] + 1>> \in Q
    <3>1. k \in Nat
      BY <1>3
    <3>2. i[1] \in 1 .. Len(A) /\ i[2] \in 1 .. Len(B) /\ Len(A) + Len(B) + 2 <= i[1] + i[2] + k
      BY <2>4, <3>1, PairParts
    <3>3. \A a \in 1 .. Len(A) + 1, b \in 1 .. Len(B) + 1 :
            Len(A) + Len(B) + 2 <= a + b + (k - 1) => <<a, b>> \in Q
      BY <2>1, PairOf
    <3>4. <<i[1] + 1, i[2]>> \in Q
      <4>1. i[1] + 1 \in 1 .. Len(A) + 1 /\ i[2] \in 1 .. Len(B) + 1
        BY <3>2
      <4>2. Len(A) + Len(B) + 2 <= i[1] + 1 + i[2] + (k - 1)
        BY <3>1, <3>2
      <4> QED
        BY <3>3, <4>1, <4>2
    <3>5. <<i[1], i[2] + 1>> \in Q
      <4>1. i[1] \in 1 .. Len(A) + 1 /\ i[2] + 1 \in 1 .. Len(B) + 1
        BY <3>2
      <4>2. Len(A) + Len(B) + 2 <= i[1] + (i[2] + 1) + (k - 1)
        BY <3>1, <3>2
      <4> QED
        BY <3>3, <4>1, <4>2
    <3>6. <<i[1] + 1, i[2] + 1>> \in Q
      <4>1. i[1] + 1 \in 1 .. Len(A) + 1 /\ i[2] + 1 \in 1 .. Len(B) + 1
        BY <3>2
      <4>2. Len(A) + Len(B) + 2 <= (i[1] + 1) + (i[2] + 1) + (k - 1)
        BY <3>1, <3>2
      <4> QED
        BY <3>3, <4>1, <4>2
    <3> QED
      BY <3>4, <3>5, <3>6
  <2>5. \A i \in Q : h[i] = g[i]
    BY <2>3
  <2>6. \A i \in Q : g[i] = MergeStep(A, B, g, i)
    BY <2>2 DEF IsMergeUpTo
  <2>7. \A i \in P : h[i] = MergeStep(A, B, g, i)
    BY <2>6
  <2> HIDE DEF h, P, Q
  <2>8. \A i \in P : MergeStep(A, B, h, i) = MergeStep(A, B, g, i)
    BY <2>4, <2>5 DEF MergeStep
  <2>9. h = [i \in P |-> MergeStep(A, B, h, i)]
    BY <2>7, <2>8 DEF h
  <2> QED
    BY <1>3, <2>9 DEF IsMergeUpTo, P
<1> QED
  BY <1>4, <1>5

\* What the merge of two rests yields: a sorted list of their updates, with all of A's
\* and a package for every one of B's.
MergeOK(u, A, B, a, b) ==
  /\ u \in Seq(Updates) /\ SortedByVersion(u)
  /\ \A x \in DOMAIN u : \/ \E i \in a .. Len(A) : u[x] = A[i]
                         \/ \E i \in b .. Len(B) : u[x] = B[i]
  /\ \A i \in a .. Len(A) : \E x \in DOMAIN u : u[x] = A[i]
  /\ \A i \in b .. Len(B) : \E x \in DOMAIN u : u[x].pkg = B[i].pkg

\* A prepended update that is not newer than the rest keeps a list sorted.
LEMMA Prepend ==
  ASSUME NEW u \in Seq(Updates), SortedByVersion(u), NEW x \in Updates,
         \A i \in DOMAIN u : x.pkg[2] <= u[i].pkg[2]
  PROVE  LET v == <<x>> \o u
         IN  /\ v \in Seq(Updates) /\ SortedByVersion(v)
             /\ DOMAIN v = 1 .. Len(u) + 1 /\ Len(u) \in Nat /\ DOMAIN u = 1 .. Len(u)
             /\ v[1] = x /\ \A i \in DOMAIN u : v[i + 1] = u[i]
             /\ \A i \in DOMAIN v : v[i] = x \/ \E j \in DOMAIN u : v[i] = u[j]
<1> DEFINE v == <<x>> \o u
<1>1. Len(u) \in Nat /\ DOMAIN u = 1 .. Len(u) /\ <<x>> \in Seq(Updates) /\ Len(<<x>>) = 1
  OBVIOUS
<1>2. v \in Seq(Updates) /\ DOMAIN v = 1 .. Len(u) + 1
  BY <1>1, ConcatProperties, LenProperties
<1>3. v[1] = x /\ \A i \in 2 .. Len(u) + 1 : v[i] = u[i - 1]
  BY <1>1, ConcatProperties
<1> HIDE DEF v
<1>4. \A i \in 2 .. Len(u) + 1 : i - 1 \in DOMAIN u /\ v[i] = u[i - 1]
  BY <1>1, <1>3
<1>5. \A i \in DOMAIN u : v[i + 1] = u[i]
  <2> SUFFICES ASSUME NEW i \in DOMAIN u PROVE v[i + 1] = u[i]
    OBVIOUS
  <2>1. i + 1 \in 2 .. Len(u) + 1 /\ (i + 1) - 1 = i
    BY <1>1
  <2> QED
    BY <1>4, <2>1
<1>6. \A i \in DOMAIN v : v[i] = x \/ \E j \in DOMAIN u : v[i] = u[j]
  <2> SUFFICES ASSUME NEW i \in DOMAIN v, i # 1 PROVE \E j \in DOMAIN u : v[i] = u[j]
    BY <1>3
  <2>1. i \in 2 .. Len(u) + 1
    BY <1>1, <1>2
  <2> QED
    BY <1>4, <2>1
<1>7. SortedByVersion(v)
  <2> SUFFICES ASSUME NEW i \in DOMAIN v, NEW j \in DOMAIN v, i < j
      PROVE  v[i].pkg[2] <= v[j].pkg[2]
    BY DEF SortedByVersion
  <2>1. j - 1 \in DOMAIN u /\ v[j] = u[j - 1]
    BY <1>1, <1>2, <1>4
  <2>2. CASE i = 1
    BY <1>3, <2>1, <2>2
  <2>3. CASE i # 1
    <3>1. i - 1 \in DOMAIN u /\ v[i] = u[i - 1] /\ i - 1 < j - 1
      BY <1>1, <1>2, <1>4, <2>3
    <3> QED
      BY <2>1, <3>1 DEF SortedByVersion
  <2> QED
    BY <2>2, <2>3
<1> QED
  BY <1>1, <1>2, <1>3, <1>5, <1>6, <1>7 DEF v

\* The elements of a list of updates have versions, which do not decrease in a sorted one.
LEMMA VersionsRise ==
  ASSUME NEW u \in Seq(Updates)
  PROVE  /\ Len(u) \in Nat /\ DOMAIN u = 1 .. Len(u)
         /\ \A i \in DOMAIN u : u[i] \in Updates /\ u[i].pkg \in Nevras /\ u[i].pkg[2] \in Nat
         /\ SortedByVersion(u) =>
              \A i, j \in DOMAIN u : i <= j => u[i].pkg[2] <= u[j].pkg[2]
<1>1. Len(u) \in Nat /\ DOMAIN u = 1 .. Len(u)
  OBVIOUS
<1>2. \A i \in DOMAIN u : u[i] \in Updates
  BY <1>1
<1>3. \A i \in DOMAIN u : u[i].pkg \in Nevras
  BY <1>2 DEF Updates
<1>4. \A i \in DOMAIN u : u[i].pkg[2] \in Nat
  BY <1>3, UpdatesAssumption
<1>5. ASSUME SortedByVersion(u), NEW i \in DOMAIN u, NEW j \in DOMAIN u, i <= j
      PROVE  u[i].pkg[2] <= u[j].pkg[2]
  <2>1. CASE i = j
    BY <1>4, <2>1
  <2>2. CASE i < j
    BY <1>5, <2>2 DEF SortedByVersion
  <2> QED
    BY <1>1, <1>5, <2>1, <2>2
<1> QED
  BY <1>1, <1>2, <1>3, <1>4, <1>5

\* An update of A that is not newer than B[b] comes first; it stands for B[b] as well when
\* they are equal.
LEMMA TakeFirst ==
  ASSUME NEW A, NEW B, NEW name, GoodUpdates(A, name), GoodUpdates(B, name),
         NEW a \in 1 .. Len(A), NEW b \in 1 .. Len(B), A[a].pkg[2] <= B[b].pkg[2],
         NEW u, NEW c \in {b, b + 1}, c = b + 1 => A[a].pkg = B[b].pkg,
         MergeOK(u, A, B, a + 1, c)
  PROVE  MergeOK(<<A[a]>> \o u, A, B, a, b)
<1> DEFINE v == <<A[a]>> \o u
           x == A[a]
<1>1. /\ A \in Seq(Updates) /\ Len(A) \in Nat /\ DOMAIN A = 1 .. Len(A)
      /\ B \in Seq(Updates) /\ Len(B) \in Nat /\ DOMAIN B = 1 .. Len(B)
      /\ SortedByVersion(A) /\ SortedByVersion(B) /\ x \in Updates
  BY DEF GoodUpdates
<1>2. \A i \in a + 1 .. Len(A) : x.pkg[2] <= A[i].pkg[2]
  <2>1. \A i \in a + 1 .. Len(A) : a \in DOMAIN A /\ i \in DOMAIN A /\ a < i
    BY <1>1
  <2> QED
    BY <1>1, <2>1 DEF SortedByVersion
<1>3. \A i \in b .. Len(B) : b \in DOMAIN B /\ i \in DOMAIN B /\ b <= i
  BY <1>1
<1>4. \A i \in b .. Len(B) : x.pkg[2] <= B[i].pkg[2]
  <2>1. \A i \in b .. Len(B) : B[b].pkg[2] <= B[i].pkg[2] /\ B[i].pkg[2] \in Nat
                                  /\ B[b].pkg[2] \in Nat
    BY <1>1, <1>3, VersionsRise
  <2>2. x.pkg[2] \in Nat
    BY <1>1, VersionsRise
  <2> QED
    BY <2>1, <2>2
<1>5. u \in Seq(Updates) /\ SortedByVersion(u) /\ \A i \in DOMAIN u : x.pkg[2] <= u[i].pkg[2]
  BY <1>2, <1>4 DEF MergeOK
<1>6. /\ v \in Seq(Updates) /\ SortedByVersion(v)
      /\ DOMAIN v = 1 .. Len(u) + 1 /\ Len(u) \in Nat /\ DOMAIN u = 1 .. Len(u)
      /\ v[1] = x /\ \A i \in DOMAIN u : v[i + 1] = u[i]
      /\ \A i \in DOMAIN v : v[i] = x \/ \E j \in DOMAIN u : v[i] = u[j]
  BY <1>1, <1>5, Prepend
<1> HIDE DEF v, x
<1>7. 1 \in DOMAIN v /\ \A i \in DOMAIN u : i + 1 \in DOMAIN v
  BY <1>6
<1>8. \A i \in DOMAIN v : \/ \E j \in a .. Len(A) : v[i] = A[j]
                          \/ \E j \in b .. Len(B) : v[i] = B[j]
  <2> SUFFICES ASSUME NEW i \in DOMAIN v, v[i] # x
      PROVE  \/ \E j \in a .. Len(A) : v[i] = A[j]
             \/ \E j \in b .. Len(B) : v[i] = B[j]
    BY <1>1 DEF x
  <2>1. PICK l \in DOMAIN u : v[i] = u[l]
    BY <1>6
  <2>2. \/ \E j \in a + 1 .. Len(A) : u[l] = A[j]
        \/ \E j \in c .. Len(B) : u[l] = B[j]
    BY DEF MergeOK
  <2>3. /\ \A j \in a + 1 .. Len(A) : j \in a .. Len(A)
        /\ \A j \in c .. Len(B) : j \in b .. Len(B)
    BY <1>1
  <2> QED
    BY <2>1, <2>2, <2>3
<1>9. \A i \in a .. Len(A) : \E j \in DOMAIN v : v[j] = A[i]
  <2> SUFFICES ASSUME NEW i \in a .. Len(A) PROVE \E j \in DOMAIN v : v[j] = A[i]
    OBVIOUS
  <2>1. CASE i = a
    BY <1>6, <1>7, <2>1 DEF x
  <2>2. CASE i # a
    <3>1. PICK j \in DOMAIN u : u[j] = A[i]
      BY <2>2 DEF MergeOK
    <3> QED
      BY <1>6, <1>7, <3>1
  <2> QED
    BY <2>1, <2>2
<1>10. \A i \in b .. Len(B) : \E j \in DOMAIN v : v[j].pkg = B[i].pkg
  <2> SUFFICES ASSUME NEW i \in b .. Len(B) PROVE \E j \in DOMAIN v : v[j].pkg = B[i].pkg
    OBVIOUS
  <2>1. CASE i = b /\ c = b + 1
    BY <1>6, <1>7, <2>1 DEF x
  <2>2. CASE i # b \/ c = b
    <3>1. PICK j \in DOMAIN u : u[j].pkg = B[i].pkg
      BY <2>2 DEF MergeOK
    <3> QED
      BY <1>6, <1>7, <3>1
  <2> QED
    BY <2>1, <2>2
<1>11. MergeOK(v, A, B, a, b)
  BY <1>6, <1>8, <1>9, <1>10 DEF MergeOK
<1> QED
  BY <1>11 DEF v, x

\* An older update of B comes first.
LEMMA TakeSecond ==
  ASSUME NEW A, NEW B, NEW name, GoodUpdates(A, name), GoodUpdates(B, name),
         NEW a \in 1 .. Len(A), NEW b \in 1 .. Len(B), B[b].pkg[2] <= A[a].pkg[2],
         NEW u, MergeOK(u, A, B, a, b + 1)
  PROVE  MergeOK(<<B[b]>> \o u, A, B, a, b)
<1> DEFINE v == <<B[b]>> \o u
           x == B[b]
<1>1. /\ A \in Seq(Updates) /\ Len(A) \in Nat /\ DOMAIN A = 1 .. Len(A)
      /\ B \in Seq(Updates) /\ Len(B) \in Nat /\ DOMAIN B = 1 .. Len(B)
      /\ SortedByVersion(A) /\ SortedByVersion(B) /\ x \in Updates
  BY DEF GoodUpdates
<1>2. \A i \in b + 1 .. Len(B) : x.pkg[2] <= B[i].pkg[2]
  <2>1. \A i \in b + 1 .. Len(B) : b \in DOMAIN B /\ i \in DOMAIN B /\ b < i
    BY <1>1
  <2> QED
    BY <1>1, <2>1 DEF SortedByVersion
<1>3. \A i \in a .. Len(A) : a \in DOMAIN A /\ i \in DOMAIN A /\ a <= i
  BY <1>1
<1>4. \A i \in a .. Len(A) : x.pkg[2] <= A[i].pkg[2]
  <2>1. \A i \in a .. Len(A) : A[a].pkg[2] <= A[i].pkg[2] /\ A[i].pkg[2] \in Nat
                                  /\ A[a].pkg[2] \in Nat
    BY <1>1, <1>3, VersionsRise
  <2>2. x.pkg[2] \in Nat
    BY <1>1, VersionsRise
  <2> QED
    BY <2>1, <2>2
<1>5. u \in Seq(Updates) /\ SortedByVersion(u) /\ \A i \in DOMAIN u : x.pkg[2] <= u[i].pkg[2]
  BY <1>2, <1>4 DEF MergeOK
<1>6. /\ v \in Seq(Updates) /\ SortedByVersion(v)
      /\ DOMAIN v = 1 .. Len(u) + 1 /\ Len(u) \in Nat /\ DOMAIN u = 1 .. Len(u)
      /\ v[1] = x /\ \A i \in DOMAIN u : v[i + 1] = u[i]
      /\ \A i \in DOMAIN v : v[i] = x \/ \E j \in DOMAIN u : v[i] = u[j]
  BY <1>1, <1>5, Prepend
<1> HIDE DEF v, x
<1>7. 1 \in DOMAIN v /\ \A i \in DOMAIN u : i + 1 \in DOMAIN v
  BY <1>6
<1>8. \A i \in DOMAIN v : \/ \E j \in a .. Len(A) : v[i] = A[j]
                          \/ \E j \in b .. Len(B) : v[i] = B[j]
  <2> SUFFICES ASSUME NEW i \in DOMAIN v, v[i] # x
      PROVE  \/ \E j \in a .. Len(A) : v[i] = A[j]
             \/ \E j \in b .. Len(B) : v[i] = B[j]
    BY <1>1 DEF x
  <2>1. PICK l \in DOMAIN u : v[i] = u[l]
    BY <1>6
  <2>2. \/ \E j \in a .. Len(A) : u[l] = A[j]
        \/ \E j \in b + 1 .. Len(B) : u[l] = B[j]
    BY DEF MergeOK
  <2>3. /\ \A j \in a .. Len(A) : j \in a .. Len(A)
        /\ \A j \in b + 1 .. Len(B) : j \in b .. Len(B)
    BY <1>1
  <2> QED
    BY <2>1, <2>2, <2>3
<1>9. \A i \in a .. Len(A) : \E j \in DOMAIN v : v[j] = A[i]
  <2> SUFFICES ASSUME NEW i \in a .. Len(A) PROVE \E j \in DOMAIN v : v[j] = A[i]
    OBVIOUS
  <2>1. PICK j \in DOMAIN u : u[j] = A[i]
    BY DEF MergeOK
  <2> QED
    BY <1>6, <1>7, <2>1
<1>10. \A i \in b .. Len(B) : \E j \in DOMAIN v : v[j].pkg = B[i].pkg
  <2> SUFFICES ASSUME NEW i \in b .. Len(B) PROVE \E j \in DOMAIN v : v[j].pkg = B[i].pkg
    OBVIOUS
  <2>1. CASE i = b
    BY <1>6, <1>7, <2>1 DEF x
  <2>2. CASE i # b
    <3>1. PICK j \in DOMAIN u : u[j].pkg = B[i].pkg
      BY <2>2 DEF MergeOK
    <3> QED
      BY <1>6, <1>7, <3>1
  <2> QED
    BY <2>1, <2>2
<1>11. MergeOK(v, A, B, a, b)
  BY <1>6, <1>8, <1>9, <1>10 DEF MergeOK
<1> QED
  BY <1>11 DEF v, x

\* When one list is used up the rest of the other one follows.
LEMMA RestOfList ==
  ASSUME NEW u \in Seq(Updates), SortedByVersion(u), NEW a \in 1 .. Len(u) + 1
  PROVE  LET v == SubSeq(u, a, Len(u))
         IN  /\ v \in Seq(Updates) /\ SortedByVersion(v)
             /\ \A x \in DOMAIN v : \E i \in a .. Len(u) : v[x] = u[i]
             /\ \A i \in a .. Len(u) : \E x \in DOMAIN v : v[x] = u[i]
<1> DEFINE v == SubSeq(u, a, Len(u))
<1>1. Len(u) \in Nat /\ DOMAIN u = 1 .. Len(u)
  OBVIOUS
<1>2. v = [x \in 1 .. Len(u) - a + 1 |-> u[a + x - 1]]
  BY <1>1
<1>3. \A i \in a .. Len(u) : u[i] \in Updates
  BY <1>1
<1>4. v \in Seq(Updates)
  BY <1>1, <1>3, SubSeqProperties
<1>5. DOMAIN v = 1 .. Len(u) - a + 1 /\ \A x \in DOMAIN v : v[x] = u[a + x - 1]
  BY <1>2
<1> HIDE DEF v
<1>6. SortedByVersion(v)
  <2> SUFFICES ASSUME NEW i \in DOMAIN v, NEW j \in DOMAIN v, i < j
      PROVE  v[i].pkg[2] <= v[j].pkg[2]
    BY DEF SortedByVersion
  <2>1. a + i - 1 \in DOMAIN u /\ a + j - 1 \in DOMAIN u /\ a + i - 1 < a + j - 1
    BY <1>1, <1>5
  <2> QED
    BY <1>5, <2>1 DEF SortedByVersion
<1>7. \A x \in DOMAIN v : a + x - 1 \in a .. Len(u)
  BY <1>1, <1>5
<1>8. \A i \in a .. Len(u) : i - a + 1 \in DOMAIN v /\ v[i - a + 1] = u[i]
  BY <1>1, <1>5
<1> QED
  BY <1>4, <1>5, <1>6, <1>7, <1>8 DEF v

\* mergeUpdates, by the smallest number of updates left for which it could be wrong.
LEMMA MergeMerges ==
  ASSUME NEW A, NEW B, NEW name, GoodUpdates(A, name), GoodUpdates(B, name)
  PROVE  MergeOK(mergeUpdates(A, B), A, B, 1, 1)
<1> DEFINE merge == CHOOSE merge : IsMerge(merge, A, B)
           D == (1 .. Len(A) + 1) \X (1 .. Len(B) + 1)
<1>1. /\ A \in Seq(Updates) /\ Len(A) \in Nat /\ DOMAIN A = 1 .. Len(A) /\ SortedByVersion(A)
      /\ B \in Seq(Updates) /\ Len(B) \in Nat /\ DOMAIN B = 1 .. Len(B) /\ SortedByVersion(B)
  BY DEF GoodUpdates
<1>2. IsMerge(merge, A, B)
  BY <1>1, MergeExists
<1>3. mergeUpdates(A, B) = merge[<<1, 1>>]
  BY Zenon DEF mergeUpdates, IsMerge, MergeStep
<1> HIDE DEF merge
<1>4. \A a \in 1 .. Len(A) + 1, b \in 1 .. Len(B) + 1 :
        merge[<<a, b>>] = MergeStep(A, B, merge, <<a, b>>)
  BY <1>2 DEF IsMerge
<1> DEFINE T == {k \in Nat : \E a \in 1 .. Len(A) + 1, b \in 1 .. Len(B) + 1 :
                   a + b + k = Len(A) + Len(B) + 2 /\ ~MergeOK(merge[<<a, b>>], A, B, a, b)}
<1>0. SUFFICES ASSUME T # {} PROVE FALSE
  <2>0. T = {}
    BY <1>0
  <2> HIDE DEF T
  <2>1. Len(A) + Len(B) \in Nat /\ Len(A) + Len(B) \notin T
    BY <1>1, <2>0
  <2> USE DEF T
  <2>2. 1 \in 1 .. Len(A) + 1 /\ 1 \in 1 .. Len(B) + 1
        /\ 1 + 1 + (Len(A) + Len(B)) = Len(A) + Len(B) + 2
    BY <1>1
  <2> QED
    BY <1>3, <2>1, <2>2
<1>5. PICK k \in T : \A l \in T : k <= l
  BY <1>0, NatMin
<1>6. PICK a \in 1 .. Len(A) + 1, b \in 1 .. Len(B) + 1 :
        a + b + k = Len(A) + Len(B) + 2 /\ ~MergeOK(merge[<<a, b>>], A, B, a, b)
  BY <1>5
<1>7. ASSUME NEW c \in 1 .. Len(A) + 1, NEW d \in 1 .. Len(B) + 1, a + b < c + d
      PROVE  MergeOK(merge[<<c, d>>], A, B, c, d)
  <2> DEFINE l == Len(A) + Len(B) + 2 - c - d
  <2>1. l \in Nat /\ l < k /\ c + d + l = Len(A) + Len(B) + 2
    BY <1>1, <1>5, <1>6, <1>7
  <2>2. \A j \in T : k <= j /\ j \in Nat /\ k \in Nat
    BY <1>5
  <2> HIDE DEF l, T
  <2>3. l \notin T
    BY <2>1, <2>2
  <2> USE DEF T
  <2> QED
    BY <2>1, <2>3
<1> HIDE DEF T
<1> DEFINE step == MergeStep(A, B, merge, <<a, b>>)
<1>8. ~MergeOK(step, A, B, a, b)
  BY <1>4, <1>6
<1>9. CASE a > Len(A)
  <2>1. step = SubSeq(B, b, Len(B))
    BY <1>9 DEF MergeStep
  <2>2. a .. Len(A) = {}
    BY <1>1, <1>9
  <2> DEFINE v == SubSeq(B, b, Len(B))
  <2>r. LET w == v
        IN  /\ w \in Seq(Updates) /\ SortedByVersion(w)
            /\ \A x \in DOMAIN w : \E i \in b .. Len(B) : w[x] = B[i]
            /\ \A i \in b .. Len(B) : \E x \in DOMAIN w : w[x] = B[i]
    BY <1>1, RestOfList, Zenon
  <2> HIDE DEF step, v
  <2>3. /\ step \in Seq(Updates) /\ SortedByVersion(step)
        /\ \A x \in DOMAIN step : \E i \in b .. Len(B) : step[x] = B[i]
        /\ \A i \in b .. Len(B) : \E x \in DOMAIN step : step[x] = B[i]
    BY <2>1, <2>r DEF v
  <2>4. \A i \in b .. Len(B) : \E x \in DOMAIN step : step[x].pkg = B[i].pkg
    BY <2>3
  <2>5. MergeOK(step, A, B, a, b)
    BY <2>2, <2>3, <2>4 DEF MergeOK
  <2> QED
    BY <1>8, <2>5
<1>10. CASE ~(a > Len(A)) /\ b > Len(B)
  <2>1. step = SubSeq(A, a, Len(A))
    BY <1>10 DEF MergeStep
  <2>2. b .. Len(B) = {}
    BY <1>1, <1>10
  <2> DEFINE v == SubSeq(A, a, Len(A))
  <2>r. LET w == v
        IN  /\ w \in Seq(Updates) /\ SortedByVersion(w)
            /\ \A x \in DOMAIN w : \E i \in a .. Len(A) : w[x] = A[i]
            /\ \A i \in a .. Len(A) : \E x \in DOMAIN w : w[x] = A[i]
    BY <1>1, RestOfList, Zenon
  <2> HIDE DEF step, v
  <2>3. /\ step \in Seq(Updates) /\ SortedByVersion(step)
        /\ \A x \in DOMAIN step : \E i \in a .. Len(A) : step[x] = A[i]
        /\ \A i \in a .. Len(A) : \E x \in DOMAIN step : step[x] = A[i]
    BY <2>1, <2>r DEF v
  <2>4. MergeOK(step, A, B, a, b)
    BY <2>2, <2>3 DEF MergeOK
  <2> QED
    BY <1>8, <2>4
<1>11. CASE ~(a > Len(A)) /\ ~(b > Len(B))
  <2>1. a \in 1 .. Len(A) /\ b \in 1 .. Len(B) /\ a + 1 \in 1 .. Len(A) + 1 /\ b + 1 \in 1 .. Len(B) + 1
    BY <1>1, <1>11
  <2>2. /\ A[a].pkg \in Nevras /\ A[a].pkg[2] \in Nat /\ A[a].pkg[1] = name
        /\ B[b].pkg \in Nevras /\ B[b].pkg[2] \in Nat /\ B[b].pkg[1] = name
    BY <1>1, <2>1, VersionsRise DEF GoodUpdates
  <2>3. CASE Before(A[a], B[b])
    <3>1. step = <<A[a]>> \o merge[<<a + 1, b>>]
      BY <1>11, <2>3 DEF MergeStep
    <3>2. A[a].pkg[2] <= B[b].pkg[2]
      BY <2>2, <2>3 DEF Before, EVRABefore
    <3>3. MergeOK(merge[<<a + 1, b>>], A, B, a + 1, b)
      BY <1>7, <2>1
    <3>4. b \in {b, b + 1} /\ b # b + 1
      OBVIOUS
    <3>5. MergeOK(<<A[a]>> \o merge[<<a + 1, b>>], A, B, a, b)
      BY <2>1, <3>2, <3>3, <3>4, TakeFirst
    <3> QED
      BY <1>8, <3>1, <3>5
  <2>4. CASE ~Before(A[a], B[b]) /\ Before(B[b], A[a])
    <3>1. step = <<B[b]>> \o merge[<<a, b + 1>>]
      BY <1>11, <2>4 DEF MergeStep
    <3>2. B[b].pkg[2] <= A[a].pkg[2]
      BY <2>2, <2>4 DEF Before, EVRABefore
    <3>3. MergeOK(merge[<<a, b + 1>>], A, B, a, b + 1)
      BY <1>7, <2>1
    <3> QED
      BY <1>8, <2>1, <3>1, <3>2, <3>3, TakeSecond
  <2>5. CASE ~Before(A[a], B[b]) /\ ~Before(B[b], A[a])
    <3>1. step = <<A[a]>> \o merge[<<a + 1, b + 1>>]
      BY <1>11, <2>5 DEF MergeStep
    <3>2. A[a].pkg[2] = B[b].pkg[2]
      BY <2>2, <2>5 DEF Before, EVRABefore
    <3>3. A[a].pkg = B[b].pkg
      BY <2>2, <3>2, UpdatesAssumption
    <3>4. MergeOK(merge[<<a + 1, b + 1>>], A, B, a + 1, b + 1)
      BY <1>7, <2>1
    <3>5. b + 1 \in {b, b + 1} /\ A[a].pkg[2] <= B[b].pkg[2]
      BY <2>2, <3>2
    <3>6. MergeOK(<<A[a]>> \o merge[<<a + 1, b + 1>>], A, B, a, b)
      BY <2>1, <3>3, <3>4, <3>5, TakeFirst
    <3> QED
      BY <1>8, <3>1, <3>6
  <2> QED
    BY <2>3, <2>4, <2>5
<1> QED
  BY <1>9, <1>10, <1>11

-----------------------------------------------------------------------------
(* getUpdatesData: what the list for a profile holds *)

\* The packages of the updates that have the status.
PkgsOf(u, status) == {u[i].pkg : i \in {j \in DOMAIN u : u[j].status = status}}

\* A list of updates in which every package has those of its name, sorted.
GoodList(list) ==
  /\ DOMAIN list \subseteq Nevras /\ list = [n \in DOMAIN list |-> list[n]]
  /\ \A n \in DOMAIN list : GoodUpdates(list[n], n[1])

\* Among updates of one name the last INSTALLABLE one is the newest of them.
LEMMA LatestIsNewest ==
  ASSUME NEW u, NEW name, GoodUpdates(u, name)
  PROVE  LET U == PkgsOf(u, INSTALLABLE)
             latest == LatestOf(u, INSTALLABLE)
         IN  (IF latest = NIL THEN {} ELSE {latest}) = {x \in U : \A v \in U : v[2] <= x[2]}
<1> DEFINE I == {i \in DOMAIN u : u[i].status = INSTALLABLE}
           U == PkgsOf(u, INSTALLABLE)
           newest == {x \in U : \A v \in U : v[2] <= x[2]}
<1>1. /\ u \in Seq(Updates) /\ Len(u) \in Nat /\ DOMAIN u = 1 .. Len(u)
      /\ \A i \in DOMAIN u : u[i].pkg \in Nevras /\ u[i].pkg[2] \in Nat /\ u[i].pkg[1] = name
      /\ \A i, j \in DOMAIN u : i <= j => u[i].pkg[2] <= u[j].pkg[2]
  BY VersionsRise DEF GoodUpdates
<1>2. U = {u[i].pkg : i \in I}
  BY DEF PkgsOf
<1>3. CASE I = {}
  BY <1>2, <1>3 DEF LatestOf
<1>4. CASE I # {}
  <2> DEFINE T == {Len(u) - i : i \in I}
  <2>1. T \in SUBSET Nat /\ T # {}
    BY <1>1, <1>4
  <2>2. PICK t \in T : \A r \in T : t <= r
    BY <2>1, NatMin
  <2>3. PICK m \in I : t = Len(u) - m
    BY <2>2
  <2>4. \A i \in I : m >= i
    <3> SUFFICES ASSUME NEW i \in I PROVE m >= i
      OBVIOUS
    <3>1. t <= Len(u) - i
      BY <2>2
    <3> QED
      BY <1>1, <2>3, <3>1
  <2>5. Max(I) \in I /\ \A i \in I : Max(I) >= i
    BY <2>4 DEF Max
  <2> DEFINE x == u[Max(I)].pkg
  <2>6. LatestOf(u, INSTALLABLE) = x
    BY <1>4 DEF LatestOf
  <2> HIDE DEF I
  <2>7. x \in Nevras /\ x # NIL
    BY <1>1, <2>5, UpdatesAssumption DEF I
  <2>8. \A i \in I : u[i].pkg[2] <= x[2]
    <3> SUFFICES ASSUME NEW i \in I PROVE u[i].pkg[2] <= x[2]
      OBVIOUS
    <3>1. i \in DOMAIN u /\ Max(I) \in DOMAIN u /\ i <= Max(I)
      BY <1>1, <2>5 DEF I
    <3> QED
      BY <1>1, <3>1
  <2>9. x \in newest
    BY <1>2, <2>5, <2>8
  <2>10. ASSUME NEW y \in newest PROVE y = x
    <3>1. PICK i \in I : y = u[i].pkg
      BY <1>2
    <3>2. y \in Nevras /\ y[2] \in Nat /\ y[1] = name /\ x[2] \in Nat /\ x[1] = name
      BY <1>1, <2>5, <3>1 DEF I
    <3>3. y[2] <= x[2] /\ x[2] <= y[2]
      BY <2>8, <2>9, <2>10, <3>1
    <3> QED
      BY <2>7, <3>2, <3>3, UpdatesAssumption
  <2> QED
    BY <2>6, <2>7, <2>9, <2>10
<1> QED
  BY <1>3, <1>4

AllPkgs(u) == {u[i].pkg : i \in DOMAIN u}
HasStatus(u, status) == \A i \in DOMAIN u : u[i].status = status
ListHasStatus(list, status) == \A n \in DOMAIN list : HasStatus(list[n], status)

\* When all updates have one status, the packages of that status are all of them.
LEMMA UniformPkgs ==
  ASSUME NEW u, NEW status, HasStatus(u, status)
  PROVE  PkgsOf(u, status) = AllPkgs(u) /\ \A other : other # status => PkgsOf(u, other) = {}
  BY DEF PkgsOf, AllPkgs, HasStatus

\* A good list is not NIL.
LEMMA GoodIsList ==
  ASSUME NEW list, GoodList(list)
  PROVE  list # NIL
<1>1. list \in [DOMAIN list -> Seq(Updates)] /\ DOMAIN list \in SUBSET Nevras
  BY DEF GoodList, GoodUpdates
<1> QED
  BY <1>1, UpdatesAssumption

\* What was read is good.
LEMMA ReadIsGood ==
  ASSUME NEW list, IsUpdateList(list)
  PROVE  GoodList(list) /\ ListHasStatus(list, INSTALLABLE)
  BY DEF IsUpdateList, GoodList, GoodUpdates, ListHasStatus, HasStatus

\* SetUpdatesInstallability changes the status only.
LEMMA StatusOnly ==
  ASSUME NEW u, NEW name, GoodUpdates(u, name), NEW status \in {INSTALLABLE, APPLICABLE},
         NEW v, v = [i \in DOMAIN u |-> [u[i] EXCEPT !.status = status]]
  PROVE  GoodUpdates(v, name) /\ HasStatus(v, status) /\ AllPkgs(v) = AllPkgs(u)
<1>1. u \in Seq(Updates) /\ Len(u) \in Nat /\ DOMAIN u = 1 .. Len(u)
  BY DEF GoodUpdates
<1>2. \A i \in DOMAIN u : v[i] \in Updates /\ v[i].status = status /\ v[i].pkg = u[i].pkg
  BY <1>1, VersionsRise DEF Updates
<1>3. v \in [1 .. Len(u) -> Updates] /\ DOMAIN v = DOMAIN u
  BY <1>1, <1>2
<1>4. v \in Seq(Updates)
  BY <1>1, <1>3, SeqDef
<1> QED
  BY <1>2, <1>3, <1>4 DEF GoodUpdates, SortedByVersion, HasStatus, AllPkgs

LEMMA StatusOfList ==
  ASSUME NEW list, GoodList(list), NEW status \in {INSTALLABLE, APPLICABLE}
  PROVE  LET v == SetUpdatesInstallability(list, status)
         IN  /\ GoodList(v) /\ DOMAIN v = DOMAIN list /\ ListHasStatus(v, status)
             /\ \A n \in DOMAIN list : AllPkgs(v[n]) = AllPkgs(list[n])
<1> DEFINE v == SetUpdatesInstallability(list, status)
<1>1. v = [n \in DOMAIN list |-> [i \in DOMAIN list[n] |-> [list[n][i] EXCEPT !.status = status]]]
  BY DEF SetUpdatesInstallability
<1> HIDE DEF v
<1>2. ASSUME NEW n \in DOMAIN list
      PROVE  GoodUpdates(v[n], n[1]) /\ HasStatus(v[n], status) /\ AllPkgs(v[n]) = AllPkgs(list[n])
  <2>1. GoodUpdates(list[n], n[1])
    BY DEF GoodList
  <2>2. v[n] = [i \in DOMAIN list[n] |-> [list[n][i] EXCEPT !.status = status]]
    BY <1>1
  <2> QED
    BY <2>1, <2>2, StatusOnly
<1>3. DOMAIN v = DOMAIN list /\ v = [n \in DOMAIN v |-> v[n]]
  BY <1>1
<1>4. GoodList(v)
  BY <1>2, <1>3 DEF GoodList
<1>5. ListHasStatus(v, status)
  BY <1>2, <1>3 DEF ListHasStatus
<1> QED
  BY <1>2, <1>3, <1>4, <1>5 DEF v

\* tryGetYumUpdates leaves out what cannot be parsed.
LEMMA YumList ==
  ASSUME NEW yum, IsUpdateList(yum), tryGetYumUpdates(yum) # NIL
  PROVE  LET v == tryGetYumUpdates(yum)
         IN  /\ GoodList(v) /\ DOMAIN v = DOMAIN yum /\ ListHasStatus(v, INSTALLABLE)
             /\ \A n \in DOMAIN yum : AllPkgs(v[n]) = AllPkgs(yum[n]) \ Malformed
<1> DEFINE v == tryGetYumUpdates(yum)
<1>1. v = [n \in DOMAIN yum |-> Parsable(yum[n])]
  BY DEF tryGetYumUpdates
<1> HIDE DEF v
<1>2. ASSUME NEW n \in DOMAIN yum
      PROVE  /\ GoodUpdates(v[n], n[1]) /\ HasStatus(v[n], INSTALLABLE)
             /\ AllPkgs(v[n]) = AllPkgs(yum[n]) \ Malformed
  <2> DEFINE u == yum[n]
             w == v[n]
  <2>1. /\ u \in Seq(Updates) /\ SortedByVersion(u) /\ DOMAIN u = 1 .. Len(u)
        /\ \A i \in DOMAIN u : u[i].pkg[1] = n[1] /\ u[i].status = INSTALLABLE
    BY DEF IsUpdateList
  <2>2. KeptOK(w, u, Len(u))
    BY <1>1, <2>1, ParsableKeeps
  <2> HIDE DEF u, w
  <2>3. /\ w \in Seq(Updates) /\ SortedByVersion(w)
        /\ \A i \in DOMAIN w : \E j \in DOMAIN u : w[i] = u[j] /\ u[j].pkg \notin Malformed
        /\ \A j \in DOMAIN u : u[j].pkg \notin Malformed => \E i \in DOMAIN w : w[i] = u[j]
    BY <2>1, <2>2, Zenon DEF KeptOK
  <2>4. GoodUpdates(w, n[1]) /\ HasStatus(w, INSTALLABLE)
    BY <2>1, <2>3 DEF GoodUpdates, HasStatus
  <2>5. AllPkgs(w) = AllPkgs(u) \ Malformed
    BY <2>3 DEF AllPkgs
  <2> QED
    BY <2>4, <2>5 DEF u, w
<1>3. DOMAIN v = DOMAIN yum /\ v = [n \in DOMAIN v |-> v[n]]
  BY <1>1
<1>4. GoodList(v)
  BY <1>2, <1>3 DEF GoodList, IsUpdateList
<1>5. ListHasStatus(v, INSTALLABLE)
  BY <1>2, <1>3 DEF ListHasStatus
<1> QED
  BY <1>2, <1>3, <1>4, <1>5 DEF v

\* RemoveNonLatestPackages keeps the updates of what it keeps.
LEMMA NonLatestRemoved ==
  ASSUME NEW list, GoodList(list)
  PROVE  LET v == RemoveNonLatestPackages(list)
             I == DOMAIN list \ Malformed
         IN  /\ GoodList(v) /\ DOMAIN v = {n \in I : \A m \in I : m[1] = n[1] => m[2] <= n[2]}
             /\ \A n \in DOMAIN v : v[n] = list[n]
<1> DEFINE v == RemoveNonLatestPackages(list)
           I == DOMAIN list \ Malformed
           D == {n \in I : \A m \in I : m[1] = n[1] => m[2] <= n[2]}
<1>1. v = [n \in {m \in I : \A k \in I : k[1] = m[1] => ~EVRABefore(m, k)} |-> list[n]]
  BY DEF RemoveNonLatestPackages
<1>2. \A m, k \in I : ~EVRABefore(m, k) <=> k[2] <= m[2]
  BY UpdatesAssumption DEF EVRABefore, GoodList
<1>3. {m \in I : \A k \in I : k[1] = m[1] => ~EVRABefore(m, k)} = D
  BY <1>2
<1>4. v = [n \in D |-> list[n]]
  BY <1>1, <1>3
<1>5. D \subseteq DOMAIN list
  OBVIOUS
<1> HIDE DEF v, D
<1>6. GoodList(v)
  BY <1>4, <1>5 DEF GoodList
<1> QED
  BY <1>4, <1>6 DEF v, D

\* The installable packages that a list has for n, none when there is no list.
InstPkgs(list, n) ==
  IF list = NIL THEN {} ELSE IF n \notin DOMAIN list THEN {} ELSE PkgsOf(list[n], INSTALLABLE)

\* A merge has the installable packages of both, when the first list has no others and
\* the second has one status.
LEMMA MergedPkgs ==
  ASSUME NEW A, NEW B, NEW name, GoodUpdates(A, name), GoodUpdates(B, name),
         HasStatus(A, INSTALLABLE), NEW status, HasStatus(B, status)
  PROVE  /\ GoodUpdates(mergeUpdates(A, B), name)
         /\ PkgsOf(mergeUpdates(A, B), INSTALLABLE)
              = PkgsOf(A, INSTALLABLE) \cup PkgsOf(B, INSTALLABLE)
<1> DEFINE v == mergeUpdates(A, B)
<1>0. MergeOK(v, A, B, 1, 1)
  BY MergeMerges
<1>1. MergeOK(v, A, B, 1, 1) /\ DOMAIN A = 1 .. Len(A) /\ DOMAIN B = 1 .. Len(B)
  BY <1>0 DEF GoodUpdates
<1> HIDE DEF v
<1>2. /\ v \in Seq(Updates) /\ SortedByVersion(v)
      /\ \A x \in DOMAIN v : \/ \E i \in DOMAIN A : v[x] = A[i]
                             \/ \E i \in DOMAIN B : v[x] = B[i]
      /\ \A i \in DOMAIN A : \E x \in DOMAIN v : v[x] = A[i]
      /\ \A i \in DOMAIN B : \E x \in DOMAIN v : v[x].pkg = B[i].pkg
  BY <1>1, Zenon DEF MergeOK
<1>3. GoodUpdates(v, name)
  BY <1>2 DEF GoodUpdates
<1>4. PkgsOf(v, INSTALLABLE) \subseteq PkgsOf(A, INSTALLABLE) \cup PkgsOf(B, INSTALLABLE)
  BY <1>2 DEF PkgsOf
<1>5. PkgsOf(A, INSTALLABLE) \subseteq PkgsOf(v, INSTALLABLE)
  BY <1>2 DEF PkgsOf
<1>6. PkgsOf(B, INSTALLABLE) \subseteq PkgsOf(v, INSTALLABLE)
  <2>1. CASE status = INSTALLABLE
    <3>1. \A x \in DOMAIN v : v[x].status = INSTALLABLE
      BY <1>2, <2>1 DEF HasStatus
    <3> QED
      BY <1>2, <3>1 DEF PkgsOf
  <2>2. CASE status # INSTALLABLE
    BY <2>2 DEF PkgsOf, HasStatus
  <2> QED
    BY <2>1, <2>2
<1> QED
  BY <1>3, <1>4, <1>5, <1>6 DEF v

\* MergeVMaaSResponses: the installed packages and their installable updates.
LEMMA MergedLists ==
  ASSUME NEW A, NEW B, A # NIL => GoodList(A) /\ ListHasStatus(A, INSTALLABLE),
         NEW status, B # NIL => GoodList(B) /\ ListHasStatus(B, status),
         MergeVMaaSResponses(A, B) # NIL
  PROVE  LET v == MergeVMaaSResponses(A, B)
             I == ((IF A = NIL THEN {} ELSE DOMAIN A) \cup (IF B = NIL THEN {} ELSE DOMAIN B))
                    \ Malformed
         IN  /\ GoodList(v)
             /\ DOMAIN v \ Malformed = IF A = NIL \/ B = NIL THEN I
                                       ELSE {n \in I : \A m \in I : m[1] = n[1] => m[2] <= n[2]}
             /\ \A n \in DOMAIN v :
                  PkgsOf(v[n], INSTALLABLE) = InstPkgs(A, n) \cup InstPkgs(B, n)
<1> DEFINE v == MergeVMaaSResponses(A, B)
<1>1. CASE A = NIL
  <2>1. v = B
    BY <1>1 DEF MergeVMaaSResponses
  <2> QED
    BY <1>1, <2>1 DEF InstPkgs
<1>2. CASE A # NIL /\ B = NIL
  <2>1. v = A
    BY <1>2 DEF MergeVMaaSResponses
  <2> QED
    BY <1>2, <2>1 DEF InstPkgs
<1>3. CASE A # NIL /\ B # NIL
  <2> DEFINE all == [n \in DOMAIN A \cup DOMAIN B |->
                       IF n \notin DOMAIN A THEN B[n]
                       ELSE IF n \notin DOMAIN B THEN A[n] ELSE mergeUpdates(A[n], B[n])]
  <2>1. v = RemoveNonLatestPackages(all)
    BY <1>3 DEF MergeVMaaSResponses
  <2>2. /\ GoodList(A) /\ ListHasStatus(A, INSTALLABLE)
        /\ GoodList(B) /\ ListHasStatus(B, status)
    BY <1>3
  <2>3. DOMAIN all = DOMAIN A \cup DOMAIN B /\ all = [n \in DOMAIN all |-> all[n]]
    OBVIOUS
  <2>4. \A n \in DOMAIN A \cup DOMAIN B :
          all[n] = IF n \notin DOMAIN A THEN B[n]
                   ELSE IF n \notin DOMAIN B THEN A[n] ELSE mergeUpdates(A[n], B[n])
    OBVIOUS
  <2> HIDE DEF all, v
  <2>5. ASSUME NEW n \in DOMAIN A \cup DOMAIN B
        PROVE  /\ GoodUpdates(all[n], n[1])
               /\ PkgsOf(all[n], INSTALLABLE) = InstPkgs(A, n) \cup InstPkgs(B, n)
    <3>1. CASE n \notin DOMAIN A
      BY <1>3, <2>2, <2>4, <3>1 DEF GoodList, InstPkgs
    <3>2. CASE n \notin DOMAIN B
      BY <1>3, <2>2, <2>4, <3>2 DEF GoodList, InstPkgs
    <3>3. CASE n \in DOMAIN A /\ n \in DOMAIN B
      <4>1. /\ GoodUpdates(A[n], n[1]) /\ HasStatus(A[n], INSTALLABLE)
            /\ GoodUpdates(B[n], n[1]) /\ HasStatus(B[n], status)
        BY <2>2, <3>3 DEF GoodList, ListHasStatus
      <4>2. all[n] = mergeUpdates(A[n], B[n])
        BY <2>4, <3>3
      <4>3. InstPkgs(A, n) = PkgsOf(A[n], INSTALLABLE) /\ InstPkgs(B, n) = PkgsOf(B[n], INSTALLABLE)
        BY <1>3, <3>3 DEF InstPkgs
      <4> QED
        BY <4>1, <4>2, <4>3, MergedPkgs
    <3> QED
      BY <3>1, <3>2, <3>3
  <2>6. GoodList(all)
    BY <2>2, <2>3, <2>5 DEF GoodList
  <2>7. LET w == v
            I == DOMAIN all \ Malformed
        IN  /\ GoodList(w) /\ DOMAIN w = {n \in I : \A m \in I : m[1] = n[1] => m[2] <= n[2]}
            /\ \A n \in DOMAIN w : w[n] = all[n]
    BY <2>1, <2>6, NonLatestRemoved
  <2> QED
    BY <1>3, <2>3, <2>5, <2>7 DEF v
<1> QED
  BY <1>1, <1>2, <1>3

\* What getUpdatesData yields, whatever VMaaS answered: a good list.
LEMMA UpdatesDataGood ==
  ASSUME NEW p, IsProfile(p), NEW V, V \in {p.vmaas, NIL},
         NEW list, list = getUpdatesData(p.yum, V, p.satellite, p.bootc), list # NIL
  PROVE  /\ GoodList(list)
         /\ V = p.vmaas => DOMAIN list \ Malformed = Installed(p)
         /\ V = p.vmaas => \A n \in DOMAIN list :
              PkgsOf(list[n], INSTALLABLE) =
                IF p.bootc THEN {}
                ELSE InstPkgs(tryGetYumUpdates(p.yum), n)
                       \cup IF p.satellite THEN {} ELSE InstPkgs(p.vmaas, n)
<1> DEFINE A == tryGetYumUpdates(p.yum)
           B == IF p.satellite /\ V # NIL THEN SetUpdatesInstallability(V, APPLICABLE) ELSE V
           status == IF p.satellite THEN APPLICABLE ELSE INSTALLABLE
           merged == MergeVMaaSResponses(A, B)
<1>1. A # NIL => p.yum # NIL /\ GoodList(A) /\ ListHasStatus(A, INSTALLABLE) /\ DOMAIN A = DOMAIN p.yum
  <2> SUFFICES ASSUME A # NIL
      PROVE p.yum # NIL /\ GoodList(A) /\ ListHasStatus(A, INSTALLABLE) /\ DOMAIN A = DOMAIN p.yum
    OBVIOUS
  <2>1. p.yum # NIL /\ IsUpdateList(p.yum)
    BY DEF tryGetYumUpdates, IsProfile
  <2> QED
    BY <2>1, YumList
<1>2. V # NIL => GoodList(V) /\ ListHasStatus(V, INSTALLABLE)
  BY ReadIsGood DEF IsProfile
<1>3. B # NIL => /\ V # NIL /\ GoodList(B) /\ ListHasStatus(B, status) /\ DOMAIN B = DOMAIN V
                 /\ \A n \in DOMAIN V : AllPkgs(B[n]) = AllPkgs(V[n])
  <2>1. CASE p.satellite /\ V # NIL
    BY <1>2, <2>1, StatusOfList DEF APPLICABLE
  <2>2. CASE ~(p.satellite /\ V # NIL)
    BY <1>2, <2>2 DEF IsProfile
  <2> QED
    BY <2>1, <2>2
<1>4. B = NIL => V = NIL
  BY <1>2, StatusOfList, GoodIsList DEF APPLICABLE
<1>5. list = IF p.bootc /\ merged # NIL THEN SetUpdatesInstallability(merged, APPLICABLE) ELSE merged
  BY DEF getUpdatesData
<1> HIDE DEF A, B, status, merged
<1>6. merged # NIL
  BY <1>5
<1> DEFINE I == ((IF A = NIL THEN {} ELSE DOMAIN A) \cup (IF B = NIL THEN {} ELSE DOMAIN B))
                  \ Malformed
<1>7. /\ GoodList(merged)
      /\ DOMAIN merged \ Malformed = IF A = NIL \/ B = NIL THEN I
                                     ELSE {n \in I : \A m \in I : m[1] = n[1] => m[2] <= n[2]}
      /\ \A n \in DOMAIN merged :
           PkgsOf(merged[n], INSTALLABLE) = InstPkgs(A, n) \cup InstPkgs(B, n)
  BY <1>1, <1>3, <1>6, MergedLists DEF merged
<1>8. /\ GoodList(list) /\ DOMAIN list = DOMAIN merged
      /\ p.bootc => ListHasStatus(list, APPLICABLE)
      /\ ~p.bootc => list = merged
  BY <1>5, <1>6, <1>7, StatusOfList DEF APPLICABLE
<1>9. ASSUME V = p.vmaas PROVE DOMAIN list \ Malformed = Installed(p)
  <2>1. B = NIL <=> p.vmaas = NIL
    BY <1>3, <1>4, <1>9
  <2>2. p.yum = NIL => A = NIL
    BY DEF A, tryGetYumUpdates
  <2>3. p.yum # NIL /\ A = NIL => DOMAIN p.yum = {}
    <3>1. p.yum # NIL /\ DOMAIN p.yum # {} => A # NIL
      <4> SUFFICES ASSUME p.yum # NIL, DOMAIN p.yum # {} PROVE A # NIL
        OBVIOUS
      <4>1. IsUpdateList(p.yum)
        BY DEF IsProfile
      <4>2. A = [n \in DOMAIN p.yum |-> Parsable(p.yum[n])]
        BY DEF A, tryGetYumUpdates
      <4>3. DOMAIN A \in SUBSET Nevras /\ A \in [DOMAIN A -> Seq(Updates)]
        BY <4>1, <4>2, ParsableKeeps DEF IsUpdateList, KeptOK
      <4> QED
        BY <4>3, UpdatesAssumption
    <3> QED
      BY <3>1
  <2> DEFINE J == ((IF p.yum = NIL THEN {} ELSE DOMAIN p.yum \ Malformed) \cup
                   (IF p.vmaas = NIL THEN {} ELSE DOMAIN p.vmaas \ Malformed))
  <2>4. I = J
    BY <1>1, <1>3, <1>9, <2>1, <2>2, <2>3
  <2>5. Installed(p) = IF A = NIL \/ p.vmaas = NIL THEN J
                       ELSE {n \in J : \A m \in J : m[1] = n[1] => m[2] <= n[2]}
    BY DEF Installed, A
  <2> HIDE DEF I, J
  <2> QED
    BY <1>7, <1>8, <2>1, <2>4, <2>5
<1>10. ASSUME V = p.vmaas, NEW n \in DOMAIN list
       PROVE  PkgsOf(list[n], INSTALLABLE) =
                IF p.bootc THEN {}
                ELSE InstPkgs(A, n) \cup IF p.satellite THEN {} ELSE InstPkgs(p.vmaas, n)
  <2>1. CASE p.bootc
    <3>1. HasStatus(list[n], APPLICABLE)
      BY <1>8, <1>10, <2>1 DEF ListHasStatus
    <3>2. PkgsOf(list[n], INSTALLABLE) = {}
      BY <3>1 DEF PkgsOf, HasStatus, INSTALLABLE, APPLICABLE
    <3> QED
      BY <2>1, <3>2
  <2>2. CASE ~p.bootc
    <3>1. PkgsOf(list[n], INSTALLABLE) = InstPkgs(A, n) \cup InstPkgs(B, n)
      BY <1>7, <1>8, <1>10, <2>2
    <3>2. CASE ~p.satellite
      BY <1>10, <2>2, <3>1, <3>2 DEF B
    <3>3. CASE p.satellite
      <4>1. B # NIL /\ n \in DOMAIN B => HasStatus(B[n], APPLICABLE)
        BY <1>3, <3>3 DEF ListHasStatus, status
      <4>2. InstPkgs(B, n) = {}
        BY <4>1, UniformPkgs DEF InstPkgs, INSTALLABLE, APPLICABLE
      <4> QED
        BY <2>2, <3>1, <3>3, <4>2
    <3> QED
      BY <3>2, <3>3
  <2> QED
    BY <2>1, <2>2
<1> QED
  BY <1>8, <1>9, <1>10 DEF A

\* The packages that VMaaS or yum have for n, by looking at both.
LEMMA InstPkgsAre ==
  ASSUME NEW p, IsProfile(p), NEW n
  PROVE  /\ InstPkgs(p.vmaas, n) =
              (IF p.vmaas = NIL THEN {}
               ELSE IF n \notin DOMAIN p.vmaas THEN {} ELSE {u.pkg : u \in ToSet(p.vmaas[n])})
                 \ Malformed
         /\ InstPkgs(tryGetYumUpdates(p.yum), n) =
              (IF p.yum = NIL THEN {}
               ELSE IF n \notin DOMAIN p.yum THEN {} ELSE {u.pkg : u \in ToSet(p.yum[n])})
                 \ Malformed
<1>1. \A u : AllPkgs(u) = {x.pkg : x \in ToSet(u)}
  BY DEF AllPkgs, ToSet
<1>2. ASSUME p.vmaas # NIL, n \in DOMAIN p.vmaas
      PROVE  InstPkgs(p.vmaas, n) = {u.pkg : u \in ToSet(p.vmaas[n])} \ Malformed
  <2>1. HasStatus(p.vmaas[n], INSTALLABLE)
    BY <1>2, ReadIsGood DEF IsProfile, ListHasStatus
  <2>2. InstPkgs(p.vmaas, n) = AllPkgs(p.vmaas[n])
    BY <1>2, <2>1, UniformPkgs DEF InstPkgs
  <2>3. AllPkgs(p.vmaas[n]) \cap Malformed = {}
    BY <1>2 DEF IsProfile, AllPkgs
  <2> QED
    BY <1>1, <2>2, <2>3
<1>3. ASSUME p.yum # NIL, n \in DOMAIN p.yum
      PROVE  InstPkgs(tryGetYumUpdates(p.yum), n) = {u.pkg : u \in ToSet(p.yum[n])} \ Malformed
  <2> DEFINE A == tryGetYumUpdates(p.yum)
  <2>1. IsUpdateList(p.yum)
    BY <1>3 DEF IsProfile
  <2>2. A = [m \in DOMAIN p.yum |-> Parsable(p.yum[m])]
    BY <1>3 DEF tryGetYumUpdates
  <2>3. A # NIL
    <3>1. DOMAIN A \in SUBSET Nevras /\ A \in [DOMAIN A -> Seq(Updates)]
      BY <2>1, <2>2, ParsableKeeps DEF IsUpdateList, KeptOK
    <3> QED
      BY <3>1, UpdatesAssumption
  <2>4. LET v == A
        IN  /\ GoodList(v) /\ DOMAIN v = DOMAIN p.yum /\ ListHasStatus(v, INSTALLABLE)
            /\ \A m \in DOMAIN p.yum : AllPkgs(v[m]) = AllPkgs(p.yum[m]) \ Malformed
    BY <2>1, <2>3, YumList
  <2> HIDE DEF A
  <2>5. HasStatus(A[n], INSTALLABLE) /\ AllPkgs(A[n]) = AllPkgs(p.yum[n]) \ Malformed
        /\ n \in DOMAIN A
    BY <1>3, <2>4 DEF ListHasStatus
  <2>6. InstPkgs(A, n) = AllPkgs(A[n])
    BY <2>3, <2>5, UniformPkgs DEF InstPkgs
  <2> QED
    BY <1>1, <2>5, <2>6 DEF A
<1>4. p.yum = NIL => tryGetYumUpdates(p.yum) = NIL
  BY DEF tryGetYumUpdates
<1>5. ASSUME p.yum # NIL, n \notin DOMAIN p.yum PROVE InstPkgs(tryGetYumUpdates(p.yum), n) = {}
  <2>1. tryGetYumUpdates(p.yum) # NIL => DOMAIN tryGetYumUpdates(p.yum) = DOMAIN p.yum
    BY DEF tryGetYumUpdates
  <2> QED
    BY <1>5, <2>1 DEF InstPkgs
<1>6. p.vmaas = NIL \/ n \notin DOMAIN p.vmaas => InstPkgs(p.vmaas, n) = {}
  BY DEF InstPkgs
<1> QED
  BY <1>2, <1>3, <1>4, <1>5, <1>6 DEF InstPkgs

\* The list that getUpdatesData yields says of every package what the profile says:
\* merging, installability and the choice of the last update agree with looking at all
\* updates for the newest.
LEMMA UpdatesDataReports ==
  ASSUME NEW p, IsProfile(p), NEW list,
         list = getUpdatesData(p.yum, p.vmaas, p.satellite, p.bootc), list # NIL,
         NEW n \in DOMAIN list \ Malformed
  PROVE  LET latest == LatestOf(list[n], INSTALLABLE)
         IN  /\ (IF latest = NIL THEN {} ELSE {latest}) = Installable(p, n)
             /\ latest # NIL => latest \in NevrasOf(list)
<1> DEFINE U == IF p.bootc THEN {}
                ELSE InstPkgs(tryGetYumUpdates(p.yum), n)
                       \cup IF p.satellite THEN {} ELSE InstPkgs(p.vmaas, n)
           latest == LatestOf(list[n], INSTALLABLE)
           newest == {x \in U : \A v \in U : v[2] <= x[2]}
<1>0. /\ GoodList(list)
      /\ \A m \in DOMAIN list :
           PkgsOf(list[m], INSTALLABLE) =
             IF p.bootc THEN {}
             ELSE InstPkgs(tryGetYumUpdates(p.yum), m)
                    \cup IF p.satellite THEN {} ELSE InstPkgs(p.vmaas, m)
  BY UpdatesDataGood, Zenon
<1>1. GoodUpdates(list[n], n[1]) /\ PkgsOf(list[n], INSTALLABLE) = U
  BY <1>0 DEF GoodList
<1>2. (IF latest = NIL THEN {} ELSE {latest}) = newest
  BY <1>1, LatestIsNewest
<1>3. newest = Installable(p, n) /\ U \cap Malformed = {}
  <2> DEFINE fromVmaas == InstPkgs(p.vmaas, n)
             fromYum == InstPkgs(tryGetYumUpdates(p.yum), n)
  <2>1. /\ fromVmaas =
              (IF p.vmaas = NIL THEN {}
               ELSE IF n \notin DOMAIN p.vmaas THEN {} ELSE {u.pkg : u \in ToSet(p.vmaas[n])})
                 \ Malformed
        /\ fromYum =
              (IF p.yum = NIL THEN {}
               ELSE IF n \notin DOMAIN p.yum THEN {} ELSE {u.pkg : u \in ToSet(p.yum[n])})
                 \ Malformed
    BY InstPkgsAre
  <2>2. U = (IF p.bootc THEN {} ELSE fromYum) \cup (IF p.bootc \/ p.satellite THEN {} ELSE fromVmaas)
    OBVIOUS
  <2> DEFINE Y == IF p.yum = NIL \/ p.bootc THEN {}
                  ELSE IF n \notin DOMAIN p.yum THEN {} ELSE {u.pkg : u \in ToSet(p.yum[n])}
             M == IF p.vmaas = NIL \/ p.bootc \/ p.satellite THEN {}
                  ELSE IF n \notin DOMAIN p.vmaas THEN {} ELSE {u.pkg : u \in ToSet(p.vmaas[n])}
             W == (Y \cup M) \ Malformed
  <2>3. Installable(p, n) = {u \in W : \A v \in W : v[2] <= u[2]}
    BY DEF Installable
  <2> HIDE DEF fromVmaas, fromYum, U
  <2>4. U = W
    BY <2>1, <2>2
  <2> HIDE DEF W
  <2>5. newest = Installable(p, n)
    BY <2>3, <2>4
  <2> QED
    BY <2>1, <2>2, <2>5
<1>4. ASSUME latest # NIL PROVE latest \in NevrasOf(list)
  <2>1. latest \in U
    BY <1>2, <1>4
  <2>2. latest \in {list[n][i].pkg : i \in DOMAIN list[n]}
    BY <1>1, <2>1 DEF PkgsOf
  <2> QED
    BY <1>3, <2>1, <2>2 DEF NevrasOf
<1> QED
  BY <1>2, <1>3, <1>4

-----------------------------------------------------------------------------
(* The invariants: types *)

\* No two ids stand for one nevra.
UniqueIn(I) == \A i, j \in I : nevraOf[i] = nevraOf[j] => i = j

\* A row of system_package2, and the rows of a system, one for an id.
IsRow(r) ==
  /\ r = [id |-> r.id, inst |-> r.inst, app |-> r.app]
  /\ r.id \in DOMAIN nevraOf
  /\ r.inst \in DOMAIN nevraOf \cup {NIL} /\ r.app \in DOMAIN nevraOf \cup {NIL}
RowsOK(rows) ==
  /\ IsFiniteSet(rows) /\ \A r \in rows : IsRow(r)
  /\ \A q, r \in rows : q.id = r.id => q = r

\* What a pod is about to store: one id for every nevra, which it stands for.
PlanOK(P) ==
  /\ IsFiniteSet(P)
  /\ \A p \in P : p = [nevra |-> p.nevra, id |-> p.id, inst |-> p.inst, app |-> p.app,
                       change |-> p.change]
  /\ \A p \in P : p.change # "remove" =>
       /\ p.id \in DOMAIN nevraOf /\ nevraOf[p.id] = p.nevra
       /\ p.inst \in DOMAIN nevraOf \cup {NIL} /\ p.app \in DOMAIN nevraOf \cup {NIL}
  /\ \A p, q \in P : p.change # "remove" /\ q.change # "remove" /\ p.nevra = q.nevra => p = q

\* What a pod does: it is ready exactly when it has no system, and has a list until it
\* has stored the result.
IsWorker(v) ==
  /\ v = [pc |-> v.pc, sys |-> v.sys, list |-> v.list, plan |-> v.plan, clean |-> v.clean]
  /\ v.pc \in {"ready", "save", "load", "store", "invalidate"}
  /\ v.sys \in Systems \cup {NIL} /\ v.clean \in BOOLEAN
  /\ v.pc = "ready" <=> v.sys = NIL
  /\ v.pc \in {"save", "load", "store"} => GoodList(v.list)
  /\ v.pc = "store" => PlanOK(v.plan)

\* Table package and the caches: a nevra has one row, and one id in a cache.
PackagesInv ==
  /\ deployment \in Deployments
  /\ nevraOf \in Seq(Nevras) /\ Len(nevraOf) <= MaxID[deployment]
  /\ package \subseteq DOMAIN nevraOf /\ UniqueIn(package)
  /\ synced \subseteq DOMAIN nevraOf
  /\ cache \in [Pods -> SUBSET (DOMAIN nevraOf)] /\ \A w \in Pods : UniqueIn(cache[w])
\* Profiles, messages and what the pods do; nothing is evaluated that was not uploaded.
WorkersInv ==
  /\ profile \in [Systems -> deployment.profiles \cup {NIL}]
  /\ pending \in [Pods -> SUBSET Systems]
  /\ worker = [w \in Pods |-> worker[w]] /\ \A w \in Pods : IsWorker(worker[w])
  /\ \A w \in Pods : \A s \in pending[w] \cup ({worker[w].sys} \ {NIL}) : profile[s] # NIL
\* The rows refer to the packages of the table.
RowsInv ==
  /\ stored = [s \in Systems |-> stored[s]] /\ patch = [s \in Systems |-> patch[s]]
  /\ \A s \in Systems :
       RowsOK(stored[s]) /\ \A r \in stored[s] : {r.id, r.inst, r.app} \subseteq package \cup {NIL}
\* The types of the refresh, apart from the counts.
IsRefresh(r) ==
  /\ r = [pc |-> r.pc, accs |-> r.accs, acc |-> r.acc, counts |-> r.counts, dirty |-> r.dirty]
  /\ r.pc \in {"idle", "next", "update", "delete", "valid"}
  /\ r.accs \subseteq Accounts /\ r.dirty \in BOOLEAN
  /\ r.pc \in {"update", "delete", "valid"} => r.acc \in Accounts
RefreshInv == IsRefresh(refresh) /\ counts = [a \in Accounts |-> counts[a]]

\* All types, the counts apart.
TypeInv ==
  /\ PackagesInv /\ WorkersInv /\ RowsInv /\ RefreshInv
  /\ valid \subseteq Accounts /\ lost \subseteq Systems /\ missed \subseteq Accounts

\* What the primary says of stale systems, and what the replica says.
ReplicaInv ==
  /\ stale \subseteq Systems
  /\ replica.stale \subseteq Systems /\ replica.valid \subseteq Accounts

\* Ids are only ever added to table package.
Grows ==
  /\ nevraOf \in Seq(Nevras) /\ nevraOf' \in Seq(Nevras)
  /\ DOMAIN nevraOf \subseteq DOMAIN nevraOf'
  /\ \A i \in DOMAIN nevraOf : nevraOf'[i] = nevraOf[i]

\* What was said of ids stays true.
LEMMA GrowthKeeps ==
  ASSUME Grows
  PROVE  /\ \A rows : RowsOK(rows) => RowsOK(rows)'
         /\ \A P : PlanOK(P) => PlanOK(P)'
         /\ \A v : IsWorker(v) => IsWorker(v)'
         /\ \A I \in SUBSET (DOMAIN nevraOf) : UniqueIn(I) => UniqueIn(I)'
<1>1. ASSUME NEW rows, RowsOK(rows) PROVE RowsOK(rows)'
  BY <1>1 DEF Grows, RowsOK, IsRow
<1>2. ASSUME NEW P, PlanOK(P) PROVE PlanOK(P)'
  BY <1>2 DEF Grows, PlanOK
<1>3. ASSUME NEW v, IsWorker(v) PROVE IsWorker(v)'
  BY <1>2, <1>3 DEF IsWorker
<1>4. ASSUME NEW I \in SUBSET (DOMAIN nevraOf), UniqueIn(I) PROVE UniqueIn(I)'
  BY <1>4 DEF Grows, UniqueIn
<1> QED
  BY <1>1, <1>2, <1>3, <1>4

\* A step that leaves the table alone is the simplest case.
LEMMA NothingGrows == ASSUME PackagesInv, UNCHANGED nevraOf PROVE Grows
  BY DEF PackagesInv, Grows

\* New nevras that the table does not have.
LEMMA InsertGrows ==
  ASSUME PackagesInv, NEW N \in SUBSET Nevras, \A n \in N : IdOf(n, package) = {},
         nevraOf' = nevraOf \o SetToSeq(N),
         package' = package \cup Len(nevraOf) + 1 .. Len(nevraOf')
  PROVE  /\ Grows /\ Len(nevraOf') = Len(nevraOf) + Cardinality(N)
         /\ package' \subseteq DOMAIN nevraOf' /\ UniqueIn(package)'
         /\ package \subseteq package' /\ Len(nevraOf) + 1 .. Len(nevraOf') \subseteq DOMAIN nevraOf'
         /\ \A n \in N : \E i \in package' : nevraOf'[i] = n
<1> DEFINE f == SetToSeq(N)
           L == Len(nevraOf)
           C == Cardinality(N)
<1>1. IsFiniteSet(N)
  BY UpdatesAssumption, FS_Subset
<1>2. /\ C \in Nat /\ f \in [1 .. C -> N]
      /\ \A i, j \in 1 .. C : f[i] = f[j] => i = j
      /\ \A n \in N : \E i \in 1 .. C : f[i] = n
  BY <1>1, SetToSeqLists
<1>3. f \in Seq(Nevras) /\ Len(f) = C
  <2>1. f \in [1 .. C -> Nevras]
    BY <1>2
  <2>2. f \in Seq(Nevras)
    BY <1>2, <2>1, SeqDef
  <2>3. DOMAIN f = 1 .. Len(f) /\ Len(f) \in Nat /\ DOMAIN f = 1 .. C
    BY <2>1, <2>2, LenProperties
  <2> QED
    BY <1>2, <2>2, <2>3
<1>4. nevraOf \in Seq(Nevras) /\ L \in Nat /\ DOMAIN nevraOf = 1 .. L
  BY DEF PackagesInv
<1>a. nevraOf' = nevraOf \o f
  OBVIOUS
<1> HIDE DEF f, C
<1>5. /\ nevraOf' \in Seq(Nevras) /\ Len(nevraOf') = L + C /\ DOMAIN nevraOf' = 1 .. L + C
      /\ \A i \in 1 .. L + C : nevraOf'[i] = IF i <= L THEN nevraOf[i] ELSE f[i - L]
  <2>1. /\ nevraOf' \in Seq(Nevras) /\ Len(nevraOf') = L + C
        /\ \A i \in 1 .. L + C : nevraOf'[i] = IF i <= L THEN nevraOf[i] ELSE f[i - L]
    <3>1. /\ nevraOf \o f \in Seq(Nevras)
          /\ Len(nevraOf \o f) = Len(nevraOf) + Len(f)
          /\ \A i \in 1 .. Len(nevraOf) + Len(f) :
               (nevraOf \o f)[i] = IF i <= Len(nevraOf) THEN nevraOf[i] ELSE f[i - Len(nevraOf)]
      BY <1>3, <1>4, ConcatProperties
    <3> QED
      BY <1>3, <1>a, <3>1
  <2> QED
    BY <2>1, LenProperties
<1>6. Grows
  BY <1>2, <1>4, <1>5 DEF Grows
<1>7. package' = package \cup (L + 1 .. L + C) /\ L + 1 .. L + C \subseteq 1 .. L + C
      /\ package \subseteq 1 .. L
  BY <1>2, <1>4, <1>5 DEF PackagesInv
<1>8. \A i \in L + 1 .. L + C : nevraOf'[i] = f[i - L] /\ i - L \in 1 .. C /\ f[i - L] \in N
  <2> SUFFICES ASSUME NEW i \in L + 1 .. L + C
      PROVE  nevraOf'[i] = f[i - L] /\ i - L \in 1 .. C /\ f[i - L] \in N
    OBVIOUS
  <2>1. i \in 1 .. L + C /\ ~(i <= L) /\ i - L \in 1 .. C
    BY <1>2, <1>4
  <2> QED
    BY <1>2, <1>5, <2>1
<1>9. \A i \in package : nevraOf'[i] = nevraOf[i] /\ nevraOf'[i] \notin N
  BY <1>4, <1>6, <1>7 DEF Grows, IdOf
<1>10. UniqueIn(package)'
  <2> SUFFICES ASSUME NEW i \in package', NEW j \in package', nevraOf'[i] = nevraOf'[j]
      PROVE  i = j
    BY DEF UniqueIn
  <2>1. CASE i \in package /\ j \in package
    BY <1>9, <2>1 DEF PackagesInv, UniqueIn
  <2>2. CASE i \in L + 1 .. L + C /\ j \in L + 1 .. L + C
    <3>1. i - L \in 1 .. C /\ j - L \in 1 .. C /\ f[i - L] = f[j - L]
      BY <1>8, <2>2
    <3>2. i - L = j - L
      BY <1>2, <3>1
    <3> QED
      BY <1>2, <1>4, <2>2, <3>2
  <2>3. CASE i \in package /\ j \in L + 1 .. L + C
    BY <1>8, <1>9, <2>3
  <2>4. CASE j \in package /\ i \in L + 1 .. L + C
    BY <1>8, <1>9, <2>4
  <2> QED
    BY <1>7, <2>1, <2>2, <2>3, <2>4
<1>11. \A n \in N : \E i \in package' : nevraOf'[i] = n
  <2> SUFFICES ASSUME NEW n \in N PROVE \E i \in package' : nevraOf'[i] = n
    OBVIOUS
  <2>1. PICK i \in 1 .. C : f[i] = n
    BY <1>2
  <2>2. L + i \in L + 1 .. L + C /\ (L + i) - L = i
    BY <1>2, <1>4
  <2> QED
    BY <1>7, <1>8, <2>1, <2>2
<1> QED
  <2>1. Len(nevraOf') = Len(nevraOf) + Cardinality(N)
    BY <1>5 DEF C
  <2>2. DOMAIN nevraOf' = 1 .. L + C /\ Len(nevraOf) + 1 .. Len(nevraOf') = L + 1 .. L + C
    BY <1>5
  <2>3. 1 .. L \subseteq 1 .. L + C
    BY <1>2, <1>4
  <2> QED
    BY <1>6, <1>7, <1>10, <1>11, <2>1, <2>2, <2>3

\* Adding one id per nevra to a cache keeps it so, and loses no nevra.
LEMMA AddKeeps ==
  ASSUME nevraOf \in Seq(Nevras), NEW C \in SUBSET (DOMAIN nevraOf), UniqueIn(C),
         NEW I \in SUBSET (DOMAIN nevraOf), UniqueIn(I)
  PROVE  /\ Add(C, I) \in SUBSET (DOMAIN nevraOf) /\ UniqueIn(Add(C, I))
         /\ \A n : IdOf(n, C \cup I) # {} => IdOf(n, Add(C, I)) # {}
<1>1. Add(C, I) \in SUBSET (DOMAIN nevraOf) /\ UniqueIn(Add(C, I))
  BY DEF Add, UniqueIn
<1>2. ASSUME NEW n, IdOf(n, C \cup I) # {} PROVE IdOf(n, Add(C, I)) # {}
  <2>1. PICK i \in C \cup I : nevraOf[i] = n
    BY <1>2 DEF IdOf
  <2>2. CASE \E j \in I : nevraOf[j] = n
    BY <2>2 DEF Add, IdOf
  <2>3. CASE \A j \in I : nevraOf[j] # n
    BY <2>1, <2>3 DEF Add, IdOf
  <2> QED
    BY <2>2, <2>3
<1> QED
  BY <1>1, <1>2

\* The nevras of a good list are nevras.
LEMMA NevrasOfGood ==
  ASSUME NEW list, GoodList(list)
  PROVE  NevrasOf(list) \subseteq Nevras
<1>1. ASSUME NEW n \in DOMAIN list, NEW i \in DOMAIN list[n] PROVE list[n][i].pkg \in Nevras
  BY VersionsRise DEF GoodList, GoodUpdates
<1> QED
  BY <1>1 DEF NevrasOf, GoodList

\* What reading by nevra adds to a cache are rows of the table.
LEMMA ReadsRows ==
  ASSUME NEW w, NEW N
  PROVE  ReadByNevras(w, N) \subseteq package
  BY DEF ReadByNevras

-----------------------------------------------------------------------------
(* Table package and the caches *)

\* The steps that touch neither.
RefreshStep ==
  \/ \E accs \in SUBSET Accounts : accountsWithoutCache(accs)
  \/ \E a \in Accounts : RefreshCounts(a)
  \/ updatePackageAccountData \/ deleteOldCache \/ updatePkgCacheValidity \/ RefreshFails
\* None of them does.
LEMMA RefreshFrame ==
  RefreshStep => UNCHANGED <<deployment, pkgVars, hostVars, cache, pending, worker, resultVars, lost>>
  BY DEF RefreshStep, accountsWithoutCache, RefreshCounts, updatePackageAccountData,
         deleteOldCache, updatePkgCacheValidity, RefreshFails

\* The steps, by the pod that takes them or the job.
LEMMA NextSteps ==
  Step <=> \/ \E s \in Systems, p \in deployment.profiles : Upload(s, p)
           \/ \E w \in Pods, s \in Systems : Recalc(w, s)
           \/ \E s \in Systems : MarkStale(s)
           \/ \E w \in Pods, s \in Systems, vmaas \in {"ok", "failed", "bad"} : Begin(w, s, vmaas)
           \/ \E w \in Pods : lazySavePackages(w)
           \/ \E w \in Pods : loadPackages(w)
           \/ \E w \in Pods : evaluateAndStore(w)
           \/ \E w \in Pods : StoreRefused(w)
           \/ \E w \in Pods : invalidateCaches(w)
           \/ \E w \in Pods : Restart(w)
           \/ \E w \in Pods, i \in DOMAIN nevraOf : Evict(w, i)
           \/ \E page \in PkgListPages : syncPackages(page)
           \/ \E D \in SUBSET package : deleteUnusedPackages(D)
           \/ RefreshStep
  BY Zenon DEF Step, Evaluation, RefreshStep

\* Or the replica follows, and nothing else changes.
LEMMA NextIsStep == [Next]_vars => [Step]_primaryVars
  BY DEF Next, Replicate, vars

\* A cache that replaces one.
LEMMA CacheReplaced ==
  ASSUME PackagesInv, Grows, UNCHANGED <<deployment, nevraOf, package, synced>>, NEW w \in Pods,
         NEW C \in SUBSET (DOMAIN nevraOf), UniqueIn(C), cache' = [cache EXCEPT ![w] = C]
  PROVE  PackagesInv'
  BY DEF PackagesInv, UniqueIn

\* Saving the packages that are missing.
LEMMA SavePackages ==
  ASSUME PackagesInv, NEW w \in Pods, IsWorker(worker[w]), lazySavePackages(w)
  PROVE  PackagesInv' /\ Grows
<1> DEFINE N == NevrasOf(worker[w].list)
           missing == GetByNevras(w, N)
           R == ReadByNevras(w, N)
<1>1. /\ Len(nevraOf) + Cardinality(missing) <= MaxID[deployment]
      /\ nevraOf' = nevraOf \o SetToSeq(missing)
      /\ package' = package \cup Len(nevraOf) + 1 .. Len(nevraOf')
      /\ cache' = [cache EXCEPT ![w] = Add(@, R)]
      /\ UNCHANGED <<deployment, synced>> /\ worker[w].pc = "save"
  BY DEF lazySavePackages
<1>2. missing \in SUBSET Nevras /\ \A n \in missing : IdOf(n, package) = {}
  BY <1>1, NevrasOfGood DEF IsWorker, GetByNevras, IdOf
<1> HIDE DEF missing
<1>3. /\ Grows /\ Len(nevraOf') = Len(nevraOf) + Cardinality(missing)
      /\ package' \subseteq DOMAIN nevraOf' /\ UniqueIn(package)'
  BY <1>1, <1>2, InsertGrows
<1>4. /\ nevraOf \in Seq(Nevras) /\ cache[w] \in SUBSET (DOMAIN nevraOf) /\ UniqueIn(cache[w])
      /\ R \in SUBSET (DOMAIN nevraOf) /\ UniqueIn(R)
  <2>1. R \subseteq package
    BY ReadsRows
  <2> HIDE DEF R
  <2> QED
    BY <2>1 DEF PackagesInv, UniqueIn
<1> HIDE DEF R
<1>5. Add(cache[w], R) \in SUBSET (DOMAIN nevraOf) /\ UniqueIn(Add(cache[w], R))
  BY <1>4, AddKeeps
<1>6. cache' \in [Pods -> SUBSET (DOMAIN nevraOf)] /\ \A v \in Pods : UniqueIn(cache'[v])
  BY <1>1, <1>5 DEF PackagesInv
<1>7. cache' \in [Pods -> SUBSET (DOMAIN nevraOf')]
  BY <1>3, <1>6 DEF Grows
<1>8. \A v \in Pods : UniqueIn(cache[v])'
  BY <1>3, <1>6 DEF Grows, UniqueIn
<1>9. Len(nevraOf') <= MaxID[deployment]
  BY <1>1, <1>3
<1> QED
  BY <1>1, <1>3, <1>7, <1>8, <1>9 DEF PackagesInv, Grows

\* Looking the packages up.
LEMMA LookUpPackages ==
  ASSUME PackagesInv, RowsInv, NEW w \in Pods, IsWorker(worker[w]), loadPackages(w)
  PROVE  PackagesInv'
<1> DEFINE s == worker[w].sys
           R == ReadByNevras(w, NevrasOf(worker[w].list))
           I == IF CacheEnabled THEN {r.id : r \in stored[s]} ELSE {}
<1>1. UNCHANGED <<deployment, nevraOf, package, synced>> /\ worker[w].pc = "load"
  BY DEF loadPackages, pkgVars
<1>2. Grows
  BY <1>1, NothingGrows
<1>3. CASE UNCHANGED cache
  BY <1>1, <1>3 DEF PackagesInv, UniqueIn
<1>4. CASE cache' = [cache EXCEPT ![w] = Add(Add(@, R), I)]
  <2>1. s \in Systems
    BY <1>1 DEF IsWorker
  <2>2. R \subseteq package /\ I \subseteq package
    <3>1. \A r \in stored[s] : r.id \in DOMAIN nevraOf /\ r.id \in package \cup {NIL}
      BY <2>1 DEF RowsInv, RowsOK, IsRow
    <3>2. \A i \in DOMAIN nevraOf : i # NIL
      <4>1. \A i \in DOMAIN nevraOf : i \in Nat
        BY DEF PackagesInv
      <4> QED
        BY <4>1, PackageAssumption
    <3> QED
      BY <3>1, <3>2, ReadsRows
  <2> HIDE DEF R, I
  <2>3. /\ nevraOf \in Seq(Nevras) /\ cache[w] \in SUBSET (DOMAIN nevraOf) /\ UniqueIn(cache[w])
        /\ R \in SUBSET (DOMAIN nevraOf) /\ UniqueIn(R)
        /\ I \in SUBSET (DOMAIN nevraOf) /\ UniqueIn(I)
    BY <2>2 DEF PackagesInv, UniqueIn
  <2> DEFINE C == Add(cache[w], R)
             E == Add(C, I)
  <2>4. C \in SUBSET (DOMAIN nevraOf) /\ UniqueIn(C)
    BY <2>3, AddKeeps
  <2> HIDE DEF C
  <2>5. E \in SUBSET (DOMAIN nevraOf) /\ UniqueIn(E)
    BY <2>3, <2>4, AddKeeps
  <2>6. cache' = [cache EXCEPT ![w] = E]
    BY <1>4 DEF C
  <2> HIDE DEF E
  <2> QED
    BY <1>1, <1>2, <2>5, <2>6, CacheReplaced
<1> QED
  BY <1>3, <1>4 DEF loadPackages

\* The synchronization with /pkglist inserts what the table does not have.
LEMMA SyncInserts ==
  ASSUME PackagesInv, NEW page \in PkgListPages, syncPackages(page)
  PROVE  PackagesInv' /\ Grows
<1> DEFINE pkgs == page \ Malformed
           N == {n \in pkgs : IdOf(n, package) = {}}
<1>1. /\ nevraOf' = nevraOf \o SetToSeq(N)
      /\ package' = package \cup Len(nevraOf) + 1 .. Len(nevraOf')
      /\ synced' = synced \cup Len(nevraOf) + 1 .. Len(nevraOf')
      /\ Len(nevraOf') <= MaxID[deployment]
      /\ UNCHANGED <<deployment, cache>>
  BY DEF syncPackages, storePkgListData, storeOrUpdate
<1>2. N \in SUBSET Nevras /\ \A n \in N : IdOf(n, package) = {}
  BY PackageAssumption DEF PkgListPages
<1> HIDE DEF N
<1>3. /\ Grows /\ package' \subseteq DOMAIN nevraOf' /\ UniqueIn(package)'
      /\ Len(nevraOf) + 1 .. Len(nevraOf') \subseteq DOMAIN nevraOf'
  BY <1>1, <1>2, InsertGrows
<1>4. synced' \subseteq DOMAIN nevraOf'
  BY <1>1, <1>3 DEF PackagesInv, Grows
<1>5. cache' \in [Pods -> SUBSET (DOMAIN nevraOf')]
  BY <1>1, <1>3 DEF PackagesInv, Grows
<1>6. \A w \in Pods : UniqueIn(cache[w])'
  BY <1>1, <1>3 DEF PackagesInv, Grows, UniqueIn
<1> QED
  BY <1>1, <1>3, <1>4, <1>5, <1>6 DEF PackagesInv, Grows

\* Every step keeps the table and the caches as they should be, and only adds ids.
LEMMA PackagesStep ==
  ASSUME TypeInv, [Step]_primaryVars
  PROVE  PackagesInv' /\ Grows
<1> USE DEF TypeInv
<1>1. ASSUME UNCHANGED <<deployment, pkgVars, cache>> PROVE PackagesInv' /\ Grows
  BY <1>1, NothingGrows DEF PackagesInv, UniqueIn, pkgVars
<1>2. ASSUME NEW w \in Pods, lazySavePackages(w) PROVE PackagesInv' /\ Grows
  BY <1>2, SavePackages DEF WorkersInv
<1>3. ASSUME NEW w \in Pods, loadPackages(w) PROVE PackagesInv' /\ Grows
  BY <1>3, LookUpPackages, NothingGrows DEF WorkersInv, loadPackages, pkgVars
<1>4. ASSUME NEW page \in PkgListPages, syncPackages(page) PROVE PackagesInv' /\ Grows
  BY <1>4, SyncInserts
<1>5. ASSUME NEW D \in SUBSET package, deleteUnusedPackages(D) PROVE PackagesInv' /\ Grows
  BY <1>5, NothingGrows DEF deleteUnusedPackages, PackagesInv, UniqueIn
<1>6. ASSUME NEW w \in Pods, NEW i \in DOMAIN nevraOf, Evict(w, i) PROVE PackagesInv' /\ Grows
  <2>1. UNCHANGED <<deployment, nevraOf, package, synced>>
        /\ cache' = [cache EXCEPT ![w] = cache[w] \ {i}]
    BY <1>6 DEF Evict, pkgVars
  <2>2. cache[w] \ {i} \in SUBSET (DOMAIN nevraOf) /\ UniqueIn(cache[w] \ {i})
    BY DEF PackagesInv, UniqueIn
  <2> QED
    BY <2>1, <2>2, CacheReplaced, NothingGrows
<1>7. ASSUME NEW w \in Pods, Restart(w) PROVE PackagesInv' /\ Grows
  <2> DEFINE C == IF CacheEnabled THEN package ELSE {}
  <2>1. UNCHANGED <<deployment, nevraOf, package, synced>> /\ cache' = [cache EXCEPT ![w] = C]
    BY <1>7 DEF Restart, pkgVars
  <2>2. C \in SUBSET (DOMAIN nevraOf) /\ UniqueIn(C)
    BY DEF PackagesInv, UniqueIn
  <2> HIDE DEF C
  <2> QED
    BY <2>1, <2>2, CacheReplaced, NothingGrows
<1>8. ASSUME NEW w \in Pods, evaluateAndStore(w) \/ StoreRefused(w) \/ invalidateCaches(w)
      PROVE  UNCHANGED <<deployment, pkgVars, cache>>
  BY <1>8 DEF evaluateAndStore, StoreRefused, invalidateCaches
<1>9. ASSUME NEW w \in Pods, NEW s \in Systems, NEW x,
             Recalc(w, s) \/ Begin(w, s, x) \/ Upload(s, x) \/ MarkStale(s)
      PROVE  UNCHANGED <<deployment, pkgVars, cache>>
  BY <1>9 DEF Upload, Recalc, MarkStale, Begin
<1>10. CASE UNCHANGED primaryVars
  BY <1>1, <1>10 DEF primaryVars, pkgVars
<1>11. CASE RefreshStep
  BY <1>1, <1>11, RefreshFrame
<1>12. Pods # {}
  BY PackageAssumption
<1> QED
  BY <1>1, <1>2, <1>3, <1>4, <1>5, <1>6, <1>7, <1>8, <1>9, <1>10, <1>11, <1>12, NextSteps

-----------------------------------------------------------------------------
(* What the pods do *)

\* A look-up finds an id that stands for the nevra.
LEMMA Found ==
  ASSUME NEW w, NEW n, GetByNevra(w, n) # NIL
  PROVE  /\ CacheEnabled /\ GetByNevra(w, n) \in cache[w] \cup package
         /\ nevraOf[GetByNevra(w, n)] = n
<1> DEFINE hit == IdOf(n, cache[w])
           row == IdOf(n, package)
<1>1. CacheEnabled /\ (hit # {} \/ row # {})
  BY DEF GetByNevra
<1>2. CASE hit # {}
  <2>1. GetByNevra(w, n) = CHOOSE i \in hit : TRUE
    BY <1>1, <1>2 DEF GetByNevra
  <2> QED
    BY <1>1, <1>2, <2>1 DEF IdOf
<1>3. CASE hit = {}
  <2>1. GetByNevra(w, n) = CHOOSE i \in row : TRUE
    BY <1>1, <1>3 DEF GetByNevra
  <2> QED
    BY <1>1, <1>3, <2>1 DEF IdOf
<1> QED
  BY <1>2, <1>3

\* And it finds one if there is one.
LEMMA FindsKnown ==
  ASSUME PackagesInv, CacheEnabled, NEW w \in Pods, NEW n, IdOf(n, cache[w] \cup package) # {}
  PROVE  GetByNevra(w, n) # NIL
<1> DEFINE hit == IdOf(n, cache[w])
           row == IdOf(n, package)
<1>1. hit # {} \/ row # {}
  BY DEF IdOf
<1>2. hit \cup row \subseteq DOMAIN nevraOf
  BY DEF IdOf, PackagesInv
<1>3. \A i \in DOMAIN nevraOf : i # NIL
  <2>1. \A i \in DOMAIN nevraOf : i \in Nat
    BY DEF PackagesInv
  <2> QED
    BY <2>1, PackageAssumption
<1>4. CASE hit # {}
  <2>1. GetByNevra(w, n) = CHOOSE i \in hit : TRUE
    BY <1>4 DEF GetByNevra
  <2> HIDE DEF hit
  <2>2. (CHOOSE i \in hit : TRUE) \in hit
    BY <1>4
  <2> QED
    BY <1>2, <1>3, <2>1, <2>2
<1>5. CASE hit = {}
  <2>1. GetByNevra(w, n) = CHOOSE i \in row : TRUE
    BY <1>1, <1>5 DEF GetByNevra
  <2> HIDE DEF row
  <2>2. (CHOOSE i \in row : TRUE) \in row
    BY <1>1, <1>5
  <2> QED
    BY <1>2, <1>3, <2>1, <2>2
<1> QED
  BY <1>4, <1>5

\* The entry for an installed package, and its update ids.
IdFor(w, n) == IF n = NIL THEN NIL ELSE GetByNevra(w, n)
Entry(w, list, n) ==
  [nevra |-> n, id |-> GetByNevra(w, n), inst |-> IdFor(w, LatestOf(list[n], INSTALLABLE)),
   app |-> IdFor(w, LatestOf(list[n], APPLICABLE)), change |-> "add"]
LEMMA EntriesAre ==
  ASSUME NEW w
  PROVE  packagesFromUpdateList(w) =
           {Entry(w, worker[w].list, n) :
              n \in {m \in DOMAIN worker[w].list \ Malformed : GetByNevra(w, m) # NIL}}
  BY DEF packagesFromUpdateList, Entry, IdFor

\* What packagesFromUpdateList yields is a plan.
LEMMA PackagesPlan ==
  ASSUME PackagesInv, NEW w \in Pods, GoodList(worker[w].list)
  PROVE  PlanOK(packagesFromUpdateList(w)) /\ \A q \in packagesFromUpdateList(w) : q.change = "add"
<1> DEFINE list == worker[w].list
           N == {m \in DOMAIN list \ Malformed : GetByNevra(w, m) # NIL}
           P == packagesFromUpdateList(w)
           f == [n \in N |-> Entry(w, list, n)]
<1>1. P = {Entry(w, list, n) : n \in N}
  BY EntriesAre
<1>2. \A n : GetByNevra(w, n) # NIL => GetByNevra(w, n) \in DOMAIN nevraOf /\ nevraOf[GetByNevra(w, n)] = n
  BY Found DEF PackagesInv
<1>3. \A n : IdFor(w, n) \in DOMAIN nevraOf \cup {NIL}
  BY <1>2 DEF IdFor
<1>4. IsFiniteSet(N)
  <2>1. N \in SUBSET Nevras
    BY DEF GoodList
  <2> QED
    BY <2>1, UpdatesAssumption, FS_Subset
<1> HIDE DEF N, P, list
<1>5. f \in Surjection(N, P)
  BY <1>1 DEF Surjection
<1>6. IsFiniteSet(P)
  BY <1>4, <1>5, FS_Surjection
<1>7. ASSUME NEW q \in P
      PROVE  /\ q = [nevra |-> q.nevra, id |-> q.id, inst |-> q.inst, app |-> q.app, change |-> q.change]
             /\ q.change = "add" /\ q.nevra \in N /\ q = Entry(w, list, q.nevra)
             /\ q.id \in DOMAIN nevraOf /\ nevraOf[q.id] = q.nevra
             /\ q.inst \in DOMAIN nevraOf \cup {NIL} /\ q.app \in DOMAIN nevraOf \cup {NIL}
  <2>1. PICK n \in N : q = Entry(w, list, n)
    BY <1>1
  <2>2. /\ q = [nevra |-> q.nevra, id |-> q.id, inst |-> q.inst, app |-> q.app, change |-> q.change]
        /\ q.change = "add" /\ q.nevra = n /\ q.id = GetByNevra(w, n)
        /\ q.inst = IdFor(w, LatestOf(list[n], INSTALLABLE))
        /\ q.app = IdFor(w, LatestOf(list[n], APPLICABLE))
    BY <2>1 DEF Entry
  <2>3. GetByNevra(w, n) # NIL
    BY DEF N
  <2> QED
    BY <1>2, <1>3, <2>1, <2>2, <2>3
<1> QED
  BY <1>6, <1>7 DEF PlanOK, P

\* The change that is needed for an entry of P.
ChangeOf(p, rows) ==
  IF \E r \in rows : nevraOf[r.id] = p.nevra /\ ~latestPkgsChanged(p, r) THEN "keep"
  ELSE IF \E r \in rows : nevraOf[r.id] = p.nevra THEN "update" ELSE "add"
Removal(r) == [nevra |-> nevraOf[r.id], id |-> r.id, inst |-> r.inst, app |-> r.app, change |-> "remove"]
LEMMA PlanParts ==
  ASSUME NEW P, NEW rows, PlanOK(P), \A p \in P : p.change = "add"
  PROVE  LET plan == loadSystemNEVRAsFromDB(P, rows)
         IN  /\ \A p \in P : [p EXCEPT !.change = ChangeOf(p, rows)] \in plan
             /\ \A r \in rows : (\A p \in P : p.nevra # nevraOf[r.id]) => Removal(r) \in plan
             /\ \A q \in plan :
                  \/ \E p \in P : q = [p EXCEPT !.change = ChangeOf(p, rows)]
                  \/ \E r \in rows : q = Removal(r) /\ \A p \in P : p.nevra # nevraOf[r.id]
<1> DEFINE plan == loadSystemNEVRAsFromDB(P, rows)
           G == {q \in rows : \A p \in P : p.nevra # nevraOf[q.id]}
<1>1. plan = {[p EXCEPT !.change = ChangeOf(p, rows)] : p \in P} \cup {Removal(r) : r \in G}
  BY DEF loadSystemNEVRAsFromDB, ChangeOf, Removal
<1> HIDE DEF plan
<1> QED
  BY <1>1 DEF plan

\* The comparison with the stored rows yields a plan.
LEMMA PlanFromDB ==
  ASSUME NEW P, NEW rows, PlanOK(P), \A p \in P : p.change = "add", RowsOK(rows)
  PROVE  PlanOK(loadSystemNEVRAsFromDB(P, rows))
<1> DEFINE plan == loadSystemNEVRAsFromDB(P, rows)
           c(p) == [p EXCEPT !.change = ChangeOf(p, rows)]
           A == {c(p) : p \in P}
           G == {r \in rows : \A p \in P : p.nevra # nevraOf[r.id]}
           R == {Removal(r) : r \in G}
<1>1. plan = A \cup R
  BY DEF loadSystemNEVRAsFromDB, ChangeOf, Removal
<1>2. IsFiniteSet(A)
  <2>1. [p \in P |-> c(p)] \in Surjection(P, A)
    BY DEF Surjection
  <2> HIDE DEF A
  <2> QED
    BY <2>1, FS_Surjection DEF PlanOK
<1>3. IsFiniteSet(R)
  <2>1. [r \in G |-> Removal(r)] \in Surjection(G, R)
    BY DEF Surjection
  <2>2. G \in SUBSET rows
    OBVIOUS
  <2> HIDE DEF R, G
  <2> QED
    BY <2>1, <2>2, FS_Surjection, FS_Subset DEF RowsOK
<1>4. IsFiniteSet(plan)
  <2> HIDE DEF plan, A, R
  <2> QED
    BY <1>1, <1>2, <1>3, FS_Union
<1>5. \A r : Removal(r).change = "remove" /\ Removal(r) =
        [nevra |-> Removal(r).nevra, id |-> Removal(r).id, inst |-> Removal(r).inst,
         app |-> Removal(r).app, change |-> Removal(r).change]
  BY DEF Removal
<1>6. ASSUME NEW p \in P
      PROVE  /\ c(p) = [nevra |-> c(p).nevra, id |-> c(p).id, inst |-> c(p).inst, app |-> c(p).app,
                        change |-> c(p).change]
             /\ c(p).nevra = p.nevra /\ c(p).id = p.id /\ c(p).inst = p.inst /\ c(p).app = p.app
             /\ p.id \in DOMAIN nevraOf /\ nevraOf[p.id] = p.nevra
             /\ p.inst \in DOMAIN nevraOf \cup {NIL} /\ p.app \in DOMAIN nevraOf \cup {NIL}
  <2>1. p = [nevra |-> p.nevra, id |-> p.id, inst |-> p.inst, app |-> p.app, change |-> p.change]
    BY DEF PlanOK
  <2>2. c(p) = [nevra |-> p.nevra, id |-> p.id, inst |-> p.inst, app |-> p.app,
                change |-> ChangeOf(p, rows)]
    BY <2>1
  <2> HIDE DEF c
  <2>3. /\ p.id \in DOMAIN nevraOf /\ nevraOf[p.id] = p.nevra
        /\ p.inst \in DOMAIN nevraOf \cup {NIL} /\ p.app \in DOMAIN nevraOf \cup {NIL}
    BY DEF PlanOK
  <2> QED
    BY <2>2, <2>3
<1>7. \A p, q \in P : p.nevra = q.nevra => p = q
  BY DEF PlanOK
<1> HIDE DEF c, plan
<1>8. \A q \in plan : \/ q.change = "remove" /\ \E r \in rows : q = Removal(r)
                      \/ \E p \in P : q = c(p)
  BY <1>1, <1>5
<1>9. \A q \in plan : q = [nevra |-> q.nevra, id |-> q.id, inst |-> q.inst, app |-> q.app,
                           change |-> q.change]
  BY <1>5, <1>6, <1>8
<1>10. \A q \in plan : q.change # "remove" =>
         /\ q.id \in DOMAIN nevraOf /\ nevraOf[q.id] = q.nevra
         /\ q.inst \in DOMAIN nevraOf \cup {NIL} /\ q.app \in DOMAIN nevraOf \cup {NIL}
  BY <1>6, <1>8
<1>11. \A q, r \in plan : q.change # "remove" /\ r.change # "remove" /\ q.nevra = r.nevra => q = r
  BY <1>6, <1>7, <1>8
<1> QED
  BY <1>4, <1>9, <1>10, <1>11 DEF PlanOK, plan

-----------------------------------------------------------------------------
(* The steps keep the types of the pods *)

\* The workers after a step.
LEMMA WorkersKept ==
  ASSUME WorkersInv, Grows, UNCHANGED deployment,
         profile' \in [Systems -> deployment.profiles \cup {NIL}], pending' \in [Pods -> SUBSET Systems],
         NEW W, worker' = W, W = [w \in Pods |-> W[w]], \A w \in Pods : IsWorker(W[w]),
         \A w \in Pods : \A s \in pending'[w] \cup ({W[w].sys} \ {NIL}) : profile'[s] # NIL
  PROVE  WorkersInv'
<1>1. \A w \in Pods : IsWorker(W[w])'
  BY GrowthKeeps
<1>2. \A w \in Pods : IsWorker(worker[w])'
  BY <1>1 DEF IsWorker, PlanOK
<1> QED
  BY <1>2 DEF WorkersInv

\* One worker changes, for a system with a profile.
LEMMA WorkerReplaced ==
  ASSUME WorkersInv, Grows, UNCHANGED <<deployment, profile, pending>>,
         NEW w \in Pods, NEW v, worker' = [worker EXCEPT ![w] = v], IsWorker(v),
         v.sys \in {worker[w].sys, NIL}
  PROVE  WorkersInv'
<1>1. worker = [u \in Pods |-> worker[u]] /\ \A u \in Pods : IsWorker(worker[u])
  BY DEF WorkersInv
<1>2. worker' = [u \in Pods |-> worker'[u]]
      /\ \A u \in Pods : worker'[u] = IF u = w THEN v ELSE worker[u]
  BY <1>1
<1>3. \A u \in Pods : worker'[u].sys \in {worker[u].sys, NIL}
  BY <1>2
<1>4. \A u \in Pods : \A s \in pending'[u] \cup ({worker'[u].sys} \ {NIL}) : profile'[s] # NIL
  BY <1>3 DEF WorkersInv
<1> DEFINE W == worker'
<1>5. W = [u \in Pods |-> W[u]] /\ \A u \in Pods : IsWorker(W[u])
  BY <1>1, <1>2
<1>6. \A u \in Pods : \A s \in pending'[u] \cup ({W[u].sys} \ {NIL}) : profile'[s] # NIL
  BY <1>4
<1>7. profile' \in [Systems -> deployment.profiles \cup {NIL}] /\ pending' \in [Pods -> SUBSET Systems]
  BY DEF WorkersInv
<1>8. worker' = W
  OBVIOUS
<1> HIDE DEF W
<1> QED
  BY <1>5, <1>6, <1>7, <1>8, WorkersKept

\* Workers in the same states, or with another flag.
LEMMA CleanChanges ==
  ASSUME NEW v, IsWorker(v), NEW b \in BOOLEAN
  PROVE  LET x == [v EXCEPT !.clean = b]
         IN  IsWorker(x) /\ x.sys = v.sys /\ x.pc = v.pc /\ x.list = v.list /\ x.plan = v.plan
<1> DEFINE x == [v EXCEPT !.clean = b]
<1>1. v = [pc |-> v.pc, sys |-> v.sys, list |-> v.list, plan |-> v.plan, clean |-> v.clean]
  BY DEF IsWorker
<1>2. x = [pc |-> v.pc, sys |-> v.sys, list |-> v.list, plan |-> v.plan, clean |-> b]
  BY <1>1
<1> HIDE DEF x
<1>3. x.sys = v.sys /\ x.pc = v.pc /\ x.list = v.list /\ x.plan = v.plan /\ x.clean = b
  BY <1>2
<1> QED
  BY <1>2, <1>3 DEF IsWorker, x

\* The flags of some workers change.
LEMMA FlagsChange ==
  ASSUME WorkersInv, Grows, UNCHANGED deployment,
         profile' \in [Systems -> deployment.profiles \cup {NIL}], pending' \in [Pods -> SUBSET Systems],
         NEW W, worker' = W, W = [w \in Pods |-> W[w]],
         \A w \in Pods : W[w] = worker[w] \/ \E b \in BOOLEAN : W[w] = [worker[w] EXCEPT !.clean = b],
         \A w \in Pods : \A s \in pending'[w] \cup ({worker[w].sys} \ {NIL}) : profile'[s] # NIL
  PROVE  WorkersInv'
<1>1. \A w \in Pods : IsWorker(W[w]) /\ W[w].sys = worker[w].sys
  <2> SUFFICES ASSUME NEW w \in Pods PROVE IsWorker(W[w]) /\ W[w].sys = worker[w].sys
    OBVIOUS
  <2>1. IsWorker(worker[w])
    BY DEF WorkersInv
  <2>2. CASE W[w] = worker[w]
    BY <2>1, <2>2
  <2>3. CASE \E b \in BOOLEAN : W[w] = [worker[w] EXCEPT !.clean = b]
    <3>1. PICK b \in BOOLEAN : W[w] = [worker[w] EXCEPT !.clean = b]
      BY <2>3
    <3> DEFINE x == [worker[w] EXCEPT !.clean = b]
    <3>2. IsWorker(x) /\ x.sys = worker[w].sys
      BY <2>1, CleanChanges
    <3> HIDE DEF x
    <3> QED
      BY <3>1, <3>2 DEF x
  <2> QED
    BY <2>2, <2>3
<1>2. \A w \in Pods : \A s \in pending'[w] \cup ({W[w].sys} \ {NIL}) : profile'[s] # NIL
  BY <1>1
<1>3. \A w \in Pods : IsWorker(W[w])
  BY <1>1
<1> QED
  BY <1>2, <1>3, WorkersKept

\* A pod that ends its evaluation, or is ready again.
LEMMA ReadyIsWorker == IsWorker(Ready)
  BY PackageAssumption DEF IsWorker, Ready
LEMMA EndIsWorker ==
  ASSUME NEW s \in Systems
  PROVE  LET x == [Ready EXCEPT !.pc = "invalidate", !.sys = s]
         IN  IsWorker(x) /\ x.sys = s /\ x.pc = "invalidate"
<1> DEFINE none == {}
           yes == TRUE
           y == [Ready EXCEPT !.pc = "invalidate"]
           z == [y EXCEPT !.sys = s]
           x == [Ready EXCEPT !.pc = "invalidate", !.sys = s]
<1>1. x = z
  BY Zenon
<1>r. Ready = [pc |-> "ready", sys |-> NIL, list |-> NIL, plan |-> none, clean |-> yes]
  BY DEF Ready
<1> HIDE DEF none, yes
<1>2. y = [pc |-> "invalidate", sys |-> NIL, list |-> NIL, plan |-> none, clean |-> yes]
  BY <1>r
<1> HIDE DEF x, y
<1>3. z = [pc |-> "invalidate", sys |-> s, list |-> NIL, plan |-> none, clean |-> yes]
  BY <1>2
<1> HIDE DEF z
<1>4. IsWorker(x) /\ x.sys = s /\ x.pc = "invalidate"
  BY <1>1, <1>3, PackageAssumption DEF IsWorker, yes
<1> QED
  BY <1>4 DEF x

\* A pod that begins an evaluation.
LEMMA BeginRecord ==
  ASSUME NEW s, NEW l, NEW b
  PROVE  [Ready EXCEPT !.pc = "save", !.sys = s, !.list = l, !.clean = b]
           = [pc |-> "save", sys |-> s, list |-> l, plan |-> {}, clean |-> b]
<1> DEFINE none == {}
           yes == TRUE
           y1 == [Ready EXCEPT !.pc = "save"]
           y2 == [y1 EXCEPT !.sys = s]
           y3 == [y2 EXCEPT !.list = l]
           y4 == [y3 EXCEPT !.clean = b]
<1>1. [Ready EXCEPT !.pc = "save", !.sys = s, !.list = l, !.clean = b] = y4
  BY Zenon
<1>r. Ready = [pc |-> "ready", sys |-> NIL, list |-> NIL, plan |-> none, clean |-> yes]
  BY DEF Ready
<1> HIDE DEF none, yes
<1>2. y1 = [pc |-> "save", sys |-> NIL, list |-> NIL, plan |-> none, clean |-> yes]
  BY <1>r
<1> HIDE DEF y1
<1>3. y2 = [pc |-> "save", sys |-> s, list |-> NIL, plan |-> none, clean |-> yes]
  BY <1>2
<1> HIDE DEF y2
<1>4. y3 = [pc |-> "save", sys |-> s, list |-> l, plan |-> none, clean |-> yes]
  BY <1>3
<1> HIDE DEF y3
<1>5. y4 = [pc |-> "save", sys |-> s, list |-> l, plan |-> none, clean |-> b]
  BY <1>4
<1> HIDE DEF y4
<1> QED
  BY <1>1, <1>5 DEF none
LEMMA EndsStep ==
  ASSUME WorkersInv, Grows, UNCHANGED <<deployment, profile, pending>>, NEW w \in Pods,
         worker[w].pc # "ready", Ends(w)
  PROVE  WorkersInv'
<1>1. worker[w].sys \in Systems
  BY DEF WorkersInv, IsWorker
<1> DEFINE x == [Ready EXCEPT !.pc = "invalidate", !.sys = worker[w].sys]
<1>2. IsWorker(x) /\ x.sys = worker[w].sys /\ worker' = [worker EXCEPT ![w] = x]
  BY <1>1, EndIsWorker DEF Ends
<1> HIDE DEF x
<1> QED
  BY <1>2, WorkerReplaced

\* An evaluation begins.
LEMMA BeginWorkers ==
  ASSUME TypeInv, Grows, NEW w \in Pods, NEW s \in Systems, NEW vmaas, Begin(w, s, vmaas)
  PROVE  WorkersInv'
<1> DEFINE p    == profile[s]
           V    == IF vmaas = "ok" THEN p.vmaas ELSE NIL
           list == getUpdatesData(p.yum, V, p.satellite, p.bootc)
           others == Working(s)
           bad  == [Ready EXCEPT !.pc = "invalidate", !.sys = s]
           x    == [Ready EXCEPT !.pc = "save", !.sys = s, !.list = list,
                                 !.clean = (others = {} /\ vmaas = "ok")]
           W1   == [worker EXCEPT ![w] = bad]
           W2   == [v \in Pods |-> IF v = w THEN x
                                   ELSE IF v \in others THEN [worker[v] EXCEPT !.clean = FALSE]
                                   ELSE worker[v]]
<1>1. /\ s \in pending[w] /\ pending' = [pending EXCEPT ![w] = @ \ {s}]
      /\ UNCHANGED <<deployment, profile>>
      /\ worker' = W1 \/ (list # NIL /\ worker' = W2)
  BY Zenon DEF Begin, hostVars
<1>2. /\ p # NIL /\ IsProfile(p) /\ worker = [v \in Pods |-> worker[v]]
      /\ \A v \in Pods : IsWorker(worker[v]) /\ pending[v] \subseteq Systems
  <2>1. p \in deployment.profiles /\ p # NIL
    BY <1>1 DEF TypeInv, WorkersInv
  <2> QED
    BY <2>1, PackageAssumption DEF TypeInv, WorkersInv, PackagesInv
<1>3. \A v \in Pods : \A t \in pending'[v] \cup ({worker[v].sys, s} \ {NIL}) : profile'[t] # NIL
  BY <1>1, <1>2 DEF TypeInv, WorkersInv
<1>4. /\ profile' \in [Systems -> deployment.profiles \cup {NIL}] /\ pending' \in [Pods -> SUBSET Systems]
  BY <1>1 DEF TypeInv, WorkersInv
<1>5. IsWorker(bad) /\ bad.sys = s
  BY EndIsWorker
<1>6. ASSUME list # NIL PROVE IsWorker(x) /\ x.sys = s
  <2>1. GoodList(list)
    <3>1. V \in {p.vmaas, NIL}
      OBVIOUS
    <3> HIDE DEF V, p
    <3>2. GoodList(list)
      BY <1>2, <1>6, <3>1, UpdatesDataGood
    <3> QED
      BY <3>2
  <2> DEFINE b == (others = {} /\ vmaas = "ok")
  <2>2. b \in BOOLEAN
    OBVIOUS
  <2> HIDE DEF list, b, others, p, V
  <2>3. x = [pc |-> "save", sys |-> s, list |-> list, plan |-> {}, clean |-> b]
    BY BeginRecord, Zenon DEF b
  <2> HIDE DEF x
  <2> QED
    BY <2>1, <2>2, <2>3, PackageAssumption DEF IsWorker
<1> HIDE DEF x, bad
<1>7. CASE worker' = W1
  <2> DEFINE W == W1
  <2>1. W = [v \in Pods |-> W[v]] /\ \A v \in Pods : IsWorker(W[v]) /\ W[v].sys \in {worker[v].sys, s}
    BY <1>2, <1>5
  <2> HIDE DEF W
  <2>2. \A v \in Pods : \A t \in pending'[v] \cup ({W[v].sys} \ {NIL}) : profile'[t] # NIL
    BY <1>3, <2>1
  <2>3. worker' = W
    BY <1>7 DEF W
  <2> QED
    BY <1>1, <1>4, <2>1, <2>2, <2>3, WorkersKept DEF TypeInv
<1>8. CASE list # NIL /\ worker' = W2
  <2> DEFINE W == W2
  <2>1. W = [v \in Pods |-> W[v]] /\ \A v \in Pods : IsWorker(W[v]) /\ W[v].sys \in {worker[v].sys, s}
    <3>1. W = [v \in Pods |-> W[v]]
      OBVIOUS
    <3>2. IsWorker(x) /\ x.sys = s
      BY <1>6, <1>8
    <3>3. ASSUME NEW v \in Pods PROVE IsWorker(W[v]) /\ W[v].sys \in {worker[v].sys, s}
      <4> DEFINE y == [worker[v] EXCEPT !.clean = FALSE]
      <4>1. IsWorker(y) /\ y.sys = worker[v].sys
        BY <1>2, CleanChanges
      <4>2. W[v] \in {x, y, worker[v]}
        OBVIOUS
      <4> HIDE DEF W, y
      <4> QED
        BY <1>2, <3>2, <4>1, <4>2
    <3> QED
      BY <3>1, <3>3
  <2> HIDE DEF W
  <2>2. \A v \in Pods : \A t \in pending'[v] \cup ({W[v].sys} \ {NIL}) : profile'[t] # NIL
    BY <1>3, <2>1
  <2>3. worker' = W
    BY <1>8 DEF W
  <2> QED
    BY <1>1, <1>4, <2>1, <2>2, <2>3, WorkersKept DEF TypeInv
<1> QED
  BY <1>1, <1>7, <1>8

\* The packages were saved.
LEMMA SavedWorkers ==
  ASSUME WorkersInv, Grows, NEW w \in Pods, lazySavePackages(w)
  PROVE  WorkersInv'
<1> DEFINE v == worker[w]
           x == [v EXCEPT !.pc = "load"]
<1>1. /\ v.pc = "save" /\ worker' = [worker EXCEPT ![w] = x]
      /\ UNCHANGED <<deployment, profile, pending>>
  BY DEF lazySavePackages, hostVars
<1>2. IsWorker(v) /\ v = [pc |-> v.pc, sys |-> v.sys, list |-> v.list, plan |-> v.plan, clean |-> v.clean]
  BY DEF WorkersInv, IsWorker
<1> HIDE DEF v
<1>3. x = [pc |-> "load", sys |-> v.sys, list |-> v.list, plan |-> v.plan, clean |-> v.clean]
  BY <1>2
<1> HIDE DEF x
<1>4. IsWorker(x) /\ x.sys = v.sys
  BY <1>1, <1>2, <1>3 DEF IsWorker
<1> QED
  BY <1>1, <1>4, WorkerReplaced DEF v

\* The packages were looked up.
LEMMA LoadedWorkers ==
  ASSUME TypeInv, Grows, NEW w \in Pods, loadPackages(w)
  PROVE  WorkersInv'
<1> DEFINE v == worker[w]
           s == v.sys
           plan == loadSystemNEVRAsFromDB(packagesFromUpdateList(w), stored[s])
           y == [v EXCEPT !.pc = "store"]
           x == [y EXCEPT !.plan = plan]
<1>1. v.pc = "load" /\ UNCHANGED <<deployment, profile, pending>>
  BY DEF loadPackages, hostVars
<1>2. Ends(w) \/ worker' = [worker EXCEPT ![w].pc = "store", ![w].plan = plan]
  BY DEF loadPackages
<1>3. CASE Ends(w)
  BY <1>1, <1>3, EndsStep DEF TypeInv
<1>4. CASE worker' = [worker EXCEPT ![w].pc = "store", ![w].plan = plan]
  <2>1. worker' = [worker EXCEPT ![w] = x]
    BY <1>4, Zenon
  <2>2. IsWorker(v) /\ v = [pc |-> v.pc, sys |-> v.sys, list |-> v.list, plan |-> v.plan, clean |-> v.clean]
    BY DEF TypeInv, WorkersInv, IsWorker
  <2>3. s \in Systems /\ GoodList(v.list)
    BY <1>1, <2>2 DEF IsWorker
  <2>4. PlanOK(plan)
    <3>1. PlanOK(packagesFromUpdateList(w)) /\ \A q \in packagesFromUpdateList(w) : q.change = "add"
      BY <2>3, PackagesPlan DEF TypeInv
    <3>2. RowsOK(stored[s])
      BY <2>3 DEF TypeInv, RowsInv
    <3> QED
      BY <3>1, <3>2, PlanFromDB
  <2> HIDE DEF v, plan
  <2>5. y = [pc |-> "store", sys |-> v.sys, list |-> v.list, plan |-> v.plan, clean |-> v.clean]
    BY <2>2
  <2> HIDE DEF y
  <2>6. x = [pc |-> "store", sys |-> v.sys, list |-> v.list, plan |-> plan, clean |-> v.clean]
    BY <2>5
  <2> HIDE DEF x
  <2>7. IsWorker(x) /\ x.sys = v.sys
    BY <1>1, <2>2, <2>4, <2>6 DEF IsWorker
  <2> QED
    BY <1>1, <2>1, <2>7, WorkerReplaced DEF v, TypeInv
<1> QED
  BY <1>2, <1>3, <1>4

\* Every step keeps the types of the pods.
LEMMA WorkersStep ==
  ASSUME TypeInv, [Step]_primaryVars, Grows
  PROVE  WorkersInv'
<1> USE DEF TypeInv
<1>1. /\ profile \in [Systems -> deployment.profiles \cup {NIL}]
      /\ pending \in [Pods -> SUBSET Systems]
      /\ worker = [w \in Pods |-> worker[w]] /\ \A w \in Pods : IsWorker(worker[w])
      /\ \A w \in Pods : \A s \in pending[w] \cup ({worker[w].sys} \ {NIL}) : profile[s] # NIL
  BY DEF WorkersInv
<1>2. ASSUME UNCHANGED <<deployment, profile, pending, worker>> PROVE WorkersInv'
  BY <1>2, GrowthKeeps DEF WorkersInv
<1>3. ASSUME NEW s \in Systems, NEW p \in deployment.profiles, Upload(s, p) PROVE WorkersInv'
  <2> DEFINE W == [w \in Pods |-> IF w \in Working(s) THEN [worker[w] EXCEPT !.clean = FALSE]
                                  ELSE worker[w]]
  <2>1. /\ profile' = [profile EXCEPT ![s] = p] /\ worker' = W /\ UNCHANGED deployment
        /\ pending' = [pending EXCEPT ![UploadPod] = @ \cup {s}]
    BY <1>3 DEF Upload
  <2>2. p # NIL
    BY PackageAssumption DEF PackagesInv
  <2>3. W = [w \in Pods |-> W[w]] /\
        \A w \in Pods : W[w] = worker[w] \/ \E b \in BOOLEAN : W[w] = [worker[w] EXCEPT !.clean = b]
    OBVIOUS
  <2> HIDE DEF W
  <2>4. /\ profile' \in [Systems -> deployment.profiles \cup {NIL}]
        /\ pending' \in [Pods -> SUBSET Systems]
        /\ \A w \in Pods : \A t \in pending'[w] \cup ({worker[w].sys} \ {NIL}) : profile'[t] # NIL
    <3>1. profile' \in [Systems -> deployment.profiles \cup {NIL}] /\ pending' \in [Pods -> SUBSET Systems]
      BY <1>1, <2>1, PackageAssumption
    <3>2. \A t \in Systems : t = s \/ profile[t] # NIL => profile'[t] # NIL
      BY <1>1, <2>1, <2>2
    <3>3. \A w \in Pods : worker[w].sys \in Systems \cup {NIL}
      BY <1>1 DEF IsWorker
    <3>4. \A w \in Pods : pending'[w] \subseteq pending[w] \cup {s} /\ pending[w] \subseteq Systems
      BY <1>1, <2>1
    <3> QED
      BY <1>1, <3>1, <3>2, <3>3, <3>4
  <2> QED
    BY <2>1, <2>3, <2>4, FlagsChange
<1>4. ASSUME NEW w \in Pods, NEW s \in Systems, Recalc(w, s) PROVE WorkersInv'
  <2>1. /\ profile[s] # NIL /\ pending' = [pending EXCEPT ![w] = @ \cup {s}]
        /\ UNCHANGED <<deployment, profile, worker>>
    BY <1>4 DEF Recalc, hostVars
  <2>2. pending' \in [Pods -> SUBSET Systems] /\ \A v \in Pods : pending'[v] \subseteq pending[v] \cup {s}
    BY <1>1, <2>1
  <2> QED
    BY <1>1, <2>1, <2>2, GrowthKeeps DEF WorkersInv
<1>5. ASSUME NEW s \in Systems, MarkStale(s) PROVE WorkersInv'
  BY <1>2, <1>5 DEF MarkStale
<1>6. ASSUME NEW w \in Pods, evaluateAndStore(w) \/ StoreRefused(w) PROVE WorkersInv'
  <2>1. /\ Ends(w) /\ worker[w].pc # "ready" /\ UNCHANGED <<deployment, profile, pending>>
    BY <1>6 DEF evaluateAndStore, StoreRefused, hostVars
  <2> QED
    BY <2>1, EndsStep
<1>7. ASSUME NEW w \in Pods, invalidateCaches(w) PROVE WorkersInv'
  <2>1. worker' = [worker EXCEPT ![w] = Ready] /\ UNCHANGED <<deployment, profile, pending>>
    BY <1>7 DEF invalidateCaches, hostVars
  <2>2. Ready.sys = NIL
    BY DEF Ready
  <2> QED
    BY <2>1, <2>2, ReadyIsWorker, WorkerReplaced
<1>8. ASSUME NEW w \in Pods, Restart(w) PROVE WorkersInv'
  <2> DEFINE W == [worker EXCEPT ![w] = Ready]
  <2>1. /\ worker' = W /\ UNCHANGED <<deployment, profile>>
        /\ pending' = [pending EXCEPT ![w] = IF worker[w].pc = "ready" THEN @ ELSE @ \cup {worker[w].sys}]
    BY <1>8 DEF Restart, hostVars
  <2>2. Ready.sys = NIL
    BY DEF Ready
  <2>3. /\ W = [v \in Pods |-> W[v]]
        /\ \A v \in Pods : IsWorker(W[v]) /\ W[v].sys \in {worker[v].sys, NIL}
    BY <1>1, <2>2, ReadyIsWorker
  <2> HIDE DEF W
  <2>4. worker[w].pc = "ready" \/ worker[w].sys \in Systems \ {NIL}
    BY <1>1 DEF IsWorker
  <2>5. /\ pending' \in [Pods -> SUBSET Systems]
        /\ \A v \in Pods : pending'[v] \subseteq pending[v] \cup ({worker[v].sys} \ {NIL})
    BY <1>1, <2>1, <2>4
  <2>6. \A v \in Pods : \A s \in pending'[v] \cup ({W[v].sys} \ {NIL}) : profile'[s] # NIL
    BY <1>1, <2>1, <2>3, <2>5
  <2> QED
    BY <1>1, <2>1, <2>3, <2>5, <2>6, WorkersKept
<1>9. ASSUME NEW w \in Pods, NEW i \in DOMAIN nevraOf, Evict(w, i) PROVE WorkersInv'
  <2> DEFINE b == worker[w].clean /\ ~(worker[w].pc = "load" /\ i \notin package)
             x == [worker[w] EXCEPT !.clean = b]
  <2>1. worker' = [worker EXCEPT ![w] = x] /\ UNCHANGED <<deployment, profile, pending>>
    BY <1>9, Zenon DEF Evict, hostVars
  <2>2. IsWorker(worker[w]) /\ b \in BOOLEAN
    BY <1>1
  <2> HIDE DEF b
  <2>3. IsWorker(x) /\ x.sys = worker[w].sys
    BY <2>2, CleanChanges
  <2> HIDE DEF x
  <2> QED
    BY <2>1, <2>3, WorkerReplaced
<1>10. ASSUME NEW D \in SUBSET package, deleteUnusedPackages(D) PROVE WorkersInv'
  <2> DEFINE W == [w \in Pods |->
                     IF worker[w].pc = "load" /\ {nevraOf[i] : i \in D} \cap NevrasOf(worker[w].list) # {}
                     THEN [worker[w] EXCEPT !.clean = FALSE] ELSE worker[w]]
  <2>1. worker' = W /\ UNCHANGED <<deployment, profile, pending>>
    BY <1>10 DEF deleteUnusedPackages, hostVars
  <2>2. W = [w \in Pods |-> W[w]] /\
        \A w \in Pods : W[w] = worker[w] \/ \E b \in BOOLEAN : W[w] = [worker[w] EXCEPT !.clean = b]
    OBVIOUS
  <2> HIDE DEF W
  <2> QED
    BY <1>1, <2>1, <2>2, FlagsChange
<1>11. ASSUME NEW page \in PkgListPages, syncPackages(page) PROVE WorkersInv'
  BY <1>2, <1>11 DEF syncPackages, hostVars
<1>12. CASE RefreshStep
  BY <1>2, <1>12, RefreshFrame DEF hostVars
<1>13. CASE UNCHANGED primaryVars
  BY <1>2, <1>13 DEF primaryVars, hostVars
<1>14. ASSUME NEW w \in Pods, NEW s \in Systems, NEW x, Begin(w, s, x) PROVE WorkersInv'
  BY <1>14, BeginWorkers
<1>15. ASSUME NEW w \in Pods, lazySavePackages(w) PROVE WorkersInv'
  BY <1>15, SavedWorkers
<1>16. ASSUME NEW w \in Pods, loadPackages(w) PROVE WorkersInv'
  BY <1>16, LoadedWorkers
<1> QED
  BY <1>3, <1>4, <1>5, <1>6, <1>7, <1>8, <1>9, <1>10, <1>11, <1>12, <1>13, <1>14, <1>15, <1>16,
     NextSteps

-----------------------------------------------------------------------------
(* The steps keep the rows of the systems *)

\* The rows that a plan writes, and those that it leaves.
NewRow(p) == [id |-> p.id, inst |-> p.inst, app |-> p.app]
NewRows(plan) == {NewRow(p) : p \in {q \in plan : q.change \in {"add", "update"}}}
LEMMA UpdatedRows ==
  ASSUME NEW rows, NEW plan
  PROVE  \A r : r \in updateSystemPackages(rows, plan) <=>
           \/ r \in NewRows(plan)
           \/ /\ r \in rows /\ \A p \in plan : p.change = "remove" => p.id # r.id
              /\ \A n \in NewRows(plan) : n.id # r.id
<1> DEFINE removed == {p.id : p \in {q \in plan : q.change = "remove"}}
<1>1. updateSystemPackages(rows, plan) =
        {r \in rows : r.id \notin removed /\ \A n \in NewRows(plan) : n.id # r.id} \cup NewRows(plan)
  BY DEF updateSystemPackages, NewRows, NewRow
<1>2. \A r : r.id \notin removed <=> \A p \in plan : p.change = "remove" => p.id # r.id
  OBVIOUS
<1> HIDE DEF removed
<1> QED
  BY <1>1, <1>2

\* What is written refers to packages of the table, by one row for an id.
LEMMA NewRowsOK ==
  ASSUME NEW plan, PlanOK(plan), Written(plan) \subseteq package
  PROVE  /\ RowsOK(NewRows(plan))
         /\ \A r \in NewRows(plan) : {r.id, r.inst, r.app} \subseteq package \cup {NIL}
<1> DEFINE A == {q \in plan : q.change \in {"add", "update"}}
           N == NewRows(plan)
<1>1. N = {NewRow(p) : p \in A}
  BY DEF NewRows
<1>2. ASSUME NEW p \in A
      PROVE  /\ p.id \in DOMAIN nevraOf /\ nevraOf[p.id] = p.nevra
             /\ p.inst \in DOMAIN nevraOf \cup {NIL} /\ p.app \in DOMAIN nevraOf \cup {NIL}
             /\ {p.id, p.inst, p.app} \subseteq package \cup {NIL}
  <2>1. p \in plan /\ p.change # "remove"
    BY <1>2
  <2> DEFINE U == UNION {{q.id, q.inst, q.app} : q \in A}
  <2>2. {p.id, p.inst, p.app} \subseteq U
    BY <1>2
  <2>u. Written(plan) = U \ {NIL}
    BY DEF Written
  <2> HIDE DEF U
  <2>3. {p.id, p.inst, p.app} \subseteq package \cup {NIL}
    BY <2>2, <2>u
  <2> QED
    BY <2>1, <2>3 DEF PlanOK
<1>3. \A p, q \in A : p.id = q.id => p = q
  <2>1. \A p, q \in A : p.nevra = q.nevra => p = q
    BY DEF PlanOK
  <2> HIDE DEF A
  <2> QED
    BY <1>2, <2>1
<1>4. IsFiniteSet(A)
  BY FS_Subset DEF PlanOK
<1> HIDE DEF A, N
<1>5. IsFiniteSet(N)
  <2>1. [p \in A |-> NewRow(p)] \in Surjection(A, N)
    BY <1>1 DEF Surjection
  <2> QED
    BY <1>4, <2>1, FS_Surjection
<1>6. \A p : /\ NewRow(p) = [id |-> NewRow(p).id, inst |-> NewRow(p).inst, app |-> NewRow(p).app]
             /\ NewRow(p).id = p.id /\ NewRow(p).inst = p.inst /\ NewRow(p).app = p.app
  BY DEF NewRow
<1>7. \A r \in N : IsRow(r) /\ {r.id, r.inst, r.app} \subseteq package \cup {NIL}
  <2> SUFFICES ASSUME NEW r \in N PROVE IsRow(r) /\ {r.id, r.inst, r.app} \subseteq package \cup {NIL}
    OBVIOUS
  <2>1. PICK p \in A : r = NewRow(p)
    BY <1>1
  <2>2. r = [id |-> r.id, inst |-> r.inst, app |-> r.app] /\ r.id = p.id /\ r.inst = p.inst /\ r.app = p.app
    BY <1>6, <2>1
  <2> QED
    BY <1>2, <2>2 DEF IsRow
<1>8. \A q, r \in N : q.id = r.id => q = r
  <2> SUFFICES ASSUME NEW q \in N, NEW r \in N, q.id = r.id PROVE q = r
    OBVIOUS
  <2>1. PICK p1 \in A, p2 \in A : q = NewRow(p1) /\ r = NewRow(p2)
    BY <1>1
  <2>2. p1.id = p2.id
    BY <1>6, <2>1
  <2> QED
    BY <1>3, <2>1, <2>2
<1> QED
  BY <1>5, <1>7, <1>8 DEF RowsOK, N

\* Storing keeps the rows of the system.
LEMMA UpdatedRowsOK ==
  ASSUME NEW rows, NEW plan, RowsOK(rows), PlanOK(plan), Written(plan) \subseteq package,
         \A r \in rows : {r.id, r.inst, r.app} \subseteq package \cup {NIL}
  PROVE  LET x == updateSystemPackages(rows, plan)
         IN  RowsOK(x) /\ \A r \in x : {r.id, r.inst, r.app} \subseteq package \cup {NIL}
<1> DEFINE x == updateSystemPackages(rows, plan)
           N == NewRows(plan)
<1>1. \A r \in x : r \in N \/ (r \in rows /\ \A n \in N : n.id # r.id)
  BY UpdatedRows
<1>2. RowsOK(N) /\ \A r \in N : {r.id, r.inst, r.app} \subseteq package \cup {NIL}
  BY NewRowsOK
<1> HIDE DEF x, N
<1>3. IsFiniteSet(x)
  <2>1. IsFiniteSet(rows \cup N)
    BY <1>2, FS_Union DEF RowsOK
  <2>2. x \in SUBSET (rows \cup N)
    BY <1>1
  <2> QED
    BY <2>1, <2>2, FS_Subset
<1>4. \A r \in x : IsRow(r) /\ {r.id, r.inst, r.app} \subseteq package \cup {NIL}
  BY <1>1, <1>2 DEF RowsOK
<1>5. \A q, r \in x : q.id = r.id => q = r
  BY <1>1, <1>2 DEF RowsOK
<1> QED
  BY <1>3, <1>4, <1>5 DEF RowsOK, x

\* Rows that no step touches.
LEMMA RowsKept ==
  ASSUME RowsInv, Grows, UNCHANGED resultVars,
         \A s \in Systems : \A r \in stored[s] : {r.id, r.inst, r.app} \subseteq package' \cup {NIL}
  PROVE  RowsInv'
<1>1. stored' = stored /\ patch' = patch
  BY DEF resultVars
<1>2. \A s \in Systems : RowsOK(stored[s])'
  <2>1. \A s \in Systems : RowsOK(stored[s])
    BY DEF RowsInv
  <2> QED
    BY <1>1, <2>1 DEF Grows, RowsOK, IsRow
<1> QED
  BY <1>1, <1>2 DEF RowsInv

\* The transaction.
LEMMA StoredRows ==
  ASSUME TypeInv, NEW w \in Pods, evaluateAndStore(w)
  PROVE  RowsInv'
<1> DEFINE s == worker[w].sys
           plan == worker[w].plan
           x == updateSystemPackages(stored[s], plan)
           y == PatchOf(plan)
<1>1. /\ worker[w].pc = "store" /\ Written(plan) \subseteq package
      /\ stored' = [stored EXCEPT ![s] = x] /\ patch' = [patch EXCEPT ![s] = y]
      /\ UNCHANGED <<nevraOf, package>>
  BY DEF evaluateAndStore, pkgVars
<1>2. PlanOK(plan) /\ s \in Systems
  BY <1>1 DEF TypeInv, WorkersInv, IsWorker
<1>3. /\ stored = [t \in Systems |-> stored[t]] /\ patch = [t \in Systems |-> patch[t]]
      /\ \A t \in Systems :
           RowsOK(stored[t]) /\ \A r \in stored[t] : {r.id, r.inst, r.app} \subseteq package \cup {NIL}
  BY DEF TypeInv, RowsInv
<1>4. RowsOK(x) /\ \A r \in x : {r.id, r.inst, r.app} \subseteq package \cup {NIL}
  BY <1>1, <1>2, <1>3, UpdatedRowsOK
<1> HIDE DEF x, y, plan
<1>5. \A t \in Systems : stored'[t] = IF t = s THEN x ELSE stored[t]
  BY <1>1, <1>3
<1>6. \A t \in Systems : RowsOK(stored[t])'
  <2>1. \A t \in Systems : RowsOK(stored'[t])
    BY <1>3, <1>4, <1>5
  <2> QED
    BY <1>1, <2>1 DEF RowsOK, IsRow
<1>7. \A t \in Systems : \A r \in stored'[t] : {r.id, r.inst, r.app} \subseteq package' \cup {NIL}
  BY <1>1, <1>3, <1>4, <1>5
<1>8. stored' = [t \in Systems |-> stored'[t]] /\ patch' = [t \in Systems |-> patch'[t]]
  BY <1>1, <1>3
<1> QED
  BY <1>6, <1>7, <1>8 DEF RowsInv

\* Every step keeps them.
LEMMA RowsStep ==
  ASSUME TypeInv, [Step]_primaryVars, Grows
  PROVE  RowsInv'
<1> USE DEF TypeInv
<1>1. ASSUME UNCHANGED resultVars, package \subseteq package' PROVE RowsInv'
  BY <1>1, RowsKept DEF RowsInv
<1>2. ASSUME NEW w \in Pods, lazySavePackages(w) PROVE RowsInv'
  BY <1>1, <1>2 DEF lazySavePackages
<1>3. ASSUME NEW page \in PkgListPages, syncPackages(page) PROVE RowsInv'
  BY <1>1, <1>3 DEF syncPackages, storePkgListData, storeOrUpdate
<1>4. ASSUME NEW w \in Pods, evaluateAndStore(w) PROVE RowsInv'
  BY <1>4, StoredRows
<1>5. ASSUME NEW D \in SUBSET package, deleteUnusedPackages(D) PROVE RowsInv'
  <2>1. D \subseteq package \ (synced \cup Referenced) /\ package' = package \ D /\ UNCHANGED resultVars
    BY <1>5 DEF deleteUnusedPackages
  <2>2. \A s \in Systems : \A r \in stored[s] : {r.id, r.inst, r.app} \subseteq Referenced
    BY DEF Referenced
  <2>3. \A s \in Systems : \A r \in stored[s] : {r.id, r.inst, r.app} \subseteq package' \cup {NIL}
    BY <2>1, <2>2 DEF RowsInv
  <2> QED
    BY <2>1, <2>3, RowsKept
<1>6. ASSUME NEW w \in Pods, loadPackages(w) \/ StoreRefused(w) \/ invalidateCaches(w) \/ Restart(w)
      PROVE  RowsInv'
  BY <1>1, <1>6 DEF loadPackages, StoreRefused, invalidateCaches, Restart, pkgVars
<1>7. ASSUME NEW w \in Pods, NEW s \in Systems, NEW x,
             Recalc(w, s) \/ Begin(w, s, x) \/ Upload(s, x) \/ MarkStale(s) \/ Evict(w, x)
      PROVE  UNCHANGED <<pkgVars, resultVars>>
  BY <1>7 DEF Upload, Recalc, MarkStale, Begin, Evict
<1>8. ASSUME UNCHANGED <<pkgVars, resultVars>> PROVE RowsInv'
  BY <1>1, <1>8 DEF pkgVars
<1>9. CASE RefreshStep
  BY <1>8, <1>9, RefreshFrame
<1>10. CASE UNCHANGED primaryVars
  BY <1>8, <1>10 DEF primaryVars, pkgVars, resultVars
<1>11. ASSUME NEW w \in Pods, NEW i \in DOMAIN nevraOf, Evict(w, i) PROVE RowsInv'
  BY <1>8, <1>11 DEF Evict
<1>12. Pods # {}
  BY PackageAssumption
<1> QED
  BY <1>2, <1>3, <1>4, <1>5, <1>6, <1>7, <1>8, <1>9, <1>10, <1>11, <1>12, NextSteps

-----------------------------------------------------------------------------
(* The refresh of the counts *)

\* The record of a refresh that is between two accounts.
LEMMA NextRecord ==
  ASSUME NEW A
  PROVE  [IdleRefresh EXCEPT !.pc = "next", !.accs = A]
           = [pc |-> "next", accs |-> A, acc |-> NIL, counts |-> NIL, dirty |-> FALSE]
<1> DEFINE none == {}
           no == FALSE
           y1 == [IdleRefresh EXCEPT !.pc = "next"]
           y2 == [y1 EXCEPT !.accs = A]
<1>1. [IdleRefresh EXCEPT !.pc = "next", !.accs = A] = y2
  BY Zenon
<1>2. IdleRefresh = [pc |-> "idle", accs |-> none, acc |-> NIL, counts |-> NIL, dirty |-> no]
  BY DEF IdleRefresh
<1> HIDE DEF none, no
<1>3. y1 = [pc |-> "next", accs |-> none, acc |-> NIL, counts |-> NIL, dirty |-> no]
  BY <1>2
<1> HIDE DEF y1
<1>4. y2 = [pc |-> "next", accs |-> A, acc |-> NIL, counts |-> NIL, dirty |-> no]
  BY <1>3
<1> HIDE DEF y2
<1> QED
  BY <1>1, <1>4 DEF no

\* And of one that has counted the rows of an account.
LEMMA CountedRecord ==
  ASSUME IsRefresh(refresh), NEW a, RefreshCounts(a)
  PROVE  /\ refresh' = [pc |-> "update", accs |-> refresh.accs \ {a}, acc |-> a,
                        counts |-> getCounts(ReadReplica, a), dirty |-> Lagging(a)]
         /\ refresh.pc = "next" /\ UNCHANGED <<valid, missed, counts>>
<1> DEFINE r == refresh
           A == refresh.accs \ {a}
           c == getCounts(ReadReplica, a)
           d == Lagging(a)
           y1 == [r EXCEPT !.pc = "update"]
           y2 == [y1 EXCEPT !.accs = A]
           y3 == [y2 EXCEPT !.acc = a]
           y4 == [y3 EXCEPT !.counts = c]
           y5 == [y4 EXCEPT !.dirty = d]
<1>1. refresh' = y5 /\ refresh.pc = "next" /\ UNCHANGED <<valid, missed, counts>>
  BY Zenon DEF RefreshCounts
<1>2. r = [pc |-> r.pc, accs |-> r.accs, acc |-> r.acc, counts |-> r.counts, dirty |-> r.dirty]
  BY DEF IsRefresh
<1> HIDE DEF A, c, d
<1>3. y1 = [pc |-> "update", accs |-> r.accs, acc |-> r.acc, counts |-> r.counts, dirty |-> r.dirty]
  BY <1>2
<1> HIDE DEF y1
<1>4. y2 = [pc |-> "update", accs |-> A, acc |-> r.acc, counts |-> r.counts, dirty |-> r.dirty]
  BY <1>3
<1> HIDE DEF y2
<1>5. y3 = [pc |-> "update", accs |-> A, acc |-> a, counts |-> r.counts, dirty |-> r.dirty]
  BY <1>4
<1> HIDE DEF y3
<1>6. y4 = [pc |-> "update", accs |-> A, acc |-> a, counts |-> c, dirty |-> r.dirty]
  BY <1>5
<1> HIDE DEF y4
<1>7. y5 = [pc |-> "update", accs |-> A, acc |-> a, counts |-> c, dirty |-> d]
  BY <1>6
<1> HIDE DEF y5
<1>8. refresh' = [pc |-> "update", accs |-> A, acc |-> a, counts |-> c, dirty |-> d]
  BY <1>1, <1>7
<1> QED
  BY <1>1, <1>8 DEF A, c, d

\* One field changes.
LEMMA RefreshFields ==
  ASSUME NEW r, IsRefresh(r), NEW pc, NEW d
  PROVE  /\ [r EXCEPT !.pc = pc]
              = [pc |-> pc, accs |-> r.accs, acc |-> r.acc, counts |-> r.counts, dirty |-> r.dirty]
         /\ [r EXCEPT !.dirty = d]
              = [pc |-> r.pc, accs |-> r.accs, acc |-> r.acc, counts |-> r.counts, dirty |-> d]
         /\ [r EXCEPT !.pc = pc, !.dirty = d]
              = [pc |-> pc, accs |-> r.accs, acc |-> r.acc, counts |-> r.counts, dirty |-> d]
<1> DEFINE y1 == [r EXCEPT !.pc = pc]
           y2 == [y1 EXCEPT !.dirty = d]
<1>1. r = [pc |-> r.pc, accs |-> r.accs, acc |-> r.acc, counts |-> r.counts, dirty |-> r.dirty]
  BY DEF IsRefresh
<1>2. [r EXCEPT !.pc = pc, !.dirty = d] = y2
  BY Zenon
<1>3. y1 = [pc |-> pc, accs |-> r.accs, acc |-> r.acc, counts |-> r.counts, dirty |-> r.dirty]
  BY <1>1
<1>4. [r EXCEPT !.dirty = d]
        = [pc |-> r.pc, accs |-> r.accs, acc |-> r.acc, counts |-> r.counts, dirty |-> d]
  BY <1>1
<1> HIDE DEF y1
<1>5. y2 = [pc |-> pc, accs |-> r.accs, acc |-> r.acc, counts |-> r.counts, dirty |-> d]
  BY <1>3
<1> HIDE DEF y2
<1> QED
  BY <1>2, <1>3, <1>4, <1>5 DEF y1

\* Between two accounts or idle.
LEMMA NextAccountIs ==
  ASSUME IsRefresh(refresh)
  PROVE  /\ IsRefresh(NextAccount) /\ NextAccount.pc \in {"idle", "next"}
         /\ IsRefresh(IdleRefresh) /\ IdleRefresh.pc = "idle"
<1>1. IsRefresh(IdleRefresh) /\ IdleRefresh.pc = "idle"
  BY DEF IsRefresh, IdleRefresh
<1> DEFINE x == [IdleRefresh EXCEPT !.pc = "next", !.accs = refresh.accs]
<1>2. x = [pc |-> "next", accs |-> refresh.accs, acc |-> NIL, counts |-> NIL, dirty |-> FALSE]
  BY NextRecord
<1>3. NextAccount = IdleRefresh \/ NextAccount = x
  BY DEF NextAccount
<1> HIDE DEF x
<1>4. IsRefresh(x) /\ x.pc = "next"
  BY <1>2 DEF IsRefresh
<1> QED
  BY <1>1, <1>3, <1>4

\* How a step changes the refresh: not at all, only its flag, or as one of its steps.
Marked == \E b \in BOOLEAN : refresh' = [refresh EXCEPT !.dirty = b]
LEMMA RefreshChange ==
  ASSUME TypeInv, Step, ~RefreshStep
  PROVE  UNCHANGED counts /\ (UNCHANGED refresh \/ Marked)
<1>1. refresh.dirty \in BOOLEAN
  BY DEF TypeInv, RefreshInv, IsRefresh
<1>2. ASSUME NEW s \in Systems, NEW x, Upload(s, x) \/ MarkStale(s)
      PROVE  UNCHANGED counts /\ (UNCHANGED refresh \/ Marked)
  <2>1. UNCHANGED counts /\ (UNCHANGED refresh \/
          refresh' = [refresh EXCEPT !.dirty = @ \/ refresh.acc = Account[s]])
    BY <1>2 DEF Upload, MarkStale, StaleChanged
  <2> DEFINE b == refresh.dirty \/ refresh.acc = Account[s]
  <2>2. b \in BOOLEAN
    BY <1>1
  <2>3. UNCHANGED refresh \/ refresh' = [refresh EXCEPT !.dirty = b]
    BY <2>1
  <2> HIDE DEF b
  <2> QED
    BY <2>1, <2>2, <2>3 DEF Marked
<1>3. ASSUME NEW w \in Pods, NEW s \in Systems, NEW x,
             \/ Recalc(w, s) \/ Begin(w, s, x) \/ lazySavePackages(w) \/ loadPackages(w)
             \/ StoreRefused(w) \/ invalidateCaches(w) \/ Restart(w) \/ Evict(w, x)
      PROVE  UNCHANGED refreshVars
  BY <1>3 DEF Recalc, Begin, lazySavePackages, loadPackages, StoreRefused, invalidateCaches,
              Restart, Evict
<1>4. ASSUME NEW x, syncPackages(x) \/ deleteUnusedPackages(x) PROVE UNCHANGED refreshVars
  BY <1>4 DEF syncPackages, deleteUnusedPackages
<1>5. ASSUME NEW w \in Pods, evaluateAndStore(w)
      PROVE  UNCHANGED counts /\ (UNCHANGED refresh \/ Marked)
  BY <1>5 DEF evaluateAndStore, Marked
<1>6. Step =>
        \/ \E s \in Systems, x \in deployment.profiles : Upload(s, x)
        \/ \E s \in Systems : MarkStale(s)
        \/ \E w \in Pods : evaluateAndStore(w)
        \/ UNCHANGED refreshVars \/ RefreshStep
  <2>1. ASSUME NEW w \in Pods, lazySavePackages(w) \/ loadPackages(w) \/ StoreRefused(w)
                              \/ invalidateCaches(w) \/ Restart(w)
        PROVE  UNCHANGED refreshVars
    BY <2>1 DEF lazySavePackages, loadPackages, StoreRefused, invalidateCaches, Restart
  <2>2. ASSUME NEW w \in Pods, NEW x, Evict(w, x) PROVE UNCHANGED refreshVars
    BY <2>2 DEF Evict
  <2> QED
    BY <1>3, <1>4, <2>1, <2>2, NextSteps
<1> QED
  BY <1>2, <1>5, <1>6 DEF refreshVars

\* Every step keeps the types of the refresh, and of the accounts and systems that the
\* ghosts name.
LEMMA RefreshTypes ==
  ASSUME TypeInv, [Step]_primaryVars
  PROVE  RefreshInv'
<1>0. IsRefresh(refresh) /\ counts = [a \in Accounts |-> counts[a]]
  BY DEF TypeInv, RefreshInv
<1>1. ASSUME Marked PROVE IsRefresh(refresh')
  <2>1. PICK b \in BOOLEAN : refresh' = [refresh EXCEPT !.dirty = b]
    BY <1>1 DEF Marked
  <2>2. refresh' = [pc |-> refresh.pc, accs |-> refresh.accs, acc |-> refresh.acc,
                    counts |-> refresh.counts, dirty |-> b]
    BY <1>0, <2>1, RefreshFields
  <2> QED
    BY <1>0, <2>2 DEF IsRefresh
<1>2. ASSUME NEW accs \in SUBSET Accounts, accountsWithoutCache(accs)
      PROVE  IsRefresh(refresh') /\ UNCHANGED counts
  <2>1. refresh' = [pc |-> "next", accs |-> accs, acc |-> NIL, counts |-> NIL, dirty |-> FALSE]
        /\ UNCHANGED counts
    BY <1>2, NextRecord, Zenon DEF accountsWithoutCache
  <2> QED
    BY <2>1 DEF IsRefresh
<1>3. ASSUME NEW a \in Accounts, RefreshCounts(a)
      PROVE  IsRefresh(refresh') /\ UNCHANGED counts
  <2> DEFINE A == refresh.accs \ {a}
             c == getCounts(ReadReplica, a)
             d == Lagging(a)
  <2>1. refresh' = [pc |-> "update", accs |-> A, acc |-> a, counts |-> c, dirty |-> d]
        /\ UNCHANGED counts
    BY <1>0, <1>3, CountedRecord
  <2>2. A \subseteq Accounts /\ d \in BOOLEAN
    BY <1>0 DEF IsRefresh, Lagging
  <2> HIDE DEF A, c, d
  <2> QED
    BY <2>1, <2>2 DEF IsRefresh
<1>4. CASE updatePackageAccountData
  <2>1. /\ refresh.pc = "update" /\ refresh' = [refresh EXCEPT !.pc = "delete"]
        /\ counts' = [counts EXCEPT ![refresh.acc] = Upserted(@, refresh.counts)]
    BY <1>4 DEF updatePackageAccountData
  <2>2. refresh' = [pc |-> "delete", accs |-> refresh.accs, acc |-> refresh.acc,
                    counts |-> refresh.counts, dirty |-> refresh.dirty]
    BY <1>0, <2>1, RefreshFields
  <2>3. IsRefresh(refresh')
    BY <1>0, <2>1, <2>2 DEF IsRefresh
  <2>4. counts' = [a \in Accounts |-> counts'[a]]
    BY <1>0, <2>1
  <2> QED
    BY <2>3, <2>4 DEF RefreshInv, IsRefresh
<1>5. CASE deleteOldCache
  <2> DEFINE d == refresh.dirty \/ (refresh.counts = NoRows /\ counts[refresh.acc] # NoRows)
  <2>1. /\ refresh.pc = "delete" /\ refresh' = [refresh EXCEPT !.pc = "valid", !.dirty = d]
        /\ counts' = counts \/ counts' = [counts EXCEPT ![refresh.acc] = refresh.counts]
    BY <1>5, Zenon DEF deleteOldCache
  <2>2. d \in BOOLEAN
    BY <1>0 DEF IsRefresh
  <2> HIDE DEF d
  <2>3. refresh' = [pc |-> "valid", accs |-> refresh.accs, acc |-> refresh.acc,
                    counts |-> refresh.counts, dirty |-> d]
    BY <1>0, <2>1, RefreshFields
  <2>4. IsRefresh(refresh')
    BY <1>0, <2>1, <2>2, <2>3 DEF IsRefresh
  <2>5. counts' = [a \in Accounts |-> counts'[a]]
    BY <1>0, <2>1
  <2> QED
    BY <2>4, <2>5 DEF RefreshInv, IsRefresh
<1>6. CASE updatePkgCacheValidity \/ RefreshFails
  <2>1. refresh' \in {NextAccount, IdleRefresh} /\ UNCHANGED counts
    BY <1>6 DEF updatePkgCacheValidity, RefreshFails
  <2>2. IsRefresh(refresh')
    BY <1>0, <2>1, NextAccountIs
  <2> QED
    BY <1>0, <2>1, <2>2 DEF RefreshInv, IsRefresh
<1>7. ASSUME IsRefresh(refresh'), UNCHANGED counts PROVE RefreshInv'
  BY <1>0, <1>7 DEF RefreshInv, IsRefresh
<1>8. CASE RefreshStep
  BY <1>2, <1>3, <1>4, <1>5, <1>6, <1>7, <1>8 DEF RefreshStep
<1>9. CASE Step /\ ~RefreshStep
  BY <1>0, <1>1, <1>7, <1>9, RefreshChange
<1>10. CASE UNCHANGED primaryVars
  BY <1>0, <1>7, <1>10 DEF primaryVars, refreshVars
<1> QED
  BY <1>8, <1>9, <1>10

-----------------------------------------------------------------------------
(* Type correctness *)

\* Every step names accounts and systems only.
LEMMA GhostsStep ==
  ASSUME TypeInv, [Step]_primaryVars
  PROVE  valid' \subseteq Accounts /\ lost' \subseteq Systems /\ missed' \subseteq Accounts
<1>1. valid \subseteq Accounts /\ lost \subseteq Systems /\ missed \subseteq Accounts
  BY DEF TypeInv
<1>2. \A s \in Systems : Account[s] \in Accounts
  BY DEF Accounts
<1>3. \A w \in Pods : worker[w].pc # "ready" => worker[w].sys \in Systems
  BY DEF TypeInv, WorkersInv, IsWorker
<1>4. ASSUME NEW s \in Systems, NEW x, Upload(s, x) \/ MarkStale(s)
      PROVE  UNCHANGED <<valid, lost>> /\ missed' \subseteq missed \cup {Account[s]}
  BY <1>4 DEF Upload, MarkStale, StaleChanged
<1>5. ASSUME NEW w \in Pods, NEW s \in Systems, NEW x, Begin(w, s, x)
      PROVE  UNCHANGED <<valid, missed>> /\ lost' \subseteq lost \cup {s}
  BY <1>5 DEF Begin
<1>6. ASSUME NEW w \in Pods, evaluateAndStore(w) \/ StoreRefused(w) \/ loadPackages(w)
      PROVE  UNCHANGED <<valid, missed>> /\ lost' \subseteq lost \cup {worker[w].sys}
             /\ worker[w].pc # "ready"
  BY <1>6 DEF evaluateAndStore, StoreRefused, loadPackages
<1>7. ASSUME NEW w \in Pods, invalidateCaches(w)
      PROVE  UNCHANGED <<lost, missed>> /\ valid' \subseteq valid
  BY <1>7 DEF invalidateCaches
<1>8. ASSUME NEW w \in Pods, NEW s, NEW x,
             Recalc(w, s) \/ lazySavePackages(w) \/ Restart(w) \/ Evict(w, x)
      PROVE  UNCHANGED <<valid, lost, missed>>
  BY <1>8 DEF Recalc, lazySavePackages, Restart, Evict
<1>9. ASSUME NEW x, syncPackages(x) \/ deleteUnusedPackages(x) PROVE UNCHANGED <<valid, lost, missed>>
  BY <1>9 DEF syncPackages, deleteUnusedPackages
<1>10. CASE RefreshStep
  <2>1. UNCHANGED lost
    BY <1>10, RefreshFrame
  <2>2. \/ UNCHANGED <<valid, missed>>
        \/ /\ refresh.pc \in {"update", "valid"}
           /\ valid' \subseteq valid \cup {refresh.acc}
           /\ missed' \subseteq missed \cup {refresh.acc}
    BY <1>10 DEF RefreshStep, accountsWithoutCache, RefreshCounts, updatePackageAccountData,
                 deleteOldCache, updatePkgCacheValidity, RefreshFails
  <2>3. refresh.pc \in {"update", "valid"} => refresh.acc \in Accounts
    BY DEF TypeInv, RefreshInv, IsRefresh
  <2> QED
    BY <1>1, <2>1, <2>2, <2>3
<1>11. CASE UNCHANGED primaryVars
  BY <1>1, <1>11 DEF primaryVars
<1> DEFINE Done == valid' \subseteq Accounts /\ lost' \subseteq Systems /\ missed' \subseteq Accounts
<1>12. ASSUME NEW s \in Systems, NEW x, Upload(s, x) \/ MarkStale(s) PROVE Done
  BY <1>1, <1>2, <1>4, <1>12
<1>13. ASSUME NEW w \in Pods, NEW s \in Systems, NEW x, Begin(w, s, x) PROVE Done
  BY <1>1, <1>5, <1>13
<1>14. ASSUME NEW w \in Pods, evaluateAndStore(w) \/ StoreRefused(w) \/ loadPackages(w) PROVE Done
  BY <1>1, <1>3, <1>6, <1>14
<1>15. ASSUME NEW w \in Pods, invalidateCaches(w) PROVE Done
  BY <1>1, <1>7, <1>15
<1>16. ASSUME NEW w \in Pods, NEW s, NEW x,
              Recalc(w, s) \/ lazySavePackages(w) \/ Restart(w) \/ Evict(w, x) PROVE Done
  BY <1>1, <1>8, <1>16
<1>17. ASSUME NEW x, syncPackages(x) \/ deleteUnusedPackages(x) PROVE Done
  BY <1>1, <1>9, <1>17
<1> HIDE DEF Done
<1>18. CASE Step
  BY <1>10, <1>12, <1>13, <1>14, <1>15, <1>16, <1>17, <1>18, NextSteps DEF Done
<1> QED
  BY <1>11, <1>18 DEF Done

\* The invariant holds at first.
LEMMA TypeInit == Init => TypeInv
<1> SUFFICES ASSUME Init PROVE TypeInv
  OBVIOUS
<1>1. PackagesInv
  <2>1. MaxID[deployment] \in Nat
    BY PackageAssumption DEF Init
  <2>2. nevraOf = <<>> /\ nevraOf \in Seq(Nevras) /\ Len(nevraOf) = 0
    BY DEF Init
  <2> QED
    BY <2>1, <2>2 DEF Init, PackagesInv, UniqueIn
<1>2. WorkersInv
  <2>1. Ready.sys = NIL
    BY DEF Ready
  <2>2. /\ profile = [s \in Systems |-> NIL] /\ pending = [w \in Pods |-> {}]
        /\ worker = [w \in Pods |-> Ready]
    BY DEF Init
  <2> QED
    BY <2>1, <2>2, ReadyIsWorker DEF WorkersInv
<1>3. RowsInv
  <2>1. IsFiniteSet({})
    BY FS_EmptySet
  <2> QED
    BY <2>1 DEF Init, RowsInv, RowsOK
<1>4. RefreshInv
  BY DEF Init, RefreshInv, IsRefresh, IdleRefresh
<1>5. valid \subseteq Accounts /\ lost \subseteq Systems /\ missed \subseteq Accounts
  BY DEF Init
<1> QED
  BY <1>1, <1>2, <1>3, <1>4, <1>5 DEF TypeInv

\* Every step keeps it.
LEMMA TypeStep == TypeInv /\ [Step]_primaryVars => TypeInv'
<1> SUFFICES ASSUME TypeInv, [Step]_primaryVars PROVE TypeInv'
  OBVIOUS
<1>1. PackagesInv' /\ Grows
  BY PackagesStep
<1>2. WorkersInv'
  BY <1>1, WorkersStep
<1>3. RowsInv'
  BY <1>1, RowsStep
<1>4. RefreshInv'
  BY RefreshTypes
<1>5. valid' \subseteq Accounts /\ lost' \subseteq Systems /\ missed' \subseteq Accounts
  BY GhostsStep
<1> QED
  BY <1>1, <1>2, <1>3, <1>4, <1>5 DEF TypeInv

\* So it is an invariant.
LEMMA TypesAlways == Spec => []TypeInv
  BY TypeInit, TypeStep, NextIsStep, PTL DEF Spec

\* A replica that shows an earlier state of the primary has its types.
LEMMA ReplicaTypes == Spec => []ReplicaInv
<1>1. Init => ReplicaInv
  BY DEF Init, ReplicaInv, Primary
<1>2. TypeInv /\ ReplicaInv /\ [Next]_vars => ReplicaInv'
  <2> SUFFICES ASSUME TypeInv, ReplicaInv, [Next]_vars PROVE ReplicaInv'
    OBVIOUS
  <2>1. CASE Replicate
    <3>1. replica' = Primary /\ stale' = stale
      BY <2>1 DEF Replicate, primaryVars
    <3>2. Primary.stale = stale /\ Primary.valid = valid
      BY DEF Primary
    <3> QED
      BY <3>1, <3>2 DEF ReplicaInv, TypeInv
  <2>2. CASE Step
    <3>1. UNCHANGED replica /\ stale' \subseteq Systems
      <4>1. ASSUME NEW s \in Systems, NEW x, Upload(s, x) \/ MarkStale(s)
            PROVE  UNCHANGED replica /\ stale' \subseteq stale \cup {s}
        BY <4>1 DEF Upload, MarkStale
      <4>2. ASSUME NEW w \in Pods, NEW s, NEW x,
                   Recalc(w, s) \/ Begin(w, s, x) \/ lazySavePackages(w) \/ loadPackages(w)
            PROVE  UNCHANGED <<replica, stale>>
        BY <4>2 DEF Recalc, Begin, lazySavePackages, loadPackages, hostVars
      <4>3. ASSUME NEW w \in Pods, NEW x,
                   \/ evaluateAndStore(w) \/ StoreRefused(w) \/ invalidateCaches(w) \/ Restart(w)
                   \/ Evict(w, x)
            PROVE  UNCHANGED <<replica, stale>>
        BY <4>3 DEF evaluateAndStore, StoreRefused, invalidateCaches, Restart, Evict, hostVars
      <4>4. ASSUME NEW x, syncPackages(x) \/ deleteUnusedPackages(x)
            PROVE  UNCHANGED <<replica, stale>>
        BY <4>4 DEF syncPackages, deleteUnusedPackages, hostVars
      <4>5. ASSUME RefreshStep PROVE UNCHANGED <<replica, stale>>
        <5>1. UNCHANGED replica
          BY <4>5 DEF RefreshStep, accountsWithoutCache, RefreshCounts, updatePackageAccountData,
                      deleteOldCache, updatePkgCacheValidity, RefreshFails
        <5> QED
          BY <4>5, <5>1, RefreshFrame DEF hostVars
      <4>6. stale \subseteq Systems
        BY DEF ReplicaInv
      <4> QED
        BY <2>2, <4>1, <4>2, <4>3, <4>4, <4>5, <4>6, NextSteps
    <3> QED
      BY <3>1 DEF ReplicaInv
  <2>3. CASE UNCHANGED vars
    BY <2>3 DEF vars, primaryVars, ReplicaInv
  <2> QED
    BY <2>1, <2>2, <2>3 DEF Next
<1> QED
  BY <1>1, <1>2, TypesAlways, PTL DEF Spec

\* What it says of the types.
LEMMA TypesGood == TypeInv /\ ReplicaInv => TypeOK
<1> SUFFICES ASSUME TypeInv, ReplicaInv PROVE TypeOK
  OBVIOUS
<1>1. ASSUME NEW n \in {nevraOf[i] : i \in package} PROVE Cardinality(IdOf(n, package)) = 1
  <2>1. PICK i \in package : nevraOf[i] = n
    OBVIOUS
  <2>2. IdOf(n, package) = {i}
    BY <2>1 DEF IdOf, TypeInv, PackagesInv, UniqueIn
  <2> QED
    BY <2>2, FS_Singleton
<1>2. \A w \in Pods : /\ cache[w] \subseteq DOMAIN nevraOf
                      /\ \A i \in cache[w] : IdOf(nevraOf[i], cache[w]) = {i}
  BY DEF TypeInv, PackagesInv, UniqueIn, IdOf
<1>3. \A w \in Pods : /\ worker[w].pc \in {"ready", "save", "load", "store", "invalidate"}
                      /\ worker[w].sys \in Systems \cup {NIL}
  BY DEF TypeInv, WorkersInv, IsWorker
<1>4. Referenced \subseteq package \cup {NIL}
  <2>1. \A r \in UNION {stored[s] : s \in Systems} : {r.id, r.inst, r.app} \subseteq package \cup {NIL}
    BY DEF TypeInv, RowsInv
  <2> QED
    BY <2>1 DEF Referenced
<1> QED
  BY <1>1, <1>2, <1>3, <1>4
     DEF TypeInv, PackagesInv, RefreshInv, IsRefresh, ReplicaInv, TypeOK

\* Type correctness: whatever the pods, the synchronization and the clean-up do to
\* it, table package holds a nevra once, a cache has one id for a nevra, and no
\* row of system_package2 refers to a package that was deleted (package_cache.go,
\* evaluate_packages.go, clean_unused_data.go).
THEOREM TypeCorrect == Spec => []TypeOK
  BY TypesAlways, ReplicaTypes, TypesGood, PTL

-----------------------------------------------------------------------------
(* The counts of the accounts *)

\* The systems that a pod evaluates or will evaluate, and the accounts of all of them.
Involves(w) == pending[w] \cup ({worker[w].sys} \ {NIL})
Busy(a) == \E w \in Pods : \E s \in Involves(w) : Account[s] = a

\* The counts of the rows in the primary.
Counted(a) == getCounts(Primary, a)

\* Valid counts are those of the rows or an evaluation will invalidate them; what the
\* refresh counted is current unless it is marked, and once it has stored old counts the
\* valid counts are not relied upon.
CountsInv ==
  /\ \A a \in valid \ missed : Busy(a) \/ counts[a] = Counted(a)
  /\ refresh.pc \in {"update", "delete", "valid"} /\ ~refresh.dirty =>
       refresh.counts = Counted(refresh.acc)
  /\ refresh.pc \in {"delete", "valid"} /\ refresh.dirty =>
       refresh.acc \notin valid \ missed \/ Busy(refresh.acc)
  /\ refresh.pc = "valid" /\ ~refresh.dirty => counts[refresh.acc] = refresh.counts

\* The counts of an account depend on the rows and the state of its systems only, however
\* many ids were added.
CountsOf(X) ==
  [installed |-> Cardinality(X), installable |-> Cardinality({x \in X : x[2].inst # NIL}),
   applicable |-> Cardinality({x \in X : x[2].inst # NIL \/ x[2].app # NIL})]
RowsOf(acc, n) == CountedRows(Primary, acc, n)
LEMMA GetCountsSame ==
  ASSUME RowsInv, Grows, NEW acc,
         \A s \in Systems : Account[s] = acc =>
           stored'[s] = stored[s] /\ patch'[s] = patch[s] /\ (s \in stale' <=> s \in stale)
  PROVE  Counted(acc)' = Counted(acc)
<1> DEFINE S == {t \in Systems : Account[t] = acc /\ t \notin stale /\ patch[t].installed > 0}
           T == {t \in Systems : Account[t] = acc /\ t \notin stale' /\ patch'[t].installed > 0}
           U == UNION {{s} \X stored[s] : s \in S}
           V == UNION {{s} \X stored'[s] : s \in T}
<1>1. S = T /\ \A s \in S : stored'[s] = stored[s]
  OBVIOUS
<1>2. \A n : /\ RowsOf(acc, n) = {x \in U : nevraOf[x[2].id][1] = n}
             /\ RowsOf(acc, n)' = {x \in V : nevraOf'[x[2].id][1] = n}
  BY DEF RowsOf, CountedRows, Primary
<1>3. \A x \in U : x[2].id \in DOMAIN nevraOf
  <2> SUFFICES ASSUME NEW x \in U PROVE x[2].id \in DOMAIN nevraOf
    OBVIOUS
  <2>1. PICK s \in Systems : x \in {s} \X stored[s]
    OBVIOUS
  <2> QED
    BY <2>1 DEF RowsInv, RowsOK, IsRow
<1>4. U = V
  BY <1>1
<1> HIDE DEF S, T, U, V
<1>5. \A x \in U : nevraOf'[x[2].id] = nevraOf[x[2].id]
  BY <1>3 DEF Grows
<1>6. \A n : RowsOf(acc, n)' = RowsOf(acc, n)
  BY <1>2, <1>4, <1>5
<1>7. /\ Counted(acc)' =
            [n \in {m \in Names : RowsOf(acc, m)' # {}} |-> CountsOf(RowsOf(acc, n)')]
      /\ Counted(acc) = [n \in {m \in Names : RowsOf(acc, m) # {}} |-> CountsOf(RowsOf(acc, n))]
  BY DEF Counted, RowsOf, getCounts, CountsOf
<1> QED
  BY <1>6, <1>7

\* A replica that shows the last rows of an account gives its counts.
LEMMA NotLagging ==
  ASSUME NEW acc, ~Lagging(acc)
  PROVE  getCounts(ReadReplica, acc) = Counted(acc)
<1> DEFINE db == ReadReplica
           S == {t \in Systems : Account[t] = acc /\ t \notin db.stale /\ db.patch[t].installed > 0}
           T == {t \in Systems : Account[t] = acc /\ t \notin stale /\ patch[t].installed > 0}
           U == UNION {{s} \X db.stored[s] : s \in S}
           V == UNION {{s} \X stored[s] : s \in T}
<1>1. \A s \in Systems : Account[s] = acc =>
        db.stored[s] = stored[s] /\ db.patch[s] = patch[s] /\ (s \in db.stale <=> s \in stale)
  BY DEF Lagging
<1>2. \A n : /\ CountedRows(db, acc, n) = {x \in U : nevraOf[x[2].id][1] = n}
             /\ RowsOf(acc, n) = {x \in V : nevraOf[x[2].id][1] = n}
  BY DEF RowsOf, CountedRows, Primary
<1> HIDE DEF db
<1>3. S = T /\ \A s \in S : db.stored[s] = stored[s]
  BY <1>1
<1>4. U = V
  BY <1>3
<1> HIDE DEF S, T, U, V
<1>5. \A n : CountedRows(db, acc, n) = RowsOf(acc, n)
  BY <1>2, <1>4
<1>6. getCounts(db, acc) = Counted(acc)
  <2> HIDE DEF db
  <2>1. /\ getCounts(db, acc) =
             [n \in {m \in Names : CountedRows(db, acc, m) # {}} |-> CountsOf(CountedRows(db, acc, n))]
        /\ Counted(acc) = [n \in {m \in Names : RowsOf(acc, m) # {}} |-> CountsOf(RowsOf(acc, n))]
    BY DEF Counted, RowsOf, getCounts, CountsOf
  <2> QED
    BY <1>5, <2>1
<1> QED
  BY <1>6 DEF db

\* An account stays busy until its counts are invalidated.
LEMMA BusyStays ==
  ASSUME TypeInv, [Step]_primaryVars, NEW a, Busy(a)
  PROVE  Busy(a)' \/ a \notin valid'
<1>1. /\ pending \in [Pods -> SUBSET Systems] /\ worker = [w \in Pods |-> worker[w]]
      /\ \A w \in Pods : worker[w].pc = "ready" <=> worker[w].sys = NIL
  BY DEF TypeInv, WorkersInv, IsWorker
<1>w. PICK w \in Pods : \E s \in Involves(w) : Account[s] = a
  BY DEF Busy
<1>2. PICK s \in Involves(w) : Account[s] = a
  BY <1>w
<1>3. (\E v \in Pods : s \in pending'[v] \/ (worker'[v].sys = s /\ s # NIL)) => Busy(a)'
  BY <1>2 DEF Busy, Involves
<1>4. s # NIL /\ (s \in pending[w] \/ worker[w].sys = s)
  BY <1>1, <1>2, PackageAssumption DEF Involves
<1>5. ASSUME \A v \in Pods : pending[v] \subseteq pending'[v] /\ worker'[v].sys = worker[v].sys
      PROVE  Busy(a)'
  BY <1>3, <1>4, <1>5
<1>6. ASSUME NEW u \in Systems, NEW p, Upload(u, p) PROVE Busy(a)'
  <2> DEFINE W == [v \in Pods |-> IF v \in Working(u) THEN [worker[v] EXCEPT !.clean = FALSE]
                                  ELSE worker[v]]
  <2>1. worker' = W /\ pending' = [pending EXCEPT ![UploadPod] = @ \cup {u}]
    BY <1>6 DEF Upload
  <2>2. \A v \in Pods : W[v].sys = worker[v].sys
    BY CleanChanges DEF TypeInv, WorkersInv
  <2> HIDE DEF W
  <2> QED
    BY <1>1, <1>5, <2>1, <2>2
<1>7. ASSUME NEW v \in Pods, NEW u \in Systems, Recalc(v, u) PROVE Busy(a)'
  BY <1>1, <1>5, <1>7 DEF Recalc
<1>8. ASSUME NEW u \in Systems, MarkStale(u) PROVE Busy(a)'
  BY <1>5, <1>8 DEF MarkStale
<1>9. ASSUME NEW v \in Pods, NEW u \in Systems, NEW vmaas, Begin(v, u, vmaas) PROVE Busy(a)'
  <2>1. /\ worker[v].pc = "ready" /\ pending' = [pending EXCEPT ![v] = @ \ {u}]
    BY <1>9 DEF Begin
  <2>2. worker'[v].sys = u /\ \A x \in Pods \ {v} : worker'[x].sys = worker[x].sys
    <3> DEFINE bad == [Ready EXCEPT !.pc = "invalidate", !.sys = u]
               p == profile[u]
               list == getUpdatesData(p.yum, IF vmaas = "ok" THEN p.vmaas ELSE NIL, p.satellite, p.bootc)
               c == (Working(u) = {} /\ vmaas = "ok")
               x == [Ready EXCEPT !.pc = "save", !.sys = u, !.list = list, !.clean = c]
               W == [y \in Pods |-> IF y = v THEN x
                                    ELSE IF y \in Working(u) THEN [worker[y] EXCEPT !.clean = FALSE]
                                    ELSE worker[y]]
    <3>1. worker' = [worker EXCEPT ![v] = bad] \/ worker' = W
      BY <1>9, Zenon DEF Begin
    <3>2. bad.sys = u
      BY EndIsWorker
    <3> HIDE DEF list, c, bad
    <3>3. x = [pc |-> "save", sys |-> u, list |-> list, plan |-> {}, clean |-> c]
      BY BeginRecord, Zenon
    <3> HIDE DEF x
    <3>4. x.sys = u
      BY <3>3
    <3>5. CASE worker' = [worker EXCEPT ![v] = bad]
      BY <1>1, <3>2, <3>5
    <3>6. CASE worker' = W
      <4>1. \A y \in Pods \ {v} : W[y].sys = worker[y].sys
        BY CleanChanges DEF TypeInv, WorkersInv
      <4> QED
        BY <3>4, <3>6, <4>1
    <3> QED
      BY <3>1, <3>5, <3>6
  <2>3. w = v => s \in pending[v]
    BY <1>1, <1>4, <2>1
  <2>4. CASE s = u /\ w = v
    BY <1>3, <1>4, <2>2, <2>4
  <2>5. CASE ~(s = u /\ w = v)
    BY <1>1, <1>3, <1>4, <2>1, <2>2, <2>3, <2>5
  <2> QED
    BY <2>4, <2>5
<1>10. ASSUME NEW v \in Pods, lazySavePackages(v) PROVE Busy(a)'
  <2> DEFINE y == [worker[v] EXCEPT !.pc = "load"]
  <2>1. worker' = [worker EXCEPT ![v] = y] /\ UNCHANGED pending
    BY <1>10 DEF lazySavePackages
  <2>2. y.sys = worker[v].sys
    BY DEF TypeInv, WorkersInv, IsWorker
  <2> HIDE DEF y
  <2> QED
    BY <1>1, <1>5, <2>1, <2>2
<1>11. ASSUME NEW v \in Pods, worker[v].pc # "ready", Ends(v), UNCHANGED pending PROVE Busy(a)'
  <2> DEFINE y == [Ready EXCEPT !.pc = "invalidate", !.sys = worker[v].sys]
  <2>1. worker' = [worker EXCEPT ![v] = y]
    BY <1>11 DEF Ends
  <2>2. worker[v].sys \in Systems
    BY <1>11 DEF TypeInv, WorkersInv, IsWorker
  <2>3. y.sys = worker[v].sys
    BY <2>2, EndIsWorker
  <2> HIDE DEF y
  <2> QED
    BY <1>1, <1>5, <1>11, <2>1, <2>3
<1>12. ASSUME NEW v \in Pods, loadPackages(v) PROVE Busy(a)'
  <2> DEFINE plan == loadSystemNEVRAsFromDB(packagesFromUpdateList(v), stored[worker[v].sys])
             z == [worker[v] EXCEPT !.pc = "store"]
             y == [z EXCEPT !.plan = plan]
  <2>1. UNCHANGED pending /\ worker[v].pc # "ready"
        /\ (Ends(v) \/ worker' = [worker EXCEPT ![v].pc = "store", ![v].plan = plan])
    BY <1>12 DEF loadPackages
  <2>2. CASE worker' = [worker EXCEPT ![v].pc = "store", ![v].plan = plan]
    <3>1. worker' = [worker EXCEPT ![v] = y]
      BY <2>2, Zenon
    <3> HIDE DEF plan
    <3>2. z.sys = worker[v].sys /\ z = [pc |-> z.pc, sys |-> z.sys, list |-> z.list, plan |-> z.plan,
                                        clean |-> z.clean]
      BY DEF TypeInv, WorkersInv, IsWorker
    <3> HIDE DEF z
    <3>3. y.sys = worker[v].sys
      BY <3>2
    <3> HIDE DEF y
    <3> QED
      BY <1>1, <1>5, <2>1, <3>1, <3>3
  <2> QED
    BY <1>11, <2>1, <2>2
<1>13. ASSUME NEW v \in Pods, evaluateAndStore(v) \/ StoreRefused(v) PROVE Busy(a)'
  BY <1>11, <1>13 DEF evaluateAndStore, StoreRefused
<1>14. ASSUME NEW v \in Pods, invalidateCaches(v) PROVE Busy(a)' \/ a \notin valid'
  <2>1. worker' = [worker EXCEPT ![v] = Ready] /\ UNCHANGED pending /\ valid' = valid \ {Account[worker[v].sys]}
    BY <1>14 DEF invalidateCaches
  <2>2. CASE s \in pending[w]
    BY <1>3, <2>1, <2>2
  <2>3. CASE worker[w].sys = s /\ w # v
    BY <1>1, <1>3, <1>4, <2>1, <2>3
  <2>4. CASE worker[w].sys = s /\ w = v
    BY <1>2, <2>1, <2>4
  <2> QED
    BY <1>4, <2>2, <2>3, <2>4
<1>15. ASSUME NEW v \in Pods, Restart(v) PROVE Busy(a)'
  <2>1. /\ worker' = [worker EXCEPT ![v] = Ready]
        /\ pending' = [pending EXCEPT ![v] = IF worker[v].pc = "ready" THEN @ ELSE @ \cup {worker[v].sys}]
    BY <1>15 DEF Restart
  <2>2. CASE s \in pending[w]
    BY <1>1, <1>3, <2>1, <2>2
  <2>3. CASE worker[w].sys = s /\ w # v
    BY <1>1, <1>3, <1>4, <2>1, <2>3
  <2>4. CASE worker[w].sys = s /\ w = v
    <3>1. s \in pending'[v]
      BY <1>1, <1>4, <2>1, <2>4
    <3> QED
      BY <1>3, <3>1
  <2> QED
    BY <1>4, <2>2, <2>3, <2>4
<1>16. ASSUME NEW v \in Pods, NEW i \in DOMAIN nevraOf, Evict(v, i) PROVE Busy(a)'
  <2> DEFINE b == worker[v].clean /\ ~(worker[v].pc = "load" /\ i \notin package)
             y == [worker[v] EXCEPT !.clean = b]
  <2>1. worker' = [worker EXCEPT ![v] = y] /\ UNCHANGED pending
    BY <1>16, Zenon DEF Evict
  <2>2. IsWorker(worker[v]) /\ b \in BOOLEAN
    BY DEF TypeInv, WorkersInv
  <2> HIDE DEF b
  <2>3. y.sys = worker[v].sys
    BY <2>2, CleanChanges
  <2> HIDE DEF y
  <2> QED
    BY <1>1, <1>5, <2>1, <2>3
<1>17. ASSUME NEW D \in SUBSET package, deleteUnusedPackages(D) PROVE Busy(a)'
  <2> DEFINE W == [v \in Pods |->
                     IF worker[v].pc = "load" /\ {nevraOf[i] : i \in D} \cap NevrasOf(worker[v].list) # {}
                     THEN [worker[v] EXCEPT !.clean = FALSE] ELSE worker[v]]
  <2>1. worker' = W /\ UNCHANGED pending
    BY <1>17 DEF deleteUnusedPackages
  <2>2. \A v \in Pods : W[v].sys = worker[v].sys
    BY CleanChanges DEF TypeInv, WorkersInv
  <2> HIDE DEF W
  <2> QED
    BY <1>5, <2>1, <2>2
<1>18. ASSUME NEW page \in PkgListPages, syncPackages(page) PROVE Busy(a)'
  BY <1>5, <1>18 DEF syncPackages
<1>19. CASE RefreshStep
  BY <1>5, <1>19, RefreshFrame
<1>20. CASE UNCHANGED primaryVars
  BY <1>5, <1>20 DEF primaryVars
<1> QED
  BY <1>6, <1>7, <1>8, <1>9, <1>10, <1>12, <1>13, <1>14, <1>15, <1>16, <1>17, <1>18, <1>19, <1>20,
     NextSteps

\* A step that counts nothing and stores no counts.
LEMMA CountsKept ==
  ASSUME TypeInv, CountsInv, [Step]_primaryVars, UNCHANGED counts,
         refresh'.pc = refresh.pc, refresh'.acc = refresh.acc, refresh'.counts = refresh.counts,
         refresh.dirty \in BOOLEAN, refresh'.dirty \in BOOLEAN, refresh.dirty => refresh'.dirty,
         ~refresh.dirty /\ refresh'.dirty => refresh.acc \in missed' \/ Busy(refresh.acc)',
         valid' \subseteq valid, missed \subseteq missed',
         \A a : \/ Counted(a)' = Counted(a)
                \/ (a \in missed' \/ Busy(a)') /\ (refresh.acc = a => refresh'.dirty)
  PROVE  CountsInv'
<1>1. \A a : Busy(a) => Busy(a)' \/ a \notin valid'
  BY BusyStays
<1>2. ASSUME NEW a \in valid' \ missed' PROVE Busy(a)' \/ counts'[a] = Counted(a)'
  BY <1>1, <1>2 DEF CountsInv
<1> DEFINE r == refresh
           acc == r.acc
<1>3. ASSUME r.pc \in {"delete", "valid"}, r'.dirty
      PROVE  acc \notin valid' \ missed' \/ Busy(acc)'
  <2>1. CASE r.dirty
    <3>1. acc \notin valid \ missed \/ Busy(acc)
      BY <1>3, <2>1 DEF CountsInv
    <3> QED
      BY <1>1, <2>1, <3>1
  <2>2. CASE ~r.dirty
    BY <1>3, <2>2
  <2> QED
    BY <2>1, <2>2
<1>7. ASSUME r.pc \in {"update", "delete", "valid"}, ~r'.dirty PROVE r'.counts = Counted(acc)'
  BY <1>7 DEF CountsInv
<1>4. r.pc = "valid" /\ ~r'.dirty => counts'[acc] = r'.counts
  BY DEF CountsInv
<1>5. \A a \in valid' \ missed' : Busy(a)' \/ counts'[a] = Counted(a)'
  BY <1>2
<1>6. /\ refresh'.pc \in {"delete", "valid"} /\ refresh'.dirty =>
           refresh'.acc \notin valid' \ missed' \/ Busy(refresh.acc)'
      /\ refresh'.pc \in {"update", "delete", "valid"} /\ ~refresh'.dirty =>
           refresh'.counts = Counted(refresh.acc)'
  BY <1>3, <1>7
<1> QED
  BY <1>4, <1>5, <1>6 DEF CountsInv

\* Putting counts over the same counts changes nothing.
LEMMA SameCounts ==
  ASSUME NEW acc
  PROVE  Upserted(Counted(acc), Counted(acc)) = Counted(acc)
<1> DEFINE f == Counted(acc)
<1>1. f = [n \in DOMAIN f |-> f[n]]
  BY DEF Counted, getCounts
<1> HIDE DEF f
<1>2. Upserted(f, f) = f
  BY <1>1 DEF Upserted
<1> QED
  BY <1>2 DEF f

\* The refresh.
LEMMA RefreshCountsStep ==
  ASSUME TypeInv, CountsInv, RefreshStep
  PROVE  CountsInv'
<1>0. IsRefresh(refresh) /\ counts = [a \in Accounts |-> counts[a]]
  BY DEF TypeInv, RefreshInv
<1>1. UNCHANGED <<deployment, pkgVars, hostVars, cache, pending, worker, resultVars, lost>>
  BY RefreshFrame
<1>2. \A a : Busy(a)' = Busy(a)
  BY <1>1 DEF Busy, Involves
<1>3. \A a : Counted(a)' = Counted(a)
  <2>1. Grows
    BY <1>1, NothingGrows DEF TypeInv, pkgVars
  <2> QED
    BY <1>1, <2>1, GetCountsSame DEF TypeInv, hostVars, resultVars
<1>4. ASSUME UNCHANGED <<valid, missed, counts>>, refresh'.pc \in {"idle", "next"} PROVE CountsInv'
  BY <1>2, <1>3, <1>4 DEF CountsInv
<1>5. ASSUME NEW accs \in SUBSET Accounts, accountsWithoutCache(accs) PROVE CountsInv'
  <2>1. /\ UNCHANGED <<valid, missed, counts>>
        /\ refresh' = [pc |-> "next", accs |-> accs, acc |-> NIL, counts |-> NIL, dirty |-> FALSE]
    BY <1>5, NextRecord, Zenon DEF accountsWithoutCache, refreshVars
  <2> QED
    BY <1>4, <2>1
<1>6. ASSUME NEW a \in Accounts, RefreshCounts(a) PROVE CountsInv'
  <2> DEFINE A == refresh.accs \ {a}
             c == getCounts(ReadReplica, a)
             d == Lagging(a)
  <2>1. refresh' = [pc |-> "update", accs |-> A, acc |-> a, counts |-> c, dirty |-> d]
        /\ UNCHANGED <<valid, missed, counts>>
    BY <1>0, <1>6, CountedRecord
  <2>2. ~d => c = Counted(a)
    BY NotLagging
  <2> HIDE DEF A, c, d
  <2>3. /\ refresh'.pc = "update" /\ refresh'.acc = a
        /\ ~refresh'.dirty => refresh'.counts = Counted(a)
    BY <2>1, <2>2
  <2>4. \A b \in valid' \ missed' : Busy(b)' \/ counts'[b] = Counted(b)'
    BY <1>2, <1>3, <2>1 DEF CountsInv
  <2>5. ~refresh'.dirty => refresh'.counts = Counted(refresh.acc)'
    BY <1>3, <2>3
  <2> QED
    BY <2>3, <2>4, <2>5 DEF CountsInv
<1> DEFINE acc == refresh.acc
           c == refresh.counts
           Current == acc \notin valid \ missed' \/ Busy(acc) \/ (c = Counted(acc) /\ counts[acc] = c)
           Known == /\ UNCHANGED valid /\ missed \subseteq missed'
                    /\ refresh.pc \in {"update", "delete"}
                    /\ refresh.pc = "update" /\ refresh.dirty => acc \in missed'
\* The counts of no other account change; those of this one change only when they were not
\* relied upon.
<1>7. ASSUME Known PROVE Current
  BY <1>7 DEF CountsInv
<1>8. ASSUME Known, NEW d \in BOOLEAN, NEW pc \in {"delete", "valid"},
             refresh' = [pc |-> pc, accs |-> refresh.accs, acc |-> acc, counts |-> c, dirty |-> d],
             \A a \in Accounts : a # acc => counts'[a] = counts[a],
             c = Counted(acc) /\ counts[acc] = c => counts'[acc] = c,
             refresh.dirty => d,
             ~refresh.dirty /\ d => counts[acc] # c,
             pc = "valid" /\ ~d => counts'[acc] = c
      PROVE  CountsInv'
  <2>1. refresh'.pc = pc /\ refresh'.acc = acc /\ refresh'.counts = c /\ refresh'.dirty = d
    BY <1>8
  <2>2. ASSUME NEW b \in valid' \ missed' PROVE Busy(b)' \/ counts'[b] = Counted(b)'
    <3>1. b \in valid \ missed /\ b \in Accounts /\ (Busy(b) \/ counts[b] = Counted(b))
      BY <1>8, <2>2 DEF CountsInv, TypeInv
    <3>2. CASE b # acc
      BY <1>2, <1>3, <1>8, <3>1, <3>2
    <3>3. CASE b = acc
      BY <1>2, <1>3, <1>7, <1>8, <3>1, <3>3
    <3> QED
      BY <3>2, <3>3
  <2>3. IF d THEN acc \notin valid' \ missed' \/ Busy(acc) ELSE c = Counted(acc)
    <3>1. CASE refresh.dirty
      BY <1>8, <3>1 DEF CountsInv
    <3>2. CASE ~refresh.dirty
      BY <1>7, <1>8, <3>2 DEF CountsInv
    <3> QED
      BY <3>1, <3>2
  <2>4. /\ refresh'.dirty => refresh'.acc \notin valid' \ missed' \/ Busy(refresh.acc)'
        /\ ~refresh'.dirty => refresh'.counts = Counted(refresh.acc)'
    BY <1>2, <1>3, <2>1, <2>3
  <2>5. refresh'.pc = "valid" /\ ~refresh'.dirty => counts'[refresh'.acc] = refresh'.counts
    BY <1>8, <2>1
  <2> QED
    BY <2>2, <2>4, <2>5 DEF CountsInv
<1>9. CASE updatePackageAccountData
  <2>1. /\ refresh.pc = "update" /\ refresh' = [refresh EXCEPT !.pc = "delete"]
        /\ counts' = [counts EXCEPT ![acc] = Upserted(counts[acc], c)] /\ Known
    BY <1>9 DEF updatePackageAccountData
  <2>2. refresh' = [pc |-> "delete", accs |-> refresh.accs, acc |-> acc, counts |-> c,
                    dirty |-> refresh.dirty]
    BY <1>0, <2>1, RefreshFields
  <2>3. acc \in Accounts /\ refresh.dirty \in BOOLEAN
    BY <1>0, <2>1 DEF IsRefresh
  <2>4. \A a \in Accounts : a # acc => counts'[a] = counts[a]
    BY <1>0, <2>1
  <2>5. c = Counted(acc) /\ counts[acc] = c => counts'[acc] = c
    BY <1>0, <2>1, <2>3, SameCounts
  <2> QED
    BY <1>8, <2>1, <2>2, <2>3, <2>4, <2>5
<1>10. CASE deleteOldCache
  <2> DEFINE d == refresh.dirty \/ (refresh.counts = NoRows /\ counts[refresh.acc] # NoRows)
  <2>1. /\ refresh.pc = "delete" /\ refresh' = [refresh EXCEPT !.pc = "valid", !.dirty = d]
        /\ counts' = IF c = NoRows THEN counts ELSE [counts EXCEPT ![acc] = c]
        /\ Known
    BY <1>10, Zenon DEF deleteOldCache
  <2>2. d \in BOOLEAN /\ acc \in Accounts
    BY <1>0, <2>1 DEF IsRefresh
  <2>3. refresh' = [pc |-> "valid", accs |-> refresh.accs, acc |-> acc, counts |-> c, dirty |-> d]
    <3> HIDE DEF d
    <3> QED
      BY <1>0, <2>1, RefreshFields
  <2>4. /\ \A a \in Accounts : a # acc => counts'[a] = counts[a]
        /\ c = Counted(acc) /\ counts[acc] = c => counts'[acc] = c
    BY <1>0, <2>1, <2>2
  <2>5. /\ refresh.dirty => d
        /\ ~refresh.dirty /\ d => counts[acc] # c
        /\ ~d => counts'[acc] = c
    BY <1>0, <2>1, <2>2
  <2> HIDE DEF d
  <2> QED
    BY <1>8, <2>1, <2>2, <2>3, <2>4, <2>5
<1>11. CASE updatePkgCacheValidity
  <2>1. /\ refresh.pc = "valid" /\ valid' = valid \cup {acc} /\ UNCHANGED counts
        /\ missed' = IF refresh.dirty THEN missed \cup {acc} ELSE missed \ {acc}
        /\ refresh' = NextAccount
    BY <1>11 DEF updatePkgCacheValidity
  <2>2. refresh'.pc \in {"idle", "next"}
    BY <1>0, <2>1, NextAccountIs
  <2>3. ASSUME NEW b \in valid' \ missed' PROVE Busy(b)' \/ counts'[b] = Counted(b)'
    <3>1. CASE b = acc
      BY <1>3, <2>1, <2>3, <3>1 DEF CountsInv
    <3>2. CASE b # acc
      BY <1>2, <1>3, <2>1, <2>3, <3>2 DEF CountsInv
    <3> QED
      BY <3>1, <3>2
  <2> QED
    BY <2>2, <2>3 DEF CountsInv
<1>12. CASE RefreshFails
  <2>1. refresh' \in {NextAccount, IdleRefresh} /\ UNCHANGED <<valid, missed, counts>>
    BY <1>12 DEF RefreshFails
  <2> QED
    BY <1>0, <1>4, <2>1, NextAccountIs
<1> QED
  BY <1>5, <1>6, <1>9, <1>10, <1>11, <1>12 DEF RefreshStep

\* Every step keeps the counts.
LEMMA CountsStep ==
  ASSUME TypeInv, CountsInv, [Step]_primaryVars
  PROVE  CountsInv'
<1>0. /\ IsRefresh(refresh) /\ refresh.dirty \in BOOLEAN /\ Grows /\ RowsInv
      /\ stored = [s \in Systems |-> stored[s]] /\ patch = [s \in Systems |-> patch[s]]
  BY PackagesStep DEF TypeInv, RefreshInv, IsRefresh, RowsInv
\* A step that neither touches the rows nor the refresh.
<1>1. ASSUME UNCHANGED <<resultVars, stale, refreshVars, missed>>, valid' \subseteq valid
      PROVE  CountsInv'
  <2>1. \A a : Counted(a)' = Counted(a)
    BY <1>0, <1>1, GetCountsSame DEF resultVars
  <2> QED
    BY <1>0, <1>1, <2>1, CountsKept DEF refreshVars
\* An account becomes stale, or comes back.
<1>2. ASSUME NEW s \in Systems, UNCHANGED <<resultVars, counts, valid>>, StaleChanged(s),
             \A t \in Systems \ {s} : t \in stale' <=> t \in stale
      PROVE  CountsInv'
  <2> DEFINE d == refresh.dirty \/ refresh.acc = Account[s]
  <2>1. missed' = missed \cup {Account[s]} /\ refresh' = [refresh EXCEPT !.dirty = d]
    BY <1>2, Zenon DEF StaleChanged
  <2>2. d \in BOOLEAN /\ (refresh.dirty => d) /\ (~refresh.dirty /\ d => refresh.acc = Account[s])
        /\ (refresh.acc = Account[s] => d)
    BY <1>0
  <2> HIDE DEF d
  <2>3. refresh' = [pc |-> refresh.pc, accs |-> refresh.accs, acc |-> refresh.acc,
                    counts |-> refresh.counts, dirty |-> d]
    BY <1>0, <2>1, RefreshFields
  <2>4. /\ refresh'.pc = refresh.pc /\ refresh'.acc = refresh.acc /\ refresh'.counts = refresh.counts
        /\ refresh'.dirty = d
    BY <2>3
  <2>5. ASSUME NEW a
        PROVE  \/ Counted(a)' = Counted(a)
               \/ (a \in missed' \/ Busy(a)') /\ (refresh.acc = a => refresh'.dirty)
    <3>1. CASE a = Account[s]
      BY <2>1, <2>2, <2>4, <3>1
    <3>2. CASE a # Account[s]
      <4>1. \A t \in Systems : Account[t] = a =>
              stored'[t] = stored[t] /\ patch'[t] = patch[t] /\ (t \in stale' <=> t \in stale)
        BY <1>2, <3>2 DEF resultVars
      <4>2. Counted(a)' = Counted(a)
        BY <1>0, <4>1, GetCountsSame
      <4> QED
        BY <4>2
    <3> QED
      BY <3>1, <3>2
  <2>6. ~refresh.dirty /\ refresh'.dirty => refresh.acc \in missed' \/ Busy(refresh.acc)'
    BY <2>1, <2>2, <2>4
  <2>7. missed \subseteq missed' /\ valid' \subseteq valid /\ UNCHANGED counts
    BY <1>2, <2>1
  <2> QED
    BY <1>0, <2>2, <2>4, <2>5, <2>6, <2>7, CountsKept
<1>3. ASSUME NEW s \in Systems, NEW p, Upload(s, p) PROVE CountsInv'
  <2>1. /\ UNCHANGED <<resultVars, valid, counts>> /\ stale' = stale \ {s}
        /\ IF s \in stale THEN StaleChanged(s) ELSE UNCHANGED <<refresh, missed>>
    BY <1>3, Zenon DEF Upload
  <2>2. CASE s \in stale
    BY <1>2, <2>1, <2>2
  <2>3. CASE s \notin stale
    <3>1. stale' = stale
      BY <2>1, <2>3
    <3>2. valid' \subseteq valid
      BY <2>1
    <3> QED
      BY <1>1, <2>1, <2>3, <3>1, <3>2 DEF refreshVars
  <2> QED
    BY <2>2, <2>3
<1>4. ASSUME NEW s \in Systems, MarkStale(s) PROVE CountsInv'
  <2>1. UNCHANGED <<resultVars, valid, counts>> /\ stale' = stale \cup {s} /\ StaleChanged(s)
    BY <1>4 DEF MarkStale
  <2> QED
    BY <1>2, <2>1
<1>5. ASSUME NEW w \in Pods, evaluateAndStore(w) PROVE CountsInv'
  <2> DEFINE s == worker[w].sys
             x == updateSystemPackages(stored[s], worker[w].plan)
             y == PatchOf(worker[w].plan)
             b == refresh.dirty \/ refresh.acc = Account[s]
  <2>1. /\ worker[w].pc = "store" /\ Ends(w) /\ UNCHANGED <<stale, counts, valid, missed, pending>>
        /\ stored' = [stored EXCEPT ![s] = x] /\ patch' = [patch EXCEPT ![s] = y]
        /\ refresh' = IF refresh.acc = Account[s] THEN [refresh EXCEPT !.dirty = TRUE] ELSE refresh
    BY <1>5, Zenon DEF evaluateAndStore, hostVars
  <2>2. s \in Systems /\ s # NIL
    BY <2>1, PackageAssumption DEF TypeInv, WorkersInv, IsWorker
  <2>3. ASSUME NEW a, a = Account[s] PROVE Busy(a)'
    <3> DEFINE e == [Ready EXCEPT !.pc = "invalidate", !.sys = s]
    <3>1. worker' = [worker EXCEPT ![w] = e] /\ worker = [v \in Pods |-> worker[v]]
      BY <2>1 DEF Ends, TypeInv, WorkersInv
    <3>2. e.sys = s
      BY <2>2, EndIsWorker
    <3> HIDE DEF e
    <3>3. worker'[w].sys = s
      BY <3>1, <3>2
    <3> HIDE DEF s
    <3>4. \E t \in pending'[w] \cup ({worker'[w].sys} \ {NIL}) : Account[t] = a
      BY <2>2, <2>3, <3>3
    <3> QED
      BY <3>4 DEF Busy, Involves
  <2>4. /\ refresh'.pc = refresh.pc /\ refresh'.acc = refresh.acc /\ refresh'.counts = refresh.counts
        /\ refresh'.dirty \in BOOLEAN /\ (refresh.dirty => refresh'.dirty)
        /\ (refresh.acc = Account[s] => refresh'.dirty)
        /\ (~refresh.dirty /\ refresh'.dirty => refresh.acc = Account[s])
    <3> DEFINE yes == TRUE
    <3>1. refresh' = IF refresh.acc = Account[s] THEN [refresh EXCEPT !.dirty = yes] ELSE refresh
      BY <2>1
    <3>2. yes \in BOOLEAN /\ yes
      OBVIOUS
    <3> HIDE DEF yes, s
    <3>3. [refresh EXCEPT !.dirty = yes] = [pc |-> refresh.pc, accs |-> refresh.accs,
             acc |-> refresh.acc, counts |-> refresh.counts, dirty |-> yes]
      BY <1>0, RefreshFields
    <3>4. CASE refresh.acc = Account[s]
      <4>1. refresh' = [pc |-> refresh.pc, accs |-> refresh.accs, acc |-> refresh.acc,
                        counts |-> refresh.counts, dirty |-> yes]
        BY <3>1, <3>3, <3>4
      <4> QED
        BY <3>2, <3>4, <4>1
    <3>5. CASE refresh.acc # Account[s]
      BY <1>0, <3>1, <3>5
    <3> QED
      BY <3>4, <3>5
  <2>5. ASSUME NEW a
        PROVE  \/ Counted(a)' = Counted(a)
               \/ (a \in missed' \/ Busy(a)') /\ (refresh.acc = a => refresh'.dirty)
    <3>1. CASE a = Account[s]
      <4>1. Busy(a)'
        BY <2>3, <3>1
      <4> QED
        BY <2>4, <3>1, <4>1
    <3>2. CASE a # Account[s]
      <4> HIDE DEF s, x, y
      <4>1. \A t \in Systems : Account[t] = a =>
              stored'[t] = stored[t] /\ patch'[t] = patch[t] /\ (t \in stale' <=> t \in stale)
        BY <1>0, <2>1, <3>2
      <4>2. Counted(a)' = Counted(a)
        BY <1>0, <4>1, GetCountsSame
      <4> QED
        BY <4>2
    <3> QED
      BY <3>1, <3>2
  <2>6. ~refresh.dirty /\ refresh'.dirty => refresh.acc \in missed' \/ Busy(refresh.acc)'
    <3>1. CASE refresh.acc = Account[s]
      BY <2>3, <2>4, <3>1
    <3> QED
      BY <2>4, <3>1
  <2>7. missed \subseteq missed' /\ valid' \subseteq valid /\ UNCHANGED counts
    BY <2>1
  <2> QED
    BY <1>0, <2>4, <2>5, <2>6, <2>7, CountsKept
<1>6. ASSUME NEW w \in Pods, NEW s, NEW x,
             \/ Recalc(w, s) \/ Begin(w, s, x) \/ lazySavePackages(w) \/ loadPackages(w)
             \/ StoreRefused(w) \/ invalidateCaches(w) \/ Restart(w) \/ Evict(w, x)
      PROVE  CountsInv'
  <2>1. UNCHANGED <<resultVars, stale, refreshVars, missed>> /\ valid' \subseteq valid
    BY <1>6 DEF Recalc, Begin, lazySavePackages, loadPackages, StoreRefused, invalidateCaches,
                Restart, Evict, hostVars
  <2> QED
    BY <1>1, <2>1
<1>7. ASSUME NEW x, syncPackages(x) \/ deleteUnusedPackages(x) PROVE CountsInv'
  BY <1>1, <1>7 DEF syncPackages, deleteUnusedPackages, hostVars
<1>8. CASE UNCHANGED primaryVars
  BY <1>1, <1>8 DEF primaryVars, resultVars, refreshVars
<1>9. CASE RefreshStep
  BY <1>9, RefreshCountsStep
<1>10. CASE Step
  BY <1>3, <1>4, <1>5, <1>6, <1>7, <1>9, <1>10, NextSteps
<1> QED
  BY <1>8, <1>10

\* The counts hold at first.
LEMMA CountsInit == Init => CountsInv
  BY DEF Init, CountsInv, IdleRefresh

\* The package counts of an account are exact whenever they are valid, no evaluation of
\* the account is under way and none was missed, whatever is stored, deleted and inserted
\* between the four statements of the refresh and however far the replica is behind when
\* it shows the rows of the account as they are (refresh_packages_caches.go).
THEOREM PackageCountsExact == Spec => []PackageCountsExactUnlessMissed
<1>1. CountsInv => PackageCountsExactUnlessMissed
  BY DEF CountsInv, PackageCountsExactUnlessMissed, Counted, Busy, Involves
<1>2. TypeInv /\ CountsInv /\ [Next]_vars => CountsInv'
  BY CountsStep, NextIsStep
<1> QED
  BY <1>1, <1>2, CountsInit, TypesAlways, PTL DEF Spec

-----------------------------------------------------------------------------
(* The rows of a system after an evaluation that nothing disturbed *)

\* The packages that update ids stand for.
PkgOf(i) == IF i = NIL THEN {} ELSE {nevraOf[i]}

\* The entries of P, and the rows of a system with their counts, are what a profile says.
PlanFits(P, p) ==
  /\ {q.nevra : q \in P} = Installed(p)
  /\ \A q \in P : PkgOf(q.inst) = Installable(p, q.nevra)
RowsFit(rows, c, p) ==
  /\ {nevraOf[r.id] : r \in rows} = Installed(p)
  /\ \A r \in rows : PkgOf(r.inst) = Installable(p, nevraOf[r.id])
  /\ c.installed = Cardinality(rows)
  /\ c.installable = Cardinality({r \in rows : r.inst # NIL})

\* The entries of a plan that stay.
Staying(plan) == {q \in plan : q.change # "remove"}
LEMMA StayingFits ==
  ASSUME NEW P, NEW rows, NEW p, PlanOK(P), \A q \in P : q.change = "add", PlanFits(P, p)
  PROVE  PlanFits(Staying(loadSystemNEVRAsFromDB(P, rows)), p)
<1> DEFINE plan == loadSystemNEVRAsFromDB(P, rows)
           S == Staying(plan)
           c(q) == [q EXCEPT !.change = ChangeOf(q, rows)]
<1>1. ASSUME NEW q \in P
      PROVE  c(q).nevra = q.nevra /\ c(q).inst = q.inst /\ c(q).change \in {"keep", "update", "add"}
  <2> DEFINE ch == ChangeOf(q, rows)
  <2>1. ch \in {"keep", "update", "add"}
    BY DEF ChangeOf
  <2>2. q = [nevra |-> q.nevra, id |-> q.id, inst |-> q.inst, app |-> q.app, change |-> q.change]
    BY DEF PlanOK
  <2> HIDE DEF ch
  <2>3. [q EXCEPT !.change = ch] = [nevra |-> q.nevra, id |-> q.id, inst |-> q.inst, app |-> q.app,
                                    change |-> ch]
    BY <2>2
  <2> QED
    BY <2>1, <2>3 DEF ch
<1>2. \A q \in P : c(q) \in plan
  BY PlanParts
<1>3. \A x \in plan : x.change # "remove" => \E q \in P : x = c(q)
  <2>1. \A r : Removal(r).change = "remove"
    BY DEF Removal
  <2> QED
    BY <2>1, PlanParts
<1> HIDE DEF c, plan
<1>4. \A q \in P : c(q) \in S
  BY <1>1, <1>2 DEF Staying
<1>5. \A x \in S : \E q \in P : x = c(q)
  BY <1>3 DEF Staying
<1> HIDE DEF S
<1>6. {x.nevra : x \in S} = {q.nevra : q \in P}
  BY <1>1, <1>4, <1>5
<1>7. \A x \in S : PkgOf(x.inst) = Installable(p, x.nevra)
  BY <1>1, <1>5 DEF PlanFits
<1> QED
  BY <1>6, <1>7 DEF PlanFits, S, plan

\* Where a row of the result comes from: every row has an entry that stays, with the same
\* nevra and the same update, and every such entry a row.
LEMMA RowsOfPlan ==
  ASSUME NEW P, NEW rows, PlanOK(P), \A q \in P : q.change = "add", RowsOK(rows),
         NEW plan, plan = loadSystemNEVRAsFromDB(P, rows), Written(plan) \subseteq package,
         \A r \in rows : {r.id, r.inst, r.app} \subseteq package \cup {NIL},
         package \subseteq DOMAIN nevraOf, UniqueIn(package), NIL \notin DOMAIN nevraOf
  PROVE  LET x == updateSystemPackages(rows, plan)
         IN  /\ \A r \in x : \E q \in Staying(plan) : q.nevra = nevraOf[r.id] /\ q.inst = r.inst
             /\ \A q \in Staying(plan) : \E r \in x : q.nevra = nevraOf[r.id]
<1> DEFINE x == updateSystemPackages(rows, plan)
           N == NewRows(plan)
           c(q) == [q EXCEPT !.change = ChangeOf(q, rows)]
<1>1. ASSUME NEW q \in P
      PROVE  /\ c(q) \in plan /\ c(q).change = ChangeOf(q, rows) /\ c(q).nevra = q.nevra
             /\ c(q).id = q.id /\ c(q).inst = q.inst /\ c(q).app = q.app
             /\ nevraOf[q.id] = q.nevra /\ q.id \in DOMAIN nevraOf
  <2> DEFINE ch == ChangeOf(q, rows)
  <2>1. q = [nevra |-> q.nevra, id |-> q.id, inst |-> q.inst, app |-> q.app, change |-> q.change]
    BY DEF PlanOK
  <2>2. c(q) \in plan
    BY PlanParts
  <2> HIDE DEF ch
  <2>3. [q EXCEPT !.change = ch] = [nevra |-> q.nevra, id |-> q.id, inst |-> q.inst, app |-> q.app,
                                    change |-> ch]
    BY <2>1
  <2>4. nevraOf[q.id] = q.nevra /\ q.id \in DOMAIN nevraOf
    BY DEF PlanOK
  <2> QED
    BY <2>2, <2>3, <2>4 DEF ch
<1>2. \A r \in rows : (\A q \in P : q.nevra # nevraOf[r.id]) => Removal(r) \in plan
  BY PlanParts
<1>3. \A y \in plan : \/ \E q \in P : y = c(q)
                      \/ \E r \in rows : y = Removal(r) /\ \A q \in P : q.nevra # nevraOf[r.id]
  BY PlanParts
<1>4. \A r : Removal(r).change = "remove" /\ Removal(r).id = r.id
  BY DEF Removal
<1>5. \A q : ChangeOf(q, rows) \in {"keep", "update", "add"}
  BY DEF ChangeOf
<1>6. \A r \in rows : r.id \in package
  BY DEF RowsOK, IsRow
<1> HIDE DEF c
<1>7. \A y : y \in Staying(plan) <=> \E q \in P : y = c(q)
  BY <1>1, <1>3, <1>4, <1>5 DEF Staying
<1>8. ASSUME NEW n
      PROVE  n \in N <=> \E q \in P : n = NewRow(q) /\ ChangeOf(q, rows) \in {"add", "update"}
  <2>1. \A q \in P : NewRow(c(q)) = NewRow(q)
    BY <1>1 DEF NewRow
  <2>2. n \in N <=> \E y \in plan : y.change \in {"add", "update"} /\ n = NewRow(y)
    BY DEF NewRows
  <2>3. \A y \in plan : y.change \in {"add", "update"} => \E q \in P : y = c(q)
    BY <1>3, <1>4
  <2> HIDE DEF N
  <2> QED
    BY <1>1, <2>1, <2>2, <2>3
<1>9. \A q : NewRow(q).id = q.id /\ NewRow(q).inst = q.inst
  BY DEF NewRow
<1>10. \A q \in P : ChangeOf(q, rows) \in {"add", "update"} => q.id \in package
  <2> SUFFICES ASSUME NEW q \in P, ChangeOf(q, rows) \in {"add", "update"} PROVE q.id \in package
    OBVIOUS
  <2> DEFINE A == {y \in plan : y.change \in {"add", "update"}}
             U == UNION {{y.id, y.inst, y.app} : y \in A}
  <2>1. c(q) \in A /\ c(q).id = q.id
    BY <1>1
  <2>2. q.id \in U
    BY <2>1
  <2>3. Written(plan) = U \ {NIL}
    BY Zenon DEF Written
  <2> HIDE DEF U
  <2> QED
    BY <1>1, <2>2, <2>3
<1>11. \A r : r \in x <=> \/ r \in N
                          \/ /\ r \in rows /\ \A y \in plan : y.change = "remove" => y.id # r.id
                             /\ \A n \in N : n.id # r.id
  BY UpdatedRows
<1> HIDE DEF x, N
<1>12. ASSUME NEW r \in x PROVE \E q \in Staying(plan) : q.nevra = nevraOf[r.id] /\ q.inst = r.inst
  <2>1. CASE r \in N
    <3>1. PICK q \in P : r = NewRow(q)
      BY <1>8, <2>1
    <3> QED
      BY <1>1, <1>7, <1>9, <3>1
  <2>2. CASE r \notin N
    <3>1. /\ r \in rows /\ \A y \in plan : y.change = "remove" => y.id # r.id
          /\ \A n \in N : n.id # r.id
      BY <1>11, <2>2
    <3>2. PICK q \in P : q.nevra = nevraOf[r.id]
      BY <1>2, <1>4, <3>1
    <3>3. ChangeOf(q, rows) \notin {"add", "update"}
      <4> SUFFICES ASSUME ChangeOf(q, rows) \in {"add", "update"} PROVE FALSE
        OBVIOUS
      <4>1. NewRow(q) \in N /\ NewRow(q).id = q.id /\ q.id \in package
        BY <1>8, <1>9, <1>10
      <4>2. r.id \in package /\ nevraOf[q.id] = nevraOf[r.id]
        BY <1>1, <1>6, <3>1, <3>2
      <4>3. q.id = r.id
        BY <4>1, <4>2 DEF UniqueIn
      <4> QED
        BY <3>1, <4>1, <4>3
    <3>4. PICK s \in rows : nevraOf[s.id] = q.nevra /\ ~latestPkgsChanged(q, s)
      BY <3>3 DEF ChangeOf
    <3>5. s.id \in package /\ r.id \in package /\ nevraOf[s.id] = nevraOf[r.id]
      BY <1>6, <3>1, <3>2, <3>4
    <3>6. s.id = r.id
      BY <3>5 DEF UniqueIn
    <3>7. s = r
      BY <3>1, <3>6 DEF RowsOK
    <3>8. q.inst = r.inst
      BY <3>4, <3>7 DEF latestPkgsChanged
    <3> QED
      BY <1>1, <1>7, <3>2, <3>8
  <2> QED
    BY <2>1, <2>2
<1>13. ASSUME NEW y \in Staying(plan) PROVE \E r \in x : y.nevra = nevraOf[r.id]
  <2>1. PICK q \in P : y = c(q)
    BY <1>7
  <2>2. y.nevra = q.nevra /\ nevraOf[q.id] = q.nevra
    BY <1>1, <2>1
  <2>3. CASE ChangeOf(q, rows) \in {"add", "update"}
    <3>1. NewRow(q) \in x /\ NewRow(q).id = q.id
      BY <1>8, <1>9, <1>11, <2>3
    <3> QED
      BY <2>2, <3>1
  <2>4. CASE ChangeOf(q, rows) \notin {"add", "update"}
    <3>1. PICK s \in rows : nevraOf[s.id] = q.nevra
      BY <2>4 DEF ChangeOf
    <3>2. \A z \in plan : z.change = "remove" => z.id # s.id
      <4> SUFFICES ASSUME NEW z \in plan, z.change = "remove", z.id = s.id PROVE FALSE
        OBVIOUS
      <4>1. PICK r \in rows : z = Removal(r) /\ \A p \in P : p.nevra # nevraOf[r.id]
        BY <1>1, <1>3, <1>5
      <4>2. r.id = s.id
        BY <1>4, <4>1
      <4> QED
        BY <3>1, <4>1, <4>2
    <3>3. CASE \A n \in N : n.id # s.id
      <4>1. s \in x
        BY <1>11, <3>2, <3>3
      <4> QED
        BY <2>2, <3>1, <4>1
    <3>4. CASE \E n \in N : n.id = s.id
      <4>1. PICK n \in N : n.id = s.id
        BY <3>4
      <4>2. n \in x
        BY <1>11
      <4> QED
        BY <2>2, <3>1, <4>1, <4>2
    <3> QED
      BY <3>3, <3>4
  <2> QED
    BY <2>3, <2>4
<1> QED
  BY <1>12, <1>13 DEF x

\* A one-to-one correspondence of finite sets.
LEMMA SameSize ==
  ASSUME NEW S, NEW T, IsFiniteSet(S), NEW f \in [S -> T],
         \A x, y \in S : f[x] = f[y] => x = y, \A y \in T : \E x \in S : f[x] = y
  PROVE  Cardinality(S) = Cardinality(T)
<1>1. f \in Bijection(S, T)
  BY DEF Bijection, Injection, IsInjective, Surjection
<1>2. ExistsBijection(S, T)
  BY <1>1 DEF ExistsBijection
<1> QED
  BY <1>2, FS_Bijection

\* What the transaction stores is what the profile says.
LEMMA StoredFits ==
  ASSUME NEW P, NEW rows, PlanOK(P), \A q \in P : q.change = "add", RowsOK(rows), NEW p,
         PlanFits(P, p),
         NEW plan, plan = loadSystemNEVRAsFromDB(P, rows), Written(plan) \subseteq package,
         \A r \in rows : {r.id, r.inst, r.app} \subseteq package \cup {NIL},
         package \subseteq DOMAIN nevraOf, UniqueIn(package), NIL \notin DOMAIN nevraOf
  PROVE  RowsFit(updateSystemPackages(rows, plan), PatchOf(plan), p)
<1> DEFINE x == updateSystemPackages(rows, plan)
           S == Staying(plan)
           c == PatchOf(plan)
<1>1. /\ \A r \in x : \E q \in S : q.nevra = nevraOf[r.id] /\ q.inst = r.inst
      /\ \A q \in S : \E r \in x : q.nevra = nevraOf[r.id]
  BY RowsOfPlan
<1>2. PlanFits(S, p)
  BY StayingFits
<1>3. PlanOK(plan)
  BY PlanFromDB
<1>4. RowsOK(x) /\ \A r \in x : {r.id, r.inst, r.app} \subseteq package \cup {NIL}
  BY <1>3, UpdatedRowsOK
<1>5. \A q, r \in S : q.nevra = r.nevra => q = r
  BY <1>3 DEF PlanOK, Staying
<1>6. c.installed = Cardinality(S) /\ c.installable = Cardinality({q \in S : q.inst # NIL})
  BY DEF PatchOf, Staying
<1> HIDE DEF x, S, c
<1>7. \A r \in x : r.id \in package
  BY <1>4 DEF RowsOK, IsRow
<1>8. \A q, r \in x : nevraOf[q.id] = nevraOf[r.id] => q = r
  <2> SUFFICES ASSUME NEW q \in x, NEW r \in x, nevraOf[q.id] = nevraOf[r.id] PROVE q = r
    OBVIOUS
  <2>1. q.id = r.id
    BY <1>7 DEF UniqueIn
  <2> QED
    BY <1>4, <2>1 DEF RowsOK
<1> DEFINE f == [r \in x |-> CHOOSE q \in S : q.nevra = nevraOf[r.id]]
<1>9. \A r \in x : f[r] \in S /\ f[r].nevra = nevraOf[r.id] /\ f[r].inst = r.inst
  <2> SUFFICES ASSUME NEW r \in x PROVE f[r] \in S /\ f[r].nevra = nevraOf[r.id] /\ f[r].inst = r.inst
    OBVIOUS
  <2>1. PICK q \in S : q.nevra = nevraOf[r.id] /\ q.inst = r.inst
    BY <1>1
  <2>2. f[r] \in S /\ f[r].nevra = nevraOf[r.id]
    BY <2>1
  <2> HIDE DEF f
  <2>3. f[r] = q
    BY <1>5, <2>1, <2>2
  <2> QED
    BY <2>1, <2>2, <2>3
<1>10. f \in [x -> S]
  BY <1>9
<1> HIDE DEF f
<1>11. \A q, r \in x : f[q] = f[r] => q = r
  BY <1>8, <1>9
<1>12. \A q \in S : \E r \in x : f[r] = q
  <2> SUFFICES ASSUME NEW q \in S PROVE \E r \in x : f[r] = q
    OBVIOUS
  <2>1. PICK r \in x : q.nevra = nevraOf[r.id]
    BY <1>1
  <2>2. f[r] = q
    BY <1>5, <1>9, <2>1
  <2> QED
    BY <2>2
<1>13. IsFiniteSet(x)
  BY <1>4 DEF RowsOK
<1>14. Cardinality(x) = Cardinality(S)
  BY <1>10, <1>11, <1>12, <1>13, SameSize
<1>15. Cardinality({r \in x : r.inst # NIL}) = Cardinality({q \in S : q.inst # NIL})
  <2> DEFINE I == {r \in x : r.inst # NIL}
             J == {q \in S : q.inst # NIL}
             g == [r \in I |-> f[r]]
  <2>1. IsFiniteSet(I)
    BY <1>13, FS_Subset
  <2>2. g \in [I -> J]
    BY <1>9
  <2>3. \A q, r \in I : g[q] = g[r] => q = r
    BY <1>11
  <2>4. \A q \in J : \E r \in I : g[r] = q
    <3> SUFFICES ASSUME NEW q \in J PROVE \E r \in I : g[r] = q
      OBVIOUS
    <3>1. PICK r \in x : f[r] = q
      BY <1>12
    <3>2. r \in I
      BY <1>9, <3>1
    <3> QED
      BY <3>1, <3>2
  <2> HIDE DEF I, J, g
  <2>5. Cardinality(I) = Cardinality(J)
    BY <2>1, <2>2, <2>3, <2>4, SameSize
  <2> QED
    BY <2>5 DEF I, J
<1>16. {nevraOf[r.id] : r \in x} = Installed(p)
  <2>1. {nevraOf[r.id] : r \in x} = {q.nevra : q \in S}
    BY <1>1
  <2> QED
    BY <1>2, <2>1 DEF PlanFits
<1>17. \A r \in x : PkgOf(r.inst) = Installable(p, nevraOf[r.id])
  BY <1>2, <1>9 DEF PlanFits
<1> QED
  BY <1>6, <1>14, <1>15, <1>16, <1>17 DEF RowsFit, x, c

-----------------------------------------------------------------------------
(* An evaluation that nothing disturbed stores what was reported *)

\* The list of such an evaluation is that of the profile; what it saved is found; the plan
\* is what the profile says.
ListOf(p) == getUpdatesData(p.yum, p.vmaas, p.satellite, p.bootc)
Known(w) == \A n \in NevrasOf(worker[w].list) : IdOf(n, cache[w] \cup package) # {}
Planned(plan, rows, p) ==
  \E P : /\ plan = loadSystemNEVRAsFromDB(P, rows) /\ PlanOK(P)
         /\ \A q \in P : q.change = "add"
         /\ PlanFits(P, p)
IsClean(w) == worker[w].clean /\ worker[w].pc \in {"save", "load", "store"}
CleanFits(w) ==
  LET s == worker[w].sys
  IN  /\ Working(s) = {w}
      /\ worker[w].list = ListOf(profile[s])
      /\ worker[w].pc = "load" => Known(w)
      /\ worker[w].pc = "store" => Planned(worker[w].plan, stored[s], profile[s])
CleanInv == CacheEnabled => \A w \in Pods : IsClean(w) => CleanFits(w)

\* The rows of the systems that nothing is under way for.
Settled(s) == profile[s] # NIL /\ (\A w \in Pods : s \notin pending[w]) /\ Working(s) = {}
StoredInv ==
  CacheEnabled => \A s \in Systems \ lost : Settled(s) => RowsFit(stored[s], patch[s], profile[s])

\* What packagesFromUpdateList finds for it.
LEMMA PackagesFit ==
  ASSUME PackagesInv, CacheEnabled, NEW w \in Pods, NEW p, IsProfile(p),
         worker[w].list = ListOf(p), GoodList(worker[w].list), Known(w)
  PROVE  PlanFits(packagesFromUpdateList(w), p)
<1> DEFINE list == worker[w].list
           N == {m \in DOMAIN list \ Malformed : GetByNevra(w, m) # NIL}
           P == packagesFromUpdateList(w)
<1>1. P = {Entry(w, list, n) : n \in N}
  BY EntriesAre
<1>2. list # NIL
  BY GoodIsList
<1>3. DOMAIN list \ Malformed = Installed(p)
  BY <1>2, UpdatesDataGood DEF ListOf
<1>4. \A n \in NevrasOf(list) : GetByNevra(w, n) # NIL /\ nevraOf[GetByNevra(w, n)] = n
  BY Found, FindsKnown DEF Known
<1>5. DOMAIN list \ Malformed \subseteq NevrasOf(list)
  BY DEF NevrasOf
<1>6. N = Installed(p)
  BY <1>3, <1>4, <1>5
<1>7. ASSUME NEW n \in N PROVE PkgOf(IdFor(w, LatestOf(list[n], INSTALLABLE))) = Installable(p, n)
  <2> DEFINE latest == LatestOf(list[n], INSTALLABLE)
  <2>1. /\ (IF latest = NIL THEN {} ELSE {latest}) = Installable(p, n)
        /\ latest # NIL => latest \in NevrasOf(list)
    BY <1>2, UpdatesDataReports DEF ListOf
  <2> HIDE DEF latest
  <2>2. ASSUME latest = NIL PROVE PkgOf(IdFor(w, latest)) = Installable(p, n)
    BY <2>1, <2>2 DEF IdFor, PkgOf
  <2>3. ASSUME latest # NIL PROVE PkgOf(IdFor(w, latest)) = Installable(p, n)
    <3>1. GetByNevra(w, latest) # NIL /\ nevraOf[GetByNevra(w, latest)] = latest
      BY <1>4, <2>1, <2>3
    <3> QED
      BY <2>1, <2>3, <3>1 DEF IdFor, PkgOf
  <2> QED
    BY <2>2, <2>3 DEF latest
<1>8. \A n : /\ Entry(w, list, n).nevra = n
             /\ Entry(w, list, n).inst = IdFor(w, LatestOf(list[n], INSTALLABLE))
  BY DEF Entry
<1> HIDE DEF P, N, list
<1>9. {q.nevra : q \in P} = N
  BY <1>1, <1>8
<1>10. \A q \in P : PkgOf(q.inst) = Installable(p, q.nevra)
  BY <1>1, <1>7, <1>8
<1> QED
  BY <1>6, <1>9, <1>10 DEF PlanFits, P

\* What was said of entries and rows stays true when ids are added.
LEMMA PlanSame ==
  ASSUME Grows, NEW P, NEW rows, RowsOK(rows)
  PROVE  loadSystemNEVRAsFromDB(P, rows)' = loadSystemNEVRAsFromDB(P, rows)
<1>1. \A r \in rows : nevraOf'[r.id] = nevraOf[r.id]
  BY DEF Grows, RowsOK, IsRow
<1>2. {r \in rows : \A p \in P : p.nevra # nevraOf'[r.id]} = {r \in rows : \A p \in P : p.nevra # nevraOf[r.id]}
  BY <1>1
<1> DEFINE G == {r \in rows : \A p \in P : p.nevra # nevraOf[r.id]}
           c(p) == [p EXCEPT !.change = ChangeOf(p, rows)]
           d(p) == [p EXCEPT !.change = ChangeOf(p, rows)']
<1>3. loadSystemNEVRAsFromDB(P, rows) = {c(p) : p \in P} \cup {Removal(r) : r \in G}
  BY DEF loadSystemNEVRAsFromDB, ChangeOf, Removal
<1>4. loadSystemNEVRAsFromDB(P, rows)' = {d(p) : p \in P} \cup {Removal(r)' : r \in G}
  BY <1>2 DEF loadSystemNEVRAsFromDB, ChangeOf, Removal
<1>5. \A p : ChangeOf(p, rows)' = ChangeOf(p, rows)
  BY <1>1 DEF ChangeOf, latestPkgsChanged
<1>6. \A p \in P : d(p) = c(p)
  BY <1>5
<1>7. \A r \in G : Removal(r)' = Removal(r)
  BY <1>1 DEF Removal
<1> HIDE DEF c, d, G
<1>8. {d(p) : p \in P} = {c(p) : p \in P}
  BY <1>6
<1>9. {Removal(r)' : r \in G} = {Removal(r) : r \in G}
  BY <1>7
<1> QED
  BY <1>3, <1>4, <1>8, <1>9

LEMMA FitsSame ==
  ASSUME Grows
  PROVE  /\ \A rows, c, p : RowsOK(rows) /\ RowsFit(rows, c, p) => RowsFit(rows, c, p)'
         /\ \A P, p : PlanOK(P) /\ (\A q \in P : q.change = "add") /\ PlanFits(P, p) => PlanFits(P, p)'
         /\ \A plan, rows, p : RowsOK(rows) /\ Planned(plan, rows, p) => Planned(plan, rows, p)'
<1>1. ASSUME NEW rows, NEW c, NEW p, RowsOK(rows), RowsFit(rows, c, p) PROVE RowsFit(rows, c, p)'
  <2>1. \A r \in rows : nevraOf'[r.id] = nevraOf[r.id] /\ PkgOf(r.inst)' = PkgOf(r.inst)
    BY <1>1 DEF Grows, RowsOK, IsRow, PkgOf
  <2>2. {nevraOf'[r.id] : r \in rows} = {nevraOf[r.id] : r \in rows}
    BY <2>1
  <2> QED
    BY <1>1, <2>1, <2>2 DEF RowsFit
<1>2. ASSUME NEW P, NEW p, PlanOK(P), \A q \in P : q.change = "add", PlanFits(P, p)
      PROVE  PlanFits(P, p)'
  <2>1. \A q \in P : PkgOf(q.inst)' = PkgOf(q.inst)
    BY <1>2 DEF Grows, PlanOK, PkgOf
  <2> QED
    BY <1>2, <2>1 DEF PlanFits
<1>3. ASSUME NEW plan, NEW rows, NEW p, RowsOK(rows), Planned(plan, rows, p)
      PROVE  Planned(plan, rows, p)'
  <2>1. PICK P : /\ plan = loadSystemNEVRAsFromDB(P, rows) /\ PlanOK(P)
                 /\ \A q \in P : q.change = "add"
                 /\ PlanFits(P, p)
    BY <1>3 DEF Planned
  <2>2. plan = loadSystemNEVRAsFromDB(P, rows)'
    BY <1>3, <2>1, PlanSame
  <2>3. PlanOK(P)' /\ PlanFits(P, p)'
    BY <1>2, <2>1, GrowthKeeps
  <2> QED
    BY <2>1, <2>2, <2>3 DEF Planned
<1> QED
  BY <1>1, <1>2, <1>3

\* A pod that evaluates s.
AtWork(v, s) == v.sys = s /\ v.pc \in {"save", "load", "store"}

\* An undisturbed evaluation that a step leaves alone.
LEMMA CleanFrame ==
  ASSUME TypeInv, CleanInv, CacheEnabled, Grows, NEW w \in Pods, IsClean(w),
         worker'[w] = worker[w],
         NEW s, s = worker[w].sys,
         \A v \in Pods \ {w} : AtWork(worker'[v], s) => AtWork(worker[v], s),
         profile'[s] = profile[s], stored'[s] = stored[s],
         worker[w].pc = "load" => Known(w)'
  PROVE  CleanFits(w)'
<1>1. CleanFits(w)
  BY DEF CleanInv
<1>2. Working(s)' = {w}
  <2>1. Working(s) = {w}
    BY <1>1 DEF CleanFits
  <2>2. AtWork(worker'[w], s) /\ \A v \in Pods \ {w} : ~AtWork(worker'[v], s)
    BY <2>1 DEF IsClean, AtWork, Working
  <2> QED
    BY <2>2 DEF Working, AtWork
<1>3. worker'[w].list = ListOf(profile'[s])
  BY <1>1 DEF CleanFits
<1>4. worker[w].pc = "store" => Planned(worker[w].plan, stored[s], profile[s])'
  <2> SUFFICES ASSUME worker[w].pc = "store"
      PROVE  Planned(worker[w].plan, stored[s], profile[s])'
    OBVIOUS
  <2>1. s \in Systems
    BY DEF TypeInv, WorkersInv, IsWorker
  <2>2. RowsOK(stored[s])
    BY <2>1 DEF TypeInv, RowsInv
  <2> DEFINE plan == worker[w].plan
             rows == stored[s]
             p == profile[s]
  <2>3. Planned(plan, rows, p)
    BY <1>1 DEF CleanFits
  <2>4. worker'[w].plan = plan /\ stored'[s] = rows /\ profile'[s] = p
    OBVIOUS
  <2>5. ASSUME NEW a, NEW b, NEW c, RowsOK(b), Planned(a, b, c),
               worker'[w].plan = a, stored'[s] = b, profile'[s] = c
        PROVE  Planned(worker[w].plan, stored[s], profile[s])'
    <3>1. Planned(a, b, c)'
      BY <2>5, FitsSame
    <3> QED
      BY <2>5, <3>1
  <2> HIDE DEF plan, rows, p
  <2>6. RowsOK(rows)
    BY <2>2 DEF rows
  <2> QED
    BY <2>3, <2>4, <2>5, <2>6
<1>5. worker'[w].sys = s
  OBVIOUS
<1> QED
  BY <1>2, <1>3, <1>4, <1>5 DEF CleanFits

\* What is known stays known when nothing is removed.
LEMMA KnownStays ==
  ASSUME PackagesInv, Grows, NEW w \in Pods, Known(w), worker'[w].list = worker[w].list,
         cache[w] \cup package \subseteq cache'[w] \cup package'
  PROVE  Known(w)'
  BY DEF Known, IdOf, Grows, PackagesInv

\* One pod does something else, and is not at work for another system after it.
LEMMA CleanOthers ==
  ASSUME TypeInv, CleanInv, CacheEnabled, Grows, NEW u \in Pods, UNCHANGED profile,
         \A w \in Pods \ {u} : worker'[w] = worker[w] /\ cache'[w] = cache[w],
         package \subseteq package',
         \A s : AtWork(worker'[u], s) => AtWork(worker[u], s),
         \A s \in Systems : AtWork(worker[u], s) \/ stored'[s] = stored[s]
  PROVE  \A w \in Pods \ {u} : IsClean(w)' => CleanFits(w)'
<1> SUFFICES ASSUME NEW w \in Pods \ {u}, IsClean(w)' PROVE CleanFits(w)'
  OBVIOUS
<1> DEFINE s == worker[w].sys
<1>1. w \in Pods /\ worker'[w] = worker[w] /\ cache'[w] = cache[w]
  OBVIOUS
<1>2. IsClean(w)
  BY <1>1 DEF IsClean
<1>3. CleanFits(w) /\ s \in Systems
  BY <1>1, <1>2 DEF CleanInv, TypeInv, WorkersInv, IsWorker, IsClean
<1>4. ~AtWork(worker[u], s)
  BY <1>3 DEF CleanFits, Working, AtWork
<1>5. \A v \in Pods \ {w} : AtWork(worker'[v], s) => AtWork(worker[v], s)
  BY <1>1
<1>6. profile'[s] = profile[s] /\ stored'[s] = stored[s]
  BY <1>3, <1>4
<1>7. worker[w].pc = "load" => Known(w)'
  BY <1>1, <1>3, KnownStays DEF CleanFits, TypeInv
<1> QED
  BY <1>1, <1>2, <1>5, <1>6, <1>7, CleanFrame

\* Only flags change, and none is set.
LEMMA CleanFlags ==
  ASSUME TypeInv, CleanInv, CacheEnabled, Grows, UNCHANGED stored,
         \A w \in Pods : \/ worker'[w] = worker[w]
                         \/ worker'[w] = [worker[w] EXCEPT !.clean = FALSE],
         \A w \in Pods : IsClean(w) /\ worker'[w] = worker[w] =>
           /\ profile'[worker[w].sys] = profile[worker[w].sys]
           /\ worker[w].pc = "load" => Known(w)'
  PROVE  \A w \in Pods : IsClean(w)' => CleanFits(w)'
<1> SUFFICES ASSUME NEW w \in Pods, IsClean(w)' PROVE CleanFits(w)'
  OBVIOUS
<1> DEFINE s == worker[w].sys
<1>1. \A v \in Pods : worker'[v].sys = worker[v].sys /\ worker'[v].pc = worker[v].pc
  <2> SUFFICES ASSUME NEW v \in Pods
      PROVE  worker'[v].sys = worker[v].sys /\ worker'[v].pc = worker[v].pc
    OBVIOUS
  <2> DEFINE x == [worker[v] EXCEPT !.clean = FALSE]
  <2>1. IsWorker(worker[v])
    BY DEF TypeInv, WorkersInv
  <2>2. x.sys = worker[v].sys /\ x.pc = worker[v].pc
    BY <2>1, CleanChanges
  <2>3. worker'[v] \in {x, worker[v]}
    OBVIOUS
  <2> HIDE DEF x
  <2> QED
    BY <2>2, <2>3
<1>2. worker'[w] = worker[w]
  <2>1. worker'[w] = [worker[w] EXCEPT !.clean = FALSE] => ~worker'[w].clean
    BY DEF TypeInv, WorkersInv, IsWorker
  <2> QED
    BY <2>1 DEF IsClean
<1>3. IsClean(w)
  BY <1>2 DEF IsClean
<1>4. \A v \in Pods \ {w} : AtWork(worker'[v], s) => AtWork(worker[v], s)
  BY <1>1 DEF AtWork
<1>5. profile'[s] = profile[s] /\ (worker[w].pc = "load" => Known(w)')
  BY <1>2, <1>3
<1> QED
  BY <1>2, <1>3, <1>4, <1>5, CleanFrame

\* The pod that saves has what it will look up.
LEMMA CleanSaved ==
  ASSUME TypeInv, CleanInv, CacheEnabled, Grows, NEW u \in Pods, lazySavePackages(u)
  PROVE  \A w \in Pods : IsClean(w)' => CleanFits(w)'
<1> DEFINE v == worker[u]
           x == [v EXCEPT !.pc = "load"]
           N == NevrasOf(v.list)
           missing == GetByNevras(u, N)
           R == ReadByNevras(u, N)
<1>1. /\ v.pc = "save" /\ worker' = [worker EXCEPT ![u] = x]
      /\ nevraOf' = nevraOf \o SetToSeq(missing)
      /\ package' = package \cup Len(nevraOf) + 1 .. Len(nevraOf')
      /\ cache' = [cache EXCEPT ![u] = Add(cache[u], R)]
      /\ UNCHANGED <<profile, stored>>
  BY Zenon DEF lazySavePackages, hostVars, resultVars
<1>2. IsWorker(v) /\ v = [pc |-> v.pc, sys |-> v.sys, list |-> v.list, plan |-> v.plan, clean |-> v.clean]
  BY DEF TypeInv, WorkersInv, IsWorker
<1>3. N \subseteq Nevras
  BY <1>1, <1>2, NevrasOfGood DEF IsWorker
<1>4. worker = [w \in Pods |-> worker[w]] /\ cache \in [Pods -> SUBSET (DOMAIN nevraOf)]
  BY DEF TypeInv, WorkersInv, PackagesInv
<1>5. missing \in SUBSET Nevras /\ \A n \in missing : IdOf(n, package) = {}
  BY <1>3 DEF GetByNevras, IdOf
<1>6. \A n \in N \ missing : IdOf(n, cache[u] \cup package) # {}
  BY DEF GetByNevras
<1>7. \A n \in N : IdOf(n, package) # {} /\ IdOf(n, cache[u]) = {} => IdOf(n, R) # {}
  BY DEF ReadByNevras, IdOf
<1>8. R \subseteq package
  BY ReadsRows
<1> HIDE DEF v, N, missing, R
<1>11. x = [pc |-> "load", sys |-> v.sys, list |-> v.list, plan |-> v.plan, clean |-> v.clean]
  BY <1>2
<1> HIDE DEF x
<1>9. package \subseteq package' /\ \A n \in missing : \E i \in package' : nevraOf'[i] = n
  BY <1>1, <1>5, InsertGrows DEF TypeInv
<1>10. worker'[u] = x /\ \A w \in Pods \ {u} : worker'[w] = worker[w] /\ cache'[w] = cache[w]
  BY <1>1, <1>4
<1>12. cache'[u] = Add(cache[u], R)
  BY <1>1, <1>4
<1>13. \A t : AtWork(x, t) => AtWork(v, t)
  BY <1>1, <1>11 DEF AtWork
<1>14. \A w \in Pods \ {u} : IsClean(w)' => CleanFits(w)'
  BY <1>1, <1>9, <1>10, <1>13, CleanOthers DEF v
<1>s. PICK s : s = v.sys
  OBVIOUS
<1>15. ASSUME IsClean(u)' PROVE CleanFits(u)'
  <2>1. IsClean(u)
    BY <1>1, <1>10, <1>11, <1>15 DEF IsClean, v
  <2>2. CleanFits(u)
    BY <2>1 DEF CleanInv
  <2>3. Working(s) = {u} /\ v.list = ListOf(profile[s])
    BY <1>s, <2>2 DEF CleanFits, v
  <2>4. Working(s)' = {u}
    <3>1. AtWork(worker'[u], s)
      BY <1>s, <1>10, <1>11 DEF AtWork
    <3>2. \A w \in Pods \ {u} : ~AtWork(worker'[w], s)
      BY <1>10, <2>3 DEF AtWork, Working
    <3> QED
      BY <3>1, <3>2 DEF AtWork, Working
  <2>5. \A n \in N : \E i \in cache'[u] \cup package' : nevraOf'[i] = n
    <3> SUFFICES ASSUME NEW n \in N PROVE \E i \in cache'[u] \cup package' : nevraOf'[i] = n
      OBVIOUS
    <3>1. CASE n \in missing
      BY <1>9, <3>1
    <3>2. CASE n \notin missing
      <4>1. PICK i \in cache[u] \cup package : nevraOf[i] = n
        BY <1>6, <3>2 DEF IdOf
      <4>2. CASE i \in package
        <5>1. nevraOf'[i] = n
          BY <4>1, <4>2 DEF Grows, TypeInv, PackagesInv
        <5> QED
          BY <1>9, <4>2, <5>1
      <4>3. CASE i \in cache[u]
        <5> DEFINE C == cache[u]
        <5>1. /\ nevraOf \in Seq(Nevras) /\ C \in SUBSET (DOMAIN nevraOf) /\ UniqueIn(C)
              /\ R \in SUBSET (DOMAIN nevraOf) /\ UniqueIn(R)
          BY <1>8 DEF TypeInv, PackagesInv, UniqueIn
        <5>2. IdOf(n, C \cup R) # {}
          BY <4>1, <4>3 DEF IdOf
        <5> HIDE DEF C
        <5>3. IdOf(n, Add(C, R)) # {} /\ Add(C, R) \in SUBSET (DOMAIN nevraOf)
          BY <5>1, <5>2, AddKeeps
        <5>4. PICK j \in cache'[u] : nevraOf[j] = n /\ j \in DOMAIN nevraOf
          BY <1>12, <5>3 DEF C, IdOf
        <5> QED
          BY <5>4 DEF Grows
      <4> QED
        BY <4>1, <4>2, <4>3
    <3> QED
      BY <3>1, <3>2
  <2>6. worker'[u].list = v.list /\ worker'[u].sys = s /\ worker'[u].pc = "load"
    BY <1>s, <1>10, <1>11
  <2>7. Known(u)'
    BY <2>5, <2>6 DEF Known, N, IdOf
  <2> QED
    BY <1>1, <2>3, <2>4, <2>6, <2>7 DEF CleanFits
<1> QED
  BY <1>14, <1>15

\* The plan of such a pod is what the profile says.
LEMMA CleanLoaded ==
  ASSUME TypeInv, CleanInv, CacheEnabled, Grows, NEW u \in Pods, loadPackages(u)
  PROVE  \A w \in Pods : IsClean(w)' => CleanFits(w)'
<1> DEFINE v == worker[u]
           s == v.sys
           P == packagesFromUpdateList(u)
           plan == loadSystemNEVRAsFromDB(P, stored[s])
           y == [v EXCEPT !.pc = "store"]
           x == [y EXCEPT !.plan = plan]
           z == [Ready EXCEPT !.pc = "invalidate", !.sys = s]
           a == [worker EXCEPT ![u] = x]
           b == [worker EXCEPT ![u] = z]
<1>1. v.pc = "load" /\ UNCHANGED <<profile, stored, package, nevraOf>>
  BY DEF loadPackages, hostVars, pkgVars, resultVars
<1>2. worker' = b \/ worker' = [worker EXCEPT ![u].pc = "store", ![u].plan = plan]
  BY Zenon DEF loadPackages, Ends
<1>3. worker' = b \/ worker' = a
  BY <1>2, Zenon
<1>4. IsWorker(v) /\ v = [pc |-> v.pc, sys |-> v.sys, list |-> v.list, plan |-> v.plan, clean |-> v.clean]
  BY DEF TypeInv, WorkersInv, IsWorker
<1>5. s \in Systems /\ GoodList(v.list)
  BY <1>1, <1>4 DEF IsWorker
<1>6. \A w \in Pods \ {u} : cache'[w] = cache[w]
  BY DEF loadPackages, TypeInv, PackagesInv
<1>7. worker = [w \in Pods |-> worker[w]]
  BY DEF TypeInv, WorkersInv
<1>8. z.pc = "invalidate"
  BY <1>5, EndIsWorker
<1>p. PlanOK(P) /\ \A q \in P : q.change = "add"
  BY <1>5, PackagesPlan DEF TypeInv
<1>r. IsClean(u) => PlanFits(P, profile[s])
  <2> SUFFICES ASSUME IsClean(u) PROVE PlanFits(P, profile[s])
    OBVIOUS
  <2>1. CleanFits(u)
    BY DEF CleanInv
  <2>2. v.list = ListOf(profile[s]) /\ Known(u)
    BY <1>1, <2>1 DEF CleanFits
  <2>3. IsProfile(profile[s])
    <3>1. profile[s] \in deployment.profiles \cup {NIL} /\ profile[s] # NIL
      BY <1>5, PackageAssumption DEF TypeInv, WorkersInv
    <3> QED
      BY <3>1, PackageAssumption DEF TypeInv, PackagesInv
  <2> QED
    BY <1>5, <2>2, <2>3, PackagesFit DEF TypeInv
<1>c. IsClean(u) => Working(s) = {u} /\ v.list = ListOf(profile[s])
  BY DEF CleanInv, CleanFits
<1> HIDE DEF v, P, plan
<1>9. y = [pc |-> "store", sys |-> v.sys, list |-> v.list, plan |-> v.plan, clean |-> v.clean]
  BY <1>4
<1> HIDE DEF y
<1>10. x = [pc |-> "store", sys |-> v.sys, list |-> v.list, plan |-> plan, clean |-> v.clean]
  BY <1>9
<1> HIDE DEF x, z
<1>11. worker'[u] \in {x, z} /\ \A w \in Pods \ {u} : worker'[w] = worker[w]
  BY <1>3, <1>7
<1>12. \A t : AtWork(worker'[u], t) => AtWork(v, t)
  BY <1>1, <1>8, <1>10, <1>11 DEF AtWork
<1>13. \A w \in Pods \ {u} : IsClean(w)' => CleanFits(w)'
  BY <1>1, <1>6, <1>11, <1>12, CleanOthers DEF v
<1>14. ASSUME IsClean(u)' PROVE CleanFits(u)'
  <2>1. worker'[u] = x
    BY <1>8, <1>11, <1>14 DEF IsClean
  <2>2. IsClean(u)
    BY <1>1, <1>10, <1>14, <2>1 DEF IsClean, v
  <2>s. PICK t : t = s
    OBVIOUS
  <2>3. Working(t)' = {u}
    <3>1. AtWork(worker'[u], t)
      BY <1>10, <2>1, <2>s DEF AtWork
    <3>2. \A w \in Pods \ {u} : ~AtWork(worker'[w], t)
      BY <1>c, <1>11, <2>2, <2>s DEF AtWork, Working
    <3> QED
      BY <3>1, <3>2 DEF AtWork, Working
  <2>4. Planned(plan, stored[s], profile[s])
    BY <1>p, <1>r, <2>2 DEF Planned, plan
  <2>5. Planned(worker[u].plan, stored[t], profile[t])'
    <3> DEFINE rows == stored[t]
               p == profile[t]
    <3>1. RowsOK(rows)
      BY <1>5, <2>s DEF TypeInv, RowsInv
    <3>2. worker'[u].plan = plan /\ stored'[t] = rows /\ profile'[t] = p
      BY <1>1, <1>10, <2>1
    <3>3. ASSUME NEW k, NEW l, NEW m, RowsOK(l), Planned(k, l, m),
                 worker'[u].plan = k, stored'[t] = l, profile'[t] = m
          PROVE  Planned(worker[u].plan, stored[t], profile[t])'
      <4>1. Planned(k, l, m)'
        BY <3>3, FitsSame
      <4> QED
        BY <3>3, <4>1
    <3>4. Planned(plan, rows, p)
      BY <2>4, <2>s
    <3> HIDE DEF rows, p
    <3> QED
      BY <3>1, <3>2, <3>3, <3>4
  <2>6. worker'[u].list = v.list /\ worker'[u].sys = t /\ worker'[u].pc = "store"
    BY <1>10, <2>1, <2>s
  <2>7. worker'[u].list = ListOf(profile'[t])
    BY <1>1, <1>c, <2>2, <2>6, <2>s
  <2> QED
    BY <2>3, <2>5, <2>6, <2>7 DEF CleanFits
<1> QED
  BY <1>13, <1>14

\* A pod that begins while no other evaluates the system, with an answer of VMaaS, has
\* the list of the profile; another that evaluates it is disturbed.
LEMMA CleanBegin ==
  ASSUME TypeInv, CleanInv, CacheEnabled, Grows, NEW u \in Pods, NEW s \in Systems, NEW vmaas,
         Begin(u, s, vmaas)
  PROVE  \A w \in Pods : IsClean(w)' => CleanFits(w)'
<1> DEFINE p    == profile[s]
           V    == IF vmaas = "ok" THEN p.vmaas ELSE NIL
           list == getUpdatesData(p.yum, V, p.satellite, p.bootc)
           others == Working(s)
           clean == (others = {} /\ vmaas = "ok")
           bad  == [Ready EXCEPT !.pc = "invalidate", !.sys = s]
           x    == [Ready EXCEPT !.pc = "save", !.sys = s, !.list = list, !.clean = clean]
           W1   == [worker EXCEPT ![u] = bad]
           W2   == [v \in Pods |-> IF v = u THEN x
                                   ELSE IF v \in others THEN [worker[v] EXCEPT !.clean = FALSE]
                                   ELSE worker[v]]
<1>1. /\ worker[u].pc = "ready"
      /\ UNCHANGED <<deployment, profile, stored, nevraOf, package, cache>>
      /\ worker' = W1 \/ worker' = W2
  BY Zenon DEF Begin, hostVars, pkgVars, resultVars
<1>2. worker = [v \in Pods |-> worker[v]]
  BY DEF TypeInv, WorkersInv
<1>3. \A v \in Pods : IsWorker(worker[v])
  BY DEF TypeInv, WorkersInv
<1>4. bad.pc = "invalidate"
  BY EndIsWorker
<1>5. x = [pc |-> "save", sys |-> s, list |-> list, plan |-> {}, clean |-> clean]
  <2> HIDE DEF list, clean
  <2> QED
    BY BeginRecord, Zenon
<1>6. clean => list = ListOf(p)
  BY DEF ListOf
<1>7. \A v \in others : v \in Pods /\ worker[v].sys = s
  BY DEF Working
<1>8. \A v \in Pods : AtWork(worker[v], s) => v \in others
  BY DEF Working, AtWork
<1>9. clean => others = {}
  OBVIOUS
<1>10. \A v \in Pods : LET y == [worker[v] EXCEPT !.clean = FALSE]
                       IN  y.sys = worker[v].sys /\ y.pc = worker[v].pc /\ ~y.clean
  <2> SUFFICES ASSUME NEW v \in Pods
      PROVE LET y == [worker[v] EXCEPT !.clean = FALSE]
            IN  y.sys = worker[v].sys /\ y.pc = worker[v].pc /\ ~y.clean
    OBVIOUS
  <2>1. IsWorker(worker[v])
    BY <1>3
  <2>2. [worker[v] EXCEPT !.clean = FALSE].clean = FALSE
    BY <2>1 DEF IsWorker
  <2> QED
    BY <2>1, <2>2, CleanChanges
<1>11. ASSUME worker' = W1 PROVE \A w \in Pods : IsClean(w)' => CleanFits(w)'
  <2> HIDE DEF bad
  <2>1. worker'[u] = bad /\ \A w \in Pods \ {u} : worker'[w] = worker[w]
    BY <1>2, <1>11
  <2>2. \A t : ~AtWork(worker'[u], t)
    BY <1>4, <2>1 DEF AtWork
  <2>3. \A w \in Pods \ {u} : IsClean(w)' => CleanFits(w)'
    BY <1>1, <2>1, <2>2, CleanOthers
  <2>4. ~IsClean(u)'
    BY <1>4, <2>1 DEF IsClean
  <2> QED
    BY <2>3, <2>4
<1>12. ASSUME worker' = W2 PROVE \A w \in Pods : IsClean(w)' => CleanFits(w)'
  <2> HIDE DEF x, others
  <2>1. worker'[u] = x
    BY <1>12
  <2>2. \A w \in Pods \ {u} : worker'[w] = IF w \in others THEN [worker[w] EXCEPT !.clean = FALSE]
                                           ELSE worker[w]
    BY <1>12
  <2>3. \A w \in Pods \ {u} : worker'[w].sys = worker[w].sys /\ worker'[w].pc = worker[w].pc
    BY <1>10, <2>2
  <2>4. ASSUME NEW w \in Pods \ {u}, IsClean(w)' PROVE CleanFits(w)'
    <3> DEFINE t == worker[w].sys
    <3>1. w \notin others /\ worker'[w] = worker[w]
      BY <1>10, <2>2, <2>4 DEF IsClean
    <3>2. IsClean(w)
      BY <2>4, <3>1 DEF IsClean
    <3>3. t # s
      BY <1>8, <3>1, <3>2 DEF IsClean, AtWork
    <3>4. \A v \in Pods \ {w} : AtWork(worker'[v], t) => AtWork(worker[v], t)
      <4>1. ~AtWork(worker'[u], t)
        BY <1>5, <2>1, <3>3 DEF AtWork, x
      <4> QED
        BY <2>3, <4>1 DEF AtWork
    <3>5. worker[w].pc = "load" => Known(w)'
      <4>1. CleanFits(w)
        BY <3>2 DEF CleanInv
      <4> QED
        BY <1>1, <3>1, <4>1, KnownStays DEF CleanFits, TypeInv
    <3> QED
      BY <1>1, <3>1, <3>2, <3>4, <3>5, CleanFrame
  <2>5. ASSUME IsClean(u)' PROVE CleanFits(u)'
    <3> HIDE DEF clean, list
    <3>1. /\ worker'[u].sys = s /\ worker'[u].pc = "save" /\ worker'[u].list = list
          /\ worker'[u].clean = clean
      BY <1>5, <2>1 DEF x
    <3>2. clean
      BY <2>5, <3>1 DEF IsClean
    <3>3. \A v \in Pods \ {u} : ~AtWork(worker'[v], s)
      <4>1. \A v \in Pods : ~AtWork(worker[v], s)
        BY <1>8, <1>9, <3>2
      <4> QED
        BY <2>3, <4>1 DEF AtWork
    <3>4. Working(s)' = {u}
      <4>1. AtWork(worker'[u], s)
        BY <3>1 DEF AtWork
      <4> QED
        BY <3>3, <4>1 DEF AtWork, Working
    <3>5. worker'[u].list = ListOf(profile'[s])
      BY <1>1, <1>6, <3>1, <3>2
    <3> QED
      BY <3>1, <3>4, <3>5 DEF CleanFits
  <2> QED
    BY <2>4, <2>5
<1> QED
  BY <1>1, <1>11, <1>12

\* Every step keeps undisturbed evaluations as they should be.
LEMMA CleanStep ==
  ASSUME TypeInv, CleanInv, Grows, [Step]_primaryVars
  PROVE  CleanInv'
<1> SUFFICES ASSUME CacheEnabled PROVE \A w \in Pods : IsClean(w)' => CleanFits(w)'
  BY DEF CleanInv
<1>0. /\ worker = [w \in Pods |-> worker[w]] /\ \A w \in Pods : IsWorker(worker[w])
      /\ cache \in [Pods -> SUBSET (DOMAIN nevraOf)]
      /\ profile \in [Systems -> deployment.profiles \cup {NIL}]
  BY DEF TypeInv, WorkersInv, PackagesInv
<1>1. \A w \in Pods : IsClean(w) /\ worker[w].pc = "load" => Known(w)
  BY DEF CleanInv, CleanFits
<1>2. ASSUME UNCHANGED <<worker, profile, stored, cache>>, package \subseteq package'
      PROVE  \A w \in Pods : IsClean(w)' => CleanFits(w)'
  <2>1. \A w \in Pods : Known(w) => Known(w)'
    BY <1>2, KnownStays DEF TypeInv
  <2> QED
    BY <1>1, <1>2, <2>1, CleanFlags
<1>3. ASSUME NEW s \in Systems, NEW p \in deployment.profiles, Upload(s, p)
      PROVE  \A w \in Pods : IsClean(w)' => CleanFits(w)'
  <2> DEFINE W == [w \in Pods |-> IF w \in Working(s) THEN [worker[w] EXCEPT !.clean = FALSE]
                                  ELSE worker[w]]
  <2>1. /\ profile' = [profile EXCEPT ![s] = p] /\ worker' = W
        /\ UNCHANGED <<cache, package, nevraOf, stored>>
    BY <1>3 DEF Upload, pkgVars, resultVars
  <2>2. \A w \in Pods : W[w] = IF w \in Working(s) THEN [worker[w] EXCEPT !.clean = FALSE]
                               ELSE worker[w]
    OBVIOUS
  <2> HIDE DEF W
  <2>3. \A w \in Pods : IsClean(w) /\ worker'[w] = worker[w] => worker[w].sys # s
    <3> SUFFICES ASSUME NEW w \in Pods, IsClean(w), worker'[w] = worker[w], worker[w].sys = s
        PROVE  FALSE
      OBVIOUS
    <3>1. w \in Working(s)
      BY DEF IsClean, Working
    <3>2. worker[w] = [worker[w] EXCEPT !.clean = FALSE]
      BY <2>1, <2>2, <3>1
    <3>3. [worker[w] EXCEPT !.clean = FALSE].clean = FALSE
      BY <1>0 DEF IsWorker
    <3> QED
      BY <3>2, <3>3 DEF IsClean
  <2>4. \A w \in Pods : IsClean(w) /\ worker'[w] = worker[w] => profile'[worker[w].sys] = profile[worker[w].sys]
    BY <1>0, <2>1, <2>3 DEF IsWorker
  <2>5. \A w \in Pods : Known(w) /\ worker'[w] = worker[w] => Known(w)'
    BY <2>1, KnownStays DEF TypeInv
  <2> QED
    BY <1>1, <2>1, <2>2, <2>4, <2>5, CleanFlags
<1>4. ASSUME NEW u \in Pods, NEW i \in DOMAIN nevraOf, Evict(u, i)
      PROVE  \A w \in Pods : IsClean(w)' => CleanFits(w)'
  <2> DEFINE b == worker[u].clean /\ ~(worker[u].pc = "load" /\ i \notin package)
             x == [worker[u] EXCEPT !.clean = b]
  <2>1. /\ worker' = [worker EXCEPT ![u] = x] /\ cache' = [cache EXCEPT ![u] = cache[u] \ {i}]
        /\ UNCHANGED <<profile, package, nevraOf, stored>>
    BY <1>4, Zenon DEF Evict, hostVars, pkgVars, resultVars
  <2>2. IsWorker(worker[u])
    BY <1>0
  <2>3. worker[u] = [worker[u] EXCEPT !.clean = worker[u].clean]
    BY <2>2 DEF IsWorker
  <2>4. worker[u].clean \in BOOLEAN
    BY <2>2 DEF IsWorker
  <2>5. x = worker[u] \/ x = [worker[u] EXCEPT !.clean = FALSE]
    <3>1. b = worker[u].clean \/ b = FALSE
      BY <2>4
    <3> HIDE DEF b
    <3> QED
      BY <2>3, <3>1
  <2>6. x = worker[u] => b = worker[u].clean
    <3>1. b \in BOOLEAN
      BY <2>4
    <3> HIDE DEF b
    <3>2. x.clean = b
      BY <2>2, <3>1 DEF IsWorker
    <3> QED
      BY <3>2
  <2>7. \A w \in Pods : w = u \/ (worker'[w] = worker[w] /\ cache'[w] = cache[w])
    BY <1>0, <2>1
  <2>8. worker'[u] = x /\ cache'[u] = cache[u] \ {i}
    BY <1>0, <2>1
  <2>9. ASSUME NEW w \in Pods, IsClean(w), worker'[w] = worker[w], worker[w].pc = "load"
        PROVE  Known(w)'
    <3>1. Known(w)
      BY <1>1, <2>9
    <3>2. cache[w] \cup package \subseteq cache'[w] \cup package'
      <4>1. CASE w = u
        <5>1. i \in package
          BY <2>6, <2>8, <2>9, <4>1 DEF IsClean
        <5> QED
          BY <2>1, <2>8, <4>1, <5>1
      <4>2. CASE w # u
        BY <2>1, <2>7, <4>2
      <4> QED
        BY <4>1, <4>2
    <3> QED
      BY <2>9, <3>1, <3>2, KnownStays DEF TypeInv
  <2> HIDE DEF x
  <2>10. \A w \in Pods : worker'[w] = worker[w] \/ worker'[w] = [worker[w] EXCEPT !.clean = FALSE]
    BY <2>5, <2>7, <2>8
  <2> QED
    BY <2>1, <2>9, <2>10, CleanFlags
<1>5. ASSUME NEW D \in SUBSET package, deleteUnusedPackages(D)
      PROVE  \A w \in Pods : IsClean(w)' => CleanFits(w)'
  <2> DEFINE hit(w) == worker[w].pc = "load" /\ {nevraOf[i] : i \in D} \cap NevrasOf(worker[w].list) # {}
             W == [w \in Pods |-> IF hit(w) THEN [worker[w] EXCEPT !.clean = FALSE] ELSE worker[w]]
  <2>1. worker' = W /\ package' = package \ D /\ UNCHANGED <<profile, cache, nevraOf, stored>>
    BY <1>5 DEF deleteUnusedPackages, hostVars, resultVars
  <2>2. \A w \in Pods : W[w] = IF hit(w) THEN [worker[w] EXCEPT !.clean = FALSE] ELSE worker[w]
    OBVIOUS
  <2> HIDE DEF W
  <2>3. ASSUME NEW w \in Pods, IsClean(w), worker'[w] = worker[w], worker[w].pc = "load"
        PROVE  Known(w)'
    <3>1. ~hit(w)
      <4> SUFFICES ASSUME hit(w) PROVE FALSE
        OBVIOUS
      <4>1. worker[w] = [worker[w] EXCEPT !.clean = FALSE]
        BY <2>1, <2>2, <2>3
      <4>2. [worker[w] EXCEPT !.clean = FALSE].clean = FALSE
        BY <1>0 DEF IsWorker
      <4> QED
        BY <2>3, <4>1, <4>2 DEF IsClean
    <3>2. Known(w)
      BY <1>1, <2>3
    <3>3. \A n \in NevrasOf(worker[w].list) : \A i \in D : nevraOf[i] # n
      BY <2>3, <3>1
    <3>4. \A n \in NevrasOf(worker[w].list) : \E i \in cache[w] \cup (package \ D) : nevraOf[i] = n
      BY <3>2, <3>3 DEF Known, IdOf
    <3> QED
      BY <2>1, <2>3, <3>4 DEF Known, IdOf
  <2> HIDE DEF hit
  <2> QED
    BY <2>1, <2>2, <2>3, CleanFlags
<1>6. ASSUME NEW u \in Pods, evaluateAndStore(u) \/ StoreRefused(u)
      PROVE  \A w \in Pods : IsClean(w)' => CleanFits(w)'
  <2> DEFINE x == [Ready EXCEPT !.pc = "invalidate", !.sys = worker[u].sys]
  <2>1. /\ worker[u].pc = "store" /\ worker' = [worker EXCEPT ![u] = x]
        /\ UNCHANGED <<profile, cache, package, nevraOf>>
    BY <1>6, Zenon DEF evaluateAndStore, StoreRefused, Ends, hostVars, pkgVars
  <2>2. \A s \in Systems : AtWork(worker[u], s) \/ stored'[s] = stored[s]
    <3>1. CASE evaluateAndStore(u)
      <4>1. \E e : stored' = [stored EXCEPT ![worker[u].sys] = e]
        BY <3>1 DEF evaluateAndStore
      <4> QED
        BY <2>1, <4>1 DEF AtWork, TypeInv, RowsInv
    <3>2. CASE StoreRefused(u)
      BY <3>2 DEF StoreRefused, resultVars
    <3> QED
      BY <1>6, <3>1, <3>2
  <2>3. worker[u].sys \in Systems
    BY <1>0, <2>1 DEF IsWorker
  <2>4. x.pc = "invalidate"
    BY <2>3, EndIsWorker
  <2> HIDE DEF x
  <2>5. worker'[u] = x /\ \A w \in Pods \ {u} : worker'[w] = worker[w]
    BY <1>0, <2>1
  <2>6. \A s : ~AtWork(worker'[u], s)
    BY <2>4, <2>5 DEF AtWork
  <2>7. ~IsClean(u)'
    BY <2>4, <2>5 DEF IsClean
  <2> QED
    BY <2>1, <2>2, <2>5, <2>6, <2>7, CleanOthers
<1>7. ASSUME NEW u \in Pods, invalidateCaches(u) \/ Restart(u)
      PROVE  \A w \in Pods : IsClean(w)' => CleanFits(w)'
  <2>1. /\ worker' = [worker EXCEPT ![u] = Ready] /\ UNCHANGED <<profile, package, nevraOf, stored>>
        /\ \A w \in Pods \ {u} : cache'[w] = cache[w]
    BY <1>0, <1>7 DEF invalidateCaches, Restart, hostVars, pkgVars, resultVars
  <2>2. worker'[u] = Ready /\ \A w \in Pods \ {u} : worker'[w] = worker[w]
    BY <1>0, <2>1
  <2>3. Ready.pc = "ready"
    BY DEF Ready
  <2>4. \A s : ~AtWork(worker'[u], s)
    BY <2>2, <2>3 DEF AtWork
  <2>5. ~IsClean(u)'
    BY <2>2, <2>3 DEF IsClean
  <2> QED
    BY <2>1, <2>2, <2>4, <2>5, CleanOthers
<1>8. ASSUME NEW u \in Pods, NEW s \in Systems, Recalc(u, s) \/ MarkStale(s)
      PROVE  \A w \in Pods : IsClean(w)' => CleanFits(w)'
  BY <1>2, <1>8 DEF Recalc, MarkStale, hostVars, pkgVars, resultVars
<1>9. ASSUME NEW page \in PkgListPages, syncPackages(page)
      PROVE  \A w \in Pods : IsClean(w)' => CleanFits(w)'
  BY <1>2, <1>9 DEF syncPackages, storePkgListData, storeOrUpdate, hostVars, resultVars
<1>10. CASE RefreshStep
  BY <1>2, <1>10, RefreshFrame DEF hostVars, pkgVars, resultVars
<1>11. CASE UNCHANGED primaryVars
  BY <1>2, <1>11 DEF primaryVars, hostVars, pkgVars, resultVars
<1>12. Pods # {}
  BY PackageAssumption
<1>13. ASSUME NEW u \in Pods, lazySavePackages(u) \/ loadPackages(u)
       PROVE  \A w \in Pods : IsClean(w)' => CleanFits(w)'
  BY <1>13, CleanSaved, CleanLoaded
<1>14. ASSUME NEW u \in Pods, NEW s \in Systems, NEW x, Begin(u, s, x)
       PROVE  \A w \in Pods : IsClean(w)' => CleanFits(w)'
  BY <1>14, CleanBegin
<1> QED
  BY <1>3, <1>4, <1>5, <1>6, <1>7, <1>8, <1>9, <1>10, <1>11, <1>12, <1>13, <1>14, NextSteps

\* Systems that stay as they were.
LEMMA StoredKept ==
  ASSUME TypeInv, StoredInv, Grows,
         \A s \in Systems \ lost' : Settled(s)' =>
           /\ Settled(s) /\ s \notin lost
           /\ stored'[s] = stored[s] /\ patch'[s] = patch[s] /\ profile'[s] = profile[s]
  PROVE  StoredInv'
<1> SUFFICES ASSUME CacheEnabled, NEW s \in Systems \ lost', Settled(s)'
    PROVE  RowsFit(stored[s], patch[s], profile[s])'
  BY DEF StoredInv
<1> DEFINE rows == stored[s]
           c == patch[s]
           p == profile[s]
<1>1. /\ stored'[s] = rows /\ patch'[s] = c /\ profile'[s] = p
      /\ RowsFit(rows, c, p)
  BY DEF StoredInv
<1>2. RowsOK(rows)
  BY DEF TypeInv, RowsInv
<1>3. ASSUME NEW k, NEW l, NEW m, RowsOK(k), RowsFit(k, l, m),
             stored'[s] = k, patch'[s] = l, profile'[s] = m
      PROVE  RowsFit(stored[s], patch[s], profile[s])'
  <2>1. RowsFit(k, l, m)'
    BY <1>3, FitsSame
  <2> QED
    BY <1>3, <2>1
<1> HIDE DEF rows, c, p
<1> QED
  BY <1>1, <1>2, <1>3

\* When the pods are at work for the same systems and the messages are the same, the same
\* systems are settled.
LEMMA SettledSame ==
  ASSUME NEW s, profile'[s] = profile[s],
         \A w \in Pods : s \in pending[w] => s \in pending'[w],
         \A w \in Pods : AtWork(worker[w], s) => AtWork(worker'[w], s),
         Settled(s)'
  PROVE  Settled(s)
<1>1. \A w \in Pods : ~AtWork(worker'[w], s)
  BY DEF Settled, Working, AtWork
<1>2. Working(s) = {}
  BY <1>1 DEF Working, AtWork
<1> QED
  BY <1>2 DEF Settled

\* The transaction of an undisturbed evaluation stores what was reported; another one
\* leaves the system among the lost ones.
LEMMA StoredStore ==
  ASSUME TypeInv, CleanInv, StoredInv, Grows, NEW u \in Pods, evaluateAndStore(u)
  PROVE  StoredInv'
<1> DEFINE v == worker[u]
           rows == stored[v.sys]
           plan == v.plan
           new == updateSystemPackages(rows, plan)
           c == PatchOf(plan)
           x == [Ready EXCEPT !.pc = "invalidate", !.sys = v.sys]
<1>1. /\ v.pc = "store" /\ Written(plan) \subseteq package
      /\ stored' = [stored EXCEPT ![v.sys] = new] /\ patch' = [patch EXCEPT ![v.sys] = c]
      /\ lost' = IF v.clean THEN lost \ {v.sys} ELSE lost \cup {v.sys}
      /\ worker' = [worker EXCEPT ![u] = x]
      /\ UNCHANGED <<profile, pending, package, nevraOf>>
  BY Zenon DEF evaluateAndStore, Ends, hostVars, pkgVars
<1>2. v.sys \in Systems
  BY <1>1 DEF TypeInv, WorkersInv, IsWorker
<1>s. PICK s : s = v.sys
  OBVIOUS
<1>3. /\ \A t \in Systems \ {s} : stored'[t] = stored[t] /\ patch'[t] = patch[t]
      /\ stored'[s] = new /\ patch'[s] = c
  <2> HIDE DEF new, c
  <2> QED
    BY <1>1, <1>2, <1>s DEF TypeInv, RowsInv
<1>4. \A w \in Pods \ {u} : worker'[w] = worker[w]
  <2> HIDE DEF x
  <2> QED
    BY <1>1 DEF TypeInv, WorkersInv
<1>5. ASSUME CacheEnabled, NEW t \in Systems \ lost', Settled(t)', t # s
      PROVE  RowsFit(stored[t], patch[t], profile[t])'
  <2>1. \A w \in Pods : AtWork(worker[w], t) => AtWork(worker'[w], t)
    BY <1>4, <1>5, <1>s DEF AtWork
  <2>2. Settled(t) /\ t \notin lost
    <3>1. t \notin lost
      BY <1>1, <1>5, <1>s
    <3>2. profile'[t] = profile[t] /\ \A w \in Pods : t \in pending[w] => t \in pending'[w]
      BY <1>1
    <3> QED
      BY <1>5, <2>1, <3>1, <3>2, SettledSame
  <2> DEFINE k == stored[t]
             l == patch[t]
             m == profile[t]
  <2>3. /\ stored'[t] = k /\ patch'[t] = l /\ profile'[t] = m /\ RowsFit(k, l, m) /\ RowsOK(k)
    BY <1>1, <1>3, <1>5, <2>2 DEF StoredInv, TypeInv, RowsInv
  <2> HIDE DEF k, l, m
  <2>4. ASSUME NEW a, NEW b, NEW d, RowsOK(a), RowsFit(a, b, d),
               stored'[t] = a, patch'[t] = b, profile'[t] = d
        PROVE  RowsFit(stored[t], patch[t], profile[t])'
    <3>1. RowsFit(a, b, d)'
      BY <2>4, FitsSame
    <3> QED
      BY <2>4, <3>1
  <2> QED
    BY <2>3, <2>4
<1>6. ASSUME CacheEnabled, s \notin lost'
      PROVE  RowsFit(stored[s], patch[s], profile[s])'
  <2>1. IsClean(u)
    BY <1>1, <1>2, <1>6, <1>s DEF IsClean
  <2>2. Planned(plan, rows, profile[s])
    BY <1>1, <1>6, <1>s, <2>1 DEF CleanInv, CleanFits
  <2>3. RowsOK(rows) /\ \A r \in rows : {r.id, r.inst, r.app} \subseteq package \cup {NIL}
    BY <1>2 DEF TypeInv, RowsInv
  <2>4. package \subseteq DOMAIN nevraOf /\ UniqueIn(package) /\ NIL \notin DOMAIN nevraOf
    <3>1. \A i \in DOMAIN nevraOf : i \in Nat
      BY DEF TypeInv, PackagesInv
    <3> QED
      BY <3>1, PackageAssumption DEF TypeInv, PackagesInv
  <2> DEFINE p == profile[s]
  <2> HIDE DEF rows, plan, p
  <2>5. PICK P : /\ plan = loadSystemNEVRAsFromDB(P, rows) /\ PlanOK(P)
                 /\ \A q \in P : q.change = "add"
                 /\ PlanFits(P, p)
    BY <2>2 DEF Planned, p
  <2>6. RowsFit(new, c, p)
    BY <1>1, <2>3, <2>4, <2>5, StoredFits
  <2>7. RowsOK(new)
    <3>1. PlanOK(plan)
      BY <1>1 DEF TypeInv, WorkersInv, IsWorker, plan
    <3> QED
      BY <1>1, <2>3, <3>1, UpdatedRowsOK
  <2>8. ASSUME NEW a, NEW b, NEW d, RowsOK(a), RowsFit(a, b, d),
               stored'[s] = a, patch'[s] = b, profile'[s] = d
        PROVE  RowsFit(stored[s], patch[s], profile[s])'
    <3>1. RowsFit(a, b, d)'
      BY <2>8, FitsSame
    <3> QED
      BY <2>8, <3>1
  <2>9. profile'[s] = p
    BY <1>1 DEF p
  <2> HIDE DEF new, c
  <2> QED
    BY <1>3, <2>6, <2>7, <2>8, <2>9
<1> QED
  BY <1>5, <1>6 DEF StoredInv

\* Every step keeps what is stored.
LEMMA StoredStep ==
  ASSUME TypeInv, CleanInv, StoredInv, Grows, [Step]_primaryVars
  PROVE  StoredInv'
<1>0. /\ worker = [w \in Pods |-> worker[w]] /\ \A w \in Pods : IsWorker(worker[w])
      /\ pending \in [Pods -> SUBSET Systems]
      /\ profile \in [Systems -> deployment.profiles \cup {NIL}]
  BY DEF TypeInv, WorkersInv, PackagesInv
<1>1. ASSUME UNCHANGED <<profile, resultVars>>, lost \subseteq lost',
             \A s \in Systems \ lost' : Settled(s)' =>
               /\ \A w \in Pods : s \in pending[w] => s \in pending'[w]
               /\ \A w \in Pods : AtWork(worker[w], s) => AtWork(worker'[w], s)
      PROVE  StoredInv'
  <2>1. \A s \in Systems \ lost' : Settled(s)' => Settled(s) /\ s \notin lost
    BY <1>1, SettledSame
  <2> QED
    BY <1>1, <2>1, StoredKept DEF resultVars
<1>2. ASSUME UNCHANGED <<profile, resultVars, pending, lost>>,
             \A w \in Pods : worker'[w].sys = worker[w].sys /\ worker'[w].pc = worker[w].pc
      PROVE  StoredInv'
  BY <1>1, <1>2 DEF AtWork
<1>3. ASSUME NEW b \in BOOLEAN, NEW w \in Pods
      PROVE  LET x == [worker[w] EXCEPT !.clean = b]
             IN  x.sys = worker[w].sys /\ x.pc = worker[w].pc
  BY <1>0, CleanChanges
<1>4. ASSUME NEW s \in Systems, NEW p \in deployment.profiles, Upload(s, p) PROVE StoredInv'
  <2> DEFINE W == [w \in Pods |-> IF w \in Working(s) THEN [worker[w] EXCEPT !.clean = FALSE]
                                  ELSE worker[w]]
  <2>1. /\ profile' = [profile EXCEPT ![s] = p] /\ worker' = W
        /\ pending' = [pending EXCEPT ![UploadPod] = @ \cup {s}]
        /\ UNCHANGED <<lost, stored, patch>>
    BY <1>4 DEF Upload, resultVars
  <2>2. \A w \in Pods : W[w].sys = worker[w].sys /\ W[w].pc = worker[w].pc
    <3> SUFFICES ASSUME NEW w \in Pods PROVE W[w].sys = worker[w].sys /\ W[w].pc = worker[w].pc
      OBVIOUS
    <3> DEFINE x == [worker[w] EXCEPT !.clean = FALSE]
    <3>1. x.sys = worker[w].sys /\ x.pc = worker[w].pc
      BY <1>3
    <3>2. W[w] \in {x, worker[w]}
      OBVIOUS
    <3> HIDE DEF x, W
    <3> QED
      BY <3>1, <3>2
  <2> HIDE DEF W
  <2>3. ~Settled(s)'
    BY <1>0, <2>1, PackageAssumption DEF Settled
  <2>4. \A t \in Systems \ {s} : profile'[t] = profile[t]
    BY <1>0, <2>1
  <2>5. \A w \in Pods : pending[w] \subseteq pending'[w]
    BY <1>0, <2>1
  <2>6. \A t : \A w \in Pods : AtWork(worker[w], t) => AtWork(worker'[w], t)
    BY <2>1, <2>2 DEF AtWork
  <2>7. \A t \in Systems : Settled(t)' => Settled(t) /\ t # s
    BY <2>3, <2>4, <2>5, <2>6, SettledSame
  <2> QED
    BY <2>1, <2>4, <2>7, StoredKept
<1>5. ASSUME NEW w \in Pods, NEW s \in Systems, Recalc(w, s) PROVE StoredInv'
  <2>1. /\ UNCHANGED <<profile, resultVars, worker, lost>>
        /\ pending' = [pending EXCEPT ![w] = @ \cup {s}]
    BY <1>5 DEF Recalc, hostVars
  <2>2. \A v \in Pods : pending[v] \subseteq pending'[v]
    BY <1>0, <2>1
  <2> QED
    BY <1>1, <2>1, <2>2
<1>6. ASSUME NEW w \in Pods, NEW i \in DOMAIN nevraOf, Evict(w, i) PROVE StoredInv'
  <2> DEFINE b == worker[w].clean /\ ~(worker[w].pc = "load" /\ i \notin package)
             x == [worker[w] EXCEPT !.clean = b]
  <2>1. worker' = [worker EXCEPT ![w] = x] /\ UNCHANGED <<profile, resultVars, pending, lost>>
    BY <1>6, Zenon DEF Evict, hostVars
  <2>2. b \in BOOLEAN
    BY <1>0 DEF IsWorker
  <2> HIDE DEF b
  <2>3. x.sys = worker[w].sys /\ x.pc = worker[w].pc
    BY <1>3, <2>2
  <2> HIDE DEF x
  <2> QED
    BY <1>0, <1>2, <2>1, <2>3
<1>7. ASSUME NEW D \in SUBSET package, deleteUnusedPackages(D) PROVE StoredInv'
  <2> DEFINE hit(w) == worker[w].pc = "load" /\ {nevraOf[i] : i \in D} \cap NevrasOf(worker[w].list) # {}
             W == [w \in Pods |-> IF hit(w) THEN [worker[w] EXCEPT !.clean = FALSE] ELSE worker[w]]
  <2>1. worker' = W /\ UNCHANGED <<profile, resultVars, pending, lost>>
    BY <1>7 DEF deleteUnusedPackages, hostVars
  <2> HIDE DEF hit
  <2>2. \A w \in Pods : W[w].sys = worker[w].sys /\ W[w].pc = worker[w].pc
    <3> SUFFICES ASSUME NEW w \in Pods PROVE W[w].sys = worker[w].sys /\ W[w].pc = worker[w].pc
      OBVIOUS
    <3> DEFINE x == [worker[w] EXCEPT !.clean = FALSE]
    <3>1. x.sys = worker[w].sys /\ x.pc = worker[w].pc
      BY <1>3
    <3>2. W[w] \in {x, worker[w]}
      OBVIOUS
    <3> HIDE DEF x, W
    <3> QED
      BY <3>1, <3>2
  <2> HIDE DEF W
  <2> QED
    BY <1>2, <2>1, <2>2
<1>8. ASSUME NEW u \in Pods, StoreRefused(u) PROVE StoredInv'
  <2> DEFINE x == [Ready EXCEPT !.pc = "invalidate", !.sys = worker[u].sys]
  <2>1. /\ worker' = [worker EXCEPT ![u] = x] /\ lost' = lost \cup {worker[u].sys}
        /\ UNCHANGED <<profile, resultVars, pending>>
    BY <1>8, Zenon DEF StoreRefused, Ends, hostVars
  <2> HIDE DEF x
  <2>2. \A w \in Pods \ {u} : worker'[w] = worker[w]
    BY <1>0, <2>1
  <2>3. \A s \in Systems \ lost' : s # worker[u].sys
    BY <2>1
  <2> QED
    BY <1>1, <2>1, <2>2, <2>3 DEF AtWork
<1>9. ASSUME NEW u \in Pods, lazySavePackages(u) PROVE StoredInv'
  <2> DEFINE v == worker[u]
             x == [v EXCEPT !.pc = "load"]
  <2>1. /\ v.pc = "save" /\ worker' = [worker EXCEPT ![u] = x]
        /\ UNCHANGED <<profile, resultVars, pending, lost>>
    BY <1>9, Zenon DEF lazySavePackages, hostVars
  <2>2. v = [pc |-> v.pc, sys |-> v.sys, list |-> v.list, plan |-> v.plan, clean |-> v.clean]
    BY <1>0 DEF IsWorker
  <2> HIDE DEF v
  <2>3. x.sys = v.sys /\ x.pc = "load"
    BY <2>2
  <2> HIDE DEF x
  <2>4. \A w \in Pods : worker'[w] = worker[w] \/ (w = u /\ worker'[w] = x)
    BY <1>0, <2>1
  <2> QED
    BY <1>1, <2>1, <2>3, <2>4 DEF AtWork, v
<1>10. ASSUME NEW u \in Pods, loadPackages(u) PROVE StoredInv'
  <2> DEFINE v == worker[u]
             plan == loadSystemNEVRAsFromDB(packagesFromUpdateList(u), stored[v.sys])
             y == [v EXCEPT !.pc = "store"]
             x == [y EXCEPT !.plan = plan]
             z == [Ready EXCEPT !.pc = "invalidate", !.sys = v.sys]
             a == [worker EXCEPT ![u] = x]
             b == [worker EXCEPT ![u] = z]
  <2>1. v.pc = "load" /\ UNCHANGED <<profile, resultVars, pending>>
    BY <1>10 DEF loadPackages, hostVars
  <2>2. \/ worker' = b /\ lost' = lost \cup {v.sys}
        \/ worker' = [worker EXCEPT ![u].pc = "store", ![u].plan = plan] /\ UNCHANGED lost
    BY <1>10, Zenon DEF loadPackages, Ends
  <2>3. \/ worker' = b /\ lost' = lost \cup {v.sys}
        \/ worker' = a /\ UNCHANGED lost
    BY <2>2, Zenon
  <2>4. v = [pc |-> v.pc, sys |-> v.sys, list |-> v.list, plan |-> v.plan, clean |-> v.clean]
    BY <1>0 DEF IsWorker
  <2> HIDE DEF v, plan
  <2>5. y = [pc |-> "store", sys |-> v.sys, list |-> v.list, plan |-> v.plan, clean |-> v.clean]
    BY <2>4
  <2> HIDE DEF y
  <2>6. x.sys = v.sys /\ x.pc = "store"
    BY <2>5
  <2> HIDE DEF x, z
  <2>7. CASE worker' = b /\ lost' = lost \cup {v.sys}
    <3>1. \A w \in Pods \ {u} : worker'[w] = worker[w]
      BY <1>0, <2>7
    <3>2. \A s \in Systems \ lost' : s # v.sys
      BY <2>7
    <3> QED
      BY <1>1, <2>1, <2>7, <3>1, <3>2 DEF AtWork, v
  <2>8. CASE worker' = a /\ UNCHANGED lost
    <3>1. \A w \in Pods : worker'[w] = worker[w] \/ (w = u /\ worker'[w] = x)
      BY <1>0, <2>8
    <3> QED
      BY <1>1, <2>1, <2>6, <2>8, <3>1 DEF AtWork, v
  <2> QED
    BY <2>3, <2>7, <2>8
<1>11. ASSUME NEW u \in Pods, invalidateCaches(u) PROVE StoredInv'
  <2>1. /\ worker[u].pc = "invalidate" /\ worker' = [worker EXCEPT ![u] = Ready]
        /\ UNCHANGED <<profile, resultVars, pending, lost>>
    BY <1>11 DEF invalidateCaches, hostVars
  <2>2. \A w \in Pods \ {u} : worker'[w] = worker[w]
    BY <1>0, <2>1
  <2> QED
    BY <1>1, <2>1, <2>2 DEF AtWork
<1>12. ASSUME NEW u \in Pods, Restart(u) PROVE StoredInv'
  <2>1. /\ worker' = [worker EXCEPT ![u] = Ready]
        /\ pending' = [pending EXCEPT ![u] = IF worker[u].pc = "ready" THEN @ ELSE @ \cup {worker[u].sys}]
        /\ UNCHANGED <<profile, resultVars, lost>>
    BY <1>12 DEF Restart, hostVars
  <2>2. \A w \in Pods \ {u} : worker'[w] = worker[w]
    BY <1>0, <2>1
  <2>3. \A w \in Pods : pending[w] \subseteq pending'[w]
    BY <1>0, <2>1
  <2>4. \A s : AtWork(worker[u], s) => s \in pending'[u]
    BY <1>0, <2>1 DEF AtWork
  <2>5. \A s : Settled(s)' => ~AtWork(worker[u], s)
    BY <2>4 DEF Settled
  <2> QED
    BY <1>1, <2>1, <2>2, <2>3, <2>5
<1>13. ASSUME NEW u \in Pods, NEW s \in Systems, NEW vmaas, Begin(u, s, vmaas) PROVE StoredInv'
  <2> DEFINE p    == profile[s]
             V    == IF vmaas = "ok" THEN p.vmaas ELSE NIL
             list == getUpdatesData(p.yum, V, p.satellite, p.bootc)
             others == Working(s)
             clean == (others = {} /\ vmaas = "ok")
             bad  == [Ready EXCEPT !.pc = "invalidate", !.sys = s]
             x    == [Ready EXCEPT !.pc = "save", !.sys = s, !.list = list, !.clean = clean]
             W1   == [worker EXCEPT ![u] = bad]
             W2   == [v \in Pods |-> IF v = u THEN x
                                     ELSE IF v \in others THEN [worker[v] EXCEPT !.clean = FALSE]
                                     ELSE worker[v]]
  <2>1. /\ worker[u].pc = "ready" /\ pending' = [pending EXCEPT ![u] = @ \ {s}]
        /\ UNCHANGED <<profile, resultVars>>
        /\ (worker' = W1 /\ lost' = lost \cup {s}) \/ (worker' = W2 /\ UNCHANGED lost)
    BY <1>13, Zenon DEF Begin, hostVars
  <2>2. x = [pc |-> "save", sys |-> s, list |-> list, plan |-> {}, clean |-> clean]
    <3> HIDE DEF list, clean
    <3> QED
      BY BeginRecord, Zenon
  <2>3. x.sys = s /\ x.pc = "save"
    <3> HIDE DEF x, list, clean
    <3> QED
      BY <2>2
  <2> HIDE DEF x, bad, others
  <2>4. \A t : ~AtWork(worker[u], t)
    BY <2>1 DEF AtWork
  <2>5. \A t \in Systems \ {s} : \A w \in Pods : t \in pending[w] => t \in pending'[w]
    BY <1>0, <2>1
  <2>6. CASE worker' = W1 /\ lost' = lost \cup {s}
    <3>1. \A w \in Pods \ {u} : worker'[w] = worker[w]
      BY <1>0, <2>6
    <3>2. \A t \in Systems \ lost' : t \in Systems \ {s}
      BY <2>6
    <3> QED
      BY <1>1, <2>1, <2>4, <2>5, <2>6, <3>1, <3>2
  <2>7. CASE worker' = W2 /\ UNCHANGED lost
    <3> DEFINE W == W2
    <3>1. W[u] = x
      OBVIOUS
    <3>2. ASSUME NEW w \in Pods \ {u} PROVE W[w].sys = worker[w].sys /\ W[w].pc = worker[w].pc
      <4> DEFINE y == [worker[w] EXCEPT !.clean = FALSE]
      <4>1. y.sys = worker[w].sys /\ y.pc = worker[w].pc
        BY <1>3
      <4>2. W[w] \in {y, worker[w]}
        OBVIOUS
      <4> HIDE DEF y, W
      <4> QED
        BY <4>1, <4>2
    <3> HIDE DEF W
    <3>3. worker' = W
      BY <2>7 DEF W
    <3>4. u \in Working(s)'
      BY <2>3, <3>1, <3>3 DEF Working
    <3>5. ~Settled(s)'
      BY <3>4 DEF Settled
    <3>6. \A t : \A w \in Pods : AtWork(worker[w], t) => AtWork(worker'[w], t)
      BY <2>4, <3>2, <3>3 DEF AtWork
    <3>7. \A t \in Systems \ lost' : Settled(t)' => t \in Systems \ {s}
      BY <3>5
    <3> QED
      BY <1>1, <2>1, <2>5, <2>7, <3>6, <3>7
  <2> QED
    BY <2>1, <2>6, <2>7
<1>14. ASSUME UNCHANGED <<profile, resultVars, pending, lost, worker>> PROVE StoredInv'
  BY <1>2, <1>14
<1>15. ASSUME NEW page \in PkgListPages, syncPackages(page) PROVE StoredInv'
  BY <1>14, <1>15 DEF syncPackages, hostVars
<1>16. ASSUME NEW s \in Systems, MarkStale(s) PROVE StoredInv'
  BY <1>14, <1>16 DEF MarkStale
<1>17. CASE RefreshStep
  BY <1>14, <1>17, RefreshFrame DEF hostVars
<1>18. CASE UNCHANGED primaryVars
  BY <1>14, <1>18 DEF primaryVars, hostVars, resultVars
<1>19. ASSUME NEW u \in Pods, evaluateAndStore(u) PROVE StoredInv'
  BY <1>19, StoredStore
<1> QED
  BY <1>4, <1>5, <1>6, <1>7, <1>8, <1>9, <1>10, <1>11, <1>12, <1>13, <1>15, <1>16, <1>17, <1>18,
     <1>19, NextSteps

\* Both hold at first: nothing was uploaded.
LEMMA StoredInit == Init => CleanInv /\ StoredInv
<1> SUFFICES ASSUME Init PROVE CleanInv /\ StoredInv
  OBVIOUS
<1>1. \A w \in Pods : worker[w].pc = "ready"
  BY DEF Init, Ready
<1>2. \A s \in Systems : profile[s] = NIL
  BY DEF Init
<1> QED
  BY <1>1, <1>2 DEF CleanInv, IsClean, StoredInv, Settled

\* When nothing is under way for a system, its rows are the packages that it reported
\* with the newest installable updates, and its counts are those of the rows: from the
\* updates of yum and VMaaS that were merged, through the packages that were saved and
\* looked up, to the rows that were compared and stored, with every other step of
\* the two pods and the jobs in between (evaluate_packages.go).
THEOREM StoredMatches == Spec => []StoredMatchesReportedUnlessLost
<1>1. StoredInv => StoredMatchesReportedUnlessLost
  BY DEF StoredInv, Settled, RowsFit, PkgOf, StoredMatchesReportedUnlessLost
<1>2. TypeInv /\ CleanInv /\ StoredInv /\ [Next]_vars => CleanInv' /\ StoredInv'
  BY CleanStep, StoredStep, PackagesStep, NextIsStep
<1> QED
  BY <1>1, <1>2, StoredInit, TypesAlways, PTL DEF Spec
=============================================================================
