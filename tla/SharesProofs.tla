----------------------------- MODULE SharesProofs -----------------------------
(***************************************************************************)
(* Proofs about Paths and Shares, for every file system, every set of      *)
(* requests and of handlers and every kind of fault.                       *)
(***************************************************************************)
EXTENDS Shares, FiniteSetTheorems, SequenceTheorems, TLAPS

-----------------------------------------------------------------------------
(* Counting                                                                *)

\* below[x] is the set of those that are smaller than x.
Orders(below, S) ==
    /\ below \in [S -> SUBSET S]
    /\ \A x \in S : x \notin below[x]
    /\ \A x, y \in S : x # y => x \in below[y] \/ y \in below[x]
    /\ \A x, y \in S : x \in below[y] => below[x] \subseteq below[y]

\* An order puts each member of a finite set at a place of its own: the number
\* of those below it.
LEMMA Places ==
    ASSUME NEW S, IsFiniteSet(S), NEW below, Orders(below, S)
    PROVE  /\ Cardinality(S) \in Nat
           /\ \A x, y \in S : x \in below[y] => Cardinality(below[x]) < Cardinality(below[y])
           /\ \A x, y \in S : Cardinality(below[x]) = Cardinality(below[y]) => x = y
           /\ \A k \in 1..Cardinality(S) : \E x \in S : Cardinality(below[x]) = k - 1
  <1> DEFINE n == Cardinality(S)
             T == 0..n - 1
             place == [x \in S |-> Cardinality(below[x])]
  <1> USE DEF Orders
  <1>1. n \in Nat
    BY FS_CardinalityType
  <1> HIDE DEF n
  <1>2. IsFiniteSet(T) /\ Cardinality(T) = n
    <2>1. IsFiniteSet(0..n - 1)
          /\ Cardinality(0..n - 1) = IF 0 > n - 1 THEN 0 ELSE (n - 1) - 0 + 1
      BY <1>1, FS_Interval
    <2> QED  BY <1>1, <2>1
  <1>3. ASSUME NEW x \in S
        PROVE  IsFiniteSet(below[x]) /\ Cardinality(below[x]) \in T
    <2>1. below[x] \in SUBSET S /\ below[x] # S
      OBVIOUS
    <2>2. IsFiniteSet(below[x]) /\ Cardinality(below[x]) <= n
          /\ (n = Cardinality(below[x]) => S = below[x])
      BY <2>1, FS_Subset DEF n
    <2>3. Cardinality(below[x]) \in Nat
      BY <2>2, FS_CardinalityType
    <2> QED  BY <1>1, <2>1, <2>2, <2>3
  <1>4. ASSUME NEW x \in S, NEW y \in S, x \in below[y]
        PROVE  Cardinality(below[x]) < Cardinality(below[y])
    <2>1. below[x] \in SUBSET below[y] /\ below[x] # below[y]
      BY <1>4
    <2>2. Cardinality(below[x]) <= Cardinality(below[y])
          /\ (Cardinality(below[y]) = Cardinality(below[x]) => below[y] = below[x])
      BY <1>3, <2>1, FS_Subset
    <2>3. Cardinality(below[x]) \in Nat /\ Cardinality(below[y]) \in Nat
      BY <1>3, FS_CardinalityType
    <2> QED  BY <2>1, <2>2, <2>3
  <1>5. ASSUME NEW x \in S, NEW y \in S, Cardinality(below[x]) = Cardinality(below[y])
        PROVE  x = y
    <2>1. x \notin below[y] /\ y \notin below[x]
      BY <1>3, <1>4, <1>5, FS_CardinalityType
    <2> QED  BY <2>1
  <1>6. place \in [S -> T]
    BY <1>3
  <1>7. place \in Injection(S, T)
    BY <1>5, <1>6 DEF Injection, IsInjective
  <1> HIDE DEF T
  <1>8. place \in Surjection(S, T)
    BY <1>2, <1>7, FS_Injection DEF n
  <1>9. ASSUME NEW k \in 1..n
        PROVE  \E x \in S : Cardinality(below[x]) = k - 1
    <2>1. k - 1 \in T
      BY <1>1 DEF T
    <2> QED  BY <1>8, <2>1 DEF Surjection
  <1> QED  BY <1>1, <1>4, <1>5, <1>9 DEF n

\* No place stays empty.
LEMMA PlacesTaken ==
    ASSUME NEW S, IsFiniteSet(S), NEW below, Orders(below, S)
    PROVE  \A k \in 1..Cardinality(S) : \E x \in S : Cardinality(below[x]) = k - 1
  BY Places

\* A set of numbers up to a bound has a smallest one.
LEMMA Smallest ==
    ASSUME NEW n \in Nat, NEW S \in SUBSET (1..n), S # {}
    PROVE  \E i \in S : \A j \in S : i <= j
  <1> DEFINE below == [i \in S |-> {j \in S : j < i}]
  <1>1. IsFiniteSet(1..n)
    BY FS_Interval
  <1>2. IsFiniteSet(S)
    BY <1>1, FS_Subset
  <1>3. Cardinality(S) \in Nat /\ Cardinality(S) # 0
    BY <1>2, FS_CardinalityType, FS_EmptySet
  <1>4. \A i \in S : i \in Nat
    OBVIOUS
  <1>5. \A x \in S : x \notin below[x]
    BY <1>4
  <1>6. \A x, y \in S : x # y => x \in below[y] \/ y \in below[x]
    BY <1>4
  <1>7. \A x, y \in S : x \in below[y] => below[x] \subseteq below[y]
    <2> SUFFICES ASSUME NEW x \in S, NEW y \in S, x < y, NEW z \in S, z < x
                 PROVE  z < y
      OBVIOUS
    <2> QED  BY <1>4
  <1>8. below \in [S -> SUBSET S]
    OBVIOUS
  <1>9. 1 \in 1..Cardinality(S)
    BY <1>3
  <1> HIDE DEF below
  <1>10. \E x \in S : Cardinality(below[x]) = 0
    <2>1. Orders(below, S)
      BY <1>5, <1>6, <1>7, <1>8 DEF Orders
    <2>2. \A k \in 1..Cardinality(S) : \E x \in S : Cardinality(below[x]) = k - 1
      BY <1>2, <2>1, PlacesTaken
    <2>3. \E x \in S : Cardinality(below[x]) = 1 - 1
      BY <1>9, <2>2
    <2> QED  BY <2>3
  <1>11. PICK x \in S : Cardinality(below[x]) = 0
    BY <1>10
  <1>12. IsFiniteSet(below[x])
    BY <1>2, <1>8, FS_Subset
  <1>13. below[x] = {}
    BY <1>11, <1>12, FS_EmptySet
  <1> QED  BY <1>4, <1>13 DEF below

-----------------------------------------------------------------------------
(* Bytes                                                                   *)

\* IsPrefix in terms of the positions of the two paths.
LEMMA PrefixIs ==
    ASSUME NEW p \in Seq(Nat), NEW q \in Seq(Nat)
    PROVE  IsPrefix(p, q) <=> Len(p) <= Len(q) /\ \A i \in 1..Len(p) : p[i] = q[i]
  <1>1. Len(p) \in Nat /\ Len(q) \in Nat
    OBVIOUS
  <1>2. ASSUME Len(p) <= Len(q)
        PROVE  SubSeq(p, 1, Len(p)) = SubSeq(q, 1, Len(p))
                  <=> \A i \in 1..Len(p) : p[i] = q[i]
    <2>1. SubSeq(p, 1, Len(p)) = p
      OBVIOUS
    <2>2. Len(SubSeq(q, 1, Len(p))) = Len(p)
          /\ \A i \in 1..Len(p) : SubSeq(q, 1, Len(p))[i] = q[i]
      BY <1>1, <1>2
    <2>3. SubSeq(q, 1, Len(p)) \in Seq(Nat)
      BY <1>1, <1>2
    <2>4. (\A i \in 1..Len(p) : p[i] = q[i]) => p = SubSeq(q, 1, Len(p))
      BY <1>1, <2>2, <2>3
    <2> QED  BY <2>1, <2>2, <2>4
  <1> QED  BY <1>2 DEF IsPrefix

\* The bytes of a path that lies below another.
LEMMA BelowIs ==
    ASSUME NEW p \in Seq(Nat), NEW q \in Seq(Nat)
    PROVE  HasPathPrefix(p, q) <=>
              \/ p = q
              \/ /\ q # <<Slash>> /\ Len(q) < Len(p)
                 /\ \A i \in 1..Len(q) : p[i] = q[i]
                 /\ p[Len(q) + 1] = Slash
  <1> DEFINE r == Append(q, Slash)
  <1>1. r \in Seq(Nat) /\ Len(r) = Len(q) + 1
        /\ (\A i \in 1..Len(q) : r[i] = q[i]) /\ r[Len(q) + 1] = Slash
    BY DEF Slash
  <1>2. Len(p) \in Nat /\ Len(q) \in Nat
    OBVIOUS
  <1> HIDE DEF r
  <1>3. IsPrefix(r, p) <=> Len(r) <= Len(p) /\ \A i \in 1..Len(r) : r[i] = p[i]
    BY <1>1, PrefixIs
  <1>4. (\A i \in 1..Len(r) : r[i] = p[i]) <=>
           (\A i \in 1..Len(q) : p[i] = q[i]) /\ p[Len(q) + 1] = Slash
    <2>1. Len(q) + 1 \in 1..Len(r) /\ \A i \in 1..Len(q) : i \in 1..Len(r)
      BY <1>1, <1>2
    <2>2. \A i \in 1..Len(r) : i \in 1..Len(q) \/ i = Len(q) + 1
      BY <1>1, <1>2
    <2>3. ASSUME \A i \in 1..Len(r) : r[i] = p[i]
          PROVE  (\A i \in 1..Len(q) : p[i] = q[i]) /\ p[Len(q) + 1] = Slash
      BY <1>1, <2>1, <2>3
    <2>4. ASSUME \A i \in 1..Len(q) : p[i] = q[i], p[Len(q) + 1] = Slash
          PROVE  \A i \in 1..Len(r) : r[i] = p[i]
      BY <1>1, <2>2, <2>4
    <2> QED  BY <2>3, <2>4
  <1>5. Len(r) <= Len(p) <=> Len(q) < Len(p)
    BY <1>1, <1>2
  <1> QED  BY <1>3, <1>4, <1>5 DEF HasPathPrefix, r

\* What lies below something below a path lies below the path.
LEMMA BelowTransitive ==
    ASSUME NEW p \in Seq(Nat), NEW q \in Seq(Nat), NEW r \in Seq(Nat),
           HasPathPrefix(p, q), HasPathPrefix(q, r)
    PROVE  HasPathPrefix(p, r)
  <1>1. CASE p = q \/ q = r
    BY <1>1
  <1>2. CASE p # q /\ q # r
    <2>1. Len(q) < Len(p) /\ \A i \in 1..Len(q) : p[i] = q[i]
      BY <1>2, BelowIs
    <2>2. r # <<Slash>> /\ Len(r) < Len(q)
          /\ (\A i \in 1..Len(r) : q[i] = r[i]) /\ q[Len(r) + 1] = Slash
      BY <1>2, BelowIs
    <2>3. Len(r) < Len(p) /\ Len(r) + 1 \in 1..Len(q) /\ \A i \in 1..Len(r) : i \in 1..Len(q)
      BY <2>1, <2>2
    <2> QED  BY <2>1, <2>2, <2>3, BelowIs
  <1> QED  BY <1>1, <1>2

-----------------------------------------------------------------------------
(* The order of Go's strings                                               *)

\* The order of strings in terms of their first different byte.
LEMMA BeforeIs ==
    ASSUME NEW p \in Seq(Nat), NEW q \in Seq(Nat)
    PROVE  Before(p, q) <=>
              \/ Len(p) < Len(q) /\ \A i \in 1..Len(p) : p[i] = q[i]
              \/ \E n \in 1..Len(p) :
                    /\ n <= Len(q) /\ (\A i \in 1..n - 1 : p[i] = q[i]) /\ p[n] < q[n]
  <1>1. Len(p) \in Nat /\ Len(q) \in Nat
    OBVIOUS
  <1>2. IsStrictPrefix(p, q) <=> Len(p) < Len(q) /\ \A i \in 1..Len(p) : p[i] = q[i]
    <2>1. Len(p) = Len(q) /\ (\A i \in 1..Len(p) : p[i] = q[i]) => p = q
      OBVIOUS
    <2> QED  BY <1>1, <2>1, PrefixIs DEF IsStrictPrefix
  <1>3. ASSUME NEW n \in 1..Len(p), n <= Len(q)
        PROVE  SubSeq(p, 1, n - 1) = SubSeq(q, 1, n - 1) <=> \A i \in 1..n - 1 : p[i] = q[i]
    <2> DEFINE a == SubSeq(p, 1, n - 1)
               b == SubSeq(q, 1, n - 1)
    <2>1. n - 1 \in Nat /\ n - 1 <= Len(p) /\ n - 1 <= Len(q)
      BY <1>1, <1>3
    <2>2. /\ a \in Seq(Nat) /\ Len(a) = n - 1 /\ \A i \in 1..n - 1 : a[i] = p[i]
          /\ b \in Seq(Nat) /\ Len(b) = n - 1 /\ \A i \in 1..n - 1 : b[i] = q[i]
      BY <1>1, <2>1
    <2> HIDE DEF a, b
    <2>3. (\A i \in 1..n - 1 : p[i] = q[i]) => a = b
      BY <2>1, <2>2
    <2> QED  BY <2>2, <2>3 DEF a, b
  <1> QED  BY <1>2, <1>3 DEF Before

LEMMA BeforeIrreflexive ==
    ASSUME NEW p \in Seq(Nat)
    PROVE  ~Before(p, p)
  <1>1. \A n \in 1..Len(p) : p[n] \in Nat
    OBVIOUS
  <1> QED  BY <1>1, BeforeIs

\* The order of strings is a strict total order (three lemmas).
LEMMA BeforeTransitive ==
    ASSUME NEW p \in Seq(Nat), NEW q \in Seq(Nat), NEW r \in Seq(Nat),
           Before(p, q), Before(q, r)
    PROVE  Before(p, r)
  <1>1. Len(p) \in Nat /\ Len(q) \in Nat /\ Len(r) \in Nat
        /\ (\A i \in 1..Len(p) : p[i] \in Nat)
        /\ (\A i \in 1..Len(q) : q[i] \in Nat)
        /\ (\A i \in 1..Len(r) : r[i] \in Nat)
    OBVIOUS
  <1>2. CASE Len(p) < Len(q) /\ \A i \in 1..Len(p) : p[i] = q[i]
    <2>1. CASE Len(q) < Len(r) /\ \A i \in 1..Len(q) : q[i] = r[i]
      <3>1. Len(p) < Len(r) /\ \A i \in 1..Len(p) : p[i] = r[i]
        BY <1>1, <1>2, <2>1
      <3> QED  BY <3>1, BeforeIs
    <2>2. ASSUME NEW n \in 1..Len(q), n <= Len(r), \A i \in 1..n - 1 : q[i] = r[i], q[n] < r[n]
          PROVE  Before(p, r)
      <3>1. CASE n <= Len(p)
        <4>1. n \in 1..Len(p) /\ (\A i \in 1..n - 1 : p[i] = r[i]) /\ p[n] < r[n]
          BY <1>1, <1>2, <2>2, <3>1
        <4> QED  BY <2>2, <4>1, BeforeIs
      <3>2. CASE Len(p) < n
        <4>1. Len(p) < Len(r) /\ \A i \in 1..Len(p) : p[i] = r[i]
          BY <1>1, <1>2, <2>2, <3>2
        <4> QED  BY <4>1, BeforeIs
      <3> QED  BY <1>1, <3>1, <3>2
    <2> QED  BY <2>1, <2>2, BeforeIs
  <1>3. ASSUME NEW m \in 1..Len(p), m <= Len(q), \A i \in 1..m - 1 : p[i] = q[i], p[m] < q[m]
        PROVE  Before(p, r)
    <2>1. CASE Len(q) < Len(r) /\ \A i \in 1..Len(q) : q[i] = r[i]
      <3>1. m <= Len(r) /\ (\A i \in 1..m - 1 : p[i] = r[i]) /\ p[m] < r[m]
        BY <1>1, <1>3, <2>1
      <3> QED  BY <3>1, BeforeIs
    <2>2. ASSUME NEW n \in 1..Len(q), n <= Len(r), \A i \in 1..n - 1 : q[i] = r[i], q[n] < r[n]
          PROVE  Before(p, r)
      <3>1. CASE m <= n
        <4>1. m <= Len(r) /\ m \in 1..Len(q) /\ m \in 1..Len(p)
          BY <1>1, <1>3, <2>2, <3>1
        <4>3. \A i \in 1..m - 1 : p[i] = r[i]
          <5>1. \A i \in 1..m - 1 : i \in 1..n - 1
            BY <1>1, <2>2, <3>1
          <5> QED  BY <1>3, <2>2, <5>1
        <4>2. p[m] < r[m]
          <5>1. /\ m \in 1..Len(p) /\ m \in 1..Len(q) /\ m \in 1..Len(r)
                /\ m \in Nat /\ n \in Nat
            BY <1>1, <4>1
          <5>2. p[m] \in Nat /\ q[m] \in Nat /\ r[m] \in Nat
            BY <1>1, <5>1
          <5>3. p[m] < q[m]
            BY <1>3
          <5>4. q[m] = r[m] \/ q[m] < r[m]
            <6>1. CASE m = n
              BY <2>2, <6>1
            <6>2. CASE m # n
              <7>1. m \in 1..n - 1
                BY <3>1, <5>1, <6>2
              <7> QED  BY <2>2, <7>1
            <6> QED  BY <6>1, <6>2
          <5>5. \A a, b, c \in Nat : a < b /\ (b = c \/ b < c) => a < c
            OBVIOUS
          <5> QED  BY <5>2, <5>3, <5>4, <5>5
        <4> QED  BY <4>1, <4>2, <4>3, BeforeIs
      <3>2. CASE n < m
        <4>3. m \in Nat /\ n \in Nat /\ 1 <= n /\ m <= Len(p)
          BY <1>1
        <4>1. n \in 1..Len(p) /\ n \in 1..m - 1 /\ \A i \in 1..n - 1 : i \in 1..m - 1
          BY <1>1, <3>2, <4>3
        <4>2. (\A i \in 1..n - 1 : p[i] = r[i]) /\ p[n] < r[n]
          BY <1>3, <2>2, <4>1
        <4> QED  BY <2>2, <4>1, <4>2, BeforeIs
      <3> QED  BY <1>1, <3>1, <3>2
    <2> QED  BY <2>1, <2>2, BeforeIs
  <1> QED  BY <1>2, <1>3, BeforeIs

LEMMA BeforeTotal ==
    ASSUME NEW p \in Seq(Nat), NEW q \in Seq(Nat), p # q
    PROVE  Before(p, q) \/ Before(q, p)
  <1>1. Len(p) \in Nat /\ Len(q) \in Nat
        /\ (\A i \in 1..Len(p) : p[i] \in Nat)
        /\ (\A i \in 1..Len(q) : q[i] \in Nat)
    OBVIOUS
  <1> DEFINE D == {i \in 1..Len(p) : i <= Len(q) /\ p[i] # q[i]}
  <1>2. CASE D = {}
    <2>1. \A i \in 1..Len(p) : i <= Len(q) => p[i] = q[i]
      BY <1>2
    <2>2. CASE Len(p) < Len(q)
      BY <1>1, <2>1, <2>2, BeforeIs
    <2>3. CASE Len(q) < Len(p)
      <3>1. \A i \in 1..Len(q) : q[i] = p[i]
        BY <1>1, <2>1, <2>3
      <3> QED  BY <2>3, <3>1, BeforeIs
    <2>4. CASE Len(p) = Len(q)
      <3>1. \A i \in 1..Len(p) : p[i] = q[i]
        BY <1>1, <2>1, <2>4
      <3>2. p = q
        BY <2>4, <3>1
      <3> QED  BY <3>2
    <2> QED  BY <1>1, <2>2, <2>3, <2>4
  <1>3. CASE D # {}
    <2>1. D \in SUBSET (1..Len(p))
      OBVIOUS
    <2>2. PICK n \in D : \A j \in D : n <= j
      <3> HIDE DEF D
      <3> QED  BY <1>1, <1>3, <2>1, Smallest
    <2>3. n \in 1..Len(p) /\ n <= Len(q) /\ p[n] # q[n] /\ n \in 1..Len(q)
      BY <1>1
    <2>4. \A i \in 1..n - 1 : p[i] = q[i]
      <3> SUFFICES ASSUME NEW i \in 1..n - 1  PROVE p[i] = q[i]
        OBVIOUS
      <3>1. i \in 1..Len(p) /\ i <= Len(q) /\ ~(n <= i)
        BY <1>1, <2>3
      <3> QED  BY <2>2, <3>1
    <2>5. p[n] < q[n] \/ q[n] < p[n]
      BY <1>1, <2>3
    <2>6. \A i \in 1..n - 1 : q[i] = p[i]
      BY <2>4
    <2> QED  BY <2>3, <2>4, <2>5, <2>6, BeforeIs
  <1> QED  BY <1>2, <1>3

\* What lies below a path comes after it.
LEMMA BelowIsAfter ==
    ASSUME NEW p \in Seq(Nat), NEW q \in Seq(Nat), HasPathPrefix(p, q)
    PROVE  p = q \/ Before(q, p)
  <1>1. p = q \/ (Len(q) < Len(p) /\ \A i \in 1..Len(q) : q[i] = p[i])
    BY BelowIs
  <1> QED  BY <1>1, BeforeIs

-----------------------------------------------------------------------------
(* Sorted lists                                                            *)

Precedes(p, q) == Before(Canon[p], Canon[q])

\* Directories of which no two are the same one.
Distinct(S) == S \subseteq Dir /\ \A p, q \in S : Canon[p] = Canon[q] => p = q

LEMMA CanonType ==
    ASSUME NEW p \in DOMAIN Canon
    PROVE  Canon[p] \in Seq(Nat)
  BY PathsAssumption DEF PathsAssumption

LEMMA DirType == \A p \in Dir : p \in DOMAIN Canon /\ Canon[p] \in Seq(Nat)
  BY PathsAssumption, CanonType DEF PathsAssumption

\* To lie below, through links, is transitive, and reflexive up to spelling.
LEMMA UnderTransitive ==
    ASSUME NEW p \in DOMAIN Canon, NEW q \in DOMAIN Canon, NEW r \in DOMAIN Canon,
           Under(p, q), Under(q, r)
    PROVE  Under(p, r)
  BY CanonType, BelowTransitive DEF Under

LEMMA UnderReflexive == \A p, q : Canon[p] = Canon[q] => Under(p, q)
  BY DEF Under, HasPathPrefix

\* The place of a member is the number of those before it.
LEMMA PathOrder ==
    ASSUME NEW S, Distinct(S)
    PROVE  IsFiniteSet(S) /\ Orders([p \in S |-> {q \in S : Precedes(q, p)}], S)
  <1> DEFINE before == [p \in S |-> {q \in S : Precedes(q, p)}]
  <1>1. S \in SUBSET Dir /\ \A p \in S : Canon[p] \in Seq(Nat)
    BY DirType DEF Distinct
  <1>2. IsFiniteSet(S)
    BY <1>1, PathsAssumption, FS_Subset DEF PathsAssumption
  <1>3. before \in [S -> SUBSET S]
    OBVIOUS
  <1>4. \A p \in S : p \notin before[p]
    BY <1>1, BeforeIrreflexive DEF Precedes
  <1>5. \A p, q \in S : p # q => p \in before[q] \/ q \in before[p]
    BY <1>1, BeforeTotal DEF Precedes, Distinct
  <1>6. \A p, q \in S : p \in before[q] => before[p] \subseteq before[q]
    <2> SUFFICES ASSUME NEW p \in S, NEW q \in S, Precedes(p, q), NEW r \in S, Precedes(r, p)
                 PROVE  Precedes(r, q)
      OBVIOUS
    <2> QED  BY <1>1, BeforeTransitive DEF Precedes
  <1> QED  BY <1>2, <1>3, <1>4, <1>5, <1>6 DEF Orders

\* A list as the handlers keep it.
Normal(list) == Distinct(ToSet(list)) /\ list = SortCanon(ToSet(list))

\* Sorting gives each directory once, in increasing order.
LEMMA SortCanonSorts ==
    ASSUME NEW S, Distinct(S), NEW list, list = SortCanon(S)
    PROVE  /\ list \in Seq(Dir) /\ ToSet(list) = S /\ Normal(list)
           /\ \A i, j \in 1..Len(list) : i < j => Precedes(list[i], list[j])
           /\ \A i, j \in 1..Len(list) : Canon[list[i]] = Canon[list[j]] => i = j
  <1> DEFINE before == [p \in S |-> {q \in S : Precedes(q, p)}]
             n == Cardinality(S)
  <1>1. IsFiniteSet(S) /\ Orders(before, S)
    BY PathOrder
  <1>2. \A p \in S : before[p] = {q \in S : Before(Canon[q], Canon[p])}
    BY DEF Precedes
  <1>3. \A k \in 1..n : \E p \in S : Cardinality({q \in S : Before(Canon[q], Canon[p])}) = k - 1
    <2> HIDE DEF before, n
    <2>1. \A k \in 1..n : \E p \in S : Cardinality(before[p]) = k - 1
      BY <1>1, PlacesTaken DEF n
    <2> QED  BY <1>2, <2>1
  <1>4. DOMAIN list = 1..n /\ list = [k \in DOMAIN list |-> list[k]]
    <2> DEFINE pick(k) == CHOOSE p \in S : Cardinality({q \in S : Before(Canon[q], Canon[p])}) = k - 1
    <2>1. list = [k \in 1..n |-> pick(k)]
      BY DEF SortCanon
    <2> HIDE DEF pick, n
    <2> QED  BY <2>1
  <1>5. n \in Nat
    BY <1>1, FS_CardinalityType
  <1>6. \A k \in 1..n : list[k] \in S /\ Cardinality(before[list[k]]) = k - 1
    <2> SUFFICES ASSUME NEW k \in 1..n
                 PROVE  list[k] \in S /\ Cardinality(before[list[k]]) = k - 1
      OBVIOUS
    <2>1. list[k] = CHOOSE p \in S : Cardinality({q \in S : Before(Canon[q], Canon[p])}) = k - 1
      BY DEF SortCanon
    <2>2. list[k] \in S /\ Cardinality({q \in S : Before(Canon[q], Canon[list[k]])}) = k - 1
      BY <1>3, <2>1
    <2> QED  BY <1>2, <2>2
  <1> HIDE DEF n, before
  <1>7. list \in Seq(Dir) /\ Len(list) = n /\ DOMAIN list = 1..n
    BY <1>4, <1>5, <1>6 DEF Distinct
  <1>8. \A i, j \in 1..n : list[i] = list[j] => i = j
    <2> SUFFICES ASSUME NEW i \in 1..n, NEW j \in 1..n, list[i] = list[j]  PROVE i = j
      OBVIOUS
    <2>1. i - 1 = j - 1
      BY <1>6
    <2> QED  BY <1>5, <2>1
  <1>9. ToSet(list) = S
    <2>1. ToSet(list) \subseteq S
      BY <1>6, <1>7 DEF ToSet
    <2>2. ASSUME NEW p \in S
          PROVE  p \in ToSet(list)
      <3>1. /\ before[p] \in SUBSET S /\ before[p] # S
            /\ \A x, y \in S : Cardinality(before[x]) = Cardinality(before[y]) => x = y
        BY <1>1, Places DEF Orders
      <3>2. IsFiniteSet(before[p]) /\ Cardinality(before[p]) <= n
            /\ (n = Cardinality(before[p]) => S = before[p])
        BY <1>1, <3>1, FS_Subset DEF n
      <3>3. Cardinality(before[p]) \in Nat
        BY <3>2, FS_CardinalityType
      <3> DEFINE k == Cardinality(before[p]) + 1
      <3>4. k \in 1..n /\ k - 1 = Cardinality(before[p])
        BY <1>5, <3>1, <3>2, <3>3
      <3> HIDE DEF k
      <3>5. list[k] = p
        BY <1>6, <3>1, <3>4
      <3> QED  BY <1>7, <3>4, <3>5 DEF ToSet
    <2> QED  BY <2>1, <2>2
  <1>10. \A i, j \in 1..n : i < j => Precedes(list[i], list[j])
    <2> SUFFICES ASSUME NEW i \in 1..n, NEW j \in 1..n, i < j
                 PROVE  Precedes(list[i], list[j])
      OBVIOUS
    <2>1. list[i] \in S /\ list[j] \in S /\ list[i] # list[j]
      BY <1>5, <1>6, <1>8
    <2>2. list[j] \notin before[list[i]]
      <3>1. \A x, y \in S : x \in before[y] => Cardinality(before[x]) < Cardinality(before[y])
        BY <1>1, Places
      <3>2. ~(j - 1 < i - 1)
        BY <1>5
      <3> QED  BY <1>6, <2>1, <3>1, <3>2
    <2>3. list[i] \in before[list[j]]
      BY <1>1, <2>1, <2>2 DEF Orders
    <2> QED  BY <2>1, <2>3 DEF before
  <1>11. \A i, j \in 1..n : Canon[list[i]] = Canon[list[j]] => i = j
    BY <1>6, <1>8 DEF Distinct
  <1> QED  BY <1>7, <1>9, <1>10, <1>11 DEF Normal

\* The same of a list that is sorted already.
LEMMA NormalIs ==
    ASSUME NEW list, Normal(list)
    PROVE  /\ list \in Seq(Dir) /\ list = SortCanon(ToSet(list)) /\ Distinct(ToSet(list))
           /\ \A i, j \in 1..Len(list) : i < j => Precedes(list[i], list[j])
           /\ \A i, j \in 1..Len(list) : Canon[list[i]] = Canon[list[j]] => i = j
  BY SortCanonSorts DEF Normal

\* The empty list is the sorted list of no directories.
LEMMA EmptyIsNormal == Normal(<<>>) /\ ToSet(<<>>) = {}
  <1>1. ToSet(<<>>) = {}
    BY DEF ToSet
  <1>2. Distinct({})
    BY DEF Distinct
  <1>3. SortCanon({}) \in Seq(Dir) /\ Len(SortCanon({})) = 0
    <2>1. Cardinality({}) = 0
      BY FS_EmptySet
    <2>2. SortCanon({}) \in Seq(Dir)
      BY <1>2, SortCanonSorts
    <2> QED  BY <2>1, <2>2 DEF SortCanon
  <1>4. SortCanon({}) = <<>>
    BY <1>3
  <1> QED  BY <1>1, <1>2, <1>4 DEF Normal

\* The first of some shares in the list is the first of them in the order.
LEMMA FirstShareIs ==
    ASSUME NEW list, Normal(list), NEW S \in SUBSET ToSet(list), S # {},
           NEW first, first = FirstShare(list, S)
    PROVE  first \in S /\ \A s \in S : s = first \/ Precedes(first, s)
  <1> DEFINE at == {i \in 1..Len(list) : list[i] \in S}
             i == CHOOSE i \in at : \A j \in at : i <= j
  <1>1. list \in Seq(Dir)
    BY NormalIs
  <1>2. \A s \in S : \E j \in at : list[j] = s
    BY <1>1 DEF ToSet
  <1>3. at \in SUBSET (1..Len(list)) /\ at # {} /\ Len(list) \in Nat
    BY <1>1, <1>2
  <1>4. first = list[i]
    BY DEF FirstShare
  <1>5. i \in at /\ \A j \in at : i <= j
    <2>1. \E k \in at : \A j \in at : k <= j
      <3> HIDE DEF at
      <3> QED  BY <1>3, Smallest
    <2> QED  BY <2>1
  <1> HIDE DEF i
  <1>6. ASSUME NEW s \in S
        PROVE  s = first \/ Precedes(first, s)
    <2>1. PICK j \in at : list[j] = s
      BY <1>2
    <2>2. i = j \/ i < j
      BY <1>3, <1>5, <2>1
    <2>3. i < j => Precedes(list[i], list[j])
      BY <1>5, <2>1, NormalIs
    <2> QED  BY <1>4, <2>1, <2>2, <2>3
  <1> QED  BY <1>4, <1>5, <1>6

-----------------------------------------------------------------------------
(* Collapsing                                                              *)

\* A nonempty set of positions has a largest one.
LEMMA Largest ==
    ASSUME NEW n \in Nat, NEW S \in SUBSET (1..n), S # {}
    PROVE  \E i \in S : \A j \in S : j <= i
  <1> DEFINE T == {n + 1 - i : i \in S}
  <1>1. \A i \in S : i \in 1..n /\ i \in Nat
    OBVIOUS
  <1>2. T \in SUBSET (1..n) /\ T # {}
    <2>1. \A i \in S : n + 1 - i \in 1..n
      BY <1>1
    <2> QED  BY <2>1
  <1>3. \A i \in S : n + 1 - i \in T
    OBVIOUS
  <1>4. \A t \in T : \E i \in S : t = n + 1 - i
    OBVIOUS
  <1> HIDE DEF T
  <1>5. PICK t \in T : \A u \in T : t <= u
    BY <1>2, Smallest
  <1>6. PICK i \in S : t = n + 1 - i
    BY <1>4
  <1>7. ASSUME NEW j \in S
        PROVE  j <= i
    <2>1. t <= n + 1 - j
      BY <1>3, <1>5
    <2> QED  BY <1>1, <1>6, <2>1
  <1> QED  BY <1>7

\* An entry that the loop drops: everything from some earlier entry up to it
\* lies below that entry.
Dropped(s, k) == \E m \in 1..k - 1 : \A j \in m + 1..k : Under(s[j], s[m])

\* From an entry that is not dropped to the next such entry everything lies
\* below it; so an entry after it is dropped just if it lies below it, too.
LEMMA DroppedUnder ==
    ASSUME NEW s \in Seq(Dir), NEW m \in 1..Len(s), ~Dropped(s, m), NEW i \in 1..Len(s), m <= i,
           \A k \in m + 1..i : Dropped(s, k)
    PROVE  \A k \in m + 1..i : Under(s[k], s[m])
  <1> DEFINE C == {k \in m + 1..i : ~Under(s[k], s[m])}
  <1>0. Len(s) \in Nat /\ m \in Nat /\ i \in Nat /\ \A k \in 1..Len(s) : s[k] \in DOMAIN Canon
    BY DirType
  <1>1. SUFFICES ASSUME C # {}  PROVE FALSE
    OBVIOUS
  <1>2. C \in SUBSET (1..Len(s))
    BY <1>0
  <1>3. PICK k \in C : \A j \in C : k <= j
    <2> HIDE DEF C
    <2> QED  BY <1>0, <1>1, <1>2, Smallest
  <1>4. k \in m + 1..i /\ k \in 1..Len(s) /\ ~Under(s[k], s[m])
    BY <1>2
  <1>5. \A j \in m + 1..k - 1 : Under(s[j], s[m])
    <2> SUFFICES ASSUME NEW j \in m + 1..k - 1  PROVE Under(s[j], s[m])
      OBVIOUS
    <2>1. j \in m + 1..i /\ ~(k <= j)
      BY <1>0, <1>4
    <2> QED  BY <1>3, <2>1
  <1>6. PICK l \in 1..k - 1 : \A j \in l + 1..k : Under(s[j], s[l])
    BY <1>4 DEF Dropped
  <1>7. l \in Nat /\ k \in Nat /\ l < k /\ l \in 1..Len(s)
    BY <1>0, <1>4
  <1>8. Under(s[k], s[l])
    BY <1>6, <1>7
  <1>9. CASE l = m
    BY <1>4, <1>8, <1>9
  <1>10. CASE m < l
    <2>1. Under(s[l], s[m])
      BY <1>0, <1>5, <1>7, <1>10
    <2> QED  BY <1>0, <1>4, <1>7, <1>8, <2>1, UnderTransitive
  <1>11. CASE l < m
    <2>1. l \in 1..m - 1 /\ \A j \in l + 1..m : j \in l + 1..k
      BY <1>0, <1>4, <1>7, <1>11
    <2>2. Dropped(s, m)
      BY <1>6, <2>1 DEF Dropped
    <2> QED  BY <2>2
  <1> QED  BY <1>0, <1>7, <1>9, <1>10, <1>11

\* After a kept position and dropped ones, what lies below the kept one is dropped.
LEMMA DroppedNext ==
    ASSUME NEW s \in Seq(Dir), NEW m \in 1..Len(s), ~Dropped(s, m), NEW i \in 1..Len(s), m < i,
           \A k \in m + 1..i - 1 : Dropped(s, k)
    PROVE  Dropped(s, i) <=> Under(s[i], s[m])
  <1>1. Len(s) \in Nat /\ m \in Nat /\ i \in Nat /\ i - 1 \in 1..Len(s) /\ m <= i - 1
        /\ \A k \in 1..Len(s) : s[k] \in DOMAIN Canon
    BY DirType
  <1>2. \A k \in m + 1..i - 1 : Under(s[k], s[m])
    BY <1>1, DroppedUnder
  <1>3. ASSUME Under(s[i], s[m])
        PROVE  Dropped(s, i)
    <2>1. m \in 1..i - 1 /\ \A k \in m + 1..i : k \in m + 1..i - 1 \/ k = i
      BY <1>1
    <2>2. \A k \in m + 1..i : Under(s[k], s[m])
      BY <1>2, <1>3, <2>1
    <2> QED  BY <2>1, <2>2 DEF Dropped
  <1>4. ASSUME Dropped(s, i)
        PROVE  Under(s[i], s[m])
    <2>1. \A k \in m + 1..i : Dropped(s, k)
      <3>1. \A k \in m + 1..i : k \in m + 1..i - 1 \/ k = i
        BY <1>1
      <3> QED  BY <1>4, <3>1
    <2>2. m <= i /\ i \in m + 1..i
      BY <1>1
    <2> QED  BY <2>1, <2>2, DroppedUnder
  <1> QED  BY <1>3, <1>4

\* The index of the entry kept last, as the loop finds it.
LastKept(s, f) ==
    f = [i \in 0..Len(s) |-> IF i = 0 THEN 0
                             ELSE IF f[i - 1] # 0 /\ Under(s[i], s[f[i - 1]]) THEN f[i - 1]
                             ELSE i]

\* There is such a function: it gives the largest index up to i of an entry
\* that is not dropped.
LEMMA LastKeptExists ==
    ASSUME NEW s \in Seq(Dir)
    PROVE  \E f : LastKept(s, f)
  <1> DEFINE K(i) == {k \in 1..i : ~Dropped(s, k)}
             Is(i, k) == k \in K(i) /\ \A j \in K(i) : j <= k
             f == [i \in 0..Len(s) |-> IF i = 0 THEN 0 ELSE CHOOSE k \in K(i) : Is(i, k)]
  <1>1. Len(s) \in Nat
    OBVIOUS
  <1>2. ~Dropped(s, 1)
    BY DEF Dropped
  <1>3. ASSUME NEW i \in 1..Len(s)
        PROVE  Is(i, f[i])
    <2>1. i \in Nat /\ 1 \in K(i) /\ K(i) \in SUBSET (1..i)
      BY <1>1, <1>2
    <2>2. \E k \in K(i) : \A j \in K(i) : j <= k
      <3> HIDE DEF K
      <3> QED  BY <2>1, Largest
    <2>3. f[i] = CHOOSE k \in K(i) : Is(i, k)
      BY <1>1
    <2> HIDE DEF f
    <2> QED  BY <2>2, <2>3
  <1>4. f[0] = 0
    BY <1>1
  <1>5. DOMAIN f = 0..Len(s) /\ f = [i \in 0..Len(s) |-> f[i]]
    OBVIOUS
  <1> HIDE DEF f
  <1>6. ASSUME NEW i \in 1..Len(s)
        PROVE  f[i] = IF f[i - 1] # 0 /\ Under(s[i], s[f[i - 1]]) THEN f[i - 1] ELSE i
    <2>1. f[i] \in 1..i /\ ~Dropped(s, f[i]) /\ \A j \in 1..i : ~Dropped(s, j) => j <= f[i]
      BY <1>3
    <2>2. CASE i = 1
      BY <1>1, <1>4, <2>1, <2>2
    <2>3. CASE i # 1
      <3>1. i - 1 \in 1..Len(s) /\ i \in Nat
        BY <1>1, <2>3
      <3> DEFINE m == f[i - 1]
      <3>2. m \in 1..i - 1 /\ ~Dropped(s, m) /\ \A j \in 1..i - 1 : ~Dropped(s, j) => j <= m
        BY <1>3, <3>1
      <3> HIDE DEF m
      <3>3. \A k \in m + 1..i - 1 : Dropped(s, k)
        <4> SUFFICES ASSUME NEW k \in m + 1..i - 1  PROVE Dropped(s, k)
          OBVIOUS
        <4>1. k \in 1..i - 1 /\ ~(k <= m)
          BY <3>1, <3>2
        <4> QED  BY <3>2, <4>1
      <3>4. Dropped(s, i) <=> Under(s[i], s[m])
        <4>1. m \in 1..Len(s) /\ m < i
          BY <1>1, <3>1, <3>2
        <4> QED  BY <3>2, <3>3, <4>1, DroppedNext
      <3>5. CASE Dropped(s, i)
        <4>1. f[i] # i
          BY <2>1, <3>5
        <4>2. f[i] \in 1..i - 1 /\ m \in 1..i /\ m # 0
          BY <2>1, <3>1, <3>2, <4>1
        <4>3. f[i] <= m /\ m <= f[i]
          BY <2>1, <3>2, <4>2
        <4>4. f[i] = m
          BY <3>1, <4>2, <4>3
        <4> QED  BY <3>4, <3>5, <4>2, <4>4 DEF m
      <3>6. CASE ~Dropped(s, i)
        <4>1. i <= f[i]
          BY <2>1, <3>1, <3>6
        <4>2. f[i] = i
          BY <2>1, <3>1, <4>1
        <4> QED  BY <3>4, <3>6, <4>2 DEF m
      <3> QED  BY <3>5, <3>6
    <2> QED  BY <2>2, <2>3
  <1>7. \A i \in 0..Len(s) : i = 0 \/ i \in 1..Len(s)
    BY <1>1
  <1>8. \A i \in 0..Len(s) : f[i] = IF i = 0 THEN 0
                                    ELSE IF f[i - 1] # 0 /\ Under(s[i], s[f[i - 1]]) THEN f[i - 1]
                                    ELSE i
    BY <1>4, <1>6, <1>7
  <1>9. LastKept(s, f)
    BY <1>5, <1>8 DEF LastKept
  <1> QED  BY <1>9

Covers(list, S) == \A p \in S : Covered(p, list)

\* Collapsing keeps the order, adds nothing, and covers what it drops.
LEMMA CollapseCovers ==
    ASSUME NEW s \in Seq(Dir), Distinct(ToSet(s)), NEW list, list = Collapse(s)
    PROVE  Normal(list) /\ ToSet(list) \subseteq ToSet(s) /\ Covers(list, ToSet(s))
  <1> DEFINE last == CHOOSE f : LastKept(s, f)
             S == {s[i] : i \in {j \in 1..Len(s) : last[j] = j}}
  <1>1. list = SortCanon(S)
    BY DEF Collapse, LastKept
  <1>2. LastKept(s, last)
    BY LastKeptExists
  <1>3. Len(s) \in Nat
    OBVIOUS
  <1> HIDE DEF last
  <1>4. \A i \in 1..Len(s) :
           last[i] = IF last[i - 1] # 0 /\ Under(s[i], s[last[i - 1]]) THEN last[i - 1] ELSE i
    <2> SUFFICES ASSUME NEW i \in 1..Len(s)
                 PROVE  last[i] = IF last[i - 1] # 0 /\ Under(s[i], s[last[i - 1]])
                                  THEN last[i - 1] ELSE i
      OBVIOUS
    <2>1. i \in 0..Len(s) /\ i # 0
      BY <1>3
    <2> QED  BY <1>2, <2>1 DEF LastKept
  <1>5. last[0] = 0
    BY <1>2, <1>3 DEF LastKept
  <1> DEFINE Good(i) == last[i] \in 1..i /\ last[last[i]] = last[i] /\ Under(s[i], s[last[i]])
             C == {i \in 1..Len(s) : ~Good(i)}
  <1>6. C = {}
    <2>1. SUFFICES ASSUME C # {}  PROVE FALSE
      OBVIOUS
    <2>2. C \in SUBSET (1..Len(s))
      OBVIOUS
    <2>3. PICK i \in C : \A j \in C : i <= j
      <3> HIDE DEF C
      <3> QED  BY <1>3, <2>1, <2>2, Smallest
    <2>4. i \in 1..Len(s) /\ ~Good(i)
      OBVIOUS
    <2>5. i \in 1..i /\ Under(s[i], s[i])
      BY <1>3, <2>4, UnderReflexive
    <2>6. CASE last[i] = i
      BY <2>4, <2>5, <2>6
    <2>7. CASE last[i] # i
      <3>1. last[i] = last[i - 1] /\ last[i - 1] # 0 /\ Under(s[i], s[last[i - 1]])
        BY <1>4, <2>4, <2>7
      <3>2. i - 1 \in 1..Len(s) /\ ~(i <= i - 1) /\ 1..i - 1 \subseteq 1..i
        BY <1>3, <1>5, <2>4, <3>1
      <3>3. Good(i - 1)
        BY <2>3, <3>2
      <3> QED  BY <2>4, <3>1, <3>2, <3>3
    <2> QED  BY <2>6, <2>7
  <1>7. \A i \in 1..Len(s) : last[i] \in 1..i /\ last[last[i]] = last[i] /\ Under(s[i], s[last[i]])
    BY <1>6
  <1>8. S \subseteq ToSet(s) /\ DOMAIN s = 1..Len(s)
    BY DEF ToSet
  <1>9. Distinct(S)
    BY <1>8 DEF Distinct
  <1>10. ASSUME NEW p \in ToSet(s)
         PROVE  \E e \in S : Under(p, e)
    <2>1. PICK i \in 1..Len(s) : p = s[i]
      BY <1>8 DEF ToSet
    <2>2. last[i] \in 1..Len(s)
      BY <1>3, <1>7
    <2>3. s[last[i]] \in S
      BY <1>7, <2>2
    <2> QED  BY <1>7, <2>1, <2>3
  <1> HIDE DEF S
  <1>11. Normal(list) /\ ToSet(list) = S
    BY <1>1, <1>9, SortCanonSorts
  <1> QED  BY <1>8, <1>10, <1>11 DEF Covers, Covered

-----------------------------------------------------------------------------
(* The lists of the handlers                                               *)

LEMMA CoveredBySame ==
    \A p, q, list : Canon[p] = Canon[q] /\ Covered(p, list) => Covered(q, list)
  BY DEF Covered, Under

\* What lies below something that is denied is denied.
LEMMA CoveredBelow ==
    ASSUME NEW p \in DOMAIN Canon, NEW q \in Dir, NEW list, ToSet(list) \subseteq Dir,
           Under(p, q), Covered(q, list)
    PROVE  Covered(p, list)
  <1>1. PICK e \in ToSet(list) : Under(q, e)
    BY DEF Covered
  <1>2. Under(p, e)
    BY <1>1, DirType, UnderTransitive
  <1> QED  BY <1>2 DEF Covered

\* Of the spellings of a directory in a list one is first, and one is last.
LEMMA FirstSpelling ==
    ASSUME NEW in \in Seq(Dir), NEW p \in ToSet(in)
    PROVE  /\ \E i \in 1..Len(in) :
                 Canon[in[i]] = Canon[p] /\ \A j \in 1..i - 1 : Canon[in[j]] # Canon[in[i]]
           /\ \E i \in 1..Len(in) :
                 Canon[in[i]] = Canon[p] /\ \A j \in i + 1..Len(in) : Canon[in[j]] # Canon[in[i]]
  <1> DEFINE S == {i \in 1..Len(in) : Canon[in[i]] = Canon[p]}
  <1>1. Len(in) \in Nat /\ S \in SUBSET (1..Len(in)) /\ S # {}
    BY DEF ToSet
  <1>2. \A i \in S : i \in 1..Len(in) /\ Canon[in[i]] = Canon[p]
    OBVIOUS
  <1>3. \A i \in 1..Len(in) : Canon[in[i]] = Canon[p] => i \in S
    OBVIOUS
  <1> HIDE DEF S
  <1>4. PICK a \in S : \A j \in S : a <= j
    BY <1>1, Smallest
  <1>5. PICK b \in S : \A j \in S : j <= b
    BY <1>1, Largest
  <1>6. \A j \in 1..a - 1 : Canon[in[j]] # Canon[in[a]]
    <2> SUFFICES ASSUME NEW j \in 1..a - 1  PROVE Canon[in[j]] # Canon[in[a]]
      OBVIOUS
    <2>1. j \in 1..Len(in) /\ ~(a <= j)
      BY <1>1, <1>2
    <2> QED  BY <1>2, <1>3, <1>4, <2>1
  <1>7. \A j \in b + 1..Len(in) : Canon[in[j]] # Canon[in[b]]
    <2> SUFFICES ASSUME NEW j \in b + 1..Len(in)  PROVE Canon[in[j]] # Canon[in[b]]
      OBVIOUS
    <2>1. j \in 1..Len(in) /\ ~(j <= b)
      BY <1>1, <1>2
    <2> QED  BY <1>2, <1>3, <1>5, <2>1
  <1> QED  BY <1>2, <1>6, <1>7

\* What PUT excludes and loadShares make of a list denies all that it names.
LEMMA NormalizeExcludesIs ==
    ASSUME NEW in \in Seq(Dir), NEW list, list = NormalizeExcludes(in)
    PROVE  Normal(list) /\ ToSet(list) \subseteq ToSet(in) /\ Covers(list, ToSet(in))
  <1> DEFINE first == {i \in 1..Len(in) : \A j \in 1..i - 1 : Canon[in[j]] # Canon[in[i]]}
             S == {in[i] : i \in first}
  <1>1. Len(in) \in Nat /\ (\A i \in 1..Len(in) : in[i] \in Dir)
        /\ ToSet(in) = {in[i] : i \in 1..Len(in)}
    BY DEF ToSet
  <1>2. S \subseteq Dir /\ S \subseteq ToSet(in)
    BY <1>1
  <1>3. \A i, j \in first : Canon[in[i]] = Canon[in[j]] => i = j
    <2> SUFFICES ASSUME NEW i \in first, NEW j \in first, Canon[in[i]] = Canon[in[j]], i < j
                 PROVE  FALSE
      BY <1>1
    <2>1. i \in 1..j - 1
      BY <1>1
    <2> QED  BY <2>1
  <1>4. Distinct(S)
    BY <1>2, <1>3 DEF Distinct
  <1>5. \A p \in ToSet(in) : \E q \in S : Canon[q] = Canon[p]
    BY FirstSpelling
  <1>6. list = Collapse(SortCanon(S))
    BY DEF NormalizeExcludes
  <1> HIDE DEF S
  <1>7. SortCanon(S) \in Seq(Dir) /\ ToSet(SortCanon(S)) = S
    BY <1>4, SortCanonSorts
  <1>8. Normal(list) /\ ToSet(list) \subseteq S /\ Covers(list, S)
    BY <1>4, <1>6, <1>7, CollapseCovers
  <1> QED  BY <1>2, <1>5, <1>8, CoveredBySame DEF Covers

\* The temp directory is always shared, and no directory twice.
LEMMA NormalizeSharesIs ==
    ASSUME NEW in \in Seq(Dir), NEW list, list = NormalizeShares(in, Default)
    PROVE  /\ Normal(list) /\ Tmp \in ToSet(list)
           /\ ToSet(list) \subseteq ToSet(in) \cup ToSet(Default) \cup {Tmp}
           /\ Normal(in) /\ Tmp \in ToSet(in) => list = in
  <1> DEFINE base == IF in = <<>> THEN Default ELSE in
             all == Append(base, Tmp)
             kept == {i \in 1..Len(all) : \A j \in i + 1..Len(all) : Canon[all[j]] # Canon[all[i]]}
             S == {all[i] : i \in kept}
  <1>1. base \in Seq(Dir) /\ Tmp \in Dir
    BY SharesAssumption DEF SharesAssumption
  <1>2. list = SortCanon(S)
    BY DEF NormalizeShares
  <1>3. base = in \/ base = Default
    OBVIOUS
  <1>4. in # <<>> => base = in
    OBVIOUS
  <1> HIDE DEF base
  <1>5. /\ Len(base) \in Nat /\ Len(all) = Len(base) + 1 /\ all \in Seq(Dir)
        /\ (\A i \in 1..Len(base) : all[i] = base[i]) /\ all[Len(base) + 1] = Tmp
    BY <1>1
  <1> HIDE DEF all
  <1>6. \A i \in 1..Len(all) : all[i] \in Dir /\ all[i] \in ToSet(base) \cup {Tmp}
    <2> SUFFICES ASSUME NEW i \in 1..Len(all)
                 PROVE  all[i] \in Dir /\ all[i] \in ToSet(base) \cup {Tmp}
      OBVIOUS
    <2>1. i \in 1..Len(base) \/ i = Len(base) + 1
      BY <1>5
    <2> QED  BY <1>1, <1>5, <2>1 DEF ToSet
  <1>7. \A i, j \in kept : Canon[all[i]] = Canon[all[j]] => i = j
    <2> SUFFICES ASSUME NEW i \in kept, NEW j \in kept, Canon[all[i]] = Canon[all[j]], i < j
                 PROVE  FALSE
      BY <1>5
    <2>1. j \in i + 1..Len(all)
      BY <1>5
    <2> QED  BY <2>1
  <1>8. Distinct(S)
    <2>1. S \subseteq Dir
      BY <1>6
    <2>2. ASSUME NEW p \in S, NEW q \in S, Canon[p] = Canon[q]
          PROVE  p = q
      <3>1. PICK i \in kept, j \in kept : p = all[i] /\ q = all[j]
        OBVIOUS
      <3> QED  BY <1>7, <2>2, <3>1
    <2> QED  BY <2>1, <2>2 DEF Distinct
  <1>9. Tmp \in S
    <2>1. Len(all) \in 1..Len(all) /\ Len(all) + 1..Len(all) = {}
      BY <1>5
    <2>2. Len(all) \in kept
      BY <2>1
    <2> QED  BY <1>5, <2>2
  <1>10. S \subseteq ToSet(base) \cup {Tmp}
    BY <1>6
  <1>11. ASSUME NEW p \in ToSet(base)
         PROVE  \E q \in S : Canon[q] = Canon[p]
    <2>1. p \in ToSet(all)
      <3>1. PICK i \in 1..Len(base) : p = base[i]
        BY <1>1 DEF ToSet
      <3>2. i \in 1..Len(all) /\ all[i] = p
        BY <1>5, <3>1
      <3>3. \A s \in Seq(Dir) : \A j \in 1..Len(s) : s[j] \in ToSet(s)
        BY DEF ToSet
      <3>4. all \in Seq(Dir)
        BY <1>5
      <3>5. all[i] \in ToSet(all)
        BY <3>2, <3>3, <3>4
      <3> QED  BY <3>2, <3>5
    <2>2. PICK i \in 1..Len(all) :
             Canon[all[i]] = Canon[p] /\ \A j \in i + 1..Len(all) : Canon[all[j]] # Canon[all[i]]
      BY <1>5, <2>1, FirstSpelling
    <2>3. i \in kept
      BY <2>2
    <2>4. all[i] \in S
      BY <2>3
    <2> QED  BY <2>2, <2>4
  <1> HIDE DEF S
  <1>12. Normal(list) /\ ToSet(list) = S
    BY <1>2, <1>8, SortCanonSorts
  <1>13. ASSUME Normal(in), Tmp \in ToSet(in)
         PROVE  list = in
    <2>1. base = in
      BY <1>4, <1>13, EmptyIsNormal
    <2>2. S \subseteq ToSet(in) /\ Distinct(ToSet(in))
      BY <1>10, <1>13, <2>1 DEF Normal
    <2>3. ToSet(in) \subseteq S
      BY <1>11, <2>1, <2>2 DEF Distinct
    <2>4. S = ToSet(in)
      BY <2>2, <2>3
    <2> QED  BY <1>2, <1>13, <2>4 DEF Normal
  <1> QED  BY <1>3, <1>9, <1>10, <1>12, <1>13

\* Built-in excludes that are in force are valid for the shares.
LEMMA BuiltinExcludesIs ==
    ASSUME NEW sh, NEW list, list = BuiltinExcludes(sh)
    PROVE  Normal(list) /\ \A p \in ToSet(list) : p \in ToSet(Builtin) /\ ValidExclude(p, sh)
  <1> DEFINE S == {p \in ToSet(Builtin) : ValidExclude(p, sh)}
  <1>1. Distinct(S)
    BY PathsAssumption DEF PathsAssumption, Distinct, ValidExclude
  <1>2. SortCanon(S) \in Seq(Dir) /\ ToSet(SortCanon(S)) = S
    BY <1>1, SortCanonSorts
  <1>3. list = Collapse(SortCanon(S))
    BY DEF BuiltinExcludes
  <1>4. Normal(list) /\ ToSet(list) \subseteq S
    <2> HIDE DEF S
    <2> QED  BY <1>1, <1>2, <1>3, CollapseCovers
  <1> QED  BY <1>4

\* The merge has nothing but entries of the two lists, and denies what they do.
LEMMA MergeExcludesIs ==
    ASSUME NEW user, Normal(user), NEW builtin, Normal(builtin),
           NEW list, list = MergeExcludes(user, builtin)
    PROVE  /\ Normal(list) /\ ToSet(list) \subseteq ToSet(user) \cup ToSet(builtin)
           /\ Covers(list, ToSet(user) \cup ToSet(builtin))
  <1> DEFINE new == {b \in ToSet(builtin) : \A u \in ToSet(user) : Canon[u] # Canon[b]}
             S == ToSet(user) \cup new
  <1>1. \A l : Covers(l, ToSet(l))
    BY UnderReflexive DEF Covers, Covered
  <1>2. CASE user = <<>>
    <2>1. list = builtin /\ ToSet(user) = {}
      BY <1>2, EmptyIsNormal DEF MergeExcludes
    <2> QED  BY <1>1, <2>1 DEF Covers
  <1>3. CASE user # <<>> /\ builtin = <<>>
    <2>1. list = user /\ ToSet(builtin) = {}
      BY <1>3, EmptyIsNormal DEF MergeExcludes
    <2> QED  BY <1>1, <2>1 DEF Covers
  <1>4. CASE user # <<>> /\ builtin # <<>>
    <2>1. list = Collapse(SortCanon(S))
      BY <1>4 DEF MergeExcludes
    <2>2. Distinct(S)
      BY DEF Normal, Distinct
    <2>3. \A b \in ToSet(builtin) : \E p \in S : Canon[p] = Canon[b]
      OBVIOUS
    <2>4. ToSet(user) \subseteq S /\ S \subseteq ToSet(user) \cup ToSet(builtin)
      OBVIOUS
    <2> HIDE DEF S
    <2>5. SortCanon(S) \in Seq(Dir) /\ ToSet(SortCanon(S)) = S
      BY <2>2, SortCanonSorts
    <2>6. Normal(list) /\ ToSet(list) \subseteq S /\ Covers(list, S)
      BY <2>1, <2>2, <2>5, CollapseCovers
    <2>7. Covers(list, ToSet(user) \cup ToSet(builtin))
      BY <2>3, <2>4, <2>6, CoveredBySame DEF Covers
    <2> QED  BY <2>4, <2>6, <2>7
  <1> QED  BY <1>2, <1>3, <1>4

\* What the handlers store denies what the user excludes and what is built in,
\* and nothing else.
LEMMA OutcomeIs ==
    ASSUME NEW sh, NEW user, Normal(user), NEW o, o = Outcome(sh, user)
    PROVE  /\ o = Lists(sh, o.user, o.excl)
           /\ Normal(o.user) /\ Normal(o.excl)
           /\ ToSet(o.user) \subseteq ToSet(user)
           /\ Covers(o.excl, ToSet(o.user))
           /\ \A p \in ToSet(o.excl) :
                 p \in ToSet(o.user) \/ (p \in ToSet(Builtin) /\ ValidExclude(p, sh))
           /\ \A p \in DOMAIN Canon :
                 Covered(p, o.excl) <=> Covered(p, user) \/ Covered(p, BuiltinExcludes(sh))
           /\ \A p \in DOMAIN Canon :
                 Covered(p, o.excl) <=> Covered(p, o.user) \/ Covered(p, BuiltinExcludes(sh))
  <1> DEFINE builtin == BuiltinExcludes(sh)
             kept == StripBuiltin(user, builtin)
             S == {e \in ToSet(user) : \A b \in ToSet(builtin) : ~Under(e, b)}
             merged == MergeExcludes(kept, builtin)
  <1>1. o = Lists(sh, kept, merged)
    BY DEF Outcome
  <1>2. o = Lists(sh, o.user, o.excl) /\ o.user = kept /\ o.excl = merged
    BY <1>1 DEF Lists
  <1>3. Normal(builtin) /\ \A p \in ToSet(builtin) : p \in ToSet(Builtin) /\ ValidExclude(p, sh)
    BY BuiltinExcludesIs
  <1> HIDE DEF builtin
  <1>4. Distinct(S)
    BY DEF Normal, Distinct
  <1>5. kept = SortCanon(S)
    BY DEF StripBuiltin
  <1>6. \A e \in ToSet(user) : e \in S \/ \E b \in ToSet(builtin) : Under(e, b)
    OBVIOUS
  <1>7. S \subseteq ToSet(user)
    OBVIOUS
  <1> HIDE DEF S, kept
  <1>8. Normal(kept) /\ ToSet(kept) = S
    BY <1>4, <1>5, SortCanonSorts
  <1>9. /\ Normal(merged) /\ ToSet(merged) \subseteq ToSet(kept) \cup ToSet(builtin)
        /\ Covers(merged, ToSet(kept) \cup ToSet(builtin))
    BY <1>3, <1>8, MergeExcludesIs
  <1> HIDE DEF merged
  <1>10. /\ ToSet(merged) \subseteq Dir /\ ToSet(kept) \subseteq Dir
         /\ ToSet(builtin) \subseteq Dir /\ ToSet(user) \subseteq Dir
    BY <1>3, <1>8, <1>9 DEF Normal, Distinct
  <1>11. ASSUME NEW p \in DOMAIN Canon
         PROVE  /\ Covered(p, merged) <=> Covered(p, kept) \/ Covered(p, builtin)
                /\ Covered(p, user) => Covered(p, kept) \/ Covered(p, builtin)
                /\ Covered(p, kept) => Covered(p, user)
    <2>1. Covered(p, merged) => Covered(p, kept) \/ Covered(p, builtin)
      BY <1>9 DEF Covered
    <2>2. Covered(p, kept) => Covered(p, user)
      BY <1>7, <1>8 DEF Covered
    <2>3. ASSUME Covered(p, kept) \/ Covered(p, builtin)
          PROVE  Covered(p, merged)
      <3>1. PICK e \in ToSet(kept) \cup ToSet(builtin) : Under(p, e)
        BY <2>3 DEF Covered
      <3>2. Covered(e, merged) /\ e \in Dir
        BY <1>9, <1>10 DEF Covers
      <3> QED  BY <1>10, <3>1, <3>2, CoveredBelow
    <2>4. ASSUME Covered(p, user)
          PROVE  Covered(p, kept) \/ Covered(p, builtin)
      <3>1. PICK e \in ToSet(user) : Under(p, e)
        BY <2>4 DEF Covered
      <3>2. CASE e \in S
        BY <1>8, <3>1, <3>2 DEF Covered
      <3>3. ASSUME NEW b \in ToSet(builtin), Under(e, b)
            PROVE  Covered(p, builtin)
        <4>1. Covered(e, builtin) /\ e \in Dir
          BY <1>10, <3>3 DEF Covered
        <4> QED  BY <1>10, <3>1, <4>1, CoveredBelow
      <3> QED  BY <1>6, <3>2, <3>3
    <2> QED  BY <2>1, <2>2, <2>3, <2>4
  <1>12. Covers(o.excl, ToSet(o.user))
    BY <1>2, <1>9 DEF Covers
  <1>13. \A p \in ToSet(o.excl) :
            p \in ToSet(o.user) \/ (p \in ToSet(Builtin) /\ ValidExclude(p, sh))
    BY <1>2, <1>3, <1>9
  <1> QED  BY <1>2, <1>7, <1>8, <1>9, <1>11, <1>12, <1>13 DEF builtin

-----------------------------------------------------------------------------
(* The invariant                                                           *)

ListsType == [shares : Seq(Dir), user : Seq(Dir), excl : Seq(Dir)]

Request == [at : {"free", "store", "stop", "lists", "build", "write", "start", "clear", "guest"},
            kind : {"none", "set", "restart", "create"},
            lists : ListsType, old : ListsType, recreate : BOOLEAN, rw : MountPath \cup {NoPath}]

\* A list of shares as the daemon keeps it.
Shared(list) == Normal(list) /\ Tmp \in ToSet(list) /\ ToSet(list) \subseteq Roots

\* A list of excludes that leaves the temp directory alone.
Clear(list) == Normal(list) /\ \A e \in ToSet(list) : ~Under(e, Tmp) /\ ~Under(Tmp, e)

\* The list denies what the user excludes, and is made of that and of what is
\* built in.
Enforced(user, ex) ==
    /\ Clear(user) /\ Clear(ex)
    /\ Covers(ex, ToSet(user)) /\ ToSet(ex) \subseteq ToSet(user) \cup ToSet(Builtin)

RequestInv(r) ==
    /\ r.at = "store" => Enforced(r.lists.user, r.lists.excl)
    /\ r.at \in {"stop", "clear"} => r.kind = "restart"
    /\ r.at = "write" => Normal(r.lists.shares)

TypeInv ==
    /\ up \in BOOLEAN /\ flag \in BOOLEAN
    /\ missed \in BOOLEAN /\ stale \in BOOLEAN /\ crossed \in BOOLEAN /\ unsaved \in BOOLEAN
    /\ changes \in 0..MaxChanges
    /\ file \in [shares : Seq(Dir), user : Seq(Dir)]
    /\ container \in [lists : ListsType, rw : MountPath \cup {NoPath}]
    /\ req \in [Proc -> Request]

\* The lists are sorted and without doubles, wherever they are kept.
ListsInv ==
    /\ Shared(shares) /\ Shared(file.shares)
    /\ Enforced(userEx, excl) /\ Clear(file.user)
    /\ Normal(yaml) /\ Normal(vm)
    /\ \A p \in Proc : RequestInv(req[p])

\* A container's mount was checked against the excludes it got.
MountInv ==
    /\ \A p \in Proc :
          req[p].rw # NoPath /\ (req[p].at = "lists" \/ ~crossed) =>
              ~Covered(req[p].rw, req[p].old.excl)
    /\ container.rw # NoPath /\ ~crossed => ~Covered(container.rw, container.lists.excl)

\* The excludes deny what the user excludes and what is built in for some shares.
Denies(list, user, sh) ==
    \A p \in DOMAIN Canon : Covered(p, list) <=> Covered(p, user) \/ Covered(p, BuiltinExcludes(sh))

\* What is used is what the daemon would use.
UpToDate ==
    /\ vm # NoVM => vm = shares
    /\ container # NoContainer =>
          container.lists.shares = shares /\ SameCover(container.lists.excl, excl)

\* shares.json holds what the daemon has, unless a save failed.
FileInv ==
    /\ ~up => \A p \in Proc : req[p] = Free
    /\ ~up /\ flag => missed
    /\ unsaved => missed
    /\ ~unsaved => file = [shares |-> shares, user |-> userEx]

DeniesInv ==
    /\ \A p \in Proc : req[p].at = "store" =>
          Denies(req[p].lists.excl, req[p].lists.user, req[p].old.shares)
    /\ ~missed => Denies(excl, userEx, shares)

\* A restart that will not create the VM anew finds everything as it should be.
FlagInv ==
    ~missed =>
        /\ ~flag => UpToDate
        /\ \A p \in Proc : req[p].kind = "restart" =>
              (req[p].at = "stop" /\ req[p].recreate) \/ UpToDate

\* Every exclude lies below a share, and is no share itself.
ValidInv ==
    /\ \A p \in Proc : req[p].at = "store" =>
          ValidExcludes(req[p].lists.user, req[p].old.shares)
    /\ ~stale => ValidExcludes(userEx, shares) /\ ValidExcludes(file.user, file.shares)

LEMMA ClearPart ==
    ASSUME NEW user, Clear(user), NEW list, Normal(list), ToSet(list) \subseteq ToSet(user)
    PROVE  Clear(list)
  BY DEF Clear

LEMMA EmptyIsClear == Clear(<<>>) /\ NoLists \in ListsType /\ Free \in Request /\ RequestInv(Free)
  <1>1. <<>> \in Seq(Dir)
    OBVIOUS
  <1>2. NoLists \in ListsType
    BY <1>1 DEF NoLists, Lists, ListsType
  <1>3. Clear(<<>>)
    BY EmptyIsNormal DEF Clear
  <1>4. Free \in Request
    BY <1>2 DEF Free, Request
  <1>5. RequestInv(Free)
    BY DEF RequestInv, Free
  <1> QED  BY <1>2, <1>3, <1>4, <1>5

\* What a handler stores is in order and denies what it should.
LEMMA OutcomeEnforced ==
    ASSUME NEW sh \in Seq(Dir), NEW user, Clear(user), NEW o, o = Outcome(sh, user)
    PROVE  /\ o \in ListsType /\ o.shares = sh
           /\ Enforced(o.user, o.excl) /\ ToSet(o.user) \subseteq ToSet(user)
           /\ Denies(o.excl, o.user, sh) /\ Denies(o.excl, user, sh)
  <1>1. Normal(user)
    BY DEF Clear
  <1>2. /\ o = Lists(sh, o.user, o.excl) /\ Normal(o.user) /\ Normal(o.excl)
        /\ ToSet(o.user) \subseteq ToSet(user) /\ Covers(o.excl, ToSet(o.user))
        /\ \A p \in ToSet(o.excl) :
              p \in ToSet(o.user) \/ (p \in ToSet(Builtin) /\ ValidExclude(p, sh))
    BY <1>1, OutcomeIs
  <1>3. Denies(o.excl, o.user, sh) /\ Denies(o.excl, user, sh)
    BY <1>1, OutcomeIs DEF Denies
  <1>4. o.user \in Seq(Dir) /\ o.excl \in Seq(Dir)
    BY <1>2, NormalIs
  <1>5. o \in ListsType /\ o.shares = sh
    BY <1>2, <1>4 DEF Lists, ListsType
  <1>6. Clear(o.user)
    BY <1>2, ClearPart
  <1>7. Clear(o.excl)
    BY <1>2, <1>6 DEF Clear, ValidExclude
  <1> QED  BY <1>2, <1>3, <1>5, <1>6, <1>7 DEF Enforced

\* What passes the checks of excludes.
LEMMA ExcludesAccepted ==
    ASSUME NEW T, NEW in \in Seq(T), NEW sh, ValidExcludes(in, sh), NEW list,
           list = NormalizeExcludes(in)
    PROVE  /\ Clear(list) /\ ToSet(list) \subseteq ToSet(in) /\ ValidExcludes(list, sh)
           /\ SameCover(list, in)
  <1>1. ToSet(in) \subseteq Dir
    BY DEF ValidExcludes, ValidExclude
  <1>2. in \in Seq(Dir)
    <2>1. Len(in) \in Nat /\ in = [i \in 1..Len(in) |-> in[i]]
      OBVIOUS
    <2>2. \A i \in 1..Len(in) : in[i] \in Dir
      BY <1>1 DEF ToSet
    <2> QED  BY <2>1, <2>2
  <1>3. Normal(list) /\ ToSet(list) \subseteq ToSet(in) /\ Covers(list, ToSet(in))
    BY <1>2, NormalizeExcludesIs
  <1>4. \A e \in ToSet(in) : ~Under(e, Tmp) /\ ~Under(Tmp, e)
    BY DEF ValidExcludes, ValidExclude
  <1>5. Clear(list)
    BY <1>3, <1>4 DEF Clear
  <1>6. ValidExcludes(list, sh)
    BY <1>3 DEF ValidExcludes
  <1>7. ASSUME NEW p \in DOMAIN Canon
        PROVE  Covered(p, list) <=> Covered(p, in)
    <2>1. Covered(p, list) => Covered(p, in)
      BY <1>3 DEF Covered
    <2>2. ASSUME NEW e \in ToSet(in), Under(p, e)
          PROVE  Covered(p, list)
      <3>1. Covered(e, list) /\ e \in Dir /\ ToSet(list) \subseteq Dir
        BY <1>1, <1>3 DEF Covers
      <3> QED  BY <2>2, <3>1, CoveredBelow
    <2> QED  BY <2>1, <2>2 DEF Covered
  <1> QED  BY <1>3, <1>5, <1>6, <1>7 DEF SameCover

\* A step of one handler leaves the requests of the others alone.
LEMMA OneRequest ==
    ASSUME TypeInv, \A q \in Proc : RequestInv(req[q]),
           NEW p \in Proc, NEW r \in Request, RequestInv(r), req' = [req EXCEPT ![p] = r]
    PROVE  /\ req' \in [Proc -> Request]
           /\ req'[p] = r /\ \A q \in Proc : q # p => req'[q] = req[q]
           /\ \A q \in Proc : RequestInv(req'[q])
  <1>1. req \in [Proc -> Request]
    BY DEF TypeInv
  <1> QED  BY <1>1

\* The lists after a share is added, and after one is taken away.
LEMMA SharedWith ==
    ASSUME NEW sh, Shared(sh), NEW d \in ShareDir, \A s \in ToSet(sh) : Canon[s] # Canon[d],
           NEW all, all = SortCanon(ToSet(sh) \cup {d})
    PROVE  Shared(all) /\ ToSet(all) = ToSet(sh) \cup {d}
  <1>1. Distinct(ToSet(sh) \cup {d})
    BY SharesAssumption DEF SharesAssumption, Shared, Normal, Distinct
  <1>2. Normal(all) /\ ToSet(all) = ToSet(sh) \cup {d}
    BY <1>1, SortCanonSorts
  <1> QED  BY <1>2 DEF Shared, Roots

LEMMA SharedWithout ==
    ASSUME NEW sh, Shared(sh), NEW s, Canon[s] # Canon[Tmp],
           NEW left, left = SortCanon(ToSet(sh) \ {s})
    PROVE  Shared(left) /\ ToSet(left) = ToSet(sh) \ {s}
  <1>1. Distinct(ToSet(sh) \ {s})
    BY DEF Shared, Normal, Distinct
  <1>2. Normal(left) /\ ToSet(left) = ToSet(sh) \ {s}
    BY <1>1, SortCanonSorts
  <1> QED  BY <1>2 DEF Shared

\* A list of shares as the daemon keeps it is unchanged by a reload.
LEMMA SharedIs ==
    ASSUME NEW sh, Shared(sh)
    PROVE  /\ sh \in Seq(Dir) /\ ToSet(sh) \subseteq Dir /\ sh # <<>>
           /\ NormalizeShares(sh, Default) = sh /\ SharesLoadable(sh)
  <1>1. Normal(sh) /\ Tmp \in ToSet(sh)
    BY DEF Shared
  <1>2. sh \in Seq(Dir) /\ ToSet(sh) \subseteq Dir
    BY <1>1, NormalIs DEF Distinct
  <1>3. sh # <<>>
    BY <1>1, EmptyIsNormal
  <1>4. NormalizeShares(sh, Default) = sh
    BY <1>1, <1>2, NormalizeSharesIs
  <1>5. SharesLoadable(sh)
    BY <1>2 DEF SharesLoadable
  <1> QED  BY <1>2, <1>3, <1>4, <1>5

-----------------------------------------------------------------------------
(* Types and lists                                                         *)

LEMMA GotoKeeps ==
    ASSUME TypeInv, ListsInv, NEW p \in Proc, NEW place \in {"build", "start", "clear", "guest"},
           place = "clear" => req[p].kind = "restart", Goto(p, place)
    PROVE  req' \in [Proc -> Request] /\ \A q \in Proc : RequestInv(req'[q])
  <1> DEFINE r == [req[p] EXCEPT !.at = place]
  <1>1. req' = [req EXCEPT ![p] = r]
    BY DEF Goto
  <1>2. r \in Request /\ r.at = place /\ r.kind = req[p].kind
    BY DEF TypeInv, Request
  <1>3. RequestInv(r)
    BY <1>2 DEF RequestInv
  <1> HIDE DEF r
  <1> QED  BY <1>1, <1>2, <1>3, OneRequest DEF ListsInv

LEMMA FinishKeeps ==
    ASSUME TypeInv, ListsInv, NEW p \in Proc, Finish(p)
    PROVE  req' \in [Proc -> Request] /\ \A q \in Proc : RequestInv(req'[q])
  BY EmptyIsClear, OneRequest DEF Finish, ListsInv

LEMMA ReadyKeeps ==
    ASSUME TypeInv, ListsInv, NEW p \in Proc, Ready(p)
    PROVE  req' \in [Proc -> Request] /\ \A q \in Proc : RequestInv(req'[q])
  <1>1. CASE req[p].kind = "restart"
    <2>1. Goto(p, "clear")
      BY <1>1 DEF Ready
    <2> QED  BY <1>1, <2>1, GotoKeeps
  <1>2. CASE req[p].kind # "restart"
    <2>1. Goto(p, "guest")
      BY <1>2 DEF Ready
    <2> QED  BY <2>1, GotoKeeps
  <1> QED  BY <1>1, <1>2

\* A change of the shares: the handler's lists become the daemon's and, unless
\* the save fails, those of shares.json.
LEMMA StoreKeeps ==
    ASSUME TypeInv, ListsInv, NEW sh, Shared(sh), NEW user, Clear(user),
           NEW new, new = Outcome(sh, user), Store(new), Save(sh, new.user, TRUE),
           UNCHANGED <<up, yaml, vm, container, req, stale, crossed>>
    PROVE  TypeInv' /\ ListsInv'
  <1>1. sh \in Seq(Dir)
    BY SharedIs
  <1>2. new \in ListsType /\ new.shares = sh /\ Enforced(new.user, new.excl)
    BY <1>1, OutcomeEnforced
  <1>3. changes' \in 0..MaxChanges
    BY SharesAssumption DEF Store, Counted, TypeInv, SharesAssumption
  <1>4. flag' \in BOOLEAN /\ missed' \in BOOLEAN /\ unsaved' \in BOOLEAN
    BY DEF Save, TypeInv, Restarting
  <1>5. file' = file \/ file' = [shares |-> sh, user |-> new.user]
    BY DEF Save
  <1>6. /\ file' \in [shares : Seq(Dir), user : Seq(Dir)]
        /\ Shared(file'.shares) /\ Clear(file'.user)
    BY <1>1, <1>2, <1>5 DEF TypeInv, ListsInv, ListsType, Enforced
  <1>7. TypeInv'
    BY <1>3, <1>4, <1>6 DEF TypeInv
  <1>8. shares' = sh /\ userEx' = new.user /\ excl' = new.excl
    BY <1>2 DEF Store
  <1>9. Shared(shares') /\ Enforced(userEx', excl')
    BY <1>2, <1>8
  <1> QED  BY <1>6, <1>7, <1>9 DEF ListsInv

LEMMA ListsInit == Init => TypeInv /\ ListsInv
  <1> SUFFICES ASSUME Init  PROVE TypeInv /\ ListsInv
    OBVIOUS
  <1> DEFINE sh == NormalizeShares(<<>>, Default)
             new == Outcome(sh, <<>>)
  <1>1. Shared(sh)
    <2>1. <<>> \in Seq(Dir)
      OBVIOUS
    <2>2. /\ Normal(sh) /\ Tmp \in ToSet(sh)
          /\ ToSet(sh) \subseteq ToSet(<<>>) \cup ToSet(Default) \cup {Tmp}
      BY <2>1, NormalizeSharesIs
    <2> QED  BY <2>2, EmptyIsNormal DEF Shared, Roots
  <1> HIDE DEF sh
  <1>2. sh \in Seq(Dir)
    BY <1>1, SharedIs
  <1>3. new \in ListsType /\ new.shares = sh /\ Enforced(new.user, new.excl)
    BY <1>2, EmptyIsClear, OutcomeEnforced
  <1>4. /\ up = TRUE /\ shares = new.shares /\ userEx = new.user /\ excl = new.excl
        /\ flag = FALSE /\ file = [shares |-> new.shares, user |-> new.user]
        /\ yaml = <<>> /\ vm = NoVM /\ container = NoContainer
        /\ req = [p \in Proc |-> Free] /\ changes = 0 /\ missed = FALSE /\ stale = FALSE
        /\ crossed = FALSE /\ unsaved = FALSE
    BY DEF Init, sh
  <1> HIDE DEF new
  <1>5. file \in [shares : Seq(Dir), user : Seq(Dir)]
    BY <1>3, <1>4 DEF ListsType
  <1>6. container \in [lists : ListsType, rw : MountPath \cup {NoPath}]
    BY <1>4, EmptyIsClear DEF NoContainer
  <1>7. req \in [Proc -> Request] /\ \A p \in Proc : req[p] = Free
    BY <1>4, EmptyIsClear
  <1>8. TypeInv
    <2>1. changes \in 0..MaxChanges
      BY <1>4, SharesAssumption DEF SharesAssumption
    <2>2. /\ up \in BOOLEAN /\ flag \in BOOLEAN /\ missed \in BOOLEAN
          /\ stale \in BOOLEAN /\ crossed \in BOOLEAN /\ unsaved \in BOOLEAN
      BY <1>4
    <2> QED  BY <1>5, <1>6, <1>7, <2>1, <2>2 DEF TypeInv
  <1>9. Normal(yaml) /\ Normal(vm)
    BY <1>4, EmptyIsNormal DEF NoVM
  <1>10. Shared(shares) /\ Shared(file.shares) /\ Enforced(userEx, excl) /\ Clear(file.user)
    BY <1>1, <1>3, <1>4 DEF Enforced
  <1> QED  BY <1>7, <1>8, <1>9, <1>10, EmptyIsClear DEF ListsInv

LEMMA ListsSet ==
    ASSUME TypeInv, ListsInv, NEW p \in Proc
    PROVE  /\ \A list \in UserLists : BeginSet(p, list) => TypeInv' /\ ListsInv'
           /\ CommitSet(p) => TypeInv' /\ ListsInv'
  <1>1. ASSUME NEW list \in UserLists, BeginSet(p, list)
        PROVE  TypeInv' /\ ListsInv'
    <2> DEFINE new == Outcome(shares, NormalizeExcludes(list))
               r == [Free EXCEPT !.at = "store", !.kind = "set", !.lists = new, !.old = Current]
    <2>1. list \in Seq(Seq(Nat)) /\ ValidExcludes(list, shares)
      BY <1>1, SharesAssumption DEF BeginSet, SharesAssumption
    <2>2. Clear(NormalizeExcludes(list))
      BY <2>1, ExcludesAccepted
    <2>3. shares \in Seq(Dir)
      BY SharedIs DEF ListsInv
    <2>4. new \in ListsType /\ Enforced(new.user, new.excl)
      BY <2>2, <2>3, OutcomeEnforced
    <2>5. Current \in ListsType
      <3>1. userEx \in Seq(Dir) /\ excl \in Seq(Dir)
        BY NormalIs DEF ListsInv, Enforced, Clear
      <3> QED  BY <2>3, <3>1 DEF Current, Lists, ListsType
    <2>6. req' = [req EXCEPT ![p] = r]
      BY <1>1 DEF BeginSet
    <2> HIDE DEF new
    <2>7. r \in Request /\ r.at = "store" /\ r.lists = new
      BY <2>4, <2>5, EmptyIsClear DEF Request, Free
    <2>8. RequestInv(r)
      BY <2>4, <2>7 DEF RequestInv
    <2> HIDE DEF r
    <2>9. req' \in [Proc -> Request] /\ \A q \in Proc : RequestInv(req'[q])
      BY <2>6, <2>7, <2>8, OneRequest DEF ListsInv
    <2> QED  BY <1>1, <2>9 DEF BeginSet, TypeInv, ListsInv
  <1>2. ASSUME CommitSet(p)
        PROVE  TypeInv' /\ ListsInv'
    <2> DEFINE new == req[p].lists
    <2>1. new \in ListsType /\ Enforced(new.user, new.excl)
      BY <1>2 DEF CommitSet, TypeInv, Request, ListsInv, RequestInv
    <2>2. changes' \in 0..MaxChanges
      BY <1>2, SharesAssumption DEF CommitSet, Counted, TypeInv, SharesAssumption
    <2>3. flag' \in BOOLEAN /\ missed' \in BOOLEAN /\ unsaved' \in BOOLEAN /\ stale' \in BOOLEAN
      BY <1>2 DEF CommitSet, TypeInv, Restarting
    <2>4. file' = file \/ file' = [shares |-> shares, user |-> new.user]
      BY <1>2 DEF CommitSet
    <2>5. shares \in Seq(Dir) /\ new.user \in Seq(Dir)
      BY <2>1, SharedIs DEF ListsInv, ListsType
    <2>6. userEx' = new.user /\ excl' = new.excl /\ Finish(p)
          /\ UNCHANGED <<up, shares, yaml, vm, container, crossed>>
      BY <1>2 DEF CommitSet
    <2> HIDE DEF new
    <2>7. /\ file' \in [shares : Seq(Dir), user : Seq(Dir)]
          /\ Shared(file'.shares) /\ Clear(file'.user)
      BY <2>1, <2>4, <2>5 DEF TypeInv, ListsInv, Enforced
    <2>8. req' \in [Proc -> Request] /\ \A q \in Proc : RequestInv(req'[q])
      BY <2>6, FinishKeeps
    <2> QED  BY <2>1, <2>2, <2>3, <2>6, <2>7, <2>8 DEF TypeInv, ListsInv
  <1> QED  BY <1>1, <1>2

LEMMA ListsRestart ==
    ASSUME TypeInv, ListsInv, NEW p \in Proc, BeginRestart(p) \/ StopVM(p) \/ ClearFlag(p)
    PROVE  TypeInv' /\ ListsInv'
  <1>1. CASE BeginRestart(p)
    <2> DEFINE r == [Free EXCEPT !.at = "stop", !.kind = "restart", !.recreate = flag]
    <2>1. req' = [req EXCEPT ![p] = r]
      BY <1>1 DEF BeginRestart
    <2>2. r \in Request /\ RequestInv(r)
      BY EmptyIsClear DEF Request, Free, RequestInv, TypeInv
    <2> HIDE DEF r
    <2>3. req' \in [Proc -> Request] /\ \A q \in Proc : RequestInv(req'[q])
      BY <2>1, <2>2, OneRequest DEF ListsInv
    <2> QED  BY <1>1, <2>3 DEF BeginRestart, TypeInv, ListsInv
  <1>2. CASE StopVM(p)
    <2>1. req' \in [Proc -> Request] /\ \A q \in Proc : RequestInv(req'[q])
      BY <1>2, GotoKeeps DEF StopVM
    <2>2. container' \in [lists : ListsType, rw : MountPath \cup {NoPath}] /\ Normal(vm')
      BY <1>2, EmptyIsClear, EmptyIsNormal DEF StopVM, NoContainer, NoVM, TypeInv, ListsInv
    <2> QED  BY <1>2, <2>1, <2>2 DEF StopVM, TypeInv, ListsInv
  <1>3. CASE ClearFlag(p)
    <2>1. req' \in [Proc -> Request] /\ \A q \in Proc : RequestInv(req'[q])
      BY <1>3, FinishKeeps DEF ClearFlag
    <2> QED  BY <1>3, <2>1 DEF ClearFlag, TypeInv, ListsInv
  <1> QED  BY <1>1, <1>2, <1>3

LEMMA ListsCreate ==
    ASSUME TypeInv, ListsInv, NEW p \in Proc
    PROVE  /\ \A path \in MountPath \cup {NoPath} : BeginCreate(p, path) => TypeInv' /\ ListsInv'
           /\ ReadLists(p) \/ CreateContainer(p) => TypeInv' /\ ListsInv'
  <1>1. shares \in Seq(Dir) /\ excl \in Seq(Dir)
    BY SharedIs, NormalIs DEF ListsInv, Enforced, Clear
  <1>2. Lists(shares, <<>>, excl) \in ListsType /\ Lists(<<>>, <<>>, excl) \in ListsType
    BY <1>1 DEF Lists, ListsType
  <1>3. ASSUME NEW path \in MountPath \cup {NoPath}, BeginCreate(p, path)
        PROVE  TypeInv' /\ ListsInv'
    <2> DEFINE r == [Free EXCEPT !.at = "lists", !.kind = "create", !.rw = path,
                        !.old = Lists(<<>>, <<>>, excl)]
    <2>1. req' = [req EXCEPT ![p] = r]
      BY <1>3 DEF BeginCreate
    <2>2. r \in Request /\ RequestInv(r)
      BY <1>2, EmptyIsClear DEF Request, Free, RequestInv
    <2> HIDE DEF r
    <2>3. req' \in [Proc -> Request] /\ \A q \in Proc : RequestInv(req'[q])
      BY <2>1, <2>2, OneRequest DEF ListsInv
    <2> QED  BY <1>3, <2>3 DEF BeginCreate, TypeInv, ListsInv
  <1>4. ASSUME ReadLists(p)
        PROVE  TypeInv' /\ ListsInv'
    <2> DEFINE r == [req[p] EXCEPT !.at = "build", !.old = Lists(shares, <<>>, excl)]
    <2>1. req' = [req EXCEPT ![p] = r]
      BY <1>4 DEF ReadLists, TypeInv
    <2>2. r \in Request /\ r.at = "build"
      BY <1>2 DEF Request, TypeInv
    <2>3. RequestInv(r)
      BY <2>2 DEF RequestInv
    <2> HIDE DEF r
    <2>4. req' \in [Proc -> Request] /\ \A q \in Proc : RequestInv(req'[q])
      BY <2>1, <2>2, <2>3, OneRequest DEF ListsInv
    <2>5. crossed' \in BOOLEAN
      BY <1>4 DEF ReadLists, TypeInv
    <2> QED  BY <1>4, <2>4, <2>5 DEF ReadLists, TypeInv, ListsInv
  <1>5. ASSUME CreateContainer(p)
        PROVE  TypeInv' /\ ListsInv'
    <2>1. req' \in [Proc -> Request] /\ \A q \in Proc : RequestInv(req'[q])
      BY <1>5, FinishKeeps DEF CreateContainer
    <2>2. container' \in [lists : ListsType, rw : MountPath \cup {NoPath}]
      BY <1>5 DEF CreateContainer, TypeInv, Request
    <2>3. missed' \in BOOLEAN
      BY <1>5 DEF CreateContainer, TypeInv, Unnoticed
    <2> QED  BY <1>5, <2>1, <2>2, <2>3 DEF CreateContainer, TypeInv, ListsInv
  <1> QED  BY <1>3, <1>4, <1>5

LEMMA ListsVM ==
    ASSUME TypeInv, ListsInv, NEW p \in Proc,
           BuildYAML(p) \/ WriteYAML(p) \/ StartVM(p) \/ RecreateVM(p)
    PROVE  TypeInv' /\ ListsInv'
  <1>1. CASE BuildYAML(p)
    <2> DEFINE l == Lists(shares, <<>>, <<>>)
               r == [req[p] EXCEPT !.lists = l, !.at = "write"]
    <2>1. shares \in Seq(Dir) /\ Normal(shares)
      BY SharedIs DEF ListsInv, Shared
    <2>2. l \in ListsType /\ l.shares = shares
      BY <2>1 DEF Lists, ListsType
    <2>3. req' = [req EXCEPT ![p] = r]
      BY <1>1 DEF BuildYAML, TypeInv
    <2> HIDE DEF l
    <2>4. r \in Request /\ r.at = "write" /\ r.lists = l
      BY <2>2 DEF Request, TypeInv
    <2>5. RequestInv(r)
      BY <2>1, <2>2, <2>4 DEF RequestInv
    <2> HIDE DEF r
    <2>6. req' \in [Proc -> Request] /\ \A q \in Proc : RequestInv(req'[q])
      BY <2>3, <2>4, <2>5, OneRequest DEF ListsInv
    <2> QED  BY <1>1, <2>6 DEF BuildYAML, TypeInv, ListsInv
  <1>2. CASE WriteYAML(p)
    <2>1. req' \in [Proc -> Request] /\ \A q \in Proc : RequestInv(req'[q])
      BY <1>2, GotoKeeps DEF WriteYAML
    <2>2. Normal(yaml')
      BY <1>2 DEF WriteYAML, ListsInv, RequestInv
    <2>3. missed' \in BOOLEAN
      BY <1>2 DEF WriteYAML, TypeInv, Unnoticed
    <2> QED  BY <1>2, <2>1, <2>2, <2>3 DEF WriteYAML, TypeInv, ListsInv
  <1>3. ASSUME CreateVM \/ UNCHANGED <<vm, container, missed>>
        PROVE  /\ container' \in [lists : ListsType, rw : MountPath \cup {NoPath}]
               /\ Normal(vm') /\ missed' \in BOOLEAN
    <2>1. CASE CreateVM
      <3>1. vm' = yaml /\ container' = NoContainer /\ missed' = (missed \/ Unnoticed(yaml # shares))
        BY <2>1 DEF CreateVM
      <3>2. NoContainer \in [lists : ListsType, rw : MountPath \cup {NoPath}]
        BY EmptyIsClear DEF NoContainer
      <3>3. missed' \in BOOLEAN
        BY <3>1 DEF TypeInv, Unnoticed
      <3> QED  BY <3>1, <3>2, <3>3 DEF ListsInv
    <2>2. CASE UNCHANGED <<vm, container, missed>>
      BY <2>2 DEF TypeInv, ListsInv
    <2> QED  BY <1>3, <2>1, <2>2
  <1>4. CASE StartVM(p)
    <2>1. req' \in [Proc -> Request] /\ \A q \in Proc : RequestInv(req'[q])
      BY <1>4, ReadyKeeps DEF StartVM
    <2>2. CreateVM \/ UNCHANGED <<vm, container, missed>>
      BY <1>4 DEF StartVM
    <2> QED  BY <1>3, <1>4, <2>1, <2>2 DEF StartVM, TypeInv, ListsInv
  <1>5. CASE RecreateVM(p)
    <2>1. req' \in [Proc -> Request] /\ \A q \in Proc : RequestInv(req'[q])
      BY <1>5, ReadyKeeps DEF RecreateVM
    <2> QED  BY <1>3, <1>5, <2>1 DEF RecreateVM, TypeInv, ListsInv
  <1> QED  BY <1>1, <1>2, <1>4, <1>5

\* What the daemon takes from shares.json when it starts.
LEMMA StartTakes ==
    ASSUME TypeInv, ListsInv, Start,
           NEW new, new = Outcome(NormalizeShares(file.shares, Default), NormalizeExcludes(file.user))
    PROVE  /\ new \in ListsType /\ new.shares = file.shares
           /\ Enforced(new.user, new.excl)
           /\ ToSet(new.user) \subseteq ToSet(file.user)
           /\ Denies(new.excl, new.user, file.shares) /\ Denies(new.excl, file.user, file.shares)
           /\ ValidExcludes(file.user, file.shares)
  <1> DEFINE user == NormalizeExcludes(file.user)
  <1>1. /\ NormalizeShares(file.shares, Default) = file.shares /\ file.shares \in Seq(Dir)
    BY SharedIs DEF ListsInv
  <1>2. ValidExcludes(file.user, file.shares)
    BY <1>1 DEF Start, Loadable
  <1>3. file.user \in Seq(Dir)
    BY DEF TypeInv
  <1>4. /\ Clear(user) /\ ToSet(user) \subseteq ToSet(file.user) /\ SameCover(user, file.user)
    BY <1>2, <1>3, ExcludesAccepted
  <1> HIDE DEF user
  <1>5. /\ new \in ListsType /\ new.shares = file.shares /\ Enforced(new.user, new.excl)
        /\ ToSet(new.user) \subseteq ToSet(user)
        /\ Denies(new.excl, new.user, file.shares) /\ Denies(new.excl, user, file.shares)
    BY <1>1, <1>4, OutcomeEnforced DEF user
  <1>6. Denies(new.excl, file.user, file.shares)
    BY <1>4, <1>5 DEF Denies, SameCover
  <1> QED  BY <1>2, <1>4, <1>5, <1>6

LEMMA ListsDaemon ==
    ASSUME TypeInv, ListsInv
    PROVE  /\ \A d \in ShareDir : Add(d) => TypeInv' /\ ListsInv'
           /\ \A s \in ToSet(shares) : Delete(s) => TypeInv' /\ ListsInv'
           /\ Crash \/ Start => TypeInv' /\ ListsInv'
  <1>1. ASSUME NEW d \in ShareDir, Add(d)
        PROVE  TypeInv' /\ ListsInv'
    <2> DEFINE all == SortCanon(ToSet(shares) \cup {d})
               new == Outcome(all, userEx)
    <2>1. /\ Store(new) /\ Save(all, new.user, TRUE)
          /\ UNCHANGED <<up, yaml, vm, container, req, stale, crossed>>
          /\ \A s \in ToSet(shares) : Canon[s] # Canon[d]
      BY <1>1 DEF Add
    <2>2. Shared(all) /\ Clear(userEx)
      BY <2>1, SharedWith DEF ListsInv, Enforced
    <2> HIDE DEF all
    <2> QED  BY <2>1, <2>2, StoreKeeps
  <1>2. ASSUME NEW s \in ToSet(shares), Delete(s)
        PROVE  TypeInv' /\ ListsInv'
    <2> DEFINE left == SortCanon(ToSet(shares) \ {s})
               user == NormalizeExcludes(userEx)
               new == Outcome(left, user)
    <2>1. /\ Store(new) /\ Save(left, new.user, TRUE)
          /\ UNCHANGED <<up, yaml, vm, container, req, stale, crossed>>
          /\ Canon[s] # Canon[Tmp] /\ ValidExcludes(userEx, left)
      BY <1>2 DEF Delete
    <2>2. Shared(left)
      BY <2>1, SharedWithout DEF ListsInv
    <2>3. userEx \in Seq(Dir)
      BY NormalIs DEF ListsInv, Enforced, Clear
    <2> HIDE DEF left
    <2>4. Clear(user)
      BY <2>1, <2>3, ExcludesAccepted
    <2> HIDE DEF user
    <2> QED  BY <2>1, <2>2, <2>4, StoreKeeps
  <1>3. ASSUME Crash
        PROVE  TypeInv' /\ ListsInv'
    <2>1. req' \in [Proc -> Request] /\ \A q \in Proc : RequestInv(req'[q])
      BY <1>3, EmptyIsClear DEF Crash
    <2>2. missed' \in BOOLEAN /\ up' \in BOOLEAN
      BY <1>3 DEF Crash, TypeInv
    <2> QED  BY <1>3, <2>1, <2>2 DEF Crash, TypeInv, ListsInv
  <1>4. ASSUME Start
        PROVE  TypeInv' /\ ListsInv'
    <2> DEFINE new == Outcome(NormalizeShares(file.shares, Default), NormalizeExcludes(file.user))
    <2>1. /\ shares' = new.shares /\ userEx' = new.user /\ excl' = new.excl
          /\ file' = [shares |-> new.shares, user |-> new.user]
          /\ up' = TRUE /\ flag' = FALSE /\ unsaved' = FALSE /\ missed' = (missed \/ unsaved)
          /\ UNCHANGED <<yaml, vm, container, req, changes, stale, crossed>>
      BY <1>4 DEF Start
    <2>2. new \in ListsType /\ new.shares = file.shares /\ Enforced(new.user, new.excl)
      BY <1>4, StartTakes
    <2> HIDE DEF new
    <2>3. file' \in [shares : Seq(Dir), user : Seq(Dir)]
      BY <2>1, <2>2 DEF ListsType
    <2>4. up' \in BOOLEAN /\ flag' \in BOOLEAN /\ unsaved' \in BOOLEAN /\ missed' \in BOOLEAN
      BY <2>1 DEF TypeInv
    <2>5. TypeInv'
      BY <2>1, <2>3, <2>4 DEF TypeInv
    <2>6. Shared(shares') /\ Shared(file'.shares) /\ Enforced(userEx', excl') /\ Clear(file'.user)
      BY <2>1, <2>2 DEF ListsInv, Enforced
    <2> QED  BY <2>1, <2>5, <2>6 DEF ListsInv
  <1> QED  BY <1>1, <1>2, <1>3, <1>4

\* Types and lists: every step, by the lemmas for the groups of actions.
LEMMA ListsStep == TypeInv /\ ListsInv /\ [Next]_vars => TypeInv' /\ ListsInv'
  <1> SUFFICES ASSUME TypeInv, ListsInv, [Next]_vars
               PROVE  TypeInv' /\ ListsInv'
    OBVIOUS
  <1>1. ASSUME NEW p \in Proc, Handle(p)
        PROVE  TypeInv' /\ ListsInv'
    BY <1>1, ListsSet, ListsRestart, ListsCreate, ListsVM DEF Handle
  <1>2. CASE UNCHANGED vars
    BY <1>2 DEF vars, TypeInv, ListsInv
  <1> QED  BY <1>1, <1>2, ListsDaemon DEF Next

\* Every variable has its type; the lists are sorted, and hold no directory
\* twice, in memory, in shares.json, in the YAML and in the requests.
THEOREM SharesLists == Spec => [](TypeInv /\ ListsInv)
  BY ListsInit, ListsStep, PTL DEF Spec

\* Every variable has its type, no list holds a directory twice, and the temp
\* directory is always shared and never hidden (TypeOK).
THEOREM SharesTypes == Spec => []TypeOK
  <1>1. TypeInv /\ ListsInv => TypeOK
    <2> SUFFICES ASSUME TypeInv, ListsInv  PROVE TypeOK
      OBVIOUS
    <2>1. ASSUME NEW list, Normal(list)
          PROVE  ToSet(list) \subseteq Dir /\ IsInjective([i \in 1..Len(list) |-> Canon[list[i]]])
      BY <2>1, NormalIs DEF Distinct, IsInjective
    <2>2. Normal(shares) /\ Normal(userEx) /\ Normal(excl) /\ Normal(yaml) /\ Normal(vm)
      BY DEF ListsInv, Shared, Enforced, Clear
    <2>3. \A list \in {shares, userEx, excl, yaml, vm} :
             ToSet(list) \subseteq Dir /\ IsInjective([i \in 1..Len(list) |-> Canon[list[i]]])
      BY <2>1, <2>2
    <2>4. Tmp \in ToSet(shares) /\ \A e \in ToSet(excl) : ~Under(e, Tmp) /\ ~Under(Tmp, e)
      BY DEF ListsInv, Shared, Enforced, Clear
    <2>5. req \in [Proc -> [at : {"free", "store", "stop", "lists", "build", "write", "start", "clear", "guest"},
                         kind : {"none", "set", "restart", "create"},
                         lists : {req[p].lists : p \in Proc},
                         old : {req[p].old : p \in Proc},
                         recreate : BOOLEAN,
                         rw : MountPath \cup {NoPath}]]
      BY DEF TypeInv, Request
    <2> QED  BY <2>3, <2>4, <2>5 DEF TypeInv, TypeOK
  <1> QED  BY <1>1, SharesLists, PTL

-----------------------------------------------------------------------------
(* The excludes in force                                                   *)

\* What a request has checked, and still holds.
MountOK(r, crossing) ==
    r.rw # NoPath /\ (r.at = "lists" \/ ~crossing) => ~Covered(r.rw, r.old.excl)

\* A checked mount stays checked until its container is made.
LEMMA MountStep == TypeInv /\ ListsInv /\ MountInv /\ [Next]_vars => MountInv'
  <1> SUFFICES ASSUME TypeInv, ListsInv, MountInv, [Next]_vars
               PROVE  MountInv'
    OBVIOUS
  <1>1. /\ \A q \in Proc : MountOK(req[q], crossed)
        /\ container.rw # NoPath /\ ~crossed => ~Covered(container.rw, container.lists.excl)
    BY DEF MountInv, MountOK
  <1>2. ASSUME \A q \in Proc : MountOK(req'[q], crossed'),
               container'.rw # NoPath /\ ~crossed' => ~Covered(container'.rw, container'.lists.excl)
        PROVE  MountInv'
    BY <1>2 DEF MountInv, MountOK
  <1>3. NoContainer.rw = NoPath /\ Free.rw = NoPath
    BY DEF NoContainer, Free
  <1>4. req \in [Proc -> Request]
    BY DEF TypeInv
  <1>5. ASSUME NEW p \in Proc, Finish(p), crossed' = crossed
        PROVE  \A q \in Proc : MountOK(req'[q], crossed')
    BY <1>1, <1>3, <1>4, <1>5 DEF Finish, MountOK
  <1>6. ASSUME NEW p \in Proc, NEW place \in {"build", "start", "clear", "guest"}, Goto(p, place),
               crossed' = crossed
        PROVE  \A q \in Proc : MountOK(req'[q], crossed')
    BY <1>1, <1>4, <1>6 DEF Goto, MountOK
  <1>7. ASSUME NEW p \in Proc, NEW list \in UserLists, BeginSet(p, list)
        PROVE  MountInv'
    <2>1. \A q \in Proc : MountOK(req'[q], crossed')
      BY <1>1, <1>3, <1>4, <1>7 DEF BeginSet, MountOK, Free
    <2> QED  BY <1>1, <1>2, <1>7, <2>1 DEF BeginSet
  <1>8. ASSUME NEW p \in Proc, CommitSet(p)
        PROVE  MountInv'
    BY <1>1, <1>2, <1>5, <1>8 DEF CommitSet
  <1>9. ASSUME NEW p \in Proc, BeginRestart(p)
        PROVE  MountInv'
    <2>1. \A q \in Proc : MountOK(req'[q], crossed')
      BY <1>1, <1>3, <1>4, <1>9 DEF BeginRestart, MountOK, Free
    <2> QED  BY <1>1, <1>2, <1>9, <2>1 DEF BeginRestart
  <1>10. ASSUME NEW p \in Proc, StopVM(p)
         PROVE  MountInv'
    <2>1. \A q \in Proc : MountOK(req'[q], crossed')
      BY <1>6, <1>10 DEF StopVM
    <2> QED  BY <1>1, <1>2, <1>3, <1>10, <2>1 DEF StopVM
  <1>11. ASSUME NEW p \in Proc, ClearFlag(p)
         PROVE  MountInv'
    BY <1>1, <1>2, <1>5, <1>11 DEF ClearFlag
  <1>12. ASSUME NEW p \in Proc, NEW path \in MountPath \cup {NoPath}, BeginCreate(p, path)
         PROVE  MountInv'
    <2> DEFINE r == [Free EXCEPT !.at = "lists", !.kind = "create", !.rw = path,
                        !.old = Lists(<<>>, <<>>, excl)]
    <2>1. /\ req' = [req EXCEPT ![p] = r] /\ crossed' = crossed /\ container' = container
          /\ path # NoPath => PathAllowed(path, CanonForCreate(path), shares, excl)
      BY <1>12 DEF BeginCreate
    <2>2. r.rw = path /\ r.old.excl = excl
      BY DEF Free, Lists
    <2>3. path # NoPath => ~Covered(path, excl)
      BY <2>1, SharesAssumption DEF SharesAssumption, PathAllowed, Covered, Under
    <2> HIDE DEF r
    <2>4. MountOK(r, crossed')
      BY <2>2, <2>3 DEF MountOK
    <2>5. \A q \in Proc : MountOK(req'[q], crossed')
      BY <1>1, <1>4, <2>1, <2>4
    <2> QED  BY <1>1, <1>2, <2>1, <2>5
  <1>13. ASSUME NEW p \in Proc, ReadLists(p)
         PROVE  MountInv'
    <2> DEFINE r == [req[p] EXCEPT !.at = "build", !.old = Lists(shares, <<>>, excl)]
    <2>1. /\ req' = [req EXCEPT ![p] = r] /\ container' = container
          /\ req[p].at = "lists" /\ crossed' = (crossed \/ req[p].old.excl # excl)
      BY <1>4, <1>13 DEF ReadLists
    <2>2. r.rw = req[p].rw /\ r.old.excl = excl /\ r.at = "build"
      BY <1>4 DEF Request, Lists
    <2> HIDE DEF r
    <2>3. MountOK(r, crossed')
      BY <1>1, <2>1, <2>2 DEF MountOK
    <2>4. \A q \in Proc : MountOK(req[q], crossed')
      BY <1>1, <2>1 DEF MountOK
    <2>5. \A q \in Proc : MountOK(req'[q], crossed')
      BY <1>4, <2>1, <2>3, <2>4
    <2> QED  BY <1>1, <1>2, <2>1, <2>5
  <1>14. ASSUME NEW p \in Proc, CreateContainer(p)
         PROVE  MountInv'
    <2>1. /\ container' = [lists |-> req[p].old, rw |-> req[p].rw] /\ Finish(p)
          /\ crossed' = crossed
      BY <1>14 DEF CreateContainer
    <2>2. container'.rw # NoPath /\ ~crossed' => ~Covered(container'.rw, container'.lists.excl)
      BY <1>1, <2>1 DEF MountOK
    <2> QED  BY <1>2, <1>5, <2>1, <2>2
  <1>15. ASSUME NEW p \in Proc, BuildYAML(p)
         PROVE  MountInv'
    <2> DEFINE r == [req[p] EXCEPT !.lists = Lists(shares, <<>>, <<>>), !.at = "write"]
    <2>1. req' = [req EXCEPT ![p] = r] /\ crossed' = crossed /\ container' = container
      BY <1>4, <1>15 DEF BuildYAML
    <2>2. r.rw = req[p].rw /\ r.old = req[p].old /\ r.at = "write"
      BY <1>4 DEF Request
    <2> HIDE DEF r
    <2>3. MountOK(r, crossed')
      BY <1>1, <2>1, <2>2 DEF MountOK
    <2>4. \A q \in Proc : MountOK(req'[q], crossed')
      BY <1>1, <1>4, <2>1, <2>3
    <2> QED  BY <1>1, <1>2, <2>1, <2>4
  <1>16. ASSUME NEW p \in Proc, WriteYAML(p)
         PROVE  MountInv'
    BY <1>1, <1>2, <1>6, <1>16 DEF WriteYAML
  <1>17. ASSUME NEW p \in Proc, StartVM(p) \/ RecreateVM(p)
         PROVE  MountInv'
    <2>1. Ready(p) /\ crossed' = crossed /\ (container' = NoContainer \/ container' = container)
      BY <1>17 DEF StartVM, RecreateVM, CreateVM
    <2>2. Goto(p, "clear") \/ Goto(p, "guest")
      BY <2>1 DEF Ready
    <2>3. \A q \in Proc : MountOK(req'[q], crossed')
      BY <1>6, <2>1, <2>2
    <2> QED  BY <1>1, <1>2, <1>3, <2>1, <2>3
  <1>18. ASSUME NEW d \in ShareDir, Add(d)
         PROVE  MountInv'
    BY <1>1, <1>2, <1>18 DEF Add
  <1>19. ASSUME NEW s \in ToSet(shares), Delete(s)
         PROVE  MountInv'
    BY <1>1, <1>2, <1>19 DEF Delete
  <1>20. CASE Crash
    <2>1. \A q \in Proc : MountOK(req'[q], crossed')
      BY <1>3, <1>20 DEF Crash, MountOK
    <2> QED  BY <1>1, <1>2, <1>20, <2>1 DEF Crash
  <1>21. CASE Start
    BY <1>1, <1>2, <1>21 DEF Start
  <1>22. CASE UNCHANGED vars
    BY <1>1, <1>2, <1>22 DEF vars
  <1> QED  BY <1>7, <1>8, <1>9, <1>10, <1>11, <1>12, <1>13, <1>14, <1>15, <1>16, <1>17, <1>18,
              <1>19, <1>20, <1>21, <1>22 DEF Next, Handle

LEMMA MountInit == Init => MountInv
  BY DEF Init, MountInv, NoContainer, Free

\* What the user excludes is excluded, nothing is but that and what is built in,
\* and no container writes below an exclude of its own unless the excludes
\* changed while it was created (UserExcludesInForce).
THEOREM SharesInForce == Spec => []UserExcludesInForce
  <1>1. Init => TypeInv /\ ListsInv /\ MountInv
    BY ListsInit, MountInit
  <1>2. TypeInv /\ ListsInv /\ MountInv /\ [Next]_vars => (TypeInv /\ ListsInv /\ MountInv)'
    BY ListsStep, MountStep
  <1>3. TypeInv /\ ListsInv /\ MountInv => UserExcludesInForce
    BY DEF ListsInv, Enforced, Covers, MountInv, UserExcludesInForce
  <1> QED  BY <1>1, <1>2, <1>3, PTL DEF Spec

-----------------------------------------------------------------------------
(* The flag                                                                *)

\* What a change of the shares does to the flag and to shares.json.
LEMMA SaveIs ==
    ASSUME TypeInv, NEW sh, NEW user, Save(sh, user, TRUE)
    PROVE  /\ missed => missed'
           /\ ~missed' => flag' /\ ~Restarting
           /\ unsaved' => missed'
           /\ ~unsaved' => file' = [shares |-> sh, user |-> user]
           /\ ~flag' => ~flag
  BY DEF Save, TypeInv

\* A handler leaves the lists alone until it stores what it computed.
LEMMA HandleIs ==
    ASSUME TypeInv, NEW p \in Proc, Handle(p), ~CommitSet(p)
    PROVE  /\ UNCHANGED <<up, file, shares, userEx, excl, unsaved>>
           /\ missed => missed'
           /\ up \/ req[p].at # "free"
  <1>1. CASE \E list \in UserLists : BeginSet(p, list)
    BY <1>1 DEF BeginSet
  <1>2. CASE BeginRestart(p)
    BY <1>2 DEF BeginRestart
  <1>3. CASE StopVM(p)
    BY <1>3 DEF StopVM
  <1>4. CASE ClearFlag(p)
    BY <1>4 DEF ClearFlag
  <1>5. CASE \E path \in MountPath \cup {NoPath} : BeginCreate(p, path)
    BY <1>5 DEF BeginCreate
  <1>6. CASE ReadLists(p)
    BY <1>6 DEF ReadLists
  <1>7. CASE CreateContainer(p)
    BY <1>7 DEF CreateContainer, TypeInv
  <1>8. CASE BuildYAML(p)
    BY <1>8 DEF BuildYAML
  <1>9. CASE WriteYAML(p)
    BY <1>9 DEF WriteYAML, TypeInv
  <1>10. CASE StartVM(p) \/ RecreateVM(p)
    <2>1. CreateVM \/ missed' = missed
      BY <1>10 DEF StartVM, RecreateVM
    <2>2. missed => missed'
      BY <2>1 DEF CreateVM, TypeInv
    <2> QED  BY <1>10, <2>2 DEF StartVM, RecreateVM
  <1> QED  BY <1>1, <1>2, <1>3, <1>4, <1>5, <1>6, <1>7, <1>8, <1>9, <1>10 DEF Handle

\* Every other step of a handler changes its own place only.
LEMMA OtherSteps ==
    ASSUME TypeInv, NEW p \in Proc, Handle(p), ~CommitSet(p), \A list \in UserLists : ~BeginSet(p, list)
    PROVE  (\A q \in Proc : q # p => req'[q] = req[q]) /\ req'[p].at # "store"
  <1>1. req \in [Proc -> Request]
    BY DEF TypeInv
  <1>2. CASE BeginRestart(p) \/ \E path \in MountPath \cup {NoPath} : BeginCreate(p, path)
    BY <1>1, <1>2 DEF BeginRestart, BeginCreate, Free
  <1>3. CASE ReadLists(p) \/ BuildYAML(p)
    BY <1>1, <1>3 DEF ReadLists, BuildYAML, Request
  <1>4. CASE StopVM(p) \/ WriteYAML(p) \/ StartVM(p) \/ RecreateVM(p)
    BY <1>1, <1>4 DEF StopVM, WriteYAML, StartVM, RecreateVM, Ready, Goto, Request
  <1>5. CASE ClearFlag(p) \/ CreateContainer(p)
    BY <1>1, <1>5 DEF ClearFlag, CreateContainer, Finish, Free
  <1> QED  BY <1>2, <1>3, <1>4, <1>5 DEF Handle

\* shares.json is what is in memory, unless a save failed.
LEMMA FileStep == TypeInv /\ ListsInv /\ FileInv /\ [Next]_vars => FileInv'
  <1> SUFFICES ASSUME TypeInv, ListsInv, FileInv, [Next]_vars
               PROVE  FileInv'
    OBVIOUS
  <1>1. \A p \in Proc : req[p].at # "free" => up
    BY DEF FileInv, Free
  <1>2. ASSUME NEW p \in Proc, Handle(p), ~CommitSet(p)
        PROVE  FileInv'
    <2>1. /\ UNCHANGED <<up, file, shares, userEx, excl, unsaved>>
          /\ missed => missed'
          /\ up \/ req[p].at # "free"
      BY <1>2, HandleIs
    <2>2. up
      BY <1>1, <2>1
    <2> QED  BY <2>1, <2>2 DEF FileInv
  <1>3. ASSUME NEW p \in Proc, CommitSet(p)
        PROVE  FileInv'
    <2>1. up /\ up' = up
      BY <1>1, <1>3 DEF CommitSet
    <2>2. /\ shares' = shares /\ userEx' = req[p].lists.user
          /\ unsaved' => missed'
          /\ ~unsaved' => file' = [shares |-> shares, user |-> req[p].lists.user]
      BY <1>3 DEF CommitSet
    <2> QED  BY <2>1, <2>2 DEF FileInv
  <1>4. ASSUME NEW new, NEW sh, up, up' = up, new.shares = sh, Store(new), Save(sh, new.user, TRUE)
        PROVE  FileInv'
    BY <1>4, SaveIs DEF Store, FileInv
  <1>5. ASSUME NEW d \in ShareDir, Add(d)
        PROVE  FileInv'
    <2> DEFINE all == SortCanon(ToSet(shares) \cup {d})
               new == Outcome(all, userEx)
    <2>1. new.shares = all
      BY DEF Outcome, Lists
    <2>2. up /\ up' = up /\ Store(new) /\ Save(all, new.user, TRUE)
      BY <1>5 DEF Add
    <2> HIDE DEF all, new
    <2> QED  BY <1>4, <2>1, <2>2
  <1>6. ASSUME NEW s \in ToSet(shares), Delete(s)
        PROVE  FileInv'
    <2> DEFINE left == SortCanon(ToSet(shares) \ {s})
               new == Outcome(left, NormalizeExcludes(userEx))
    <2>1. new.shares = left
      BY DEF Outcome, Lists
    <2>2. up /\ up' = up /\ Store(new) /\ Save(left, new.user, TRUE)
      BY <1>6 DEF Delete
    <2> HIDE DEF left, new
    <2> QED  BY <1>4, <2>1, <2>2
  <1>7. CASE Crash
    BY <1>7 DEF Crash, FileInv
  <1>8. CASE Start
    <2>1. /\ up' = TRUE /\ unsaved' = FALSE
          /\ file' = [shares |-> shares', user |-> userEx']
      BY <1>8 DEF Start
    <2> QED  BY <2>1 DEF FileInv
  <1>9. CASE UNCHANGED vars
    BY <1>9 DEF vars, FileInv
  <1> QED  BY <1>2, <1>3, <1>5, <1>6, <1>7, <1>8, <1>9 DEF Next

\* What a request will store denies what it says.
DeniesOK(r) == r.at = "store" => Denies(r.lists.excl, r.lists.user, r.old.shares)

\* The excludes in memory and in flight deny what they were computed from.
LEMMA DeniesStep == TypeInv /\ ListsInv /\ FileInv /\ DeniesInv /\ [Next]_vars => DeniesInv'
  <1> SUFFICES ASSUME TypeInv, ListsInv, FileInv, DeniesInv, [Next]_vars
               PROVE  DeniesInv'
    OBVIOUS
  <1>1. (\A q \in Proc : DeniesOK(req[q])) /\ (~missed => Denies(excl, userEx, shares))
    BY DEF DeniesInv, DeniesOK
  <1>2. ASSUME \A q \in Proc : DeniesOK(req'[q]), ~missed' => Denies(excl', userEx', shares')
        PROVE  DeniesInv'
    BY <1>2 DEF DeniesInv, DeniesOK
  <1>3. req \in [Proc -> Request] /\ DeniesOK(Free)
    BY DEF TypeInv, DeniesOK, Free
  <1>4. ASSUME NEW p \in Proc, NEW list \in UserLists, BeginSet(p, list)
        PROVE  DeniesInv'
    <2> DEFINE user == NormalizeExcludes(list)
               new == Outcome(shares, user)
               r == [Free EXCEPT !.at = "store", !.kind = "set", !.lists = new, !.old = Current]
    <2>1. list \in Seq(Seq(Nat)) /\ ValidExcludes(list, shares)
      BY <1>4, SharesAssumption DEF BeginSet, SharesAssumption
    <2>2. Clear(user) /\ shares \in Seq(Dir)
      BY <2>1, ExcludesAccepted, SharedIs DEF ListsInv
    <2>3. req' = [req EXCEPT ![p] = r] /\ UNCHANGED <<missed, excl, userEx, shares>>
      BY <1>4 DEF BeginSet
    <2> HIDE DEF user
    <2>4. Denies(new.excl, new.user, shares)
      BY <2>2, OutcomeEnforced
    <2> HIDE DEF new
    <2>5. DeniesOK(r)
      BY <2>4 DEF DeniesOK, Free, Current, Lists
    <2> HIDE DEF r
    <2>6. \A q \in Proc : DeniesOK(req'[q])
      BY <1>1, <1>3, <2>3, <2>5
    <2> QED  BY <1>1, <1>2, <2>3, <2>6
  <1>5. ASSUME NEW p \in Proc, CommitSet(p)
        PROVE  DeniesInv'
    <2>1. Finish(p) /\ userEx' = req[p].lists.user /\ excl' = req[p].lists.excl /\ shares' = shares
      BY <1>5 DEF CommitSet
    <2>2. ~missed' => req[p].old = Current
      BY <1>5 DEF CommitSet
    <2>3. Denies(req[p].lists.excl, req[p].lists.user, req[p].old.shares)
      BY <1>1, <1>5 DEF CommitSet, DeniesOK
    <2>4. ~missed' => Denies(excl', userEx', shares')
      BY <2>1, <2>2, <2>3 DEF Current, Lists
    <2>5. \A q \in Proc : DeniesOK(req'[q])
      BY <1>1, <1>3, <2>1 DEF Finish
    <2> QED  BY <1>2, <2>4, <2>5
  <1>6. ASSUME NEW p \in Proc, Handle(p), ~CommitSet(p), \A list \in UserLists : ~BeginSet(p, list)
        PROVE  DeniesInv'
    <2>1. UNCHANGED <<excl, userEx, shares>> /\ (missed => missed')
      BY <1>6, HandleIs
    <2>2. \A q \in Proc : q # p => req'[q] = req[q]
      BY <1>6, OtherSteps
    <2>3. req'[p].at # "store"
      BY <1>6, OtherSteps
    <2>4. \A q \in Proc : DeniesOK(req'[q])
      BY <1>1, <2>2, <2>3 DEF DeniesOK
    <2> QED  BY <1>1, <1>2, <2>1, <2>4
  <1>7. ASSUME NEW sh, Shared(sh), NEW user, Clear(user), NEW new, new = Outcome(sh, user),
               Store(new), req' = req
        PROVE  DeniesInv'
    <2>1. sh \in Seq(Dir)
      BY <1>7, SharedIs
    <2>2. Denies(new.excl, new.user, sh) /\ new.shares = sh
      BY <1>7, <2>1, OutcomeEnforced
    <2> QED  BY <1>1, <1>2, <1>7, <2>2 DEF Store
  <1>8. ASSUME NEW d \in ShareDir, Add(d)
        PROVE  DeniesInv'
    <2> DEFINE all == SortCanon(ToSet(shares) \cup {d})
    <2>1. Shared(all) /\ Clear(userEx)
      BY <1>8, SharedWith DEF Add, ListsInv, Enforced
    <2>2. Store(Outcome(all, userEx)) /\ req' = req
      BY <1>8 DEF Add
    <2> HIDE DEF all
    <2> QED  BY <1>7, <2>1, <2>2
  <1>9. ASSUME NEW s \in ToSet(shares), Delete(s)
        PROVE  DeniesInv'
    <2> DEFINE left == SortCanon(ToSet(shares) \ {s})
               user == NormalizeExcludes(userEx)
    <2>1. /\ Store(Outcome(left, user)) /\ req' = req
          /\ Canon[s] # Canon[Tmp] /\ ValidExcludes(userEx, left)
      BY <1>9 DEF Delete
    <2>2. Shared(left) /\ userEx \in Seq(Dir)
      BY <2>1, SharedWithout, NormalIs DEF ListsInv, Enforced, Clear
    <2> HIDE DEF left
    <2>3. Clear(user)
      BY <2>1, <2>2, ExcludesAccepted
    <2> HIDE DEF user
    <2> QED  BY <1>7, <2>1, <2>2, <2>3
  <1>10. CASE Crash
    BY <1>1, <1>2, <1>3, <1>10 DEF Crash
  <1>11. CASE Start
    <2> DEFINE new == Outcome(NormalizeShares(file.shares, Default), NormalizeExcludes(file.user))
    <2>1. shares' = new.shares /\ userEx' = new.user /\ excl' = new.excl /\ req' = req
      BY <1>11 DEF Start
    <2>2. new.shares = file.shares /\ Denies(new.excl, new.user, file.shares)
      BY <1>11, StartTakes
    <2> HIDE DEF new
    <2> QED  BY <1>1, <1>2, <2>1, <2>2
  <1>12. CASE UNCHANGED vars
    BY <1>1, <1>2, <1>12 DEF vars
  <1> QED  BY <1>4, <1>5, <1>6, <1>8, <1>9, <1>10, <1>11, <1>12 DEF Next

\* How far a restart may be while what is used is outdated.
RestartOK(r, current) == r.kind = "restart" => (r.at = "stop" /\ r.recreate) \/ current

\* A lowered flag, or a restart that keeps the VM, means that nothing is outdated.
LEMMA FlagStep == TypeInv /\ ListsInv /\ FileInv /\ DeniesInv /\ FlagInv /\ [Next]_vars => FlagInv'
  <1> SUFFICES ASSUME TypeInv, ListsInv, FileInv, DeniesInv, FlagInv, [Next]_vars, ~missed'
               PROVE  /\ ~flag' => UpToDate'
                      /\ \A q \in Proc : RestartOK(req'[q], UpToDate')
    BY DEF FlagInv, RestartOK
  <1>1. ~missed => (~flag => UpToDate) /\ \A q \in Proc : RestartOK(req[q], UpToDate)
    BY DEF FlagInv, RestartOK
  <1>2. req \in [Proc -> Request] /\ Free.kind = "none"
    BY DEF TypeInv, Free
  <1>3. UNCHANGED <<vm, container, shares, excl>> => UpToDate' = UpToDate
    BY DEF UpToDate
  <1>4. UpToDate' => \A q \in Proc : RestartOK(req'[q], UpToDate')
    BY DEF RestartOK
  <1>5. ASSUME NEW p \in Proc, \E list \in UserLists : BeginSet(p, list)
        PROVE  (~flag' => UpToDate') /\ \A q \in Proc : RestartOK(req'[q], UpToDate')
    <2>1. UNCHANGED <<missed, flag, vm, container, shares, excl>>
      BY <1>5 DEF BeginSet
    <2>2. \A q \in Proc : q # p => req'[q] = req[q]
      BY <1>2, <1>5 DEF BeginSet
    <2>3. req'[p].kind = "set"
      BY <1>2, <1>5 DEF BeginSet, Free
    <2> QED  BY <1>1, <1>3, <2>1, <2>2, <2>3 DEF RestartOK
  <1>6. ASSUME NEW p \in Proc, CommitSet(p)
        PROVE  (~flag' => UpToDate') /\ \A q \in Proc : RestartOK(req'[q], UpToDate')
    <2>1. /\ ~missed /\ ~Restarting /\ req[p].old = Current
          /\ flag' = (flag \/ req[p].lists.excl # req[p].old.excl)
          /\ Finish(p) /\ excl' = req[p].lists.excl
          /\ UNCHANGED <<shares, vm, container>>
      BY <1>6 DEF CommitSet
    <2>2. ASSUME ~flag'
          PROVE  ~flag /\ excl' = excl
      <3>1. ~flag /\ req[p].lists.excl = req[p].old.excl
        BY <2>1, <2>2
      <3>2. Current.excl = excl
        BY DEF Current, Lists
      <3> QED  BY <2>1, <3>1, <3>2
    <2>3. \A q \in Proc : req'[q].kind # "restart"
      BY <1>2, <2>1 DEF Finish, Restarting
    <2> QED  BY <1>1, <1>3, <2>1, <2>2, <2>3 DEF RestartOK
  <1>7. ASSUME NEW p \in Proc, BeginRestart(p)
        PROVE  (~flag' => UpToDate') /\ \A q \in Proc : RestartOK(req'[q], UpToDate')
    <2>1. UNCHANGED <<missed, flag, vm, container, shares, excl>>
      BY <1>7 DEF BeginRestart
    <2>2. \A q \in Proc : q # p => req'[q] = req[q]
      BY <1>2, <1>7 DEF BeginRestart
    <2>3. req'[p].at = "stop" /\ req'[p].recreate = flag
      BY <1>2, <1>7 DEF BeginRestart, Free
    <2> QED  BY <1>1, <1>3, <2>1, <2>2, <2>3 DEF RestartOK
  <1>8. ASSUME NEW p \in Proc, StopVM(p)
        PROVE  (~flag' => UpToDate') /\ \A q \in Proc : RestartOK(req'[q], UpToDate')
    <2>1. UNCHANGED <<missed, flag, shares, excl>> /\ req[p].at = "stop" /\ req[p].kind = "restart"
      BY <1>8 DEF StopVM, ListsInv, RequestInv
    <2>2. CASE req[p].recreate
      <3>1. vm' = NoVM /\ container' = NoContainer
        BY <1>8, <2>2 DEF StopVM
      <3> QED  BY <1>4, <3>1 DEF UpToDate
    <2>3. CASE ~req[p].recreate
      <3>1. vm' = vm /\ container' = container
        BY <1>8, <2>3 DEF StopVM
      <3> QED  BY <1>1, <1>3, <1>4, <2>1, <2>3, <3>1 DEF RestartOK
    <2> QED  BY <2>2, <2>3
  <1>9. ASSUME NEW p \in Proc, ClearFlag(p)
        PROVE  (~flag' => UpToDate') /\ \A q \in Proc : RestartOK(req'[q], UpToDate')
    <2>1. /\ UNCHANGED <<missed, vm, container, shares, excl>>
          /\ req[p].at = "clear" /\ req[p].kind = "restart"
      BY <1>9 DEF ClearFlag, ListsInv, RequestInv
    <2> QED  BY <1>1, <1>3, <1>4, <2>1 DEF RestartOK
  <1>10. ASSUME NEW p \in Proc, \E path \in MountPath \cup {NoPath} : BeginCreate(p, path)
         PROVE  (~flag' => UpToDate') /\ \A q \in Proc : RestartOK(req'[q], UpToDate')
    <2>1. UNCHANGED <<missed, flag, vm, container, shares, excl>>
      BY <1>10 DEF BeginCreate
    <2>2. \A q \in Proc : q # p => req'[q] = req[q]
      BY <1>2, <1>10 DEF BeginCreate
    <2>3. req'[p].kind = "create"
      BY <1>2, <1>10 DEF BeginCreate, Free
    <2> QED  BY <1>1, <1>3, <2>1, <2>2, <2>3 DEF RestartOK
  <1>11. ASSUME NEW p \in Proc, ReadLists(p) \/ BuildYAML(p) \/ WriteYAML(p)
         PROVE  (~flag' => UpToDate') /\ \A q \in Proc : RestartOK(req'[q], UpToDate')
    <2>1. UNCHANGED <<flag, vm, container, shares, excl>> /\ (missed => missed')
      BY <1>11 DEF ReadLists, BuildYAML, WriteYAML, TypeInv
    <2>2. \A q \in Proc : q # p => req'[q] = req[q]
      BY <1>2, <1>11 DEF ReadLists, BuildYAML, WriteYAML, Goto
    <2>3. req'[p].kind = req[p].kind /\ req[p].at # "stop"
      BY <1>2, <1>11 DEF ReadLists, BuildYAML, WriteYAML, Goto, Request
    <2> QED  BY <1>1, <1>3, <2>1, <2>2, <2>3 DEF RestartOK
  <1>12. ASSUME NEW p \in Proc, CreateContainer(p)
         PROVE  (~flag' => UpToDate') /\ \A q \in Proc : RestartOK(req'[q], UpToDate')
    <2>1. /\ container' = [lists |-> req[p].old, rw |-> req[p].rw] /\ Finish(p)
          /\ missed' = (missed \/ Unnoticed(req[p].old # Lists(shares, <<>>, excl)))
          /\ UNCHANGED <<shares, excl, flag, vm>>
      BY <1>12 DEF CreateContainer
    <2>2. \A q \in Proc : RestartOK(req[q], UpToDate) => RestartOK(req'[q], UpToDate)
      BY <1>2, <2>1 DEF Finish, RestartOK
    <2>3. CASE req[p].old = Lists(shares, <<>>, excl)
      <3>1. container'.lists.shares = shares' /\ container'.lists.excl = excl'
        BY <2>1, <2>3 DEF Lists
      <3>2. SameCover(excl', excl')
        BY DEF SameCover
      <3>3. UpToDate => UpToDate'
        BY <2>1, <3>1, <3>2 DEF UpToDate
      <3> QED  BY <1>1, <2>1, <2>2, <3>3 DEF RestartOK
    <2>4. CASE req[p].old # Lists(shares, <<>>, excl)
      <3>1. flag /\ ~Restarting
        BY <2>1, <2>4 DEF Unnoticed
      <3>2. \A q \in Proc : req'[q].kind # "restart"
        BY <1>2, <2>1, <3>1 DEF Finish, Restarting
      <3> QED  BY <2>1, <3>1, <3>2 DEF RestartOK
    <2> QED  BY <2>3, <2>4
  <1>13. ASSUME NEW p \in Proc, StartVM(p) \/ RecreateVM(p)
         PROVE  (~flag' => UpToDate') /\ \A q \in Proc : RestartOK(req'[q], UpToDate')
    <2>1. UNCHANGED <<flag, shares, excl>> /\ Ready(p) /\ req[p].at = "start"
      BY <1>13 DEF StartVM, RecreateVM
    <2>2. /\ \A q \in Proc : q # p => req'[q] = req[q]
          /\ req'[p].kind = req[p].kind
      BY <1>2, <2>1 DEF Ready, Goto, Request
    <2>3. CASE UNCHANGED <<vm, container, missed>>
      BY <1>1, <1>3, <2>1, <2>2, <2>3 DEF RestartOK
    <2>4. CASE CreateVM
      <3>1. /\ vm' = yaml /\ container' = NoContainer
            /\ missed' = (missed \/ Unnoticed(yaml # shares))
        BY <2>4 DEF CreateVM
      <3>2. CASE yaml = shares
        <4>1. UpToDate'
          BY <2>1, <3>1, <3>2 DEF UpToDate
        <4> QED  BY <1>4, <4>1
      <3>3. CASE yaml # shares
        <4>1. flag /\ ~Restarting
          BY <3>1, <3>3 DEF Unnoticed
        <4>2. \A q \in Proc : req'[q].kind # "restart"
          BY <2>2, <4>1 DEF Restarting
        <4> QED  BY <2>1, <4>1, <4>2 DEF RestartOK
      <3> QED  BY <3>2, <3>3
    <2> QED  BY <1>13, <2>3, <2>4 DEF StartVM, RecreateVM
  <1>14. ASSUME (\E d \in ShareDir : Add(d)) \/ \E s \in ToSet(shares) : Delete(s)
         PROVE  (~flag' => UpToDate') /\ \A q \in Proc : RestartOK(req'[q], UpToDate')
    <2>1. PICK sh, user : Save(sh, user, TRUE) /\ req' = req
      BY <1>14 DEF Add, Delete
    <2>2. flag' /\ ~Restarting
      BY <2>1, SaveIs
    <2> QED  BY <2>1, <2>2 DEF RestartOK, Restarting
  <1>15. CASE Crash
    <2>1. /\ ~flag /\ ~missed /\ UNCHANGED <<vm, container, shares, excl, flag>>
          /\ req' = [q \in Proc |-> Free]
      BY <1>15 DEF Crash
    <2> QED  BY <1>1, <1>2, <1>3, <2>1 DEF RestartOK
  <1>16. CASE Start
    <2> DEFINE new == Outcome(NormalizeShares(file.shares, Default), NormalizeExcludes(file.user))
    <2>1. /\ ~up /\ ~missed /\ ~unsaved
          /\ shares' = new.shares /\ excl' = new.excl /\ UNCHANGED <<vm, container, req>>
      BY <1>16 DEF Start
    <2>2. new.shares = file.shares /\ Denies(new.excl, file.user, file.shares)
      BY <1>16, StartTakes
    <2> HIDE DEF new
    <2>3. ~flag /\ file = [shares |-> shares, user |-> userEx] /\ \A q \in Proc : req[q] = Free
      BY <2>1 DEF FileInv
    <2>4. UpToDate /\ shares' = shares
      BY <1>1, <2>1, <2>2, <2>3
    <2>5. Denies(excl', userEx, shares) /\ Denies(excl, userEx, shares)
      BY <2>1, <2>2, <2>3 DEF DeniesInv
    <2>6. \A list : SameCover(list, excl) => SameCover(list, excl')
      BY <2>5 DEF SameCover, Denies
    <2>7. UpToDate'
      BY <2>1, <2>4, <2>6 DEF UpToDate
    <2> QED  BY <1>4, <2>7
  <1>17. CASE UNCHANGED vars
    BY <1>1, <1>3, <1>17 DEF vars
  <1> QED  BY <1>5, <1>6, <1>7, <1>8, <1>9, <1>10, <1>11, <1>12, <1>13, <1>14, <1>15, <1>16, <1>17
           DEF Next, Handle

LEMMA FlagInit == Init => FileInv /\ DeniesInv /\ FlagInv
  <1> SUFFICES ASSUME Init  PROVE FileInv /\ DeniesInv /\ FlagInv
    OBVIOUS
  <1> DEFINE sh == NormalizeShares(<<>>, Default)
             new == Outcome(sh, <<>>)
  <1>1. /\ up = TRUE /\ shares = new.shares /\ userEx = new.user /\ excl = new.excl
        /\ flag = FALSE /\ file = [shares |-> new.shares, user |-> new.user]
        /\ vm = NoVM /\ container = NoContainer
        /\ req = [p \in Proc |-> Free] /\ unsaved = FALSE
    BY DEF Init
  <1>2. new.shares = sh
    BY DEF Outcome, Lists
  <1>3. Shared(shares)
    BY ListsInit DEF ListsInv
  <1>4. sh \in Seq(Dir)
    BY <1>1, <1>2, <1>3, SharedIs
  <1> HIDE DEF sh
  <1>5. Denies(new.excl, new.user, sh)
    BY <1>4, EmptyIsClear, OutcomeEnforced
  <1> HIDE DEF new
  <1>6. \A p \in Proc : req[p].at = "free" /\ req[p].kind = "none"
    BY <1>1 DEF Free
  <1>7. FileInv
    BY <1>1 DEF FileInv
  <1>8. DeniesInv
    BY <1>1, <1>2, <1>5, <1>6 DEF DeniesInv
  <1>9. FlagInv
    BY <1>1, <1>6 DEF FlagInv, UpToDate
  <1> QED  BY <1>7, <1>8, <1>9

\* While the flag is down the VM mounts the shares there are, and a container
\* denies what is excluded, unless a step that the flag cannot tell of was taken
\* (FlagTells).
THEOREM SharesFlag == Spec => []FlagTells
  <1>1. Init => TypeInv /\ ListsInv /\ FileInv /\ DeniesInv /\ FlagInv
    BY ListsInit, FlagInit
  <1>2. TypeInv /\ ListsInv /\ FileInv /\ DeniesInv /\ FlagInv /\ [Next]_vars
            => (TypeInv /\ ListsInv /\ FileInv /\ DeniesInv /\ FlagInv)'
    BY ListsStep, FileStep, DeniesStep, FlagStep
  <1>3. FlagInv => FlagTells
    BY DEF FlagInv, UpToDate, FlagTells
  <1> QED  BY <1>1, <1>2, <1>3, PTL DEF Spec

-----------------------------------------------------------------------------
(* What the next start accepts                                             *)

LEMMA PrecedesOneWay ==
    ASSUME NEW p \in Dir, NEW q \in Dir, Precedes(p, q)
    PROVE  ~Precedes(q, p)
  BY DirType, BeforeIrreflexive, BeforeTransitive DEF Precedes

\* POST does not look at the excludes, and need not: a new share is not the first
\* that has an exclude unless the exclude lies below it.
LEMMA AddKeepsValid ==
    ASSUME LinksStayInside, NEW sh, Shared(sh),
           NEW d \in ShareDir, \A s \in ToSet(sh) : Canon[s] # Canon[d],
           NEW all, all = SortCanon(ToSet(sh) \cup {d}),
           NEW p, ValidExclude(p, sh)
    PROVE  ValidExclude(p, all)
  <1> DEFINE spelt(l) == {s \in ToSet(l) : HasPathPrefix(p, s)}
             under(l) == {s \in ToSet(l) : Under(p, s)}
             f == FirstShare(sh, spelt(sh))
             g == FirstShare(sh, under(sh))
             f2 == FirstShare(all, spelt(all))
             g2 == FirstShare(all, under(all))
  <1>1. Shared(all) /\ ToSet(all) = ToSet(sh) \cup {d}
    BY SharedWith
  <1>2. Normal(sh) /\ Normal(all) /\ ToSet(sh) \subseteq Dir /\ ToSet(all) \subseteq Dir
    BY <1>1, SharedIs DEF Shared
  <1>3. /\ p \in Dir \ Link /\ spelt(sh) # {} /\ f # p
        /\ ~Under(p, Tmp) /\ ~Under(Tmp, p)
        /\ under(sh) # {} /\ Canon[g] # Canon[p]
    BY DEF ValidExclude
  <1>4. f \in spelt(sh) /\ \A s \in spelt(sh) : s = f \/ Precedes(f, s)
    BY <1>2, <1>3, FirstShareIs
  <1>5. g \in under(sh) /\ \A s \in under(sh) : s = g \/ Precedes(g, s)
    BY <1>2, <1>3, FirstShareIs
  <1>6. spelt(sh) \subseteq spelt(all) /\ under(sh) \subseteq under(all)
    BY <1>1
  <1>7. f2 \in spelt(all) /\ \A s \in spelt(all) : s = f2 \/ Precedes(f2, s)
    BY <1>2, <1>4, <1>6, FirstShareIs
  <1>8. g2 \in under(all) /\ \A s \in under(all) : s = g2 \/ Precedes(g2, s)
    BY <1>2, <1>5, <1>6, FirstShareIs
  <1>9. \A s \in Dir : Under(p, s) => Canon[s] = Canon[p] \/ Precedes(s, p)
    BY <1>3, DirType, BelowIsAfter DEF Under, Precedes
  <1>10. f \in ToSet(sh) /\ HasPathPrefix(p, f) /\ g \in ToSet(sh) /\ Under(p, g)
    BY <1>4, <1>5
  <1>11. f2 \in ToSet(all) /\ g2 \in ToSet(all)
    BY <1>7, <1>8
  <1>12. HasPathPrefix(p, p)
    BY DEF HasPathPrefix
  <1>13. f2 = f \/ Precedes(f2, f)
    BY <1>4, <1>6, <1>7
  <1>14. g2 = g \/ Precedes(g2, g)
    BY <1>5, <1>6, <1>8
  <1>15. p \in ToSet(sh) => Precedes(f, p)
    BY <1>3, <1>4, <1>12
  <1> HIDE DEF f, g, f2, g2
  <1>16. f2 # p
    <2> SUFFICES ASSUME f2 = p  PROVE FALSE
      OBVIOUS
    <2>1. Precedes(p, f)
      BY <1>3, <1>13
    <2>2. p \in ToSet(sh) \/ p = d
      BY <1>1, <1>11
    <2>3. ASSUME p = d
          PROVE  Precedes(f, p)
      <3>1. f \in Roots /\ p \in ShareDir \ Link
        BY <1>3, <1>10, <2>3 DEF Shared
      <3>2. Under(p, f)
        BY <1>10, <2>3, <3>1 DEF LinksStayInside
      <3>3. Canon[f] # Canon[p]
        BY <1>10, <2>3
      <3> QED  BY <1>2, <1>9, <1>10, <3>2, <3>3
    <2> QED  BY <1>2, <1>3, <1>10, <1>15, <2>1, <2>2, <2>3, PrecedesOneWay
  <1>17. Canon[g2] # Canon[p]
    <2> SUFFICES ASSUME Canon[g2] = Canon[p]  PROVE FALSE
      OBVIOUS
    <2>1. Precedes(g, p)
      BY <1>2, <1>3, <1>9, <1>10
    <2>2. Precedes(g, g2)
      BY <2>1 DEF Precedes
    <2>3. g2 # g
      BY <1>3
    <2> QED  BY <1>2, <1>10, <1>11, <1>14, <2>2, <2>3, PrecedesOneWay
  <1>18. spelt(all) # {} /\ under(all) # {}
    BY <1>7, <1>8
  <1> QED  BY <1>3, <1>16, <1>17, <1>18 DEF ValidExclude, f2, g2

ValidOK(r) == r.at = "store" => ValidExcludes(r.lists.user, r.old.shares)

\* The excludes in memory, on disk and in flight are valid for their shares.
LEMMA ValidStep == LinksStayInside /\ TypeInv /\ ListsInv /\ ValidInv /\ [Next]_vars => ValidInv'
  <1> SUFFICES ASSUME LinksStayInside, TypeInv, ListsInv, ValidInv, [Next]_vars
               PROVE  ValidInv'
    OBVIOUS
  <1>1. /\ \A q \in Proc : ValidOK(req[q])
        /\ ~stale => ValidExcludes(userEx, shares) /\ ValidExcludes(file.user, file.shares)
    BY DEF ValidInv, ValidOK
  <1>2. ASSUME \A q \in Proc : ValidOK(req'[q]),
               ~stale' => /\ ValidExcludes(userEx', shares')
                          /\ ValidExcludes(file'.user, file'.shares)
        PROVE  ValidInv'
    BY <1>2 DEF ValidInv, ValidOK
  <1>3. req \in [Proc -> Request] /\ ValidOK(Free)
    BY DEF TypeInv, ValidOK, Free
  <1>4. ASSUME NEW a, NEW b, NEW sh, ToSet(a) \subseteq ToSet(b), ValidExcludes(b, sh)
        PROVE  ValidExcludes(a, sh)
    BY <1>4 DEF ValidExcludes
  <1>5. ASSUME NEW p \in Proc, NEW list \in UserLists, BeginSet(p, list)
        PROVE  ValidInv'
    <2> DEFINE user == NormalizeExcludes(list)
               new == Outcome(shares, user)
               r == [Free EXCEPT !.at = "store", !.kind = "set", !.lists = new, !.old = Current]
    <2>1. list \in Seq(Seq(Nat)) /\ ValidExcludes(list, shares)
      BY <1>5, SharesAssumption DEF BeginSet, SharesAssumption
    <2>2. Clear(user) /\ ValidExcludes(user, shares) /\ shares \in Seq(Dir)
      BY <2>1, ExcludesAccepted, SharedIs DEF ListsInv
    <2>3. req' = [req EXCEPT ![p] = r] /\ UNCHANGED <<stale, userEx, shares, file>>
      BY <1>5 DEF BeginSet
    <2> HIDE DEF user
    <2>4. ToSet(new.user) \subseteq ToSet(user)
      BY <2>2, OutcomeEnforced
    <2> HIDE DEF new
    <2>5. ValidExcludes(new.user, shares)
      BY <1>4, <2>2, <2>4
    <2>6. ValidOK(r)
      BY <2>5 DEF ValidOK, Free, Current, Lists
    <2> HIDE DEF r
    <2>7. \A q \in Proc : ValidOK(req'[q])
      BY <1>1, <1>3, <2>3, <2>6
    <2> QED  BY <1>1, <1>2, <2>3, <2>7
  <1>6. ASSUME NEW p \in Proc, CommitSet(p)
        PROVE  ValidInv'
    <2> DEFINE user == req[p].lists.user
    <2>1. /\ Finish(p) /\ userEx' = user /\ shares' = shares
          /\ stale' = (stale \/ req[p].old.shares # shares)
          /\ file' = file \/ file' = [shares |-> shares, user |-> user]
      BY <1>6 DEF CommitSet
    <2>2. ValidExcludes(user, req[p].old.shares)
      BY <1>1, <1>6 DEF CommitSet, ValidOK
    <2>3. \A q \in Proc : ValidOK(req'[q])
      BY <1>1, <1>3, <2>1 DEF Finish
    <2> HIDE DEF user
    <2>4. ~stale' => ~stale /\ ValidExcludes(user, shares)
      BY <2>1, <2>2 DEF TypeInv
    <2>5. ~stale' => ValidExcludes(file'.user, file'.shares)
      BY <1>1, <2>1, <2>4
    <2> QED  BY <1>2, <2>1, <2>3, <2>4, <2>5
  <1>7. ASSUME NEW p \in Proc, Handle(p), ~CommitSet(p), \A list \in UserLists : ~BeginSet(p, list)
        PROVE  ValidInv'
    <2>1. UNCHANGED <<file, userEx, shares>>
      BY <1>7, HandleIs
    <2>2. stale' = stale
      BY <1>7 DEF Handle, BeginRestart, StopVM, ClearFlag, BeginCreate, ReadLists,
                  CreateContainer, BuildYAML, WriteYAML, StartVM, RecreateVM
    <2>3. (\A q \in Proc : q # p => req'[q] = req[q]) /\ req'[p].at # "store"
      BY <1>7, OtherSteps
    <2>4. \A q \in Proc : ValidOK(req'[q])
      BY <1>1, <2>3 DEF ValidOK
    <2> QED  BY <1>1, <1>2, <2>1, <2>2, <2>4
  <1>8. ASSUME NEW sh, Shared(sh), NEW user, Clear(user), NEW new, new = Outcome(sh, user),
               ~stale => ValidExcludes(user, sh),
               Store(new), Save(sh, new.user, TRUE), UNCHANGED <<req, stale>>
        PROVE  ValidInv'
    <2>1. sh \in Seq(Dir)
      BY <1>8, SharedIs
    <2>2. new.shares = sh /\ ToSet(new.user) \subseteq ToSet(user)
      BY <1>8, <2>1, OutcomeEnforced
    <2>3. ~stale => ValidExcludes(new.user, sh)
      BY <1>4, <1>8, <2>2
    <2>4. userEx' = new.user /\ shares' = sh
      BY <1>8, <2>2 DEF Store
    <2>5. file' = file \/ file' = [shares |-> sh, user |-> new.user]
      BY <1>8 DEF Save
    <2> QED  BY <1>1, <1>2, <1>8, <2>3, <2>4, <2>5
  <1>9. ASSUME NEW d \in ShareDir, Add(d)
        PROVE  ValidInv'
    <2> DEFINE all == SortCanon(ToSet(shares) \cup {d})
               new == Outcome(all, userEx)
    <2>1. Shared(all) /\ Clear(userEx)
      BY <1>9, SharedWith DEF Add, ListsInv, Enforced
    <2>2. /\ Store(new) /\ Save(all, new.user, TRUE) /\ UNCHANGED <<req, stale>>
          /\ \A s \in ToSet(shares) : Canon[s] # Canon[d]
      BY <1>9 DEF Add
    <2>3. Shared(shares)
      BY DEF ListsInv
    <2>4. \A p \in ToSet(userEx) : ValidExclude(p, shares) => ValidExclude(p, all)
      BY <2>2, <2>3, AddKeepsValid
    <2> HIDE DEF all
    <2>5. ~stale => ValidExcludes(userEx, all)
      BY <1>1, <2>4 DEF ValidExcludes
    <2> QED  BY <1>8, <2>1, <2>2, <2>5
  <1>10. ASSUME NEW s \in ToSet(shares), Delete(s)
         PROVE  ValidInv'
    <2> DEFINE left == SortCanon(ToSet(shares) \ {s})
               user == NormalizeExcludes(userEx)
               new == Outcome(left, user)
    <2>1. /\ Store(new) /\ Save(left, new.user, TRUE) /\ UNCHANGED <<req, stale>>
          /\ Canon[s] # Canon[Tmp] /\ ValidExcludes(userEx, left)
      BY <1>10 DEF Delete
    <2>2. Shared(left) /\ userEx \in Seq(Dir)
      BY <2>1, SharedWithout, NormalIs DEF ListsInv, Enforced, Clear
    <2> HIDE DEF left
    <2>3. Clear(user) /\ ValidExcludes(user, left)
      BY <2>1, <2>2, ExcludesAccepted
    <2> HIDE DEF user
    <2> QED  BY <1>8, <2>1, <2>2, <2>3
  <1>11. CASE Crash
    BY <1>1, <1>2, <1>3, <1>11 DEF Crash
  <1>12. CASE Start
    <2> DEFINE new == Outcome(NormalizeShares(file.shares, Default), NormalizeExcludes(file.user))
    <2>1. /\ shares' = new.shares /\ userEx' = new.user /\ req' = req
          /\ file' = [shares |-> new.shares, user |-> new.user]
      BY <1>12 DEF Start
    <2>2. /\ new.shares = file.shares /\ ToSet(new.user) \subseteq ToSet(file.user)
          /\ ValidExcludes(file.user, file.shares)
      BY <1>12, StartTakes
    <2> HIDE DEF new
    <2>3. ValidExcludes(new.user, new.shares)
      BY <1>4, <2>2
    <2> QED  BY <1>1, <1>2, <2>1, <2>3
  <1>13. CASE UNCHANGED vars
    BY <1>1, <1>2, <1>13 DEF vars
  <1> QED  BY <1>5, <1>6, <1>7, <1>9, <1>10, <1>11, <1>12, <1>13 DEF Next

LEMMA ValidInit == Init => ValidInv
  <1> SUFFICES ASSUME Init  PROVE ValidInv
    OBVIOUS
  <1> DEFINE sh == NormalizeShares(<<>>, Default)
             new == Outcome(sh, <<>>)
  <1>1. /\ shares = new.shares /\ userEx = new.user
        /\ file = [shares |-> new.shares, user |-> new.user]
        /\ req = [p \in Proc |-> Free]
    BY DEF Init
  <1>2. new.shares = sh
    BY DEF Outcome, Lists
  <1>3. sh \in Seq(Dir)
    BY <1>1, <1>2, ListsInit, SharedIs DEF ListsInv
  <1> HIDE DEF sh
  <1>4. ToSet(new.user) = {}
    BY <1>3, EmptyIsClear, EmptyIsNormal, OutcomeEnforced
  <1> HIDE DEF new
  <1>5. \A p \in Proc : req[p].at = "free"
    BY <1>1 DEF Free
  <1> QED  BY <1>1, <1>4, <1>5 DEF ValidInv, ValidExcludes

\* The daemon can start from the file it wrote, unless PUT excludes overlapped a
\* change of the shares (AlwaysLoadable); provided that no request shares a
\* directory through a link that leads out of another share.
THEOREM SharesStartAgain == LinksStayInside /\ Spec => []AlwaysLoadable
  <1> DEFINE Inv == LinksStayInside /\ TypeInv /\ ListsInv /\ ValidInv
  <1>1. LinksStayInside /\ Init => Inv
    BY ListsInit, ValidInit
  <1>2. Inv /\ [Next]_vars => Inv'
    BY ListsStep, ValidStep
  <1>3. Inv => AlwaysLoadable
    BY SharedIs DEF ListsInv, ValidInv, AlwaysLoadable, Loadable
  <1> HIDE DEF Inv
  <1> QED  BY <1>1, <1>2, <1>3, PTL DEF Spec

=============================================================================
