----------------------------- MODULE SkillsProofs -----------------------------
(***************************************************************************)
(* Proofs about Skills and SkillSources, for every set of sources, of      *)
(* requests and of handlers and every kind of fault.                       *)
(***************************************************************************)
EXTENDS Skills, FiniteSetTheorems, SequenceTheorems, TLAPS

-----------------------------------------------------------------------------
(* What a request finds                                                    *)

\* Fewer members of a finite set of numbers lie below the smaller of two.
LEMMA FewerBelow ==
    ASSUME NEW S \in SUBSET Nat, IsFiniteSet(S), NEW a \in S, NEW b \in S, a < b
    PROVE  /\ Cardinality({j \in S : j < a}) \in Nat
           /\ Cardinality({j \in S : j < b}) \in Nat
           /\ Cardinality({j \in S : j < a}) < Cardinality({j \in S : j < b})
           /\ Cardinality({j \in S : j < b}) < Cardinality(S)
  <1> DEFINE A == {j \in S : j < a}
             B == {j \in S : j < b}
  <1>1. B \in SUBSET S /\ a \in B \ A /\ b \in S \ B
    OBVIOUS
  <1>7. A \in SUBSET B
    <2>1. a \in Nat /\ b \in Nat /\ \A j \in S : j \in Nat
      OBVIOUS
    <2>2. \A j \in S : j < a => j < b
      BY <2>1
    <2> QED  BY <2>2
  <1>2. IsFiniteSet(B) /\ Cardinality(B) <= Cardinality(S)
        /\ (Cardinality(S) = Cardinality(B) => S = B)
    BY <1>1, FS_Subset
  <1>3. IsFiniteSet(A) /\ Cardinality(A) <= Cardinality(B)
        /\ (Cardinality(B) = Cardinality(A) => B = A)
    BY <1>2, <1>7, FS_Subset
  <1>4. Cardinality(A) \in Nat /\ Cardinality(B) \in Nat /\ Cardinality(S) \in Nat
    BY <1>2, <1>3, FS_CardinalityType
  <1>5. A # B /\ B # S
    BY <1>1
  <1> HIDE DEF A, B
  <1>6. Cardinality(A) < Cardinality(B) /\ Cardinality(B) < Cardinality(S)
    BY <1>2, <1>3, <1>4, <1>5
  <1> QED  BY <1>4, <1>6 DEF A, B

\* Nth enumerates a finite set of numbers, each once.
LEMMA NthEnumerates ==
    ASSUME NEW S \in SUBSET Nat, IsFiniteSet(S), NEW k \in 1 .. Cardinality(S)
    PROVE  Nth(S, k) \in S /\ Cardinality({j \in S : j < Nth(S, k)}) = k - 1
  <1> DEFINE below == [i \in S |-> Cardinality({j \in S : j < i})]
             T == 0 .. Cardinality(S) - 1
  <1>1. Cardinality(S) \in Nat
    BY FS_CardinalityType
  <1>2. IsFiniteSet(T) /\ Cardinality(T) = Cardinality(S)
    <2> DEFINE n == Cardinality(S)
    <2> HIDE DEF n
    <2>1. n \in Nat
      BY <1>1 DEF n
    <2>2. IsFiniteSet(0 .. n - 1) /\ Cardinality(0 .. n - 1) = IF 0 > n - 1 THEN 0 ELSE (n - 1) - 0 + 1
      BY <2>1, FS_Interval
    <2>3. IsFiniteSet(0 .. n - 1) /\ Cardinality(0 .. n - 1) = n
      BY <2>1, <2>2
    <2> QED  BY <2>3 DEF n
  <1>3. ASSUME NEW i \in S
        PROVE  below[i] \in T
    <2> DEFINE B == {j \in S : j < i}
    <2>1. B \in SUBSET S /\ B # S
      OBVIOUS
    <2>2. IsFiniteSet(B) /\ Cardinality(B) <= Cardinality(S)
          /\ (Cardinality(S) = Cardinality(B) => S = B)
      BY <2>1, FS_Subset
    <2>3. Cardinality(B) \in Nat
      BY <2>2, FS_CardinalityType
    <2>4. below[i] = Cardinality(B)
      OBVIOUS
    <2> HIDE DEF B, below
    <2> QED  BY <1>1, <2>1, <2>2, <2>3, <2>4
  <1>4. \A i, j \in S : i # j => below[i] # below[j]
    <2> SUFFICES ASSUME NEW i \in S, NEW j \in S, i < j
                 PROVE  below[i] # below[j]
      OBVIOUS
    <2> QED  BY FewerBelow
  <1>5. below \in [S -> T]
    BY <1>3
  <1>6. below \in Injection(S, T)
    BY <1>4, <1>5 DEF Injection, IsInjective
  <1> HIDE DEF T
  <1>7. below \in Surjection(S, T)
    BY <1>2, <1>6, FS_Injection
  <1>8. k - 1 \in T
    BY <1>1 DEF T
  <1>9. \E i \in S : below[i] = k - 1
    BY <1>7, <1>8 DEF Surjection
  <1> QED  BY <1>9 DEF Nth

LEMMA NthDistinct ==
    ASSUME NEW S \in SUBSET Nat, IsFiniteSet(S),
           NEW k \in 1 .. Cardinality(S), NEW l \in 1 .. Cardinality(S), k # l
    PROVE  Nth(S, k) # Nth(S, l)
  <1>1. Cardinality({j \in S : j < Nth(S, k)}) = k - 1
    BY NthEnumerates
  <1>2. Cardinality({j \in S : j < Nth(S, l)}) = l - 1
    BY NthEnumerates
  <1>3. k \in Int /\ l \in Int
    BY FS_CardinalityType
  <1>4. k - 1 # l - 1
    BY <1>3
  <1> QED  BY <1>1, <1>2, <1>4

\* A set of numbers up to a bound has a smallest one.
LEMMA Smallest ==
    ASSUME NEW n \in Nat, NEW S \in SUBSET (1 .. n), S # {}
    PROVE  \E i \in S : \A j \in S : i <= j
  <1>0. IsFiniteSet(1 .. n)
    BY FS_Interval
  <1>1. IsFiniteSet(S)
    BY <1>0, FS_Subset
  <1>2. Cardinality(S) \in Nat /\ Cardinality(S) # 0
    BY <1>1, FS_CardinalityType, FS_EmptySet
  <1>3. 1 \in 1 .. Cardinality(S) /\ S \in SUBSET Nat
    BY <1>2
  <1> DEFINE i == Nth(S, 1)
             B == {j \in S : j < i}
  <1>4. i \in S /\ Cardinality(B) = 0
    BY <1>1, <1>3, NthEnumerates
  <1>5. IsFiniteSet(B)
    BY <1>1, FS_Subset
  <1>6. B = {}
    BY <1>4, <1>5, FS_EmptySet
  <1> HIDE DEF i
  <1> QED  BY <1>3, <1>4, <1>6

-----------------------------------------------------------------------------
(* The order of a walk and the first directory of each name                *)

Dir == Seq(DirName)

LEMMA RankType ==
    ASSUME NEW a \in DirName, NEW b \in DirName
    PROVE  /\ Rank(a) \in 1 .. Len(NameOrder)
           /\ Rank(a) = Rank(b) => a = b
  <1>1. \A n \in DirName : Rank(n) \in DOMAIN NameOrder /\ NameOrder[Rank(n)] = n
    BY DEF Rank, DirName, ToSet
  <1>2. DOMAIN NameOrder = 1 .. Len(NameOrder)
    BY SourcesAssumption DEF SourcesAssumption
  <1> QED  BY <1>1, <1>2

LEMMA LastType ==
    ASSUME NEW d \in Dir, d # <<>>
    PROVE  Last(d) \in DirName /\ Fold[Last(d)] \in DirName
  <1>1. Last(d) \in DirName
    BY DEF Last, Dir
  <1> QED  BY <1>1, SourcesAssumption DEF SourcesAssumption

LEMMA UpTo ==
    ASSUME NEW n \in Nat, NEW m \in Nat, n <= m, NEW i \in 1 .. n
    PROVE  /\ i \in Nat /\ i <= n /\ i \in 1 .. m
           /\ \A j \in 1 .. i - 1 : j \in 1 .. n /\ ~(i <= j)
  OBVIOUS

\* Of two directories one comes before the other.
LEMMA WalkTotal ==
    ASSUME NEW c \in Dir, NEW d \in Dir, c # d
    PROVE  WalkBefore(c, d) \/ WalkBefore(d, c)
  <1> DEFINE n == IF Len(c) <= Len(d) THEN Len(c) ELSE Len(d)
             D == {i \in 1 .. n : c[i] # d[i]}
  <1>1. n \in Nat /\ n <= Len(c) /\ n <= Len(d) /\ n \in {Len(c), Len(d)}
        /\ DOMAIN c = 1 .. Len(c) /\ DOMAIN d = 1 .. Len(d)
        /\ Len(c) \in Nat /\ Len(d) \in Nat
    BY DEF Dir
  <1> HIDE DEF n
  <1>4. \A i \in 1 .. n : i \in Nat /\ i <= n /\ i \in DOMAIN c /\ i \in DOMAIN d
    <2> SUFFICES ASSUME NEW i \in 1 .. n
                 PROVE  i \in Nat /\ i <= n /\ i \in 1 .. Len(c) /\ i \in 1 .. Len(d)
      BY <1>1
    <2> QED  BY <1>1, UpTo
  <1>5. \A i : i \in D <=> i \in 1 .. n /\ c[i] # d[i]
    OBVIOUS
  <1>6. D \in SUBSET (1 .. n)
    OBVIOUS
  <1> HIDE DEF D
  <1>2. CASE D = {}
    <2>1. \A i \in 1 .. n : c[i] = d[i]
      BY <1>2, <1>5
    <2>2. CASE n = Len(c)
      <3>1. SubSeq(c, 1, Len(c)) = SubSeq(d, 1, Len(c))
        BY <1>1, <2>1, <2>2 DEF Dir
      <3> QED  BY <1>1, <2>2, <3>1 DEF WalkBefore, IsStrictPrefix, IsPrefix
    <2>3. CASE n = Len(d)
      <3>1. SubSeq(d, 1, Len(d)) = SubSeq(c, 1, Len(d))
        BY <1>1, <2>1, <2>3 DEF Dir
      <3> QED  BY <1>1, <2>3, <3>1 DEF WalkBefore, IsStrictPrefix, IsPrefix
    <2> QED  BY <1>1, <2>2, <2>3
  <1>3. CASE D # {}
    <2>1. PICK i \in D : \A j \in D : i <= j
      BY <1>1, <1>3, <1>6, Smallest
    <2>2. i \in 1 .. n /\ i \in Nat /\ i <= n /\ c[i] # d[i] /\ i \in DOMAIN c \cap DOMAIN d
      BY <1>4, <1>5, <2>1
    <2>3. \A j \in 1 .. i - 1 : c[j] = d[j] /\ d[j] = c[j]
      <3>1. \A j \in 1 .. i - 1 : j \in 1 .. n /\ ~(i <= j)
        BY <1>1, <2>2, UpTo
      <3> QED  BY <1>5, <2>1, <3>1
    <2>4. c[i] \in DirName /\ d[i] \in DirName /\ c[i] # d[i]
      BY <2>2 DEF Dir
    <2>5. Rank(c[i]) \in Nat /\ Rank(d[i]) \in Nat /\ Rank(c[i]) # Rank(d[i])
      BY <2>4, RankType
    <2>6. Rank(c[i]) < Rank(d[i]) \/ Rank(d[i]) < Rank(c[i])
      BY <2>5
    <2> QED  BY <2>2, <2>3, <2>6 DEF WalkBefore
  <1> QED  BY <1>2, <1>3

\* What FirstOfName returns: directories it was given whose names can be
\* installed, no two of them the same up to case.
LEMMA FirstOfNameDistinct ==
    ASSUME NEW found, \A c \in found : c[1] \in Nat /\ c[2] \in Dir
    PROVE  /\ \A d \in FirstOfName(found) :
                 Installable(d) /\ \E c \in found : d = c[2]
           /\ \A d, e \in FirstOfName(found) :
                 Fold[Last(d)] = Fold[Last(e)] => d = e
  <1> DEFINE good == {c \in found : Installable(c[2])}
             first == {d \in good : \A e \in good :
                          Fold[Last(e[2])] = Fold[Last(d[2])] => ~FoundBefore(e, d)}
  <1>1. FirstOfName(found) = {c[2] : c \in first}
    BY DEF FirstOfName
  <1>2. \A c \in first : c \in found /\ Installable(c[2])
    OBVIOUS
  <1>3. ASSUME NEW c \in first, NEW d \in first, Fold[Last(c[2])] = Fold[Last(d[2])]
        PROVE  c[2] = d[2]
    <2>1. ~FoundBefore(c, d) /\ ~FoundBefore(d, c)
      BY <1>3
    <2>2. c[1] \in Nat /\ d[1] \in Nat /\ c[2] \in Dir /\ d[2] \in Dir
      BY <1>2
    <2>3. c[1] = d[1]
      BY <2>1, <2>2 DEF FoundBefore
    <2>4. ~WalkBefore(c[2], d[2]) /\ ~WalkBefore(d[2], c[2])
      BY <2>1, <2>3 DEF FoundBefore
    <2> QED  BY <2>2, <2>4, WalkTotal
  <1> HIDE DEF first
  <1>4. \A d \in FirstOfName(found) : Installable(d) /\ \E c \in found : d = c[2]
    BY <1>1, <1>2
  <1>5. \A d, e \in FirstOfName(found) : Fold[Last(d)] = Fold[Last(e)] => d = e
    BY <1>1, <1>3
  <1> QED  BY <1>4, <1>5

\* What Discover returns: directories with names that can be installed, no
\* two of them the same up to case.
LEMMA DiscoverDistinct ==
    ASSUME NEW tree \in DOMAIN SkillDirs, NEW root \in Dir, NEW sub
    PROVE  /\ \A d \in Discover(tree, root, sub) : d \in Dir /\ Installable(d)
           /\ \A d, e \in Discover(tree, root, sub) :
                 Fold[Last(d)] = Fold[Last(e)] => d = e
  <1> DEFINE at == Join(root, sub)
             dirs == {root \o d : d \in SkillDirs[tree]}
  <1> HIDE DEF at
  <1>1. \A d \in dirs : d \in Dir
    <2>1. \A d \in SkillDirs[tree] : d \in Dir
      BY SourcesAssumption DEF SourcesAssumption, Dir
    <2>2. \A d \in Dir : root \o d \in Dir
      BY DEF Dir
    <2> QED  BY <2>1, <2>2
  <1> HIDE DEF dirs
  <1>2. \A c \in Shallow(dirs, at) : c[1] \in Nat /\ c[2] \in Dir
    <2>1. DOMAIN PriorityDirs \subseteq Nat
      BY DEF PriorityDirs, AgentDirs
    <2> QED  BY <1>1, <2>1 DEF Shallow
  <1>3. \A c \in Deep(dirs, at) : c[1] \in Nat /\ c[2] \in Dir
    BY <1>1 DEF Deep
  <1> DEFINE found == Discover(tree, root, sub)
  <1>4. \/ found = {}
        \/ at \in dirs /\ found = {d \in {at} : Installable(d)}
        \/ found = FirstOfName(Shallow(dirs, at))
        \/ found = FirstOfName(Deep(dirs, at))
    <2>1. found = IF ~IsPrefix(root, at) THEN {}
                  ELSE IF at \in dirs THEN {d \in {at} : Installable(d)}
                  ELSE IF FirstOfName(Shallow(dirs, at)) # {} THEN FirstOfName(Shallow(dirs, at))
                  ELSE FirstOfName(Deep(dirs, at))
      BY DEF Discover, at, dirs
    <2> HIDE DEF found
    <2> QED  BY <2>1
  <1> HIDE DEF found
  <1>5. CASE found = {}
    BY <1>5 DEF found
  <1>6. CASE at \in dirs /\ found = {d \in {at} : Installable(d)}
    BY <1>1, <1>6 DEF found
  <1>7. CASE found = FirstOfName(Shallow(dirs, at))
    BY <1>2, <1>7, FirstOfNameDistinct DEF found
  <1>8. CASE found = FirstOfName(Deep(dirs, at))
    BY <1>3, <1>8, FirstOfNameDistinct DEF found
  <1> QED  BY <1>4, <1>5, <1>6, <1>7, <1>8

\* No two of the names a request lists remain that are the same up to case.
LEMMA CompactDistinct ==
    ASSUME NEW Word, NEW list \in Seq(Word)
    PROVE  \E n \in Nat :
             /\ DOMAIN Compact(list) = 1 .. n
             /\ \A k, l \in 1 .. n : k # l => Fold[Compact(list)[k]] # Fold[Compact(list)[l]]
  <1> DEFINE first == {i \in DOMAIN list : \A j \in 1 .. i - 1 : Fold[list[j]] # Fold[list[i]]}
             n == Cardinality(first)
  <1>1. Compact(list) = [k \in 1 .. n |-> list[Nth(first, k)]]
    BY DEF Compact
  <1>2. DOMAIN list = 1 .. Len(list) /\ Len(list) \in Nat
    OBVIOUS
  <1>3. IsFiniteSet(first) /\ first \in SUBSET Nat
    <2>1. IsFiniteSet(DOMAIN list) /\ DOMAIN list \subseteq Nat
      BY <1>2, FS_Interval
    <2>2. first \in SUBSET DOMAIN list
      OBVIOUS
    <2> HIDE DEF first
    <2> QED  BY <2>1, <2>2, FS_Subset
  <1>4. n \in Nat
    BY <1>3, FS_CardinalityType
  <1>5. \A i, j \in first : i < j => Fold[list[i]] # Fold[list[j]]
    BY <1>2
  <1> HIDE DEF first
  <1>6. \A k, l \in 1 .. n : k # l => Fold[list[Nth(first, k)]] # Fold[list[Nth(first, l)]]
    <2> SUFFICES ASSUME NEW k \in 1 .. n, NEW l \in 1 .. n, k # l
                 PROVE  Fold[list[Nth(first, k)]] # Fold[list[Nth(first, l)]]
      OBVIOUS
    <2>1. Nth(first, k) \in first /\ Nth(first, l) \in first
      BY <1>3, NthEnumerates
    <2>2. Nth(first, k) # Nth(first, l)
      BY <1>3, NthDistinct
    <2>3. Nth(first, k) < Nth(first, l) \/ Nth(first, l) < Nth(first, k)
      <3>1. Nth(first, k) \in Nat /\ Nth(first, l) \in Nat
        BY <1>3, <2>1
      <3> QED  BY <2>2, <3>1
    <2> QED  BY <1>5, <2>1, <2>3
  <1> HIDE DEF n
  <1> QED  BY <1>1, <1>4, <1>6

\* What a selection is: a sequence of directories with names that can be
\* installed, no two of them the same up to case.
Selection(picked) ==
    \E n \in Nat :
        /\ picked \in [1 .. n -> Dir]
        /\ \A k \in 1 .. n : Installable(picked[k])
        /\ \A k, l \in 1 .. n : k # l => Fold[Last(picked[k])] # Fold[Last(picked[l])]

LEMMA EmptySelection == Selection(<<>>)
  <1>1. <<>> \in [1 .. 0 -> Dir]
    OBVIOUS
  <1> QED  BY <1>1 DEF Selection

LEMMA ByNameSelects ==
    ASSUME NEW dirs, \A d \in dirs : d \in Dir /\ Installable(d)
    PROVE  Selection(ByName(dirs))
  <1> DEFINE key(d) == Rank(Fold[Last(d)])
             keys == {key(d) : d \in dirs}
             n == Cardinality(keys)
             pick(k) == CHOOSE d \in dirs : key(d) = Nth(keys, k)
  <1>1. ByName(dirs) = [k \in 1 .. n |-> pick(k)]
    BY DEF ByName
  <1>2. \A d \in dirs : Fold[Last(d)] \in DirName
    BY LastType DEF Installable
  <1>3. \A d \in dirs : key(d) \in 1 .. Len(NameOrder)
    BY <1>2, RankType
  <1>4. keys \in SUBSET (1 .. Len(NameOrder))
    BY <1>3
  <1>5. IsFiniteSet(keys) /\ keys \in SUBSET Nat
    <2>1. Len(NameOrder) \in Nat
      BY SourcesAssumption DEF SourcesAssumption
    <2>2. IsFiniteSet(1 .. Len(NameOrder)) /\ 1 .. Len(NameOrder) \subseteq Nat
      BY <2>1, FS_Interval
    <2> HIDE DEF keys
    <2> QED  BY <1>4, <2>2, FS_Subset
  <1>6. n \in Nat
    BY <1>5, FS_CardinalityType
  <1>7. \A k \in keys : \E d \in dirs : key(d) = k
    OBVIOUS
  <1> HIDE DEF keys
  <1>8. \A k \in 1 .. n : pick(k) \in dirs /\ key(pick(k)) = Nth(keys, k)
    BY <1>5, <1>7, NthEnumerates
  <1> HIDE DEF pick
  <1>9. \A k, l \in 1 .. n : k # l => key(pick(k)) # key(pick(l))
    BY <1>5, <1>8, NthDistinct
  <1>10. \A k, l \in 1 .. n : k # l => Fold[Last(pick(k))] # Fold[Last(pick(l))]
    BY <1>9
  <1> HIDE DEF n
  <1>11. [k \in 1 .. n |-> pick(k)] \in [1 .. n -> Dir]
    BY <1>8
  <1>12. \A k \in 1 .. n : Installable(pick(k))
    BY <1>8
  <1> QED  BY <1>1, <1>6, <1>10, <1>11, <1>12 DEF Selection

LEMMA SelectSelects ==
    ASSUME NEW dirs, \A d \in dirs : d \in Dir /\ Installable(d),
           NEW Word, NEW list \in Seq(Word)
    PROVE  Selection(Select(dirs, Compact(list)))
  <1> DEFINE wanted == Compact(list)
             named(w) == {d \in dirs : Fold[Last(d)] = Fold[w]}
             pick(i) == CHOOSE d \in named(wanted[i]) : TRUE
  <1>1. PICK n \in Nat :
             /\ DOMAIN wanted = 1 .. n
             /\ \A k, l \in 1 .. n : k # l => Fold[wanted[k]] # Fold[wanted[l]]
    BY CompactDistinct
  <1> HIDE DEF wanted
  <1>2. \/ Select(dirs, wanted) = ByName(dirs)
        \/ Select(dirs, wanted) = <<>>
        \/ /\ \A i \in 1 .. n : named(wanted[i]) # {}
           /\ Select(dirs, wanted) = [i \in 1 .. n |-> pick(i)]
    BY <1>1 DEF Select
  <1>3. CASE Select(dirs, wanted) = ByName(dirs)
    BY <1>3, ByNameSelects DEF wanted
  <1>4. CASE Select(dirs, wanted) = <<>>
    BY <1>4, EmptySelection DEF wanted
  <1>5. CASE /\ \A i \in 1 .. n : named(wanted[i]) # {}
             /\ Select(dirs, wanted) = [i \in 1 .. n |-> pick(i)]
    <2>1. \A i \in 1 .. n : pick(i) \in dirs /\ Fold[Last(pick(i))] = Fold[wanted[i]]
      BY <1>5
    <2> HIDE DEF pick
    <2>2. \A k, l \in 1 .. n : k # l => Fold[Last(pick(k))] # Fold[Last(pick(l))]
      BY <1>1, <2>1
    <2>3. [i \in 1 .. n |-> pick(i)] \in [1 .. n -> Dir]
      BY <2>1
    <2>4. Selection([i \in 1 .. n |-> pick(i)])
      BY <2>1, <2>2, <2>3 DEF Selection
    <2> QED  BY <1>5, <2>4 DEF wanted
  <1> QED  BY <1>2, <1>3, <1>4, <1>5

-----------------------------------------------------------------------------
(* Type correctness                                                        *)

Item == UNION {{Wanted(r)[i] : i \in DOMAIN Wanted(r)} : r \in Request}

Content == {item.content : item \in Item}

SkillName == DirName \cup {Backup(n) : n \in DirName}

Entry == [content : Content, whole : BOOLEAN]

Todo == [name : SkillName, content : Content \cup {<<>>}]

Handler == [at : Place, todo : Seq(Todo), replace : BOOLEAN, done : SUBSET DirName]

TypeOK ==
    /\ disk \in [Names -> Entry] /\ Names \subseteq SkillName
    /\ req \in [Proc -> Handler]
    /\ \A p \in Proc : req[p].at # "free" => req[p].todo # <<>>
    /\ requests \in 0 .. MaxRequests
    /\ promised \in [DOMAIN promised -> Content] /\ DOMAIN promised \subseteq DirName
    /\ torn \subseteq SkillName /\ displaced \subseteq SkillName
    /\ refusedAfter \subseteq DirName

-----------------------------------------------------------------------------
(* The inductive invariant                                                 *)

\* What a request may install: skills with names that can be installed, no
\* two of them the same up to case.
Sound(todo) ==
    /\ \A i \in DOMAIN todo :
          /\ todo[i].name \in DirName /\ InstallName(todo[i].name)
          /\ todo[i].content \in Content
    /\ \A i, j \in DOMAIN todo : i # j => Fold[todo[i].name] # Fold[todo[j].name]

LockInv == \A p, q \in Proc : Holding(p) /\ Holding(q) => p = q

TodoInv == \A p \in Proc : req[p].at # "delete" => Sound(req[p].todo)

\* What is to be replaced is there, and gone before its successor takes its
\* place.  A request that may not replace still has
\* nothing to replace, from the time it was let in: nobody else installs while
\* it holds the lock, and its own skills have different names.
Ready(p) ==
    /\ req[p].at = "aside" => req[p].replace /\ This(p) \in Names
    /\ req[p].at = "place" => This(p) \notin Names
    /\ ~req[p].replace /\ req[p].at \in {"copy", "clear", "place"} =>
          \A i \in DOMAIN req[p].todo : req[p].todo[i].name \notin Names
    /\ ~req[p].replace /\ req[p].at = "sweep" =>
          \A i \in (DOMAIN req[p].todo) \ {1} : req[p].todo[i].name \notin Names

ReadyInv == \A p \in Proc : Ready(p)

\* While the name of a skill is free between the two renames, the skill is at
\* its backup.
SetAside(n) ==
    \E p \in Proc :
        /\ req[p].at = "place" /\ This(p) = n
        /\ Backup(n) \in Names
        /\ disk[Backup(n)] = [content |-> promised[n], whole |-> TRUE]

KeptInv ==
    \A n \in DOMAIN promised :
        n \in displaced \/ IsBackup(n) \/ Kept(n) \/ SetAside(n)

NameInv ==
    \A n \in DOMAIN promised :
        InstallName(n) /\ \A p \in Proc : req[p].at = "delete" => This(p) # n

IInv ==
    /\ TypeOK /\ LockInv /\ TodoInv /\ ReadyInv
    /\ RefusedInstallsNothing /\ NameInv /\ KeptInv /\ ListedIsWhole


-----------------------------------------------------------------------------
(* What a request wants                                                    *)

LEMMA WantedSelects ==
    ASSUME NEW r \in Request
    PROVE  \E picked, root, ref :
             /\ Selection(picked)
             /\ Wanted(r) = [i \in DOMAIN picked |->
                    [name |-> Last(picked[i]),
                     content |-> <<ParseSource(r.source).url, ref, From(picked[i], Len(root) + 1)>>]]
  <1> DEFINE p == ParseSource(r.source)
             ref == IF r.ref # "" THEN r.ref ELSE p.ref
             sub == IF r.sub # <<>> THEN r.sub ELSE p.sub
             root == IF p.type = "local" THEN p.url ELSE CloneRoot
             tree == <<p.url, IF p.type = "local" THEN "" ELSE ref>>
             list == IF p.filter = "" THEN r.skills ELSE Append(r.skills, p.filter)
             none == \/ p.type = "refused"
                     \/ p.type = "local" /\ p.url \notin Allowed
                     \/ tree \notin DOMAIN SkillDirs
             picked == IF none THEN <<>> ELSE Select(Discover(tree, root, sub), Compact(list))
  <1>1. Wanted(r) = [i \in DOMAIN picked |->
             [name |-> Last(picked[i]), content |-> <<p.url, ref, From(picked[i], Len(root) + 1)>>]]
    BY DEF Wanted
  <1> HIDE DEF p
  <1> DEFINE Word == STRING \cup {p.filter}
  <1>3. list \in Seq(Word)
    <2>1. r.skills \in Seq(STRING)
      BY SkillsAssumption DEF SkillsAssumption
    <2>2. STRING \subseteq Word /\ p.filter \in Word
      OBVIOUS
    <2> HIDE DEF Word
    <2>3. r.skills \in Seq(Word)
      BY <2>1, <2>2, SeqMonotonic
    <2>4. Append(r.skills, p.filter) \in Seq(Word)
      BY <2>2, <2>3
    <2> QED  BY <2>3, <2>4
  <1> HIDE DEF Word
  <1>4. ASSUME ~none
        PROVE  Selection(Select(Discover(tree, root, sub), Compact(list)))
    <2>1. root \in Dir /\ tree \in DOMAIN SkillDirs
      BY <1>4, SourcesAssumption DEF SourcesAssumption, Dir
    <2> HIDE DEF root, tree, sub, list
    <2>2. \A d \in Discover(tree, root, sub) : d \in Dir /\ Installable(d)
      BY <2>1, DiscoverDistinct
    <2> QED  BY <1>3, <2>2, SelectSelects
  <1>5. Selection(picked)
    BY <1>4, EmptySelection
  <1> HIDE DEF picked, root, ref
  <1> DEFINE P(a, b, c) ==
                 /\ Selection(a)
                 /\ Wanted(r) = [i \in DOMAIN a |->
                        [name |-> Last(a[i]),
                         content |-> <<ParseSource(r.source).url, c, From(a[i], Len(b) + 1)>>]]
  <1>6. P(picked, root, ref)
    BY <1>1, <1>5 DEF p
  <1> HIDE DEF P
  <1>7. \E a, b, c : P(a, b, c)
    BY <1>6
  <1> QED  BY <1>7 DEF P

\* What a request wants: a sequence of skills that may be installed.
LEMMA WantedSound ==
    ASSUME NEW r \in Request
    PROVE  Wanted(r) \in Seq(Todo) /\ Sound(Wanted(r))
  <1>1. PICK picked, root, ref :
             /\ Selection(picked)
             /\ Wanted(r) = [i \in DOMAIN picked |->
                    [name |-> Last(picked[i]),
                     content |-> <<ParseSource(r.source).url, ref, From(picked[i], Len(root) + 1)>>]]
    BY WantedSelects
  <1>2. PICK n \in Nat :
             /\ picked \in [1 .. n -> Dir]
             /\ \A k \in 1 .. n : Installable(picked[k])
             /\ \A k, l \in 1 .. n : k # l => Fold[Last(picked[k])] # Fold[Last(picked[l])]
    BY <1>1 DEF Selection
  <1> DEFINE content(i) == <<ParseSource(r.source).url, ref, From(picked[i], Len(root) + 1)>>
             item(i) == [name |-> Last(picked[i]), content |-> content(i)]
  <1>3. Wanted(r) = [i \in 1 .. n |-> item(i)]
    BY <1>1, <1>2
  <1> HIDE DEF content
  <1>4. \A i \in 1 .. n : Last(picked[i]) \in DirName /\ InstallName(Last(picked[i]))
    BY <1>2, LastType DEF Installable
  <1>5. \A i \in 1 .. n : content(i) \in Content
    <2>1. \A i \in 1 .. n : item(i) \in Item
      BY <1>3 DEF Item
    <2>2. \A i \in 1 .. n : item(i).content = content(i)
      OBVIOUS
    <2> HIDE DEF item
    <2> QED  BY <2>1, <2>2 DEF Content
  <1>6. \A i \in 1 .. n : item(i) \in Todo
    BY <1>4, <1>5 DEF Todo, SkillName
  <1>7. Sound(Wanted(r))
    BY <1>2, <1>3, <1>4, <1>5 DEF Sound
  <1>8. Wanted(r) \in Seq(Todo)
    <2>1. [i \in 1 .. n |-> item(i)] \in [1 .. n -> Todo]
      BY <1>6
    <2> HIDE DEF item
    <2> QED  BY <1>3, <2>1, SeqDef
  <1> QED  BY <1>7, <1>8

-----------------------------------------------------------------------------
(* What the operations do                                                  *)

LEMMA FreeType == Free \in Handler /\ Free.at = "free" /\ Free.todo = <<>>
  BY DEF Free, Handler, Place

\* The name a handler works on.
LEMMA ThisType ==
    ASSUME TypeOK, NEW p \in Proc, req[p].at # "free"
    PROVE  /\ 1 \in DOMAIN req[p].todo /\ Head(req[p].todo) = req[p].todo[1]
           /\ This(p) = req[p].todo[1].name /\ This(p) \in SkillName
           /\ Head(req[p].todo) \in Todo
           /\ req[p].at # "delete" /\ TodoInv =>
                 /\ This(p) \in DirName /\ InstallName(This(p))
                 /\ Head(req[p].todo).content \in Content
                 /\ Sound(req[p].todo)
  <1>1. req[p].todo \in Seq(Todo) /\ req[p].todo # <<>>
    BY DEF TypeOK, Handler
  <1>2. 1 \in DOMAIN req[p].todo /\ Head(req[p].todo) = req[p].todo[1] /\ req[p].todo[1] \in Todo
    BY <1>1
  <1>3. This(p) = req[p].todo[1].name
    BY <1>2 DEF This
  <1> QED  BY <1>2, <1>3 DEF Todo, TodoInv, Sound

\* A handler goes on, and the others stay where they are.
LEMMA GotoDoes ==
    ASSUME TypeOK, NEW p \in Proc, NEW place \in Place, req[p].at # "free", Goto(p, place)
    PROVE  /\ req' \in [Proc -> Handler]
           /\ \A q \in Proc : req'[q].at # "free" => req'[q].todo # <<>>
           /\ req'[p].at = place /\ req'[p].todo = req[p].todo
           /\ req'[p].replace = req[p].replace /\ req'[p].done = req[p].done
           /\ \A q \in Proc \ {p} : req'[q] = req[q]
  BY DEF TypeOK, Goto, Handler

LEMMA FinishDoes ==
    ASSUME TypeOK, NEW p \in Proc, Finish(p)
    PROVE  /\ req' \in [Proc -> Handler]
           /\ \A q \in Proc : req'[q].at # "free" => req'[q].todo # <<>>
           /\ req'[p] = Free
           /\ \A q \in Proc \ {p} : req'[q] = req[q]
  BY FreeType DEF TypeOK, Finish

LEMMA BeginInstallDoes ==
    ASSUME TypeOK, NEW p \in Proc, NEW r \in Request, BeginInstall(p, r)
    PROVE  /\ req' \in [Proc -> Handler]
           /\ \A q \in Proc : req'[q].at # "free" => req'[q].todo # <<>>
           /\ req[p].at = "free" /\ req'[p].at = "lock" /\ Sound(req'[p].todo)
           /\ \A q \in Proc \ {p} : req'[q] = req[q]
  <1> DEFINE new == [Free EXCEPT !.at = "lock", !.todo = Wanted(r), !.replace = r.replace]
  <1>1. Wanted(r) \in Seq(Todo) /\ Sound(Wanted(r)) /\ Wanted(r) # <<>>
    BY WantedSound DEF BeginInstall
  <1>2. r.replace \in BOOLEAN
    BY SkillsAssumption DEF SkillsAssumption
  <1>3. new \in Handler /\ new.at = "lock" /\ new.todo = Wanted(r)
    BY <1>1, <1>2 DEF Free, Handler, Place
  <1>4. req[p].at = "free" /\ req' = [req EXCEPT ![p] = new]
    BY FreeType DEF BeginInstall
  <1> HIDE DEF new
  <1> QED  BY <1>1, <1>3, <1>4 DEF TypeOK

LEMMA BeginDeleteDoes ==
    ASSUME TypeOK, NEW p \in Proc, NEW name \in Names, BeginDelete(p, name)
    PROVE  /\ req' \in [Proc -> Handler]
           /\ \A q \in Proc : req'[q].at # "free" => req'[q].todo # <<>>
           /\ req[p].at = "free" /\ req'[p].at = "delete" /\ req'[p].todo[1].name = name
           /\ This(p)' = name
           /\ \A q \in Proc \ {p} : req'[q] = req[q]
           /\ \A q \in Proc : ~Holding(q)
  <1> DEFINE todo == <<[name |-> name, content |-> <<>>]>>
             new == [Free EXCEPT !.at = "delete", !.todo = todo]
  <1>1. todo \in Seq(Todo) /\ todo # <<>> /\ todo[1].name = name /\ Head(todo).name = name
    BY DEF TypeOK, Todo
  <1> HIDE DEF todo
  <1>2. new \in Handler /\ new.at = "delete" /\ new.todo = todo
    BY <1>1 DEF Free, Handler, Place
  <1>3. req[p].at = "free" /\ req' = [req EXCEPT ![p] = new] /\ Unlocked
    BY FreeType DEF BeginDelete, todo
  <1> HIDE DEF new
  <1>4. req'[p] = new
    BY <1>3 DEF TypeOK
  <1> QED  BY <1>1, <1>2, <1>3, <1>4 DEF TypeOK, This, Unlocked

LEMMA HalfDoes ==
    ASSUME TypeOK, NEW name, Half(name)
    PROVE  /\ disk' \in [Names -> Entry] /\ Names' = Names
           /\ \A n \in Names \ {name} : disk'[n] = disk[n]
           /\ name \in Names /\ disk[name].whole
  BY DEF TypeOK, Half, With, Names, Entry

LEMMA GoneDoes ==
    ASSUME TypeOK, NEW name, Gone(name)
    PROVE  /\ disk' \in [Names' -> Entry] /\ Names' = Names \ {name}
           /\ \A n \in Names \ {name} : disk'[n] = disk[n]
           /\ torn' = torn \ {name}
  BY DEF TypeOK, Gone, Without, Restrict, Names

LEMMA RenamedDoes ==
    ASSUME TypeOK, NEW from \in Names, NEW to \in SkillName, disk' = Renamed(from, to)
    PROVE  /\ disk' \in [Names' -> Entry] /\ Names' = (Names \ {from}) \cup {to}
           /\ Names' \subseteq SkillName
           /\ disk'[to] = disk[from]
           /\ \A n \in Names \ {from, to} : disk'[n] = disk[n]
  BY DEF TypeOK, Renamed, Names

\* A skill takes its name.
LEMMA WithDoes ==
    ASSUME TypeOK, NEW name \in SkillName, NEW content \in Content,
           disk' = With(name, content, TRUE)
    PROVE  /\ disk' \in [Names' -> Entry] /\ Names' = Names \cup {name}
           /\ Names' \subseteq SkillName
           /\ disk'[name] = [content |-> content, whole |-> TRUE]
           /\ \A n \in Names \ {name} : disk'[n] = disk[n]
  BY DEF TypeOK, With, Names, Entry

LEMMA KeepsDoes ==
    ASSUME TypeOK, NEW name \in DirName, NEW content \in Content,
           promised' = Keeps(name, content)
    PROVE  /\ promised' \in [DOMAIN promised' -> Content]
           /\ DOMAIN promised' = (DOMAIN promised) \cup {name}
           /\ DOMAIN promised' \subseteq DirName
           /\ promised'[name] = content
           /\ \A n \in (DOMAIN promised) \ {name} : promised'[n] = promised[n]
  BY DEF TypeOK, Keeps

\* After a sweep the next skill is the first of those that are left.
LEMMA SweepDoes ==
    ASSUME TypeOK, TodoInv, NEW p \in Proc, req[p].at = "sweep", Len(req[p].todo) # 1,
           req' = [req EXCEPT ![p].at = "copy", ![p].todo = Tail(@)]
    PROVE  /\ req' \in [Proc -> Handler]
           /\ \A q \in Proc : req'[q].at # "free" => req'[q].todo # <<>>
           /\ req'[p].at = "copy" /\ req'[p].replace = req[p].replace
           /\ \A i \in DOMAIN req'[p].todo :
                 /\ i + 1 \in (DOMAIN req[p].todo) \ {1}
                 /\ req'[p].todo[i] = req[p].todo[i + 1]
           /\ Sound(req'[p].todo)
           /\ \A q \in Proc \ {p} : req'[q] = req[q]
  <1> DEFINE all == req[p].todo
             rest == Tail(all)
  <1>1. all \in Seq(Todo) /\ all # <<>> /\ Sound(all)
    BY DEF TypeOK, Handler, TodoInv
  <1> HIDE DEF all
  <1>2. Len(all) \in Nat /\ Len(all) # 0 /\ Len(all) # 1
    BY <1>1 DEF all
  <1>3. rest \in Seq(Todo) /\ Len(rest) = Len(all) - 1
    BY <1>1, <1>2
  <1>4. \A i \in DOMAIN rest :
            /\ i \in Nat /\ i + 1 \in (DOMAIN all) \ {1} /\ rest[i] = all[i + 1]
    BY <1>1, <1>2
  <1>5. rest # <<>>
    <2>1. Len(rest) # 0
      BY <1>2, <1>3
    <2> HIDE DEF rest
    <2>2. Len(<<>>) = 0
      OBVIOUS
    <2> QED  BY <2>1, <2>2, Zenon
  <1>6. Sound(rest)
    <2>1. \A i, j \in DOMAIN rest : i # j => i + 1 # j + 1
      BY <1>4
    <2> HIDE DEF rest
    <2> QED  BY <1>1, <1>4, <2>1 DEF Sound
  <1> HIDE DEF rest
  <1>7. /\ req' = [req EXCEPT ![p] = [req[p] EXCEPT !.at = "copy", !.todo = rest]]
        /\ req \in [Proc -> Handler] /\ req[p] \in Handler
    BY DEF TypeOK, rest, all
  <1>8. [req[p] EXCEPT !.at = "copy", !.todo = rest] \in Handler
    BY <1>3, <1>7 DEF Handler, Place
  <1>9. /\ req'[p].at = "copy" /\ req'[p].todo = rest /\ req'[p].replace = req[p].replace
        /\ \A q \in Proc \ {p} : req'[q] = req[q]
    BY <1>7 DEF Handler
  <1>10. req' \in [Proc -> Handler]
    BY <1>7, <1>8
  <1>11. \A q \in Proc : req'[q].at # "free" => req'[q].todo # <<>>
    BY <1>5, <1>9 DEF TypeOK
  <1> QED  BY <1>4, <1>6, <1>9, <1>10, <1>11 DEF all

-----------------------------------------------------------------------------
(* Type correctness                                                        *)

LEMMA TypeInit == Init => TypeOK
  BY SkillsAssumption, FreeType
     DEF Init, TypeOK, SkillsAssumption, Names, Entry, Content, SkillName

LEMMA TypeStep ==
    ASSUME TypeOK, TodoInv, ReadyInv, [Next]_vars
    PROVE  TypeOK'
  <1> USE DEF Names
  <1>1. ASSUME NEW p \in Proc, NEW r \in Request, BeginInstall(p, r)
        PROVE  TypeOK'
    <2>1. requests' \in 0 .. MaxRequests
      BY <1>1, SkillsAssumption DEF BeginInstall, TypeOK, SkillsAssumption
    <2> QED  BY <1>1, <2>1, BeginInstallDoes DEF BeginInstall, TypeOK
  <1>2. ASSUME NEW p \in Proc, Lock(p)
        PROVE  TypeOK'
    <2>1. refusedAfter' \subseteq DirName
      BY <1>2 DEF Lock, TypeOK
    <2>2. CASE Finish(p)
      BY <1>2, <2>1, <2>2, FinishDoes DEF Lock, TypeOK
    <2>3. CASE Goto(p, "copy")
      BY <1>2, <2>1, <2>3, GotoDoes DEF Lock, TypeOK, Place
    <2> QED  BY <1>2, <2>2, <2>3 DEF Lock
  <1>3. ASSUME NEW p \in Proc, Copy(p)
        PROVE  TypeOK'
    <2>2. CASE Finish(p)
      BY <1>3, <2>2, FinishDoes DEF Copy, TypeOK
    <2>3. CASE Goto(p, "clear")
      BY <1>3, <2>3, GotoDoes DEF Copy, TypeOK, Place
    <2> QED  BY <1>3, <2>2, <2>3 DEF Copy
  <1>4. ASSUME NEW p \in Proc, Clear(p)
        PROVE  TypeOK'
    <2> DEFINE backup == Backup(This(p))
    <2>1. CASE Half(backup) /\ UNCHANGED <<req, torn, refusedAfter>>
      BY <1>4, <2>1, HalfDoes DEF Clear, TypeOK
    <2>2. CASE Finish(p) /\ refusedAfter' = req[p].done /\ UNCHANGED <<disk, torn>>
      <3>1. req[p].done \subseteq DirName
        BY DEF TypeOK, Handler
      <3> QED  BY <1>4, <2>2, <3>1, FinishDoes DEF Clear, TypeOK
    <2>3. CASE /\ Goto(p, IF This(p) \in Names THEN "aside" ELSE "place")
               /\ Gone(backup) /\ UNCHANGED refusedAfter
      <3>1. PICK place \in {"aside", "place"} : Goto(p, place)
        BY <2>3
      <3>2. /\ req' \in [Proc -> Handler]
            /\ \A q \in Proc : req'[q].at # "free" => req'[q].todo # <<>>
        BY <1>4, <3>1, GotoDoes DEF Clear, Place
      <3>3. disk' \in [Names' -> Entry] /\ Names' \subseteq SkillName /\ torn' \subseteq SkillName
        BY <2>3, GoneDoes DEF TypeOK
      <3> QED  BY <1>4, <2>3, <3>2, <3>3 DEF Clear, TypeOK
    <2> QED  BY <1>4, <2>1, <2>2, <2>3 DEF Clear
  <1>5. ASSUME NEW p \in Proc, Aside(p)
        PROVE  TypeOK'
    <2> DEFINE name == This(p)
               backup == Backup(This(p))
    <2>1. name \in DirName /\ backup \in SkillName
      BY <1>5, ThisType DEF Aside, SkillName
    <2>2. CASE /\ disk' = Renamed(name, backup) /\ Goto(p, "place")
               /\ torn' = IF name \in torn THEN (torn \ {name}) \cup {backup} ELSE torn
      <3>0. name \in Names
        BY <1>5 DEF Aside, ReadyInv, Ready
      <3>1. disk' \in [Names' -> Entry] /\ Names' \subseteq SkillName /\ torn' \subseteq SkillName
        BY <2>1, <2>2, <3>0, RenamedDoes DEF TypeOK
      <3>2. /\ req' \in [Proc -> Handler]
            /\ \A q \in Proc : req'[q].at # "free" => req'[q].todo # <<>>
        BY <1>5, <2>2, GotoDoes DEF Aside, Place
      <3> QED  BY <1>5, <3>1, <3>2 DEF Aside, TypeOK
    <2>3. CASE Finish(p) /\ UNCHANGED <<disk, torn>>
      BY <1>5, <2>3, FinishDoes DEF Aside, TypeOK
    <2> QED  BY <1>5, <2>2, <2>3 DEF Aside
  <1>6. ASSUME NEW p \in Proc, PlaceSkill(p)
        PROVE  TypeOK'
    <2> DEFINE item == Head(req[p].todo)
               name == item.name
               backup == Backup(name)
    <2>1. /\ name \in DirName /\ name \in SkillName /\ backup \in SkillName
          /\ item.content \in Content /\ name = This(p)
      BY <1>6, ThisType DEF PlaceSkill, SkillName, This
    <2> HIDE DEF item
    <2>2. CASE /\ disk' = With(name, item.content, TRUE)
               /\ req' = [req EXCEPT ![p].at = "sweep", ![p].done = @ \cup {name}]
               /\ promised' = Keeps(name, item.content)
               /\ displaced' = displaced \ {name}
               /\ UNCHANGED torn
      <3>1. disk' \in [Names' -> Entry] /\ Names' \subseteq SkillName
        BY <2>1, <2>2, WithDoes
      <3>2. /\ promised' \in [DOMAIN promised' -> Content]
            /\ DOMAIN promised' \subseteq DirName
        BY <2>1, <2>2, KeepsDoes
      <3>3. /\ req' \in [Proc -> Handler]
            /\ \A q \in Proc : req'[q].at # "free" => req'[q].todo # <<>>
        BY <1>6, <2>1, <2>2 DEF PlaceSkill, TypeOK, Handler, Place
      <3> QED  BY <1>6, <2>2, <3>1, <3>2, <3>3 DEF PlaceSkill, TypeOK
    <2>3. CASE PutBack(name) /\ Finish(p) /\ UNCHANGED promised
      <3>1. /\ req' \in [Proc -> Handler]
            /\ \A q \in Proc : req'[q].at # "free" => req'[q].todo # <<>>
        BY <2>3, FinishDoes
      <3>2. CASE UNCHANGED <<disk, torn, displaced>>
        BY <1>6, <2>3, <3>1, <3>2 DEF PlaceSkill, TypeOK
      <3>3. CASE /\ backup \in Names /\ disk' = Renamed(backup, name)
                 /\ torn' = IF backup \in torn THEN (torn \ {backup}) \cup {name} ELSE torn
                 /\ UNCHANGED displaced
        <4>1. disk' \in [Names' -> Entry] /\ Names' \subseteq SkillName /\ torn' \subseteq SkillName
          BY <2>1, <3>3, RenamedDoes DEF TypeOK
        <4> QED  BY <1>6, <2>3, <3>1, <3>3, <4>1 DEF PlaceSkill, TypeOK
      <3>4. CASE displaced' = displaced \cup {name} /\ UNCHANGED <<disk, torn>>
        BY <1>6, <2>1, <2>3, <3>1, <3>4 DEF PlaceSkill, TypeOK
      <3> QED  BY <2>3, <3>2, <3>3, <3>4 DEF PutBack
    <2> QED  BY <1>6, <2>2, <2>3 DEF PlaceSkill, item
  <1>7. ASSUME NEW p \in Proc, Sweep(p)
        PROVE  TypeOK'
    <2> DEFINE backup == Backup(This(p))
    <2>1. CASE Half(backup) /\ UNCHANGED <<req, torn>>
      BY <1>7, <2>1, HalfDoes DEF Sweep, TypeOK
    <2>2. CASE /\ Gone(backup)
               /\ \/ Finish(p)
                  \/ /\ Len(req[p].todo) # 1
                     /\ req' = [req EXCEPT ![p].at = "copy", ![p].todo = Tail(@)]
      <3>1. disk' \in [Names' -> Entry] /\ Names' \subseteq SkillName /\ torn' \subseteq SkillName
        BY <2>2, GoneDoes DEF TypeOK
      <3>2. CASE Finish(p)
        BY <1>7, <3>1, <3>2, FinishDoes DEF Sweep, TypeOK
      <3>3. CASE /\ Len(req[p].todo) # 1
                 /\ req' = [req EXCEPT ![p].at = "copy", ![p].todo = Tail(@)]
        BY <1>7, <3>1, <3>3, SweepDoes DEF Sweep, TypeOK
      <3> QED  BY <2>2, <3>2, <3>3
    <2> QED  BY <1>7, <2>1, <2>2 DEF Sweep
  <1>8. ASSUME NEW p \in Proc, NEW name \in Names, BeginDelete(p, name)
        PROVE  TypeOK'
    <2>1. requests' \in 0 .. MaxRequests
      BY <1>8, SkillsAssumption DEF BeginDelete, TypeOK, SkillsAssumption
    <2>2. /\ promised' \in [DOMAIN promised' -> Content]
          /\ DOMAIN promised' \subseteq DirName
      BY <1>8 DEF BeginDelete, TypeOK, Restrict
    <2> QED  BY <1>8, <2>1, <2>2, BeginDeleteDoes DEF BeginDelete, TypeOK
  <1>9. ASSUME NEW p \in Proc, Delete(p)
        PROVE  TypeOK'
    <2>1. CASE Half(This(p)) /\ UNCHANGED <<req, torn>>
      BY <1>9, <2>1, HalfDoes DEF Delete, TypeOK
    <2>2. CASE Gone(This(p)) /\ Finish(p)
      <3>1. disk' \in [Names' -> Entry] /\ Names' \subseteq SkillName /\ torn' \subseteq SkillName
        BY <2>2, GoneDoes DEF TypeOK
      <3> QED  BY <1>9, <2>2, <3>1, FinishDoes DEF Delete, TypeOK
    <2> QED  BY <1>9, <2>1, <2>2 DEF Delete
  <1>10. CASE Crash
    <2>1. /\ req' \in [Proc -> Handler]
          /\ \A q \in Proc : req'[q].at # "free" => req'[q].todo # <<>>
      BY <1>10, FreeType DEF Crash
    <2>2. torn' \subseteq SkillName
      BY <1>10 DEF Crash, TypeOK
    <2>3. displaced' \subseteq SkillName
      <3>1. \A q \in Proc : req[q].at = "place" => This(q) \in SkillName
        BY ThisType
      <3> QED  BY <1>10, <3>1 DEF Crash, TypeOK
    <2> QED  BY <1>10, <2>1, <2>2, <2>3 DEF Crash, TypeOK
  <1>11. CASE UNCHANGED vars
    BY <1>11 DEF vars, TypeOK
  <1> QED  BY <1>1, <1>2, <1>3, <1>4, <1>5, <1>6, <1>7, <1>8, <1>9, <1>10, <1>11 DEF Next

-----------------------------------------------------------------------------
(* One handler at a time holds the lock, and wants what may be installed   *)

LEMMA OneMoves ==
    ASSUME LockInv, TodoInv, NEW p \in Proc,
           \A q \in Proc \ {p} : req'[q] = req[q],
           Holding(p)' => Holding(p) \/ \A q \in Proc : ~Holding(q),
           req'[p].at # "delete" => Sound(req'[p].todo)
    PROVE  LockInv' /\ TodoInv'
  BY DEF LockInv, TodoInv, Holding

LEMMA SoundFree == Sound(Free.todo)
  BY FreeType DEF Sound

\* A handler that goes on as it is, or finishes.
LEMMA OneGoes ==
    ASSUME TypeOK, LockInv, TodoInv, NEW p \in Proc,
           \/ Finish(p)
           \/ /\ \E place \in Place \ {"delete"} : Goto(p, place)
              /\ req[p].at \notin {"free", "delete"}
              /\ Holding(p) \/ Unlocked
    PROVE  LockInv' /\ TodoInv'
  <1>1. CASE Finish(p)
    <2>1. req'[p] = Free /\ \A q \in Proc \ {p} : req'[q] = req[q]
      BY <1>1, FinishDoes
    <2> QED  BY <2>1, OneMoves, FreeType, SoundFree DEF Holding
  <1>2. CASE /\ \E place \in Place \ {"delete"} : Goto(p, place)
             /\ req[p].at \notin {"free", "delete"}
             /\ Holding(p) \/ Unlocked
    <2>1. PICK place \in Place \ {"delete"} : Goto(p, place)
      BY <1>2
    <2>2. req'[p].todo = req[p].todo /\ \A q \in Proc \ {p} : req'[q] = req[q]
      BY <1>2, <2>1, GotoDoes
    <2>3. Sound(req'[p].todo)
      BY <1>2, <2>2 DEF TodoInv
    <2> QED  BY <1>2, <2>2, <2>3, OneMoves DEF Unlocked
  <1> QED  BY <1>1, <1>2

LEMMA HolderStep ==
    ASSUME TypeOK, LockInv, TodoInv, [Next]_vars
    PROVE  LockInv' /\ TodoInv'
  <1>1. ASSUME NEW p \in Proc, NEW r \in Request, BeginInstall(p, r)
        PROVE  LockInv' /\ TodoInv'
    <2>1. /\ req'[p].at = "lock" /\ Sound(req'[p].todo)
          /\ \A q \in Proc \ {p} : req'[q] = req[q]
      BY <1>1, BeginInstallDoes
    <2> QED  BY <2>1, OneMoves DEF Holding
  <1>2. ASSUME NEW p \in Proc, Lock(p)
        PROVE  LockInv' /\ TodoInv'
    BY <1>2, OneGoes DEF Lock, Place
  <1>3. ASSUME NEW p \in Proc, Copy(p)
        PROVE  LockInv' /\ TodoInv'
    BY <1>3, OneGoes DEF Copy, Place, Holding
  <1>4. ASSUME NEW p \in Proc, Clear(p)
        PROVE  LockInv' /\ TodoInv'
    <2>1. CASE UNCHANGED req
      BY <2>1 DEF LockInv, TodoInv, Holding
    <2>2. CASE Finish(p)
      BY <2>2, OneGoes
    <2>3. CASE Goto(p, "aside") \/ Goto(p, "place")
      BY <1>4, <2>3, OneGoes DEF Clear, Place, Holding
    <2> QED  BY <1>4, <2>1, <2>2, <2>3 DEF Clear
  <1>5. ASSUME NEW p \in Proc, Aside(p)
        PROVE  LockInv' /\ TodoInv'
    BY <1>5, OneGoes DEF Aside, Place, Holding
  <1>6. ASSUME NEW p \in Proc, PlaceSkill(p)
        PROVE  LockInv' /\ TodoInv'
    <2>1. CASE Finish(p)
      BY <2>1, OneGoes
    <2>2. CASE req' = [req EXCEPT ![p].at = "sweep",
                                  ![p].done = @ \cup {Head(req[p].todo).name}]
      <3>1. req'[p].todo = req[p].todo /\ \A q \in Proc \ {p} : req'[q] = req[q]
        BY <2>2 DEF TypeOK, Handler
      <3>2. Sound(req'[p].todo) /\ Holding(p)
        BY <1>6, <3>1 DEF PlaceSkill, TodoInv, Holding
      <3> QED  BY <3>1, <3>2, OneMoves
    <2> QED  BY <1>6, <2>1, <2>2 DEF PlaceSkill
  <1>7. ASSUME NEW p \in Proc, Sweep(p)
        PROVE  LockInv' /\ TodoInv'
    <2>1. CASE UNCHANGED req
      BY <2>1 DEF LockInv, TodoInv, Holding
    <2>2. CASE Finish(p)
      BY <2>2, OneGoes
    <2>3. CASE /\ Len(req[p].todo) # 1
               /\ req' = [req EXCEPT ![p].at = "copy", ![p].todo = Tail(@)]
      <3>1. Sound(req'[p].todo) /\ \A q \in Proc \ {p} : req'[q] = req[q]
        BY <1>7, <2>3, SweepDoes DEF Sweep
      <3>2. Holding(p)
        BY <1>7 DEF Sweep, Holding
      <3> QED  BY <3>1, <3>2, OneMoves
    <2> QED  BY <1>7, <2>1, <2>2, <2>3 DEF Sweep
  <1>8. ASSUME NEW p \in Proc, NEW name \in Names, BeginDelete(p, name)
        PROVE  LockInv' /\ TodoInv'
    <2>1. /\ req'[p].at = "delete" /\ \A q \in Proc \ {p} : req'[q] = req[q]
          /\ \A q \in Proc : ~Holding(q)
      BY <1>8, BeginDeleteDoes
    <2> QED  BY <2>1, OneMoves
  <1>9. ASSUME NEW p \in Proc, Delete(p)
        PROVE  LockInv' /\ TodoInv'
    <2>1. CASE UNCHANGED req
      BY <2>1 DEF LockInv, TodoInv, Holding
    <2>2. CASE Finish(p)
      BY <2>2, OneGoes
    <2> QED  BY <1>9, <2>1, <2>2 DEF Delete
  <1>10. CASE Crash
    BY <1>10, FreeType, SoundFree DEF Crash, LockInv, TodoInv, Holding
  <1>11. CASE UNCHANGED vars
    BY <1>11 DEF vars, LockInv, TodoInv, Holding
  <1> QED  BY <1>1, <1>2, <1>3, <1>4, <1>5, <1>6, <1>7, <1>8, <1>9, <1>10, <1>11 DEF Next

-----------------------------------------------------------------------------
(* A request that may not replace has nothing to replace                   *)

\* While one handler changes the directory the others have no part in it.
LEMMA OthersReady ==
    ASSUME LockInv, ReadyInv, NEW p \in Proc,
           \A q \in Proc \ {p} : req'[q] = req[q],
           Holding(p) \/ UNCHANGED disk,
           Ready(p)'
    PROVE  ReadyInv'
  <1> SUFFICES ASSUME NEW q \in Proc, q # p
               PROVE  Ready(q)'
    BY DEF ReadyInv
  <1>1. req'[q] = req[q] /\ Ready(q)
    BY DEF ReadyInv
  <1>2. CASE Holding(p)
    <2>1. req'[q].at \in {"free", "lock"}
      BY <1>1, <1>2 DEF LockInv, Holding
    <2> QED  BY <2>1 DEF Ready
  <1>3. CASE UNCHANGED disk
    BY <1>1, <1>3 DEF Ready, This, Names
  <1> QED  BY <1>2, <1>3

LEMMA IdleReady ==
    ASSUME NEW p \in Proc, req'[p].at \in {"free", "lock", "delete"}
    PROVE  Ready(p)'
  BY DEF Ready

LEMMA FinishReady ==
    ASSUME TypeOK, LockInv, ReadyInv, NEW p \in Proc, Finish(p), Holding(p) \/ UNCHANGED disk
    PROVE  ReadyInv'
  <1>1. req'[p] = Free /\ \A q \in Proc \ {p} : req'[q] = req[q]
    BY FinishDoes
  <1> QED  BY <1>1, FreeType, IdleReady, OthersReady

LEMMA ReadyStep ==
    ASSUME TypeOK, LockInv, TodoInv, ReadyInv, RefusedInstallsNothing, [Next]_vars
    PROVE  ReadyInv' /\ RefusedInstallsNothing'
  <1> USE DEF RefusedInstallsNothing
  <1>1. ASSUME NEW p \in Proc, NEW r \in Request, BeginInstall(p, r)
        PROVE  ReadyInv' /\ RefusedInstallsNothing'
    <2>1. /\ req'[p].at = "lock" /\ \A q \in Proc \ {p} : req'[q] = req[q]
      BY <1>1, BeginInstallDoes
    <2>2. UNCHANGED <<disk, refusedAfter>>
      BY <1>1 DEF BeginInstall
    <2> QED  BY <2>1, <2>2, IdleReady, OthersReady
  <1>2. ASSUME NEW p \in Proc, Lock(p)
        PROVE  ReadyInv' /\ RefusedInstallsNothing'
    <2>1. UNCHANGED disk /\ RefusedInstallsNothing'
      BY <1>2 DEF Lock
    <2>2. CASE Finish(p)
      BY <2>1, <2>2, FinishReady
    <2>3. CASE /\ Goto(p, "copy")
               /\ req[p].replace \/ \A i \in DOMAIN req[p].todo : req[p].todo[i].name \notin Names
      <3>1. /\ req'[p].at = "copy" /\ req'[p].todo = req[p].todo
            /\ req'[p].replace = req[p].replace /\ \A q \in Proc \ {p} : req'[q] = req[q]
        BY <1>2, <2>3, GotoDoes DEF Lock, Place
      <3>2. Ready(p)'
        BY <2>1, <2>3, <3>1 DEF Ready, Names
      <3> QED  BY <2>1, <3>1, <3>2, OthersReady
    <2> QED  BY <1>2, <2>2, <2>3 DEF Lock
  <1>3. ASSUME NEW p \in Proc, Copy(p)
        PROVE  ReadyInv' /\ RefusedInstallsNothing'
    <2>1. UNCHANGED <<disk, refusedAfter>>
      BY <1>3 DEF Copy
    <2>2. CASE Finish(p)
      BY <2>1, <2>2, FinishReady
    <2>3. CASE Goto(p, "clear")
      <3>1. /\ req'[p].at = "clear" /\ req'[p].todo = req[p].todo
            /\ req'[p].replace = req[p].replace /\ \A q \in Proc \ {p} : req'[q] = req[q]
        BY <1>3, <2>3, GotoDoes DEF Copy, Place
      <3>2. Ready(p)'
        BY <1>3, <2>1, <3>1 DEF Ready, ReadyInv, Copy, Names
      <3> QED  BY <2>1, <3>1, <3>2, OthersReady
    <2> QED  BY <1>3, <2>2, <2>3 DEF Copy
  <1>4. ASSUME NEW p \in Proc, Clear(p)
        PROVE  ReadyInv' /\ RefusedInstallsNothing'
    <2> DEFINE backup == Backup(This(p))
    <2>0. Holding(p) /\ req[p].at = "clear" /\ Ready(p)
      BY <1>4 DEF Clear, Holding, ReadyInv
    <2>1. CASE Half(backup) /\ UNCHANGED <<req, refusedAfter>>
      <3>1. Names' = Names
        BY <2>1, HalfDoes
      <3>2. Ready(p)'
        BY <2>0, <2>1, <3>1 DEF Ready
      <3> QED  BY <2>0, <2>1, <3>2, OthersReady
    <2>2. ~(This(p) \in Names /\ ~req[p].replace)
      BY <2>0, ThisType DEF Ready
    <2>3. CASE /\ Goto(p, IF This(p) \in Names THEN "aside" ELSE "place")
               /\ Gone(backup) /\ UNCHANGED refusedAfter
      <3>1. Names' = Names \ {backup}
        BY <2>3, GoneDoes
      <3>2. This(p) \in DirName /\ backup # This(p)
        BY <2>0, ThisType, SkillsAssumption DEF SkillsAssumption
      <3>3. PICK place \in {"aside", "place"} :
                Goto(p, place) /\ (place = "aside" <=> This(p) \in Names)
        BY <2>3
      <3>4. /\ req'[p].at = place /\ req'[p].todo = req[p].todo
            /\ req'[p].replace = req[p].replace /\ \A q \in Proc \ {p} : req'[q] = req[q]
        BY <2>0, <3>3, GotoDoes DEF Place
      <3>5. req[p].replace \in BOOLEAN
        BY DEF TypeOK, Handler
      <3>6. CASE place = "aside"
        <4>1. req'[p].replace /\ This(p)' \in Names'
          BY <2>2, <3>1, <3>2, <3>3, <3>4, <3>5, <3>6 DEF This
        <4>2. Ready(p)'
          BY <3>4, <3>6, <4>1 DEF Ready
        <4> QED  BY <2>0, <2>3, <3>4, <4>2, OthersReady
      <3>7. CASE place = "place"
        <4>0. This(p)' \notin Names'
          BY <3>1, <3>3, <3>4, <3>7 DEF This
        <4>1. Ready(p)'
          BY <2>0, <3>1, <3>4, <3>7, <4>0 DEF Ready
        <4> QED  BY <2>0, <2>3, <3>4, <4>1, OthersReady
      <3> QED  BY <3>6, <3>7
    <2> QED  BY <1>4, <2>1, <2>2, <2>3 DEF Clear
  <1>5. ASSUME NEW p \in Proc, Aside(p)
        PROVE  ReadyInv' /\ RefusedInstallsNothing'
    <2>0. Holding(p) /\ req[p].at = "aside" /\ req[p].replace /\ UNCHANGED refusedAfter
      BY <1>5 DEF Aside, Holding, ReadyInv, Ready
    <2>1. CASE Finish(p)
      BY <2>0, <2>1, FinishReady
    <2>2. CASE Goto(p, "place") /\ disk' = Renamed(This(p), Backup(This(p)))
      <3>1. /\ req'[p].at = "place" /\ req'[p].replace = req[p].replace
            /\ This(p)' = This(p) /\ \A q \in Proc \ {p} : req'[q] = req[q]
        BY <2>0, <2>2, GotoDoes DEF Place, This
      <3>2. This(p) \in DirName /\ Backup(This(p)) # This(p)
        BY <2>0, ThisType, SkillsAssumption DEF SkillsAssumption
      <3>3. This(p) \notin Names'
        BY <2>2, <3>2 DEF Renamed, Names
      <3>4. Ready(p)'
        BY <2>0, <3>1, <3>3 DEF Ready
      <3> QED  BY <2>0, <3>1, <3>4, OthersReady
    <2> QED  BY <1>5, <2>1, <2>2 DEF Aside
  <1>6. ASSUME NEW p \in Proc, PlaceSkill(p)
        PROVE  ReadyInv' /\ RefusedInstallsNothing'
    <2> DEFINE item == Head(req[p].todo)
               name == item.name
    <2>0. /\ Holding(p) /\ req[p].at = "place" /\ Ready(p) /\ UNCHANGED refusedAfter
          /\ Sound(req[p].todo) /\ item = req[p].todo[1] /\ 1 \in DOMAIN req[p].todo
          /\ name \in SkillName /\ item.content \in Content
      BY <1>6, ThisType DEF PlaceSkill, Holding, ReadyInv, SkillName, This
    <2> HIDE DEF item
    <2>1. CASE Finish(p)
      BY <2>0, <2>1, FinishReady
    <2>2. CASE /\ disk' = With(name, item.content, TRUE)
               /\ req' = [req EXCEPT ![p].at = "sweep", ![p].done = @ \cup {name}]
      <3>1. /\ req'[p].at = "sweep" /\ req'[p].todo = req[p].todo
            /\ req'[p].replace = req[p].replace /\ \A q \in Proc \ {p} : req'[q] = req[q]
        BY <2>2 DEF TypeOK, Handler
      <3>2. Names' = Names \cup {name}
        BY <2>0, <2>2, WithDoes
      <3>3. \A i \in (DOMAIN req[p].todo) \ {1} : req[p].todo[i].name # name
        BY <2>0 DEF Sound
      <3>4. Ready(p)'
        BY <2>0, <3>1, <3>2, <3>3 DEF Ready
      <3> QED  BY <2>0, <3>1, <3>4, OthersReady
    <2> QED  BY <1>6, <2>1, <2>2 DEF PlaceSkill, item
  <1>7. ASSUME NEW p \in Proc, Sweep(p)
        PROVE  ReadyInv' /\ RefusedInstallsNothing'
    <2> DEFINE backup == Backup(This(p))
    <2>0. Holding(p) /\ req[p].at = "sweep" /\ Ready(p) /\ UNCHANGED refusedAfter
      BY <1>7 DEF Sweep, Holding, ReadyInv
    <2>1. CASE Half(backup) /\ UNCHANGED req
      <3>1. Names' = Names
        BY <2>1, HalfDoes
      <3>2. Ready(p)'
        BY <2>0, <2>1, <3>1 DEF Ready
      <3> QED  BY <2>0, <2>1, <3>2, OthersReady
    <2>2. CASE Gone(backup) /\ Finish(p)
      BY <2>0, <2>2, FinishReady
    <2>3. CASE /\ Gone(backup) /\ Len(req[p].todo) # 1
               /\ req' = [req EXCEPT ![p].at = "copy", ![p].todo = Tail(@)]
      <3>1. Names' = Names \ {backup}
        BY <2>3, GoneDoes
      <3>2. /\ req'[p].at = "copy" /\ req'[p].replace = req[p].replace
            /\ \A i \in DOMAIN req'[p].todo :
                  /\ i + 1 \in (DOMAIN req[p].todo) \ {1}
                  /\ req'[p].todo[i] = req[p].todo[i + 1]
            /\ \A q \in Proc \ {p} : req'[q] = req[q]
        BY <2>0, <2>3, SweepDoes
      <3>3. Ready(p)'
        BY <2>0, <3>1, <3>2 DEF Ready
      <3> QED  BY <2>0, <3>2, <3>3, OthersReady
    <2> QED  BY <1>7, <2>1, <2>2, <2>3 DEF Sweep
  <1>8. ASSUME NEW p \in Proc, NEW name \in Names, BeginDelete(p, name)
        PROVE  ReadyInv' /\ RefusedInstallsNothing'
    <2>1. req'[p].at = "delete" /\ \A q \in Proc \ {p} : req'[q] = req[q]
      BY <1>8, BeginDeleteDoes
    <2>2. UNCHANGED <<disk, refusedAfter>>
      BY <1>8 DEF BeginDelete
    <2> QED  BY <2>1, <2>2, IdleReady, OthersReady
  <1>9. ASSUME NEW p \in Proc, Delete(p)
        PROVE  ReadyInv' /\ RefusedInstallsNothing'
    <2>0. Holding(p) /\ req[p].at = "delete" /\ UNCHANGED refusedAfter
      BY <1>9 DEF Delete, Holding
    <2>1. CASE UNCHANGED req
      BY <2>0, <2>1, IdleReady, OthersReady
    <2>2. CASE Finish(p)
      BY <2>0, <2>2, FinishReady
    <2> QED  BY <1>9, <2>1, <2>2 DEF Delete
  <1>10. CASE Crash
    BY <1>10, FreeType DEF Crash, ReadyInv, Ready
  <1>11. CASE UNCHANGED vars
    BY <1>11 DEF vars, ReadyInv, Ready, This, Names
  <1> QED  BY <1>1, <1>2, <1>3, <1>4, <1>5, <1>6, <1>7, <1>8, <1>9, <1>10, <1>11 DEF Next

-----------------------------------------------------------------------------
(* Skills have names they can be deleted by                                *)

LEMMA NameOthers ==
    ASSUME NameInv, UNCHANGED promised,
           \A q \in Proc : req'[q].at = "delete" => req'[q] = req[q]
    PROVE  NameInv'
  BY DEF NameInv, This

LEMMA NameStep ==
    ASSUME TypeOK, LockInv, TodoInv, NameInv, [Next]_vars
    PROVE  NameInv'
  <1>1. ASSUME NEW p \in Proc, NEW r \in Request, BeginInstall(p, r)
        PROVE  NameInv'
    <2>1. req'[p].at = "lock" /\ \A q \in Proc \ {p} : req'[q] = req[q]
      BY <1>1, BeginInstallDoes
    <2> QED  BY <1>1, <2>1, NameOthers DEF BeginInstall
  <1>2. ASSUME NEW p \in Proc, UNCHANGED promised,
               \/ UNCHANGED req
               \/ Finish(p)
               \/ /\ req[p].at # "free"
                  /\ \E place \in Place \ {"delete"} : Goto(p, place)
        PROVE  NameInv'
    <2>1. CASE UNCHANGED req
      BY <1>2, <2>1, NameOthers
    <2>2. CASE Finish(p)
      BY <1>2, <2>2, FinishDoes, FreeType, NameOthers
    <2>3. CASE /\ req[p].at # "free"
               /\ \E place \in Place \ {"delete"} : Goto(p, place)
      BY <1>2, <2>3, GotoDoes, NameOthers
    <2> QED  BY <1>2, <2>1, <2>2, <2>3
  <1>3. ASSUME NEW p \in Proc, Lock(p) \/ Copy(p) \/ Aside(p) \/ Delete(p)
        PROVE  NameInv'
    BY <1>2, <1>3 DEF Lock, Copy, Aside, Delete, Place
  <1>4. ASSUME NEW p \in Proc, Clear(p)
        PROVE  NameInv'
    <2>1. CASE Goto(p, "aside") \/ Goto(p, "place")
      BY <1>2, <1>4, <2>1 DEF Clear, Place
    <2>2. CASE UNCHANGED req \/ Finish(p)
      BY <1>2, <1>4, <2>2 DEF Clear
    <2> QED  BY <1>4, <2>1, <2>2 DEF Clear
  <1>5. ASSUME NEW p \in Proc, PlaceSkill(p)
        PROVE  NameInv'
    <2> DEFINE item == Head(req[p].todo)
               name == item.name
    <2>0. /\ Holding(p) /\ name \in DirName /\ InstallName(name) /\ item.content \in Content
      BY <1>5, ThisType DEF PlaceSkill, Holding, This
    <2> HIDE DEF item
    <2>1. CASE Finish(p) /\ UNCHANGED promised
      BY <1>2, <2>1
    <2>2. CASE /\ req' = [req EXCEPT ![p].at = "sweep", ![p].done = @ \cup {name}]
               /\ promised' = Keeps(name, item.content)
      <3>1. DOMAIN promised' = (DOMAIN promised) \cup {name}
        BY <2>0, <2>2, KeepsDoes
      <3>2. \A q \in Proc : req'[q].at # "delete"
        BY <2>0, <2>2 DEF TypeOK, Handler, LockInv, Holding
      <3> QED  BY <2>0, <3>1, <3>2 DEF NameInv
    <2> QED  BY <1>5, <2>1, <2>2 DEF PlaceSkill, item
  <1>6. ASSUME NEW p \in Proc, Sweep(p)
        PROVE  NameInv'
    <2>1. CASE UNCHANGED req \/ Finish(p)
      BY <1>2, <1>6, <2>1 DEF Sweep
    <2>2. CASE /\ Len(req[p].todo) # 1
               /\ req' = [req EXCEPT ![p].at = "copy", ![p].todo = Tail(@)]
      <3>1. req'[p].at = "copy" /\ \A q \in Proc \ {p} : req'[q] = req[q]
        BY <1>6, <2>2, SweepDoes DEF Sweep
      <3> QED  BY <1>6, <3>1, NameOthers DEF Sweep
    <2> QED  BY <1>6, <2>1, <2>2 DEF Sweep
  <1>7. ASSUME NEW p \in Proc, NEW name \in Names, BeginDelete(p, name)
        PROVE  NameInv'
    <2>1. /\ This(p)' = name /\ \A q \in Proc \ {p} : req'[q] = req[q]
          /\ \A q \in Proc : ~Holding(q)
      BY <1>7, BeginDeleteDoes
    <2>2. DOMAIN promised' = (DOMAIN promised) \ {name}
      BY <1>7 DEF BeginDelete, Restrict
    <2>3. \A q \in Proc \ {p} : req'[q].at # "delete"
      BY <2>1 DEF Holding
    <2> QED  BY <2>1, <2>2, <2>3 DEF NameInv
  <1>8. CASE Crash
    BY <1>8, FreeType DEF Crash, NameInv
  <1>9. CASE UNCHANGED vars
    BY <1>9, NameOthers DEF vars
  <1> QED  BY <1>1, <1>3, <1>4, <1>5, <1>6, <1>7, <1>8, <1>9 DEF Next

-----------------------------------------------------------------------------
(* Installed skills are kept                                               *)

LEMMA NotAside ==
    ASSUME LockInv, NEW p \in Proc, Holding(p), req[p].at # "place"
    PROVE  \A n : ~SetAside(n)
  BY DEF LockInv, Holding, SetAside

\* The directory stays as it is.
LEMMA KeptSame ==
    ASSUME KeptInv, UNCHANGED <<disk, promised, displaced>>,
           \A q \in Proc : req[q].at = "place" => req'[q] = req[q]
    PROVE  KeptInv'
  <1> SUFFICES ASSUME NEW n \in DOMAIN promised
               PROVE  (n \in displaced \/ IsBackup(n) \/ Kept(n) \/ SetAside(n))'
    BY DEF KeptInv
  <1>1. Kept(n) => Kept(n)'
    BY DEF Kept, Names
  <1>2. SetAside(n) => SetAside(n)'
    BY DEF SetAside, This, Names
  <1> QED  BY <1>1, <1>2 DEF KeptInv, IsBackup

\* One name changes that nobody was promised.
LEMMA KeptBut ==
    ASSUME LockInv, KeptInv, UNCHANGED <<promised, displaced>>,
           NEW p \in Proc, Holding(p), req[p].at # "place",
           NEW name, IsBackup(name) \/ name \notin DOMAIN promised,
           \A n \in Names \ {name} : n \in Names' /\ disk'[n] = disk[n]
    PROVE  KeptInv'
  <1> SUFFICES ASSUME NEW n \in DOMAIN promised
               PROVE  (n \in displaced \/ IsBackup(n) \/ Kept(n) \/ SetAside(n))'
    BY DEF KeptInv
  <1>1. ~SetAside(n)
    BY NotAside
  <1>2. n # name /\ Kept(n) => Kept(n)'
    BY DEF Kept
  <1> QED  BY <1>1, <1>2 DEF KeptInv, IsBackup

LEMMA BackupIs ==
    ASSUME NEW name \in DirName, InstallName(name)
    PROVE  IsBackup(Backup(name))
  BY DEF IsBackup, DirName

LEMMA KeptStep ==
    ASSUME TypeOK, LockInv, TodoInv, ReadyInv, NameInv, KeptInv, [Next]_vars
    PROVE  KeptInv'
  <1>1. ASSUME NEW p \in Proc, NEW r \in Request, BeginInstall(p, r)
        PROVE  KeptInv'
    <2>1. req[p].at = "free" /\ \A q \in Proc \ {p} : req'[q] = req[q]
      BY <1>1, BeginInstallDoes
    <2> QED  BY <1>1, <2>1, KeptSame DEF BeginInstall
  <1>2. ASSUME NEW p \in Proc, Lock(p) \/ Copy(p)
        PROVE  KeptInv'
    <2>1. req[p].at # "place" /\ UNCHANGED <<disk, promised, displaced>>
      BY <1>2 DEF Lock, Copy
    <2>2. \A q \in Proc \ {p} : req'[q] = req[q]
      BY <1>2 DEF Lock, Copy, Goto, Finish, TypeOK
    <2> QED  BY <2>1, <2>2, KeptSame
  <1>3. ASSUME NEW p \in Proc, Clear(p) \/ Sweep(p)
        PROVE  KeptInv'
    <2> DEFINE backup == Backup(This(p))
    <2>1. Holding(p) /\ req[p].at \in {"clear", "sweep"} /\ UNCHANGED <<promised, displaced>>
      BY <1>3 DEF Clear, Sweep, Holding
    <2>2. IsBackup(backup)
      BY <2>1, ThisType, BackupIs
    <2>3. Half(backup) \/ Gone(backup) \/ UNCHANGED disk
      BY <1>3 DEF Clear, Sweep
    <2>4. \A n \in Names \ {backup} : n \in Names' /\ disk'[n] = disk[n]
      BY <2>3, HalfDoes, GoneDoes DEF Names
    <2> QED  BY <2>1, <2>2, <2>4, KeptBut
  <1>4. ASSUME NEW p \in Proc, Aside(p)
        PROVE  KeptInv'
    <2> DEFINE name == This(p)
               backup == Backup(This(p))
    <2>1. /\ Holding(p) /\ req[p].at = "aside" /\ UNCHANGED <<promised, displaced>>
          /\ name \in DirName /\ backup \in SkillName /\ IsBackup(backup)
      BY <1>4, ThisType, BackupIs DEF Aside, Holding, SkillName
    <2>2. CASE Finish(p) /\ UNCHANGED disk
      BY <2>1, <2>2, FinishDoes, KeptSame
    <2>3. CASE disk' = Renamed(name, backup) /\ Goto(p, "place")
      <3> SUFFICES ASSUME NEW n \in DOMAIN promised
                   PROVE  (n \in displaced \/ IsBackup(n) \/ Kept(n) \/ SetAside(n))'
        BY <2>1 DEF KeptInv
      <3>1. ~SetAside(n)
        BY <2>1, NotAside
      <3>2. CASE n \in displaced \/ IsBackup(n)
        BY <2>1, <3>2 DEF IsBackup
      <3>3. CASE Kept(n) /\ ~IsBackup(n)
        <4>1. n \in Names /\ n # backup /\ disk[n].content = promised[n] /\ disk[n].whole
          BY <2>1, <3>3 DEF Kept
        <4>2. CASE n = name
          <5>1. disk'[backup] = disk[n] /\ backup \in Names'
            BY <2>1, <2>3, <4>1, <4>2, RenamedDoes
          <5>2. disk[n] = [content |-> promised[n], whole |-> TRUE]
            BY <4>1 DEF TypeOK, Entry
          <5>3. req'[p].at = "place" /\ This(p)' = name
            BY <2>1, <2>3, GotoDoes DEF Place, This
          <5>4. SetAside(n)'
            BY <2>1, <4>2, <5>1, <5>2, <5>3 DEF SetAside
          <5> QED  BY <5>4
        <4>3. CASE n # name
          <5>1. name \in Names \/ (n \in Names' /\ disk'[n] = disk[n])
            BY <2>3, <4>1, <4>3 DEF Renamed, Names
          <5>2. n \in Names' /\ disk'[n] = disk[n]
            BY <2>1, <2>3, <4>1, <4>3, <5>1, RenamedDoes
          <5>3. Kept(n)'
            BY <2>1, <4>1, <5>2 DEF Kept
          <5> QED  BY <5>3
        <4> QED  BY <4>2, <4>3
      <3> QED  BY <3>1, <3>2, <3>3 DEF KeptInv
    <2> QED  BY <1>4, <2>2, <2>3 DEF Aside
  <1>5. ASSUME NEW p \in Proc, PlaceSkill(p)
        PROVE  KeptInv'
    <2> DEFINE item == Head(req[p].todo)
               name == item.name
               backup == Backup(name)
    <2>1. /\ Holding(p) /\ req[p].at = "place" /\ name = This(p)
          /\ name \in DirName /\ name \in SkillName /\ backup \in SkillName
          /\ item.content \in Content /\ IsBackup(backup)
      BY <1>5, ThisType, BackupIs DEF PlaceSkill, Holding, SkillName, This
    <2> HIDE DEF item
    <2>2. \A n : SetAside(n) =>
              /\ n = name /\ backup \in Names
              /\ disk[backup] = [content |-> promised[name], whole |-> TRUE]
      BY <2>1 DEF SetAside, LockInv, Holding
    <2>3. CASE /\ disk' = With(name, item.content, TRUE)
               /\ promised' = Keeps(name, item.content)
               /\ displaced' = displaced \ {name}
      <3>1. /\ Names' = Names \cup {name}
            /\ disk'[name] = [content |-> item.content, whole |-> TRUE]
            /\ \A n \in Names \ {name} : disk'[n] = disk[n]
        BY <2>1, <2>3, WithDoes
      <3>2. /\ DOMAIN promised' = (DOMAIN promised) \cup {name}
            /\ promised'[name] = item.content
            /\ \A n \in (DOMAIN promised) \ {name} : promised'[n] = promised[n]
        BY <2>1, <2>3, KeepsDoes
      <3> SUFFICES ASSUME NEW n \in DOMAIN promised'
                   PROVE  (n \in displaced \/ IsBackup(n) \/ Kept(n) \/ SetAside(n))'
        BY DEF KeptInv
      <3>3. CASE n = name
        BY <3>1, <3>2, <3>3 DEF Kept
      <3>4. CASE n # name
        <4>1. n \in DOMAIN promised /\ ~SetAside(n)
          BY <2>2, <3>2, <3>4
        <4>2. Kept(n) => Kept(n)'
          BY <3>1, <3>2, <3>4, <4>1 DEF Kept
        <4> QED  BY <2>3, <3>4, <4>1, <4>2 DEF KeptInv, IsBackup
      <3> QED  BY <3>3, <3>4
    <2>4. CASE PutBack(name) /\ UNCHANGED promised
      <3> SUFFICES ASSUME NEW n \in DOMAIN promised
                   PROVE  (n \in displaced \/ IsBackup(n) \/ Kept(n) \/ SetAside(n))'
        BY <2>4 DEF KeptInv
      <3>1. CASE backup \notin Names
        <4>1. UNCHANGED <<disk, displaced>> /\ ~SetAside(n)
          BY <2>2, <2>4, <3>1 DEF PutBack
        <4>2. Kept(n) => Kept(n)'
          BY <2>4, <4>1 DEF Kept, Names
        <4> QED  BY <4>1, <4>2 DEF KeptInv, IsBackup
      <3>2. CASE backup \in Names /\ disk' = Renamed(backup, name) /\ UNCHANGED displaced
        <4>1. /\ Names' = (Names \ {backup}) \cup {name} /\ disk'[name] = disk[backup]
              /\ \A m \in Names \ {backup, name} : disk'[m] = disk[m]
          BY <2>1, <3>2, RenamedDoes
        <4>2. CASE SetAside(n)
          <5>1. n = name /\ disk'[name] = [content |-> promised[name], whole |-> TRUE]
            BY <2>2, <4>1, <4>2
          <5>2. Kept(n)'
            BY <2>4, <4>1, <5>1 DEF Kept
          <5> QED  BY <5>2
        <4>3. CASE ~SetAside(n) /\ n # name /\ ~IsBackup(n)
          <5>1. n # backup
            BY <2>1, <4>3
          <5>2. Kept(n) => Kept(n)'
            BY <2>4, <4>1, <4>3, <5>1 DEF Kept
          <5> QED  BY <3>2, <4>3, <5>2 DEF KeptInv
        <4>4. ~Kept(name)
          BY <2>1 DEF ReadyInv, Ready, Kept
        <4> QED  BY <3>2, <4>2, <4>3, <4>4 DEF KeptInv, IsBackup
      <3>3. CASE displaced' = displaced \cup {name} /\ UNCHANGED disk
        <4>1. Kept(n) => Kept(n)'
          BY <2>4, <3>3 DEF Kept, Names
        <4> QED  BY <2>2, <3>3, <4>1 DEF KeptInv, IsBackup
      <3> QED  BY <2>4, <3>1, <3>2, <3>3 DEF PutBack
    <2> QED  BY <1>5, <2>3, <2>4 DEF PlaceSkill, item
  <1>6. ASSUME NEW p \in Proc, NEW name \in Names, BeginDelete(p, name)
        PROVE  KeptInv'
    <2>1. /\ \A q \in Proc : ~Holding(q)
          /\ DOMAIN promised' = (DOMAIN promised) \ {name} /\ disk' = disk
          /\ \A n \in DOMAIN promised' : promised'[n] = promised[n]
          /\ displaced' = displaced \ {name}
      BY <1>6, BeginDeleteDoes DEF BeginDelete, Restrict
    <2> SUFFICES ASSUME NEW n \in DOMAIN promised'
                 PROVE  (n \in displaced \/ IsBackup(n) \/ Kept(n) \/ SetAside(n))'
      BY DEF KeptInv
    <2>2. ~SetAside(n)
      BY <2>1 DEF SetAside, Holding
    <2>3. n \in DOMAIN promised /\ n # name /\ (Kept(n) => Kept(n)')
      BY <2>1 DEF Kept, Names
    <2> QED  BY <2>1, <2>2, <2>3 DEF KeptInv, IsBackup
  <1>7. ASSUME NEW p \in Proc, Delete(p)
        PROVE  KeptInv'
    <2>1. /\ Holding(p) /\ req[p].at = "delete" /\ UNCHANGED <<promised, displaced>>
          /\ This(p) \notin DOMAIN promised /\ (Half(This(p)) \/ Gone(This(p)))
      BY <1>7 DEF Delete, Holding, NameInv
    <2>2. \A n \in Names \ {This(p)} : n \in Names' /\ disk'[n] = disk[n]
      BY <2>1, HalfDoes, GoneDoes
    <2> QED  BY <2>1, <2>2, KeptBut
  <1>8. CASE Crash
    <2> SUFFICES ASSUME NEW n \in DOMAIN promised
                 PROVE  (n \in displaced \/ IsBackup(n) \/ Kept(n) \/ SetAside(n))'
      BY <1>8 DEF Crash, KeptInv
    <2>1. Kept(n) => Kept(n)'
      BY <1>8 DEF Crash, Kept, Names
    <2>2. SetAside(n) => n \in displaced'
      BY <1>8 DEF Crash, SetAside
    <2>3. n \in displaced => n \in displaced'
      BY <1>8 DEF Crash
    <2> QED  BY <2>1, <2>2, <2>3 DEF KeptInv, IsBackup
  <1>9. CASE UNCHANGED vars
    BY <1>9, KeptSame DEF vars
  <1> QED  BY <1>1, <1>2, <1>3, <1>4, <1>5, <1>6, <1>7, <1>8, <1>9 DEF Next

-----------------------------------------------------------------------------
(* What is listed is whole                                                 *)

\* The handler is removing the name.
Removes(p, n) ==
    \/ req[p].at = "delete" /\ n = This(p)
    \/ req[p].at \in {"clear", "sweep"} /\ n = Backup(This(p))

LEMMA HolderRemoves ==
    ASSUME LockInv, ListedIsWhole, NEW p \in Proc, Holding(p),
           NEW n \in Names, ~disk[n].whole, n \notin torn
    PROVE  Removes(p, n)
  BY DEF LockInv, ListedIsWhole, Holding, Removes

LEMMA WholeSame ==
    ASSUME ListedIsWhole, UNCHANGED <<disk, torn>>,
           \A q \in Proc : req[q].at \in {"delete", "clear", "sweep"} => req'[q] = req[q]
    PROVE  ListedIsWhole'
  <1> SUFFICES ASSUME NEW n \in Names, ~disk[n].whole, n \notin torn
               PROVE  \E p \in Proc : Removes(p, n)'
    BY DEF ListedIsWhole, Names, Removes
  <1>1. PICK p \in Proc : Removes(p, n)
    BY DEF ListedIsWhole, Removes
  <1> QED  BY <1>1 DEF Removes, This

\* Half of what a handler removes is gone.
LEMMA WholeHalf ==
    ASSUME TypeOK, LockInv, ListedIsWhole, UNCHANGED <<req, torn>>,
           NEW p \in Proc, NEW name, Half(name), Removes(p, name)
    PROVE  ListedIsWhole'
  <1> SUFFICES ASSUME NEW n \in Names', ~disk'[n].whole, n \notin torn'
               PROVE  \E q \in Proc : Removes(q, n)'
    BY DEF ListedIsWhole, Removes
  <1>1. CASE n = name
    BY <1>1 DEF Removes, This
  <1>2. CASE n # name
    <2>1. n \in Names /\ ~disk[n].whole /\ n \notin torn
      BY <1>2, HalfDoes
    <2>2. PICK q \in Proc : Removes(q, n)
      BY <2>1 DEF ListedIsWhole, Removes
    <2> QED  BY <2>2 DEF Removes, This
  <1> QED  BY <1>1, <1>2

\* All of what a handler removes is gone.
LEMMA WholeGone ==
    ASSUME TypeOK, LockInv, ListedIsWhole, NEW p \in Proc, NEW name, Gone(name),
           \A n : Removes(p, n) => n = name, Holding(p)
    PROVE  ListedIsWhole'
  <1> SUFFICES ASSUME NEW n \in Names'
               PROVE  disk'[n].whole \/ n \in torn'
    BY DEF ListedIsWhole
  <1>1. n \in Names /\ n # name /\ disk'[n] = disk[n]
    BY GoneDoes
  <1>2. disk[n].whole \/ n \in torn
    BY <1>1, HolderRemoves
  <1> QED  BY <1>1, <1>2, GoneDoes

\* A directory that is whole, or torn, moves to another name.
LEMMA WholeRenamed ==
    ASSUME TypeOK, LockInv, ListedIsWhole, NEW p \in Proc, Holding(p),
           req[p].at \in {"aside", "place"},
           NEW from \in Names, NEW to \in SkillName, disk' = Renamed(from, to),
           torn' = IF from \in torn THEN (torn \ {from}) \cup {to} ELSE torn
    PROVE  ListedIsWhole'
  <1> SUFFICES ASSUME NEW n \in Names'
               PROVE  disk'[n].whole \/ n \in torn'
    BY DEF ListedIsWhole
  <1>1. \A m \in Names : disk[m].whole \/ m \in torn
    BY HolderRemoves DEF Removes
  <1>2. CASE n = to
    BY <1>1, <1>2, RenamedDoes
  <1>3. CASE n # to
    <2>1. (n \in Names /\ disk'[n] = disk[n] /\ n # from) \/ n = from
      BY <1>3, RenamedDoes
    <2>2. n # from
      BY <1>3, RenamedDoes
    <2> QED  BY <1>1, <2>1, <2>2
  <1> QED  BY <1>2, <1>3

LEMMA WholeStep ==
    ASSUME TypeOK, LockInv, TodoInv, ReadyInv, ListedIsWhole, [Next]_vars
    PROVE  ListedIsWhole'
  <1>1. ASSUME NEW p \in Proc, NEW r \in Request, BeginInstall(p, r)
        PROVE  ListedIsWhole'
    <2>1. req[p].at = "free" /\ \A q \in Proc \ {p} : req'[q] = req[q]
      BY <1>1, BeginInstallDoes
    <2> QED  BY <1>1, <2>1, WholeSame DEF BeginInstall
  <1>2. ASSUME NEW p \in Proc, Lock(p) \/ Copy(p)
        PROVE  ListedIsWhole'
    <2>1. req[p].at \in {"lock", "copy"} /\ UNCHANGED <<disk, torn>>
      BY <1>2 DEF Lock, Copy
    <2>2. \A q \in Proc \ {p} : req'[q] = req[q]
      BY <1>2 DEF Lock, Copy, Goto, Finish, TypeOK
    <2> QED  BY <2>1, <2>2, WholeSame
  <1>3. ASSUME NEW p \in Proc, Clear(p) \/ Sweep(p)
        PROVE  ListedIsWhole'
    <2> DEFINE backup == Backup(This(p))
    <2>1. Holding(p) /\ req[p].at \in {"clear", "sweep"} /\ Removes(p, backup)
          /\ \A n : Removes(p, n) => n = backup
      BY <1>3 DEF Clear, Sweep, Holding, Removes
    <2>2. CASE Half(backup) /\ UNCHANGED <<req, torn>>
      BY <2>1, <2>2, WholeHalf
    <2>3. CASE Gone(backup)
      BY <2>1, <2>3, WholeGone
    <2>4. ~(req[p].at = "clear" /\ This(p) \in Names /\ ~req[p].replace)
      BY <2>1, ThisType DEF ReadyInv, Ready
    <2> QED  BY <1>3, <2>2, <2>3, <2>4 DEF Clear, Sweep
  <1>4. ASSUME NEW p \in Proc, Aside(p)
        PROVE  ListedIsWhole'
    <2> DEFINE name == This(p)
               backup == Backup(This(p))
    <2>1. Holding(p) /\ req[p].at = "aside" /\ backup \in SkillName /\ name \in Names
      BY <1>4, ThisType DEF Aside, Holding, SkillName, ReadyInv, Ready
    <2>2. CASE /\ disk' = Renamed(name, backup)
               /\ torn' = IF name \in torn THEN (torn \ {name}) \cup {backup} ELSE torn
      BY <2>1, <2>2, WholeRenamed
    <2>3. CASE Finish(p) /\ UNCHANGED <<disk, torn>>
      BY <2>1, <2>3, FinishDoes, WholeSame
    <2> QED  BY <1>4, <2>2, <2>3 DEF Aside
  <1>5. ASSUME NEW p \in Proc, PlaceSkill(p)
        PROVE  ListedIsWhole'
    <2> DEFINE item == Head(req[p].todo)
               name == item.name
               backup == Backup(name)
    <2>1. /\ Holding(p) /\ req[p].at = "place" /\ name = This(p)
          /\ name \in SkillName /\ item.content \in Content
      BY <1>5, ThisType DEF PlaceSkill, Holding, SkillName, This
    <2> HIDE DEF item
    <2>2. CASE disk' = With(name, item.content, TRUE) /\ UNCHANGED torn
      <3>0. /\ Names' = Names \cup {name}
            /\ disk'[name] = [content |-> item.content, whole |-> TRUE]
            /\ \A n \in Names \ {name} : disk'[n] = disk[n]
        BY <2>1, <2>2, WithDoes
      <3> SUFFICES ASSUME NEW n \in Names'
                   PROVE  disk'[n].whole \/ n \in torn'
        BY DEF ListedIsWhole
      <3>1. \A m \in Names : disk[m].whole \/ m \in torn
        BY <2>1, HolderRemoves DEF Removes
      <3>2. CASE n = name
        BY <3>0, <3>2
      <3>3. CASE n # name
        BY <2>2, <3>0, <3>1, <3>3
      <3> QED  BY <3>2, <3>3
    <2>3. CASE PutBack(name) /\ Finish(p)
      <3>1. CASE UNCHANGED <<disk, torn>>
        BY <2>1, <2>3, <3>1, FinishDoes, WholeSame
      <3>2. CASE /\ backup \in Names /\ disk' = Renamed(backup, name)
                 /\ torn' = IF backup \in torn THEN (torn \ {backup}) \cup {name} ELSE torn
        BY <2>1, <3>2, WholeRenamed
      <3> QED  BY <2>3, <3>1, <3>2 DEF PutBack
    <2> QED  BY <1>5, <2>2, <2>3 DEF PlaceSkill, item
  <1>6. ASSUME NEW p \in Proc, NEW name \in Names, BeginDelete(p, name)
        PROVE  ListedIsWhole'
    <2>1. req[p].at = "free" /\ \A q \in Proc \ {p} : req'[q] = req[q]
      BY <1>6, BeginDeleteDoes
    <2> QED  BY <1>6, <2>1, WholeSame DEF BeginDelete
  <1>7. ASSUME NEW p \in Proc, Delete(p)
        PROVE  ListedIsWhole'
    <2>1. Holding(p) /\ req[p].at = "delete" /\ Removes(p, This(p))
          /\ \A n : Removes(p, n) => n = This(p)
      BY <1>7 DEF Delete, Holding, Removes
    <2>2. CASE Half(This(p)) /\ UNCHANGED <<req, torn>>
      BY <2>1, <2>2, WholeHalf
    <2>3. CASE Gone(This(p))
      BY <2>1, <2>3, WholeGone
    <2> QED  BY <1>7, <2>2, <2>3 DEF Delete
  <1>8. CASE Crash
    BY <1>8 DEF Crash, ListedIsWhole, Names
  <1>9. CASE UNCHANGED vars
    BY <1>9, WholeSame DEF vars
  <1> QED  BY <1>1, <1>2, <1>3, <1>4, <1>5, <1>6, <1>7, <1>8, <1>9 DEF Next

-----------------------------------------------------------------------------
(* The theorems                                                            *)

LEMMA InitIInv == Init => IInv
  <1> SUFFICES ASSUME Init
               PROVE  IInv
    OBVIOUS
  <1>1. \A p \in Proc : req[p] = Free
    BY DEF Init
  <1>2. DOMAIN disk = {} /\ DOMAIN promised = {}
    BY DEF Init
  <1>3. LockInv /\ TodoInv /\ ReadyInv
    BY <1>1, FreeType, SoundFree DEF LockInv, Holding, TodoInv, ReadyInv, Ready
  <1>4. NameInv /\ KeptInv /\ ListedIsWhole /\ RefusedInstallsNothing
    BY <1>2 DEF Init, NameInv, KeptInv, ListedIsWhole, RefusedInstallsNothing, Names
  <1> QED  BY <1>3, <1>4, TypeInit DEF IInv

LEMMA NextIInv == IInv /\ [Next]_vars => IInv'
  <1> SUFFICES ASSUME IInv, [Next]_vars
               PROVE  IInv'
    OBVIOUS
  <1> QED  BY TypeStep, HolderStep, ReadyStep, NameStep, KeptStep, WholeStep DEF IInv

LEMMA AlwaysIInv == Spec => []IInv
  BY InitIInv, NextIInv, PTL DEF Spec

\* Every variable keeps its type, for every set of requests and handlers.
THEOREM SkillsTypes == Spec => []TypeOK
  <1>1. IInv => TypeOK
    BY DEF IInv
  <1> QED  BY <1>1, AlwaysIInv, PTL

\* An installed skill stays until it is deleted or replaced by its own name,
\* whatever fails on the way (finalizeSkillInstall and its two renames).
THEOREM SkillsKept == Spec => []InstalledIsKept
  <1>1. IInv => InstalledIsKept
    <2> SUFFICES ASSUME IInv, NEW n \in DOMAIN promised, SetAside(n)
                 PROVE  /\ ~Unlocked
                        /\ Backup(n) \in Names
                        /\ disk[Backup(n)] = [content |-> promised[n], whole |-> TRUE]
      BY DEF IInv, KeptInv, InstalledIsKept
    <2> QED  BY DEF SetAside, Unlocked, Holding
  <1> QED  BY <1>1, AlwaysIInv, PTL

\* GET /v1/skills never shows half a skill that nobody is removing and no
\* crash has left.
THEOREM SkillsWhole == Spec => []ListedIsWhole
  <1>1. IInv => ListedIsWhole
    BY DEF IInv
  <1> QED  BY <1>1, AlwaysIInv, PTL

\* The second look at a name, after the copy, never finds what the first one
\* did not: a 409 comes before anything is installed.
THEOREM SkillsRefused == Spec => []RefusedInstallsNothing
  <1>1. IInv => RefusedInstallsNothing
    BY DEF IInv
  <1> QED  BY <1>1, AlwaysIInv, PTL

\* What is installed can be deleted, and the skills of a request do not get in
\* each other's way, whatever the directory trees and the names in them.
THEOREM SkillsNames == Spec => []InstalledCanBeDeleted
  <1>1. IInv => InstalledCanBeDeleted
    BY DEF IInv, NameInv, TodoInv, Sound, InstalledCanBeDeleted
  <1> QED  BY <1>1, AlwaysIInv, PTL
=============================================================================
