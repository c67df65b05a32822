---------------------------- MODULE SearchProofs ----------------------------
(***************************************************************************)
(* What a search promises, for every set of files and domains, every line  *)
(* and query, every limit and bound.                                       *)
(*                                                                         *)
(* A search is told from outside what it may rely on: the histories drift  *)
(* and unsure say which files are what they were.  The invariant therefore *)
(* ties each thing the search holds to the file it came from: the keys of  *)
(* the index (IndexOK), the hits that wait (TodoOK), the lines read before *)
(* (CacheOK) and what was found (FoundOK), each for files that have only   *)
(* grown and for files that are the same.  NoneMissed follows a line that  *)
(* answers the query from the index to the hits to what is found; SomeLeft *)
(* follows one hit past all the limits, which Counts keeps from adding up. *)
(***************************************************************************)
EXTENDS Search, FiniteSetTheorems, SequenceTheorems, NaturalsInduction, TLAPS

\* The order of the natural numbers, as a set of pairs.
Less == {ab \in Nat \X Nat : ab[1] < ab[2]}

\* A set of numbers that is not empty has a least one.
LEMMA LeastNumber ==
  ASSUME NEW S \in SUBSET Nat, S # {}
  PROVE  \E n \in S : \A k \in S : n <= k
<1>1. IsWellFoundedOn(Less, Nat)
  BY NatLessThanWellFounded DEF OpToRel, Less
<1>2. PICK n \in S : \A k \in S : ~(<<k, n>> \in Less)
  BY <1>1, WFMin
<1>3. ASSUME NEW k \in S PROVE n <= k
  <2>1. n \in Nat /\ k \in Nat
    OBVIOUS
  <2>2. n > k => <<k, n>> \in Less
    BY <2>1 DEF Less
  <2> QED BY <1>2, <2>1, <2>2
<1> QED BY <1>3

\* A set of numbers with 0 and every successor holds them all.
LEMMA NumberInduction ==
  ASSUME NEW S \in SUBSET Nat, 0 \in S, \A n \in S : n + 1 \in S
  PROVE  S = Nat
<1> SUFFICES ASSUME Nat \ S # {} PROVE FALSE
  OBVIOUS
<1>1. PICK n \in Nat \ S : \A k \in Nat \ S : n <= k
  BY LeastNumber
<1>2. n # 0 /\ n - 1 \in Nat
  BY <1>1
<1>3. n - 1 \in S
  BY <1>1, <1>2
<1> QED BY <1>2, <1>3

-----------------------------------------------------------------------------
(* A file's lines without the blank ones.                                  *)

\* f lists what is kept of the first k lines.
Keeps(f, ls, k) == f = [i \in 0..k |-> IF i = 0 THEN <<>> ELSE WithLine(f[i - 1], ls[i])]

\* There is such a list, and NonBlank takes its last value.
LEMMA NonBlankKeeps ==
  ASSUME NEW ls, Len(ls) \in Nat
  PROVE  \E f : Keeps(f, ls, Len(ls)) /\ NonBlank(ls) = f[Len(ls)]
<1> DEFINE S == {k \in Nat : \E f : Keeps(f, ls, k)}
<1>1. 0 \in S
  <2> DEFINE f == [i \in 0..0 |-> <<>>]
  <2>1. Keeps(f, ls, 0)
    <3>1. \A i \in 0..0 : i = 0
      OBVIOUS
    <3> QED BY <3>1, Zenon DEF Keeps
  <2> QED BY <2>1
<1>2. ASSUME NEW k \in S PROVE k + 1 \in S
  <2>1. PICK f : Keeps(f, ls, k)
    OBVIOUS
  <2> DEFINE h == [i \in 0..(k + 1) |-> IF i = k + 1 THEN WithLine(f[k], ls[k + 1]) ELSE f[i]]
             e == [i \in 0..(k + 1) |-> IF i = 0 THEN <<>> ELSE WithLine(h[i - 1], ls[i])]
  <2>2. ASSUME NEW i \in 0..(k + 1) PROVE h[i] = e[i]
    <3>1. CASE i = k + 1
      <4>1. i # 0 /\ i - 1 = k /\ k \in 0..(k + 1) /\ k # k + 1
        BY <3>1
      <4>2. h[i - 1] = f[k] /\ h[i] = WithLine(f[k], ls[k + 1])
        BY <3>1, <4>1
      <4>3. e[i] = WithLine(h[i - 1], ls[i])
        BY <4>1
      <4> QED BY <3>1, <4>2, <4>3
    <3>2. CASE i # k + 1
      <4>1. i \in 0..k
        BY <3>2
      <4>2. f[i] = IF i = 0 THEN <<>> ELSE WithLine(f[i - 1], ls[i])
        BY <2>1, <4>1, Zenon DEF Keeps
      <4>3. i # 0 => i - 1 \in 0..(k + 1) /\ i - 1 # k + 1
        BY <4>1
      <4>4. i # 0 => h[i - 1] = f[i - 1]
        BY <4>3
      <4>5. h[i] = f[i]
        BY <3>2
      <4>6. e[i] = IF i = 0 THEN <<>> ELSE WithLine(h[i - 1], ls[i])
        OBVIOUS
      <4> HIDE DEF h, e
      <4>7. CASE i = 0
        BY <4>2, <4>5, <4>6, <4>7
      <4>8. CASE i # 0
        <5>1. WithLine(h[i - 1], ls[i]) = WithLine(f[i - 1], ls[i])
          BY <4>4, <4>8
        <5> QED BY <4>2, <4>5, <4>6, <4>8, <5>1
      <4> QED BY <4>7, <4>8
    <3> QED BY <3>1, <3>2
  <2>3. h = e
    BY <2>2
  <2>4. Keeps(h, ls, k + 1)
    BY <2>3, Zenon DEF Keeps
  <2> QED BY <2>4
<1>3. S = Nat
  <2> HIDE DEF S
  <2>1. S \subseteq Nat
    BY DEF S
  <2> QED BY <1>1, <1>2, <2>1, NumberInduction
<1>4. \E f : Keeps(f, ls, Len(ls))
  BY <1>3
<1>5. \E f : f = [i \in 0..Len(ls) |-> IF i = 0 THEN <<>> ELSE WithLine(f[i - 1], ls[i])]
  BY <1>4 DEF Keeps
<1> DEFINE g == CHOOSE f : f = [i \in 0..Len(ls) |-> IF i = 0 THEN <<>> ELSE WithLine(f[i - 1], ls[i])]
<1>6. Keeps(g, ls, Len(ls))
  BY <1>5, Zenon DEF Keeps
<1>7. NonBlank(ls) = g[Len(ls)]
  BY Zenon DEF NonBlank
<1> QED BY <1>6, <1>7

\* What NonBlank gives is a sequence no longer than its argument, which holds
\* every line that is not blank, in its place when none is.
LEMMA NonBlankLines ==
  ASSUME NEW ls \in Seq(Lines)
  PROVE  /\ NonBlank(ls) \in Seq(Lines)
         /\ Len(NonBlank(ls)) <= Len(ls)
         /\ \A i \in 1..Len(ls) : ~Blank(ls[i]) =>
              \E j \in 1..Len(NonBlank(ls)) : NonBlank(ls)[j] = ls[i]
         /\ (\A i \in 1..Len(ls) : ~Blank(ls[i])) => NonBlank(ls) = ls
<1>0. Len(ls) \in Nat
  OBVIOUS
<1>1. PICK f : Keeps(f, ls, Len(ls)) /\ NonBlank(ls) = f[Len(ls)]
  BY <1>0, NonBlankKeeps
<1>2. ASSUME NEW i \in 0..Len(ls)
      PROVE  f[i] = IF i = 0 THEN <<>> ELSE WithLine(f[i - 1], ls[i])
  BY <1>1, Zenon DEF Keeps
<1> DEFINE P(k) == /\ f[k] \in Seq(Lines) /\ Len(f[k]) <= k
                   /\ \A i \in 1..k : ~Blank(ls[i]) => \E j \in 1..Len(f[k]) : f[k][j] = ls[i]
                   /\ (\A i \in 1..k : ~Blank(ls[i])) =>
                        Len(f[k]) = k /\ \A i \in 1..k : f[k][i] = ls[i]
           T == {k \in Nat : k <= Len(ls) => P(k)}
<1>3. 0 \in T
  <2>1. f[0] = <<>>
    BY <1>0, <1>2
  <2>2. f[0] \in Seq(Lines) /\ Len(f[0]) = 0
    BY <2>1
  <2>3. \A i \in 1..0 : FALSE
    OBVIOUS
  <2>4. P(0)
    BY <2>2, <2>3
  <2> HIDE DEF P
  <2> QED BY <2>4
<1>4. ASSUME NEW k \in T PROVE k + 1 \in T
  <2>1. SUFFICES ASSUME k + 1 <= Len(ls) PROVE P(k + 1)
    OBVIOUS
  <2>2. P(k) /\ k \in Nat
    BY <1>0, <2>1
  <2>3. f[k + 1] = WithLine(f[k], ls[k + 1])
    BY <1>0, <1>2, <2>1
  <2>4. ls[k + 1] \in Lines
    BY <2>1
  <2>5. CASE Blank(ls[k + 1])
    <3>1. f[k + 1] = f[k]
      BY <2>3, <2>5 DEF WithLine
    <3>2. ASSUME NEW i \in 1..(k + 1), ~Blank(ls[i]) PROVE i \in 1..k
      BY <2>5, <3>2
    <3>3. ~\A i \in 1..(k + 1) : ~Blank(ls[i])
      BY <2>5
    <3>4. f[k + 1] \in Seq(Lines) /\ Len(f[k + 1]) <= k + 1
      BY <2>2, <3>1
    <3>5. \A i \in 1..(k + 1) : ~Blank(ls[i]) => \E j \in 1..Len(f[k + 1]) : f[k + 1][j] = ls[i]
      BY <2>2, <3>1, <3>2
    <3> QED BY <3>3, <3>4, <3>5
  <2>6. CASE ~Blank(ls[k + 1])
    <3>1. f[k + 1] = Append(f[k], ls[k + 1])
      BY <2>3, <2>6 DEF WithLine
    <3> DEFINE n == Len(f[k])
    <3>2. n \in Nat /\ f[k + 1] \in Seq(Lines) /\ Len(f[k + 1]) = n + 1 /\ f[k + 1][n + 1] = ls[k + 1]
          /\ \A j \in 1..n : f[k + 1][j] = f[k][j]
      <4>1. f[k] \in Seq(Lines)
        BY <2>2
      <4> HIDE DEF P
      <4> QED BY <2>4, <3>1, <4>1
    <3>3. n <= k
      BY <2>2
    <3>4. ASSUME NEW i \in 1..(k + 1), ~Blank(ls[i])
          PROVE  \E j \in 1..Len(f[k + 1]) : f[k + 1][j] = ls[i]
      <4>1. CASE i = k + 1
        BY <3>2, <4>1
      <4>2. CASE i \in 1..k
        <5>1. PICK j \in 1..n : f[k][j] = ls[i]
          BY <2>2, <3>4, <4>2
        <5> HIDE DEF n
        <5> QED BY <3>2, <5>1
      <4> QED BY <4>1, <4>2
    <3>5. ASSUME \A i \in 1..(k + 1) : ~Blank(ls[i])
          PROVE  Len(f[k + 1]) = k + 1 /\ \A i \in 1..(k + 1) : f[k + 1][i] = ls[i]
      <4>1. n = k /\ \A i \in 1..k : f[k][i] = ls[i]
        BY <2>2, <3>5
      <4> HIDE DEF n
      <4> QED BY <3>2, <4>1
    <3> HIDE DEF n
    <3> QED BY <2>2, <3>2, <3>3, <3>4, <3>5
  <2> QED BY <2>5, <2>6
<1>5. T = Nat
  <2>1. T \subseteq Nat
    OBVIOUS
  <2> HIDE DEF T
  <2> QED BY <1>3, <1>4, <2>1, NumberInduction
<1>6. P(Len(ls))
  <2> HIDE DEF P
  <2> QED BY <1>0, <1>5
<1>7. (\A i \in 1..Len(ls) : ~Blank(ls[i])) => NonBlank(ls) = ls
  <2> SUFFICES ASSUME \A i \in 1..Len(ls) : ~Blank(ls[i]) PROVE NonBlank(ls) = ls
    OBVIOUS
  <2>1. NonBlank(ls) \in Seq(Lines) /\ Len(NonBlank(ls)) = Len(ls)
        /\ \A i \in 1..Len(ls) : NonBlank(ls)[i] = ls[i]
    BY <1>1, <1>6
  <2> HIDE DEF P
  <2> QED BY <2>1
<1> QED BY <1>1, <1>6, <1>7

-----------------------------------------------------------------------------
(* The first few of a set, and how many they are.                          *)

\* The parts of a finite set are finite and no larger.
LEMMA Counted ==
  ASSUME NEW S, IsFiniteSet(S)
  PROVE  /\ Cardinality(S) \in Nat
         /\ Cardinality(S) = 0 <=> S = {}
         /\ \A T \in SUBSET S : IsFiniteSet(T) /\ Cardinality(T) \in Nat
                                /\ Cardinality(T) <= Cardinality(S) /\ (Cardinality(T) = Cardinality(S) => T = S)
<1>1. Cardinality(S) \in Nat /\ (Cardinality(S) = 0 <=> S = {})
  BY FS_CardinalityType, FS_EmptySet
<1>2. ASSUME NEW T \in SUBSET S
      PROVE  IsFiniteSet(T) /\ Cardinality(T) \in Nat
             /\ Cardinality(T) <= Cardinality(S) /\ (Cardinality(T) = Cardinality(S) => T = S)
  BY FS_Subset, FS_CardinalityType
<1> QED BY <1>1, <1>2

\* Those of a set of numbers with fewer than n below them are n, or all.
LEMMA FirstNumbers ==
  ASSUME NEW H \in SUBSET Nat, IsFiniteSet(H), NEW n \in Nat
  PROVE  LET F == {k \in H : Cardinality({j \in H : j < k}) < n}
         IN  IsFiniteSet(F) /\ Cardinality(F) = IF Cardinality(H) < n THEN Cardinality(H) ELSE n
<1> DEFINE Below(k) == {j \in H : j < k}
           F(m) == {k \in H : Cardinality(Below(k)) < m}
           S == {m \in Nat : Cardinality(F(m)) = IF Cardinality(H) < m THEN Cardinality(H) ELSE m}
<1>0. Cardinality(H) \in Nat
  BY Counted
<1>1. ASSUME NEW k PROVE Below(k) \in SUBSET H /\ IsFiniteSet(Below(k)) /\ Cardinality(Below(k)) \in Nat
  BY Counted
<1>2. ASSUME NEW m PROVE F(m) \in SUBSET H /\ IsFiniteSet(F(m)) /\ Cardinality(F(m)) \in Nat
                         /\ Cardinality(F(m)) <= Cardinality(H) /\ (Cardinality(F(m)) = Cardinality(H) => F(m) = H)
  <2>1. F(m) \in SUBSET H
    OBVIOUS
  <2> HIDE DEF F
  <2> QED BY <2>1, Counted
<1>3. ASSUME NEW k \in H, NEW j \in H, k < j
      PROVE  Cardinality(Below(k)) < Cardinality(Below(j))
  <2>1. Below(k) \in SUBSET Below(j) /\ k \in Below(j) /\ k \notin Below(k)
    <3>1. k \in Nat /\ j \in Nat
      OBVIOUS
    <3>2. ASSUME NEW i \in Below(k) PROVE i \in Below(j)
      <4>1. i \in H /\ i \in Nat /\ i < k
        OBVIOUS
      <4> QED BY <1>3, <3>1, <4>1
    <3>3. k \in Below(j) /\ k \notin Below(k)
      BY <1>3, <3>1
    <3> HIDE DEF Below
    <3> QED BY <3>2, <3>3
  <2>2. IsFiniteSet(Below(k)) /\ IsFiniteSet(Below(j)) /\ Cardinality(Below(k)) \in Nat /\ Cardinality(Below(j)) \in Nat
    BY <1>1
  <2> HIDE DEF Below
  <2>3. Cardinality(Below(k)) <= Cardinality(Below(j)) /\ Cardinality(Below(k)) # Cardinality(Below(j))
    BY <2>1, <2>2, Counted
  <2> QED BY <2>2, <2>3
<1>4. 0 \in S
  <2>1. F(0) = {}
    <3> HIDE DEF Below
    <3> QED BY <1>1
  <2>2. Cardinality(F(0)) = 0
    BY <2>1, FS_EmptySet
  <2> HIDE DEF F
  <2> QED BY <1>0, <2>2
<1>5. ASSUME NEW m \in S PROVE m + 1 \in S
  <2>0. m \in Nat /\ Cardinality(F(m)) = IF Cardinality(H) < m THEN Cardinality(H) ELSE m
    OBVIOUS
  <2>1. F(m) \subseteq F(m + 1)
    <3> HIDE DEF Below
    <3> QED BY <1>1, <2>0
  <2>2. CASE F(m) = H
    <3>1. F(m + 1) = H
      BY <1>2, <2>1, <2>2
    <3> HIDE DEF F
    <3> QED BY <1>0, <2>0, <2>2, <3>1
  <2>3. CASE F(m) # H
    <3>1. PICK k \in H \ F(m) : \A i \in H \ F(m) : k <= i
      <4>1. H \ F(m) # {} /\ H \ F(m) \in SUBSET Nat
        BY <1>2, <2>3
      <4> HIDE DEF F
      <4> QED BY <4>1, LeastNumber
    <3>2. Cardinality(Below(k)) >= m
      <4> HIDE DEF Below
      <4> QED BY <1>1, <2>0, <3>1
    <3>3. Cardinality(F(m)) = m /\ m < Cardinality(H)
      <4>1. Cardinality(F(m)) # Cardinality(H)
        BY <1>2, <2>3
      <4> HIDE DEF F
      <4> QED BY <1>0, <1>2, <2>0, <4>1
    <3>4. Below(k) = F(m)
      <4>1. ASSUME NEW j \in Below(k) PROVE j \in F(m)
        <5>1. j \in H /\ j < k
          OBVIOUS
        <5>2. j \notin F(m) => k <= j
          BY <3>1, <5>1
        <5> HIDE DEF F
        <5> QED BY <5>1, <5>2
      <4>2. ASSUME NEW j \in F(m) PROVE j \in Below(k)
        <5>1. j \in H /\ Cardinality(Below(j)) < m
          OBVIOUS
        <5>2. j # k
          BY <3>1
        <5>3. ~(k < j)
          <6> HIDE DEF Below, F
          <6> QED BY <1>1, <1>3, <2>0, <3>2, <5>1
        <5> QED BY <5>1, <5>2, <5>3
      <4> HIDE DEF Below, F
      <4> QED BY <4>1, <4>2
    <3>5. F(m + 1) = F(m) \cup {k}
      <4>1. k \in F(m + 1)
        <5>1. Cardinality(Below(k)) = m
          BY <3>3, <3>4
        <5> HIDE DEF Below
        <5> QED BY <2>0, <5>1
      <4>2. ASSUME NEW j \in F(m + 1), j \notin F(m), j # k PROVE FALSE
        <5>1. j \in H /\ Cardinality(Below(j)) < m + 1
          BY <4>2
        <5>2. k < j
          BY <3>1, <4>2, <5>1
        <5>3. Cardinality(Below(j)) > m
          <6> HIDE DEF Below, F
          <6> QED BY <1>1, <1>3, <2>0, <3>3, <3>4, <5>1, <5>2
        <5> HIDE DEF Below, F
        <5> QED BY <1>1, <2>0, <5>1, <5>3
      <4> HIDE DEF F
      <4> QED BY <2>1, <4>1, <4>2
    <3>6. Cardinality(F(m + 1)) = m + 1
      <4> HIDE DEF F
      <4> QED BY <1>2, <3>1, <3>3, <3>5, FS_AddElement
    <3> HIDE DEF F
    <3> QED BY <1>0, <2>0, <3>3, <3>6
  <2> QED BY <2>2, <2>3
<1>6. S = Nat
  <2>1. S \subseteq Nat
    OBVIOUS
  <2> HIDE DEF S
  <2> QED BY <1>4, <1>5, <2>1, NumberInduction
<1>7. Cardinality(F(n)) = IF Cardinality(H) < n THEN Cardinality(H) ELSE n
  BY <1>6
<1>8. IsFiniteSet(F(n))
  BY <1>2
<1> QED BY <1>7, <1>8

\* An index is asked for at least one hit, and a domain may collect as many.
LEMMA LimitIsPositive ==
  /\ Limit \in Nat /\ Limit > 0
  /\ MaxCollect \in Nat /\ MaxCollect >= Limit
  /\ MaxPerFile \in Nat /\ MaxPerFile > 0
<1>1. MaxResults \in Nat /\ MaxResults > 0 /\ Spread \in Nat /\ Spread > 0 /\ MaxPerFile \in Nat /\ MaxPerFile > 0
  BY SearchBounds
<1>2. Limit \in Nat /\ Limit > 0
  BY <1>1 DEF Limit
<1> QED BY <1>1, <1>2 DEF MaxCollect

\* The places a hit can name.
Spots == [file : Files, entry : 0..MaxLines]

\* There are finitely many hits that an index can give.
LEMMA SpotsAreFinite ==
  ASSUME NEW S \in SUBSET Spots
  PROVE  IsFiniteSet(S)
<1> DEFINE P == Files \X (0..MaxLines)
           g == [p \in P |-> [file |-> p[1], entry |-> p[2]]]
<1>1. IsFiniteSet(P)
  <2>1. IsFiniteSet(0..MaxLines) /\ IsFiniteSet(Files)
    BY FS_Interval, SearchBounds, SearchFiles
  <2> QED BY <2>1, FS_Product
<1>2. g \in Surjection(P, Spots)
  <2>1. g \in [P -> Spots]
    BY DEF Spots
  <2>2. ASSUME NEW s \in Spots PROVE \E p \in P : g[p] = s
    <3>1. <<s.file, s.entry>> \in P
      BY DEF Spots
    <3>2. g[<<s.file, s.entry>>] = s
      BY <3>1 DEF Spots
    <3> QED BY <3>1, <3>2
  <2> HIDE DEF g, P
  <2> QED BY <2>1, <2>2 DEF Surjection
<1>3. IsFiniteSet(Spots)
  <2> HIDE DEF g, P
  <2> QED BY <1>1, <1>2, FS_Surjection
<1> QED BY <1>3, FS_Subset

\* A set no larger than n is among its first n; and a set that holds
\* something has a first.
LEMMA FirstOfSpots ==
  ASSUME NEW S \in SUBSET Spots, NEW n \in Nat
  PROVE  /\ FirstOf(S, n) \subseteq S
         /\ Cardinality(S) <= n => FirstOf(S, n) = S
         /\ S # {} /\ n > 0 => FirstOf(S, n) # {}
<1> DEFINE Below(k) == {j \in S : Before(j, k)}
<1>0. IsFiniteSet(S) /\ Cardinality(S) \in Nat
  BY SpotsAreFinite, Counted
<1>1. ASSUME NEW k \in S PROVE k.file \in Nat /\ k.entry \in Nat /\ ~Before(k, k)
  <2>1. k.file \in Nat /\ k.entry \in Nat
    <3>1. k \in Spots
      OBVIOUS
    <3>2. k.file \in Files /\ k.entry \in 0..MaxLines
      BY <3>1 DEF Spots
    <3> QED BY <3>2, SearchFiles, SearchBounds
  <2> QED BY <2>1 DEF Before
<1>2. ASSUME Cardinality(S) <= n, NEW k \in S PROVE k \in FirstOf(S, n)
  <2>1. Below(k) \in SUBSET S /\ Below(k) # S
    BY <1>1
  <2>2. Cardinality(Below(k)) \in Nat /\ Cardinality(Below(k)) < Cardinality(S)
    <3> HIDE DEF Below
    <3> QED BY <1>0, <2>1, Counted
  <2>3. Cardinality(Below(k)) < n
    BY <1>0, <1>2, <2>2
  <2> QED BY <2>3 DEF FirstOf
<1>3. ASSUME S # {}, n > 0 PROVE FirstOf(S, n) # {}
  <2> DEFINE fs == {k.file : k \in S}
  <2>1. PICK f \in fs : \A g \in fs : f <= g
    <3>1. fs \in SUBSET Nat /\ fs # {}
      BY <1>1, <1>3
    <3> HIDE DEF fs
    <3> QED BY <3>1, LeastNumber
  <2> DEFINE es == {k.entry : k \in {j \in S : j.file = f}}
  <2>2. PICK e \in es : \A g \in es : e <= g
    <3>1. es \in SUBSET Nat /\ es # {}
      BY <1>1
    <3> HIDE DEF es
    <3> QED BY <3>1, LeastNumber
  <2>3. PICK k \in S : k.file = f /\ k.entry = e
    OBVIOUS
  <2>4. ASSUME NEW j \in S PROVE ~Before(j, k)
    <3>1. f \in Nat /\ e \in Nat /\ j.file \in Nat /\ j.entry \in Nat
      BY <1>1, <2>3
    <3>2. f <= j.file
      BY <2>1
    <3>3. j.file = f => e <= j.entry
      BY <2>2
    <3> HIDE DEF fs, es
    <3> QED BY <2>3, <3>1, <3>2, <3>3 DEF Before
  <2>5. Below(k) = {}
    BY <2>4
  <2>6. Cardinality(Below(k)) < n
    <3> HIDE DEF Below
    <3> QED BY <1>3, <2>5, FS_EmptySet
  <2> QED BY <2>3, <2>6 DEF FirstOf
<1> QED BY <1>2, <1>3 DEF FirstOf

\* The union stopped at the limit leaves out none of the words' hits when all
\* of them together stay below it, and is not empty when one of them is not.
LEMMA AnyWordSpots ==
  ASSUME NEW N \in Nat, NEW sets, DOMAIN sets = 1..N, \A i \in 1..N : sets[i] \in SUBSET Spots
  PROVE  /\ \A h \in AnyWord(sets) : \E i \in 1..N : h \in sets[i]
         /\ \A All \in SUBSET Spots :
              (\A i \in 1..N : sets[i] \subseteq All) /\ Cardinality(All) <= Limit =>
                 \A i \in 1..N : sets[i] \subseteq AnyWord(sets)
         /\ (\E i \in 1..N : sets[i] # {}) => AnyWord(sets) # {}
<1> DEFINE U(i) == UNION {sets[k] : k \in 1..(i - 1)}
<1>0. Limit \in Nat /\ Limit > 0
  BY LimitIsPositive
<1>1. ASSUME NEW i \in 1..N, Cardinality(U(i)) < Limit PROVE sets[i] \subseteq AnyWord(sets)
  BY <1>1 DEF AnyWord
<1>2. ASSUME NEW All \in SUBSET Spots, \A i \in 1..N : sets[i] \subseteq All, Cardinality(All) <= Limit,
             NEW i \in 1..N, NEW h \in sets[i]
      PROVE  h \in AnyWord(sets)
  <2> DEFINE T == {k \in 1..N : h \in sets[k]}
  <2>1. PICK k \in T : \A j \in T : k <= j
    <3>1. T \in SUBSET Nat /\ T # {}
      OBVIOUS
    <3> HIDE DEF T
    <3> QED BY <3>1, LeastNumber
  <2>2. U(k) \in SUBSET All
    BY <1>2
  <2>3. h \notin U(k)
    <3>1. ASSUME NEW j \in 1..(k - 1) PROVE h \notin sets[j]
      <4>1. j \in 1..N /\ j < k
        OBVIOUS
      <4>2. k \in Nat
        OBVIOUS
      <4>3. j \notin T
        <5> HIDE DEF T
        <5> QED BY <2>1, <4>1, <4>2
      <4> QED BY <4>1, <4>3
    <3> QED BY <3>1
  <2>4. h \in All
    BY <1>2
  <2>5. Cardinality(U(k)) < Limit
    <3>1. IsFiniteSet(All) /\ U(k) # All
      BY <1>2, <2>3, <2>4, SpotsAreFinite
    <3>2. Cardinality(U(k)) \in Nat /\ Cardinality(All) \in Nat /\ Cardinality(U(k)) < Cardinality(All)
      <4> HIDE DEF U
      <4> QED BY <2>2, <3>1, Counted
    <3> HIDE DEF U
    <3> QED BY <1>0, <1>2, <3>2
  <2>6. k \in 1..N /\ h \in sets[k]
    OBVIOUS
  <2> HIDE DEF U
  <2> QED BY <1>1, <2>5, <2>6
<1>3. ASSUME NEW i \in 1..N, sets[i] # {} PROVE AnyWord(sets) # {}
  <2> DEFINE T == {k \in 1..N : sets[k] # {}}
  <2>1. PICK k \in T : \A j \in T : k <= j
    <3>1. T \in SUBSET Nat /\ T # {}
      BY <1>3
    <3> HIDE DEF T
    <3> QED BY <3>1, LeastNumber
  <2>2. U(k) = {}
    <3>1. ASSUME NEW j \in 1..(k - 1) PROVE sets[j] = {}
      <4>1. j \in 1..N /\ j < k
        OBVIOUS
      <4>2. k \in Nat
        OBVIOUS
      <4>3. j \notin T
        <5> HIDE DEF T
        <5> QED BY <2>1, <4>1, <4>2
      <4> QED BY <4>1, <4>3
    <3> QED BY <3>1
  <2>3. Cardinality(U(k)) < Limit
    <3> HIDE DEF U
    <3> QED BY <1>0, <2>2, FS_EmptySet
  <2>4. k \in 1..N /\ sets[k] # {}
    OBVIOUS
  <2> HIDE DEF U
  <2> QED BY <1>1, <2>3, <2>4
<1> QED BY <1>2, <1>3 DEF AnyWord

\* What an index gives is cut to the limit, and only when it is larger.
LEMMA CutToLimit ==
  ASSUME NEW hits \in SUBSET Spots,
         NEW T \in kSubset(IF Cardinality(hits) < Limit THEN Cardinality(hits) ELSE Limit, hits)
  PROVE  /\ T \subseteq hits /\ IsFiniteSet(T) /\ Cardinality(T) \in Nat /\ Cardinality(T) <= Limit
         /\ Cardinality(hits) <= Limit => T = hits
         /\ hits # {} => T # {}
<1>1. IsFiniteSet(hits) /\ Cardinality(hits) \in Nat
  BY SpotsAreFinite, Counted
<1>2. Limit \in Nat /\ Limit > 0
  BY LimitIsPositive
<1>3. T \in SUBSET hits /\ Cardinality(T) = IF Cardinality(hits) < Limit THEN Cardinality(hits) ELSE Limit
  BY DEF kSubset
<1>4. IsFiniteSet(T) /\ (Cardinality(T) = 0 <=> T = {}) /\ (Cardinality(hits) = 0 <=> hits = {})
      /\ (Cardinality(T) = Cardinality(hits) => T = hits)
  <2>1. IsFiniteSet(T) /\ (Cardinality(T) = Cardinality(hits) => T = hits)
    BY <1>1, <1>3, Counted
  <2> QED BY <1>1, <2>1, Counted
<1> QED BY <1>1, <1>2, <1>3, <1>4

\* A file holds no more lines than all of them.
LEMMA LinesOfOne ==
  ASSUME NEW t, NEW f \in Files, Len(t[f]) \in Nat, Len(t[f]) <= MaxLines
  PROVE  Len(t[f]) <= Cardinality(LinesOf(t))
<1> DEFINE n == Len(t[f])
           T == LinesOf(t)
           g == [i \in 1..n |-> <<f, i>>]
<1>1. IsFiniteSet(T)
  <2>1. IsFiniteSet(1..MaxLines) /\ IsFiniteSet(Files)
    BY FS_Interval, SearchBounds, SearchFiles
  <2>2. IsFiniteSet(Files \X (1..MaxLines))
    BY <2>1, FS_Product
  <2>3. T \in SUBSET (Files \X (1..MaxLines))
    BY DEF LinesOf
  <2> HIDE DEF T
  <2> QED BY <2>2, <2>3, FS_Subset
<1>2. g \in Injection(1..n, T)
  <2>1. ASSUME NEW i \in 1..n PROVE g[i] = <<f, i>> /\ <<f, i>> \in T
    BY SearchBounds DEF LinesOf
  <2>2. g \in [1..n -> T]
    <3> HIDE DEF T, n
    <3> QED BY <2>1
  <2>3. ASSUME NEW i \in 1..n, NEW j \in 1..n, g[i] = g[j] PROVE i = j
    <3>1. <<f, i>> = <<f, j>>
      BY <2>1, <2>3
    <3> QED BY <3>1
  <2> HIDE DEF g, T, n
  <2> QED BY <2>2, <2>3 DEF Injection, IsInjective
<1>3. Cardinality(1..n) = n
  BY FS_Interval
<1>4. Cardinality(1..n) <= Cardinality(T)
  <2> HIDE DEF g, T, n
  <2> QED BY <1>1, <1>2, FS_Injection
<1> QED BY <1>3, <1>4

-----------------------------------------------------------------------------
(* The inductive invariant.                                                *)

Doms == Range(Domains)
TodoFor(d) == {t \in todo : DomainOf[t.file] = d}
WayOf(f) == way[DomainOf[f]]

TypedFiles ==
    /\ there \subseteq Files
    /\ text \in [Files -> Seq(Lines)]
    /\ \A f \in Files : Len(text[f]) <= MaxLines
    /\ index \in [Doms -> [built : BOOLEAN, files : SUBSET Files, keys : SUBSET Indexed]]
    /\ \A d \in Doms : index[d].files \subseteq InDomain(d) /\ (~index[d].built => index[d] = NoIndex)
    /\ drift \in [Files -> Fates]
    /\ writes \in 0..MaxWrites

Found == [file : Files, line : 1..MaxLines, date : Nat, text : Lines]

TypedSearch ==
    /\ unsure \in [Files -> Fates]
    /\ pc \in {"idle", "asking", "done"}
    /\ query \in Queries \cup {NoQuery}
    /\ pc # "idle" => query \in Queries
    /\ way \in [Doms -> {"none", "fst", "scan"}]
    /\ DOMAIN cache \subseteq Files
    /\ \A f \in DOMAIN cache : cache[f] \in Seq(Lines) /\ Len(cache[f]) <= MaxLines
    /\ IsFiniteSet(todo) /\ todo \subseteq Spots \cup [file : Files]
    /\ IsFiniteSet(found) /\ found \subseteq Found
    /\ tight \in BOOLEAN

\* A search that has not begun holds nothing; one that is done has an answer.
Phases ==
    /\ pc = "idle" =>
         /\ todo = {} /\ cache = <<>> /\ found = {} /\ ~tight
         /\ \A d \in Doms : way[d] = "none"
         /\ \A f \in Files : unsure[f] = "same"
    /\ IF pc = "done" THEN todo = {} /\ answer \in Answers ELSE answer = <<>>

\* Hits are of domains asked through their index, files of those read line by line.
Turns ==
    /\ \A t \in todo : \/ WayOf(t.file) = "fst" /\ t \in Spots
                       \/ WayOf(t.file) = "scan" /\ t \in [file : Files]
    /\ \A m \in found : WayOf(m.file) # "none"

\* What a key of an index says of a file that has not been replaced since.
IndexOK ==
    /\ \A f \in Files : f \in there <=> text[f] # <<>>
    /\ \A d \in Doms : \A k \in index[d].keys :
         /\ DomainOf[k.file] = d
         /\ drift[k.file] # "rewritten" /\ Plain(k.file) =>
              k.entry + 1 <= Len(text[k.file]) /\ HasWord(text[k.file][k.entry + 1], k.word)
         /\ drift[k.file] = "same" => k.entry + 1 <= Len(text[k.file])
    /\ \A f \in Files : drift[f] = "same" =>
         \A i \in 1..Len(Entries(f)) : \A w : HasWord(Entries(f)[i], w) =>
           [word |-> w, file |-> f, entry |-> i - 1] \in index[DomainOf[f]].keys

\* The same of the hits that wait.
TodoOK ==
    \A t \in todo : WayOf(t.file) = "fst" =>
      /\ unsure[t.file] # "rewritten" /\ Plain(t.file) =>
           t.entry + 1 <= Len(text[t.file]) /\ HasWords(text[t.file][t.entry + 1], query)
      /\ unsure[t.file] = "same" => t.entry + 1 <= Len(text[t.file])

\* What was read of a file is how it begins.
CacheOK ==
    \A f \in DOMAIN cache :
      /\ unsure[f] # "rewritten" =>
           Len(cache[f]) <= Len(text[f]) /\ \A i \in 1..Len(cache[f]) : cache[f][i] = text[f][i]
      /\ unsure[f] = "same" => cache[f] = text[f]

FoundOK ==
    /\ ShownLinesMatch
    /\ \A m \in found : WayOf(m.file) = "fst" /\ unsure[m.file] = "same" =>
         m.line <= Len(text[m.file]) /\ m.text = text[m.file][m.line]

\* A line is found once, and what waits has not been found yet.
OneByOne ==
    /\ \A m, n \in found : m.file = n.file /\ m.line = n.line => m = n
    /\ \A t \in todo : \A m \in found : m.file = t.file => WayOf(t.file) = "fst" /\ m.line # t.entry + 1

Counts ==
    \A d \in Doms : way[d] = "fst" =>
      /\ Cardinality(FoundFor(d)) + Cardinality(TodoFor(d)) <= Limit
      /\ \A f \in InDomain(d) : Cardinality(FoundIn(f)) <= MaxPerFile

NoneMissed ==
    \A f \in there : unsure[f] = "same" =>
      /\ WayOf(f) = "fst" /\ ~tight /\ Plain(f) /\ InRange(IndexedDate(f), query) =>
           \A n \in 1..Len(text[f]) : Matches(f, text[f][n], query) =>
             \/ Cardinality(FoundIn(f)) = MaxPerFile
             \/ \E m \in FoundIn(f) : m.line = n
             \/ [file |-> f, entry |-> n - 1] \in todo
      /\ WayOf(f) = "scan" /\ InRange(DateOf[f], query) =>
           [file |-> f] \in todo \/ FoundIn(f) = Scanned(f)

SomeLeft ==
    query.any /\ Unfiltered(query) =>
      \A d \in Doms :
        /\ way[d] = "fst"
        /\ \A f \in InDomain(d) : unsure[f] = "same"
        /\ \E f \in there \cap InDomain(d) : \E i \in 1..Len(text[f]) : HasWords(text[f][i], query)
        => FoundFor(d) # {} \/ TodoFor(d) # {}

IInv == TypedFiles /\ TypedSearch /\ Phases /\ Turns /\ IndexOK /\ TodoOK /\ CacheOK /\ FoundOK /\ OneByOne /\ Counts
        /\ NoneMissed /\ (pc # "idle" => SomeLeft)

-----------------------------------------------------------------------------
(* What an index gives.                                                    *)

\* The parts of a composite key.
LEMMA KeyParts ==
  ASSUME NEW k \in Indexed
  PROVE  k.file \in Files /\ k.entry \in 0..MaxLines /\ k = [word |-> k.word, file |-> k.file, entry |-> k.entry]
BY DEF Indexed

\* The words of a line.
LEMMA LineText ==
  ASSUME NEW l \in Lines
  PROVE  /\ l.text \in Seq(STRING)
         /\ \A w : HasWord(l, w) => ~Blank(l) /\ \E i \in 1..Len(l.text) : Lower(l.text[i]) = w
         /\ \A i \in 1..Len(l.text) : HasWord(l, Lower(l.text[i]))
         /\ Range(l.text) = {l.text[i] : i \in 1..Len(l.text)}
<1>1. l.text \in Seq(STRING)
  BY SearchTexts
<1>2. DOMAIN l.text = 1..Len(l.text) /\ Len(l.text) \in Nat
  BY <1>1
<1>3. Range(l.text) = {l.text[i] : i \in 1..Len(l.text)}
  BY <1>2 DEF Range
<1>4. ASSUME NEW w, HasWord(l, w)
      PROVE  ~Blank(l) /\ \E i \in 1..Len(l.text) : Lower(l.text[i]) = w
  <2>1. PICK i \in 1..Len(l.text) : Lower(l.text[i]) = w
    BY <1>3, <1>4 DEF HasWord
  <2>2. Len(l.text) # 0
    BY <1>2, <2>1
  <2>3. l.text # <<>>
    BY <2>2
  <2> QED BY <2>1, <2>3 DEF Blank
<1> QED BY <1>1, <1>3, <1>4 DEF HasWord

\* The words of a query: at least one.
LEMMA QueryParts ==
  ASSUME NEW q \in Queries
  PROVE  /\ Len(q.words) \in Nat \ {0} /\ DOMAIN q.words = 1..Len(q.words)
         /\ q.any \in BOOLEAN /\ q.exact \in BOOLEAN
         /\ DOMAIN QueryWords(q) = 1..Len(q.words)
         /\ Range(QueryWords(q)) = {QueryWords(q)[i] : i \in 1..Len(q.words)}
<1>1. q.words \in Seq(STRING) /\ q.words # <<>> /\ q.any \in BOOLEAN /\ q.exact \in BOOLEAN
  BY SearchTexts
<1>2. Len(q.words) \in Nat /\ DOMAIN q.words = 1..Len(q.words)
  BY <1>1
<1>3. Len(q.words) # 0
  BY <1>1
<1>4. DOMAIN QueryWords(q) = 1..Len(q.words)
  BY <1>2 DEF QueryWords
<1> QED BY <1>1, <1>2, <1>3, <1>4 DEF Range

\* The hits of a word are the places of its keys.
LEMMA HitSpots ==
  ASSUME TypedFiles, NEW d \in Doms, NEW w
  PROVE  /\ HitsOf(d, w) \in SUBSET Spots
         /\ \A h : h \in HitsOf(d, w) <=> h \in Spots /\ [word |-> w, file |-> h.file, entry |-> h.entry] \in index[d].keys
<1>1. index[d].keys \subseteq Indexed
  BY DEF TypedFiles
<1>2. ASSUME NEW h \in HitsOf(d, w)
      PROVE  h \in Spots /\ [word |-> w, file |-> h.file, entry |-> h.entry] \in index[d].keys
  <2>1. PICK k \in index[d].keys : k.word = w /\ h = [file |-> k.file, entry |-> k.entry]
    BY DEF HitsOf
  <2>2. k.file \in Files /\ k.entry \in 0..MaxLines /\ k = [word |-> k.word, file |-> k.file, entry |-> k.entry]
    BY <1>1, KeyParts
  <2> QED BY <2>1, <2>2 DEF Spots
<1>3. ASSUME NEW h \in Spots, [word |-> w, file |-> h.file, entry |-> h.entry] \in index[d].keys
      PROVE  h \in HitsOf(d, w)
  <2>1. PICK k : k = [word |-> w, file |-> h.file, entry |-> h.entry]
    OBVIOUS
  <2>2. k \in index[d].keys /\ k.word = w /\ k.file = h.file /\ k.entry = h.entry
    BY <1>3, <2>1
  <2>3. h = [file |-> h.file, entry |-> h.entry]
    BY DEF Spots
  <2>4. h = [file |-> k.file, entry |-> k.entry]
    BY <2>2, <2>3
  <2> QED BY <2>2, <2>4 DEF HitsOf
<1> QED BY <1>2, <1>3

\* Every hit of a search is a hit of one of the words, or of all; when no limit
\* is met there are no others; and a search for any word finds one if there is.
LEMMA SearchHits ==
  ASSUME TypedFiles, NEW d \in Doms, NEW q \in Queries
  PROVE  /\ IndexSearch(d, q) \in SUBSET Spots
         /\ \A h \in IndexSearch(d, q) :
              IF q.any THEN \E i \in 1..Len(q.words) : h \in HitsOf(d, QueryWords(q)[i])
              ELSE \A i \in 1..Len(q.words) : h \in HitsOf(d, QueryWords(q)[i])
         /\ /\ \A i \in 1..Len(q.words) : Cardinality(HitsOf(d, QueryWords(q)[i])) <= Limit
            /\ Cardinality(UNION {HitsOf(d, QueryWords(q)[i]) : i \in 1..Len(q.words)}) <= Limit
            => /\ Cardinality(IndexSearch(d, q)) <= Limit
               /\ \A h : (IF q.any THEN \E i \in 1..Len(q.words) : h \in HitsOf(d, QueryWords(q)[i])
                          ELSE \A i \in 1..Len(q.words) : h \in HitsOf(d, QueryWords(q)[i]))
                         => h \in IndexSearch(d, q)
         /\ q.any /\ (\E i \in 1..Len(q.words) : HitsOf(d, QueryWords(q)[i]) # {}) => IndexSearch(d, q) # {}
<1> DEFINE N == Len(q.words)
           H(i) == HitsOf(d, QueryWords(q)[i])
           All == UNION {H(i) : i \in 1..N}
           sets == [i \in DOMAIN q.words |-> WordHits(d, QueryWords(q)[i])]
<1>1. N \in Nat \ {0} /\ DOMAIN q.words = 1..N /\ q.any \in BOOLEAN
  BY QueryParts
<1>2. Limit \in Nat /\ Limit > 0
  BY LimitIsPositive
<1>3. ASSUME NEW i \in 1..N PROVE H(i) \in SUBSET Spots
  BY HitSpots
<1>4. ASSUME NEW i \in 1..N
      PROVE  /\ sets[i] \subseteq H(i)
             /\ Cardinality(H(i)) <= Limit => sets[i] = H(i)
             /\ H(i) # {} => sets[i] # {}
  <2>1. sets[i] = FirstOf(H(i), Limit)
    BY <1>1 DEF WordHits
  <2>2. PICK S \in SUBSET Spots : S = H(i)
    BY <1>3
  <2>3. sets[i] = FirstOf(S, Limit)
    BY <2>1, <2>2
  <2> HIDE DEF sets, H
  <2>4. /\ FirstOf(S, Limit) \subseteq S
        /\ Cardinality(S) <= Limit => FirstOf(S, Limit) = S
        /\ S # {} /\ Limit > 0 => FirstOf(S, Limit) # {}
    BY <1>2, FirstOfSpots
  <2> QED BY <1>2, <2>2, <2>3, <2>4
<1>5. DOMAIN sets = 1..N /\ \A i \in 1..N : sets[i] \in SUBSET Spots
  <2>1. DOMAIN sets = 1..N
    BY <1>1
  <2> HIDE DEF sets, H
  <2> QED BY <1>3, <1>4, <2>1
<1>6. IndexSearch(d, q) = IF q.any THEN AnyWord(sets) ELSE EveryWord(sets)
  BY DEF IndexSearch
<1>7. All \in SUBSET Spots
  BY <1>3
<1> HIDE DEF sets, H, N
<1>8. CASE q.any
  <2>1. IndexSearch(d, q) = AnyWord(sets)
    BY <1>6, <1>8
  <2>2. ASSUME NEW h \in IndexSearch(d, q) PROVE \E i \in 1..N : h \in H(i) /\ h \in Spots
    <3>1. PICK i \in 1..N : h \in sets[i]
      BY <1>1, <1>5, <2>1, AnyWordSpots
    <3> QED BY <1>3, <1>4, <3>1
  <2>3. ASSUME \A i \in 1..N : Cardinality(H(i)) <= Limit, Cardinality(All) <= Limit
        PROVE  /\ Cardinality(IndexSearch(d, q)) <= Limit
               /\ \A h : (\E i \in 1..N : h \in H(i)) => h \in IndexSearch(d, q)
    <3>1. \A i \in 1..N : sets[i] = H(i)
      BY <1>4, <2>3
    <3>2. \A i \in 1..N : sets[i] \subseteq All
      BY <3>1
    <3>3. \A i \in 1..N : sets[i] \subseteq AnyWord(sets)
      <4> HIDE DEF All
      <4> QED BY <1>1, <1>5, <1>7, <2>3, <3>2, AnyWordSpots
    <3>4. IndexSearch(d, q) \in SUBSET All
      BY <2>2
    <3>5. IsFiniteSet(All)
      <4> HIDE DEF All
      <4> QED BY <1>7, SpotsAreFinite
    <3>6. Cardinality(IndexSearch(d, q)) \in Nat /\ Cardinality(IndexSearch(d, q)) <= Cardinality(All)
          /\ Cardinality(All) \in Nat
      <4> HIDE DEF All
      <4> QED BY <3>4, <3>5, Counted
    <3>7. Cardinality(IndexSearch(d, q)) <= Limit
      <4> HIDE DEF All
      <4> QED BY <1>2, <2>3, <3>6
    <3> QED BY <2>1, <3>1, <3>3, <3>7
  <2>4. ASSUME NEW i \in 1..N, H(i) # {} PROVE IndexSearch(d, q) # {}
    <3>1. sets[i] # {}
      BY <1>4, <2>4
    <3> QED BY <1>1, <1>5, <2>1, <3>1, AnyWordSpots
  <2> QED BY <1>8, <2>2, <2>3, <2>4 DEF H, N
<1>9. CASE ~q.any
  <2>1. IndexSearch(d, q) = {h \in sets[1] : \A i \in 1..N : h \in sets[i]} /\ 1 \in 1..N
    BY <1>1, <1>5, <1>6, <1>9 DEF EveryWord
  <2>2. ASSUME NEW h \in IndexSearch(d, q) PROVE h \in Spots /\ \A i \in 1..N : h \in H(i)
    BY <1>3, <1>4, <2>1
  <2>3. ASSUME \A i \in 1..N : Cardinality(H(i)) <= Limit
        PROVE  /\ Cardinality(IndexSearch(d, q)) <= Limit
               /\ \A h : (\A i \in 1..N : h \in H(i)) => h \in IndexSearch(d, q)
    <3>1. \A i \in 1..N : sets[i] = H(i)
      BY <1>4, <2>3
    <3>2. IndexSearch(d, q) \in SUBSET H(1)
      BY <2>1, <3>1
    <3>3. IsFiniteSet(H(1))
      BY <1>3, <2>1, SpotsAreFinite
    <3>4. Cardinality(IndexSearch(d, q)) \in Nat /\ Cardinality(IndexSearch(d, q)) <= Cardinality(H(1))
          /\ Cardinality(H(1)) \in Nat
      BY <3>2, <3>3, Counted
    <3>5. Cardinality(IndexSearch(d, q)) <= Limit
      BY <1>2, <2>1, <2>3, <3>4
    <3> QED BY <2>1, <3>1, <3>5
  <2> QED BY <1>9, <2>2, <2>3 DEF H, N
<1> QED BY <1>1, <1>8, <1>9

\* The lines a file read line by line gives.
LEMMA ScannedLines ==
  ASSUME NEW f \in Files, text[f] \in Seq(Lines), Len(text[f]) <= MaxLines
  PROVE  /\ IsFiniteSet(Scanned(f)) /\ Scanned(f) \subseteq Found
         /\ \A m \in Scanned(f) : m.file = f /\ Phrase(m.text, query) /\ OfRole(f, m.text, query)
         /\ \A m, n \in Scanned(f) : m.line = n.line => m = n
         /\ LET all == {n \in 1..Len(text[f]) : Phrase(text[f][n], query) /\ OfRole(f, text[f][n], query)}
            IN  Plain(f) => Cardinality(Scanned(f)) =
                              IF Cardinality(all) < MaxPerFile THEN Cardinality(all) ELSE MaxPerFile
<1> DEFINE ls == NonBlank(text[f])
           hits == {n \in DOMAIN ls : Phrase(ls[n], query) /\ OfRole(f, ls[n], query)}
           K == {k \in hits : Cardinality({j \in hits : j < k}) < MaxPerFile}
           g == [n \in K |-> Match(f, n, DateOf[f], ls[n])]
<1>0. Scanned(f) = {Match(f, n, DateOf[f], ls[n]) : n \in K}
  BY DEF Scanned
<1>1. ls \in Seq(Lines) /\ Len(ls) \in Nat /\ Len(ls) <= MaxLines /\ DOMAIN ls = 1..Len(ls)
  <2>1. ls \in Seq(Lines) /\ Len(ls) <= Len(text[f])
    BY NonBlankLines
  <2> HIDE DEF ls
  <2> QED BY <2>1, SearchBounds
<1>2. hits \in SUBSET (1..Len(ls)) /\ hits \in SUBSET Nat /\ IsFiniteSet(hits)
  <2>1. hits \in SUBSET (1..Len(ls))
    BY <1>1
  <2>2. IsFiniteSet(1..Len(ls))
    BY <1>1, FS_Interval
  <2>3. hits \in SUBSET Nat
    BY <2>1
  <2> HIDE DEF hits, ls
  <2>4. IsFiniteSet(hits)
    BY <2>1, <2>2, FS_Subset
  <2> QED BY <2>1, <2>3, <2>4
<1>3. IsFiniteSet(K) /\ Cardinality(K) = IF Cardinality(hits) < MaxPerFile THEN Cardinality(hits) ELSE MaxPerFile
  <2> HIDE DEF hits
  <2> QED BY <1>2, FirstNumbers, LimitIsPositive
<1>4. ASSUME NEW n \in K
      PROVE  /\ n \in 1..MaxLines /\ ls[n] \in Lines /\ Phrase(ls[n], query) /\ OfRole(f, ls[n], query)
             /\ g[n] = [file |-> f, line |-> n, date |-> DateOf[f], text |-> ls[n]]
             /\ g[n].file = f /\ g[n].line = n /\ g[n].text = ls[n]
             /\ g[n] \in Found
  <2>1. n \in hits
    OBVIOUS
  <2>2. n \in 1..Len(ls) /\ Phrase(ls[n], query) /\ OfRole(f, ls[n], query)
    BY <1>1, <2>1
  <2>3. n \in 1..MaxLines /\ ls[n] \in Lines
    <3> HIDE DEF ls
    <3> QED BY <1>1, <2>2, SearchBounds
  <2>4. g[n] = [file |-> f, line |-> n, date |-> DateOf[f], text |-> ls[n]]
    BY DEF Match
  <2>5. DateOf[f] \in Nat
    BY SearchFiles
  <2> HIDE DEF ls, hits, K, g
  <2>6. g[n].file = f /\ g[n].line = n /\ g[n].text = ls[n]
    BY <2>4
  <2> QED BY <2>2, <2>3, <2>4, <2>5, <2>6 DEF Found
<1>5. Scanned(f) = {g[n] : n \in K}
  <2> HIDE DEF K
  <2> QED BY <1>0
<1> HIDE DEF g, K
<1>6. g \in Bijection(K, Scanned(f))
  <2>1. g \in [K -> Scanned(f)]
    BY <1>5 DEF g
  <2>2. ASSUME NEW m \in K, NEW n \in K, g[m] = g[n] PROVE m = n
    <3>1. g[m].line = m /\ g[n].line = n
      BY <1>4
    <3> QED BY <2>2, <3>1
  <2>3. \A s \in Scanned(f) : \E n \in K : g[n] = s
    BY <1>5
  <2> QED BY <2>1, <2>2, <2>3 DEF Bijection, Injection, Surjection, IsInjective
<1>7. IsFiniteSet(Scanned(f)) /\ Cardinality(Scanned(f)) = Cardinality(K)
  <2>1. g \in Surjection(K, Scanned(f)) /\ g \in Injection(K, Scanned(f))
    BY <1>6 DEF Bijection
  <2> QED BY <1>3, <2>1, FS_Surjection
<1>8. ASSUME NEW m \in Scanned(f)
      PROVE  m \in Found /\ m.file = f /\ Phrase(m.text, query) /\ OfRole(f, m.text, query)
  <2>1. PICK n \in K : m = g[n]
    BY <1>5
  <2> HIDE DEF ls, hits
  <2> QED BY <1>4, <2>1
<1>9. ASSUME NEW m \in Scanned(f), NEW n \in Scanned(f), m.line = n.line PROVE m = n
  <2>1. PICK i \in K : m = g[i]
    BY <1>5
  <2>2. PICK j \in K : n = g[j]
    BY <1>5
  <2>3. m.line = i /\ n.line = j
    BY <1>4, <2>1, <2>2
  <2> QED BY <1>9, <2>1, <2>2, <2>3
<1>10. ASSUME Plain(f)
       PROVE  hits = {n \in 1..Len(text[f]) : Phrase(text[f][n], query) /\ OfRole(f, text[f][n], query)}
  <2>1. \A i \in 1..Len(text[f]) : ~Blank(text[f][i])
    BY <1>10 DEF Plain
  <2>2. ls = text[f]
    BY <2>1, NonBlankLines
  <2>3. DOMAIN text[f] = 1..Len(text[f])
    OBVIOUS
  <2> HIDE DEF ls
  <2> QED BY <2>2, <2>3
<1> HIDE DEF hits
<1> QED BY <1>3, <1>7, <1>8, <1>9, <1>10

-----------------------------------------------------------------------------
(* Types.                                                                  *)

\* The texts of files, as TLC enumerates them and as the provers read them.
LEMMA BoundedLines ==
  ASSUME NEW x
  PROVE  x \in BoundedSeq(Lines, MaxLines) <=> x \in Seq(Lines) /\ Len(x) <= MaxLines
<1>1. BoundedSeq(Lines, MaxLines) = UNION {[1..m -> Lines] : m \in 0..MaxLines}
  BY DEF BoundedSeq, SeqOf
<1>2. ASSUME x \in Seq(Lines), Len(x) <= MaxLines PROVE x \in BoundedSeq(Lines, MaxLines)
  <2>1. x \in [1..Len(x) -> Lines] /\ Len(x) \in 0..MaxLines
    BY <1>2, SearchBounds
  <2> QED BY <1>1, <2>1
<1>3. ASSUME x \in BoundedSeq(Lines, MaxLines) PROVE x \in Seq(Lines) /\ Len(x) <= MaxLines
  <2>1. PICK m \in 0..MaxLines : x \in [1..m -> Lines]
    BY <1>1, <1>3
  <2>2. m \in Nat /\ m <= MaxLines
    BY SearchBounds
  <2>3. x \in Seq(Lines) /\ Len(x) = m
    BY <2>1, <2>2
  <2> QED BY <2>2, <2>3
<1> QED BY <1>2, <1>3

Writing ==
    \/ \E f \in Files, l \in Lines : AddLine(f, l)
    \/ \E f \in Files : RemoveFile(f)
    \/ \E d \in Doms : Build(d)

SearchStep ==
    \/ \E q \in Queries : Ask(q)
    \/ \E d \in Doms : AskIndex(d) \/ AskFiles(d)
    \/ \E t \in todo : TakeHit(t) \/ ScanFile(t)
    \/ Finish
    \/ Reply

\* A step is of the files and their indexes or of the search.
LEMMA WritingOrSearching ==
  ASSUME [Next]_vars
  PROVE  Writing \/ SearchStep \/ UNCHANGED vars
BY DEF Next, Writing, SearchStep, Doms

\* A search writes no file and no index.
LEMMA SearchKeepsFiles ==
  ASSUME SearchStep
  PROVE  UNCHANGED <<there, text, index, drift, writes>>
BY DEF SearchStep, Ask, AskIndex, AskFiles, Turn, TakeHit, ScanFile, Takes, Finish, Reply

\* Writers and builders know nothing of the search.
LEMMA WritingKeepsSearch ==
  ASSUME Writing
  PROVE  UNCHANGED <<pc, query, way, todo, cache, found, answer, tight>>
BY DEF Writing, AddLine, RemoveFile, Build, Changes, searching

\* Files and indexes keep their types.
LEMMA FilesTyped ==
  ASSUME TypedFiles, [Next]_vars
  PROVE  TypedFiles'
<1>1. MaxLines \in Nat /\ MaxWrites \in Nat
  BY SearchBounds
<1>2. ASSUME NEW f \in Files, NEW fate \in Fates, Changes(f, fate)
      PROVE  drift' \in [Files -> Fates] /\ writes' \in 0..MaxWrites /\ index' = index
  BY <1>1, <1>2 DEF TypedFiles, Changes, Worse, Fates
<1>3. ASSUME NEW f \in Files, NEW l \in Lines, AddLine(f, l) PROVE TypedFiles'
  <2>1. text \in [Files -> Seq(Lines)] /\ text[f] \in Seq(Lines) /\ Len(text[f]) <= MaxLines /\ Len(text[f]) \in Nat
    BY DEF TypedFiles
  <2>2. Len(text[f]) < MaxLines
    <3>1. Len(text[f]) <= Cardinality(LinesOf(text))
      BY <2>1, LinesOfOne
    <3>2. Cardinality(LinesOf(text)) < MaxLines
      BY <1>3 DEF AddLine
    <3>3. CASE Cardinality(LinesOf(text)) \in Nat
      BY <1>1, <2>1, <3>1, <3>2, <3>3
    <3>4. Cardinality(LinesOf(text)) \in Nat
      <4>1. IsFiniteSet(1..MaxLines) /\ IsFiniteSet(Files)
        BY FS_Interval, SearchBounds, SearchFiles
      <4>2. IsFiniteSet(Files \X (1..MaxLines))
        BY <4>1, FS_Product
      <4>3. LinesOf(text) \in SUBSET (Files \X (1..MaxLines))
        BY DEF LinesOf
      <4> QED BY <4>2, <4>3, Counted
    <3> QED BY <3>3, <3>4
  <2>3. PICK x : x = Append(text[f], l)
    OBVIOUS
  <2>4. x \in Seq(Lines) /\ Len(x) = Len(text[f]) + 1
    BY <2>1, <2>3
  <2>5. text' = [text EXCEPT ![f] = x]
    BY <1>3, <2>3 DEF AddLine
  <2>6. text' \in [Files -> Seq(Lines)] /\ \A g \in Files : text'[g] = IF g = f THEN x ELSE text[g]
    BY <2>1, <2>4, <2>5
  <2>7. \A g \in Files : Len(text'[g]) <= MaxLines
    <3>1. Len(x) <= MaxLines
      BY <1>1, <2>1, <2>2, <2>4
    <3>2. \A g \in Files : Len(text[g]) <= MaxLines
      BY DEF TypedFiles
    <3> QED BY <2>6, <3>1, <3>2
  <2>8. drift' \in [Files -> Fates] /\ writes' \in 0..MaxWrites /\ index' = index /\ there' \subseteq Files
    BY <1>2, <1>3 DEF AddLine, Fates, TypedFiles
  <2> QED BY <2>6, <2>7, <2>8 DEF TypedFiles
<1>4. ASSUME NEW f \in Files, RemoveFile(f) PROVE TypedFiles'
  <2>1. text' = [text EXCEPT ![f] = <<>>] /\ there' = there \ {f}
    BY <1>4 DEF RemoveFile
  <2>2. text' \in [Files -> Seq(Lines)] /\ \A g \in Files : text'[g] = IF g = f THEN <<>> ELSE text[g]
    BY <2>1 DEF TypedFiles
  <2>3. \A g \in Files : Len(text'[g]) <= MaxLines
    BY <1>1, <2>2 DEF TypedFiles
  <2>4. drift' \in [Files -> Fates] /\ writes' \in 0..MaxWrites /\ index' = index
    BY <1>2, <1>4 DEF RemoveFile, Fates
  <2> QED BY <2>1, <2>2, <2>3, <2>4 DEF TypedFiles
<1>5. ASSUME NEW d \in Doms, Build(d) PROVE TypedFiles'
  <2> DEFINE fs == there \cap InDomain(d)
  <2>1. index' = [index EXCEPT ![d] = [built |-> TRUE, files |-> fs, keys |-> Keys(fs)]]
    BY <1>5 DEF Build
  <2>2. ASSUME NEW k \in Keys(fs) PROVE k \in Indexed
    <3>1. PICK f \in fs : k \in UNION {{[word |-> Lower(s), file |-> f, entry |-> i - 1] : s \in Range(Entries(f)[i].text)} :
                    i \in DOMAIN Entries(f)}
      BY DEF Keys
    <3>2. PICK i \in DOMAIN Entries(f) : k \in {[word |-> Lower(s), file |-> f, entry |-> i - 1] : s \in Range(Entries(f)[i].text)}
      BY <3>1
    <3>3. PICK s \in Range(Entries(f)[i].text) : k = [word |-> Lower(s), file |-> f, entry |-> i - 1]
      BY <3>2
    <3>4. f \in Files /\ text[f] \in Seq(Lines) /\ Len(text[f]) <= MaxLines
      BY DEF TypedFiles
    <3>5. Entries(f) \in Seq(Lines) /\ Len(Entries(f)) <= Len(text[f])
      BY <3>4, NonBlankLines DEF Entries
    <3>6. Entries(f)[i] \in Lines /\ i - 1 \in 0..MaxLines
      <4>1. i \in 1..Len(Entries(f)) /\ Len(Entries(f)) \in Nat
        BY <3>5
      <4> QED BY <1>1, <3>4, <3>5, <4>1
    <3>7. PICK l \in Lines : l = Entries(f)[i]
      BY <3>6
    <3>8. Lower(s) \in UNION {{Lower(z) : z \in Range(l2.text)} : l2 \in Lines}
      BY <3>7
    <3> QED BY <3>3, <3>4, <3>6, <3>8 DEF Indexed
  <2>3. fs \in SUBSET Files /\ fs \subseteq InDomain(d)
    BY DEF TypedFiles
  <2>4. PICK R : R = [built |-> TRUE, files |-> fs, keys |-> Keys(fs)]
    OBVIOUS
  <2>5. R \in [built : BOOLEAN, files : SUBSET Files, keys : SUBSET Indexed] /\ R.files = fs /\ R.built
    <3>1. Keys(fs) \in SUBSET Indexed
      BY <2>2
    <3> HIDE DEF fs
    <3> QED BY <2>3, <2>4, <3>1
  <2>6. index' = [index EXCEPT ![d] = R]
    BY <2>1, <2>4
  <2>7. index' \in [Doms -> [built : BOOLEAN, files : SUBSET Files, keys : SUBSET Indexed]]
        /\ \A e \in Doms : index'[e] = IF e = d THEN R ELSE index[e]
    BY <2>5, <2>6 DEF TypedFiles
  <2>8. \A e \in Doms : index'[e].files \subseteq InDomain(e) /\ (~index'[e].built => index'[e] = NoIndex)
    <3> HIDE DEF fs
    <3> QED BY <2>3, <2>5, <2>7 DEF TypedFiles
  <2>9. drift' \in [Files -> Fates] /\ UNCHANGED <<there, text, writes>>
    BY <1>5 DEF Build, TypedFiles, Fates
  <2> HIDE DEF fs
  <2> QED BY <2>7, <2>8, <2>9 DEF TypedFiles
<1>6. CASE SearchStep
  BY <1>6, SearchKeepsFiles DEF TypedFiles
<1>7. CASE UNCHANGED vars
  BY <1>7 DEF TypedFiles, vars
<1> QED BY <1>3, <1>4, <1>5, <1>6, <1>7, WritingOrSearching DEF Writing

\* What a hit finds, when it finds something.
HitLines(h) == IF h.file \in DOMAIN cache THEN cache[h.file] ELSE text[h.file]
HitMatch(h) == Match(h.file, h.entry + 1, IndexedDate(h.file), HitLines(h)[h.entry + 1])
Finds(h) ==
    LET l == HitLines(h)[h.entry + 1]
    IN  /\ Wanted(h) /\ h.entry + 1 <= Len(HitLines(h))
        /\ (query.exact => Phrase(l, query)) /\ OfRole(h.file, l, query)

\* A hit taken, in terms of these.
LEMMA HitTaken ==
  ASSUME TypedFiles, TypedSearch, Turns, NEW t \in todo, TakeHit(t)
  PROVE  /\ t \in Spots /\ t.file \in Files /\ t.entry \in Nat /\ WayOf(t.file) = "fst"
         /\ HitLines(t) \in Seq(Lines) /\ Len(HitLines(t)) <= MaxLines
         /\ pc = "asking" /\ todo' = todo \ {t}
         /\ UNCHANGED <<there, text, index, drift, unsure, pc, query, way, answer, tight, writes>>
         /\ cache' = cache \/ /\ DOMAIN cache' = DOMAIN cache \cup {t.file}
                              /\ \A g \in DOMAIN cache' : cache'[g] = IF g = t.file THEN HitLines(t) ELSE cache[g]
         /\ IF Finds(t) THEN found' = found \cup {HitMatch(t)} ELSE found' = found
         /\ Finds(t) => HitLines(t)[t.entry + 1] \in Lines /\ HitMatch(t) \in Found
         /\ HitMatch(t) = [file |-> t.file, line |-> t.entry + 1, date |-> IndexedDate(t.file),
                           text |-> HitLines(t)[t.entry + 1]]
<1>1. WayOf(t.file) = "fst"
  BY DEF TakeHit, WayOf
<1>2. t \in Spots
  BY <1>1 DEF Turns
<1>3. t.file \in Files /\ t.entry \in Nat /\ MaxLines \in Nat
  BY <1>2, SearchBounds DEF Spots
<1>4. HitLines(t) \in Seq(Lines) /\ Len(HitLines(t)) <= MaxLines
  BY <1>3 DEF HitLines, TypedFiles, TypedSearch
<1>5. /\ pc = "asking" /\ todo' = todo \ {t}
      /\ UNCHANGED <<there, text, index, drift, unsure, pc, query, way, answer, tight, writes>>
  BY DEF TakeHit, Takes
<1>6. cache' = cache \/ /\ DOMAIN cache' = DOMAIN cache \cup {t.file}
                        /\ \A g \in DOMAIN cache' : cache'[g] = IF g = t.file THEN HitLines(t) ELSE cache[g]
  <2>1. cache' = IF Wanted(t) THEN [g \in DOMAIN cache \cup {t.file} |-> IF g = t.file THEN HitLines(t) ELSE cache[g]] ELSE cache
    BY DEF TakeHit, HitLines
  <2> QED BY <2>1
<1>7. Len(HitLines(t)) \in Nat /\ (t.entry + 1 \in 1..Len(HitLines(t)) <=> t.entry + 1 <= Len(HitLines(t)))
  BY <1>3, <1>4
<1>8. found' = IF Wanted(t) /\ t.entry + 1 \in 1..Len(HitLines(t)) /\ (query.exact => Phrase(HitLines(t)[t.entry + 1], query))
                    /\ OfRole(t.file, HitLines(t)[t.entry + 1], query)
               THEN found \cup {HitMatch(t)} ELSE found
  BY DEF TakeHit, HitLines, HitMatch, LineNo
<1>9. IF Finds(t) THEN found' = found \cup {HitMatch(t)} ELSE found' = found
  BY <1>7, <1>8 DEF Finds
<1>10. HitMatch(t) = [file |-> t.file, line |-> t.entry + 1, date |-> IndexedDate(t.file),
                      text |-> HitLines(t)[t.entry + 1]]
  BY DEF HitMatch, Match
<1>11. ASSUME Finds(t) PROVE HitLines(t)[t.entry + 1] \in Lines /\ HitMatch(t) \in Found
  <2>1. t.entry + 1 \in 1..Len(HitLines(t))
    BY <1>7, <1>11 DEF Finds
  <2>2. HitLines(t)[t.entry + 1] \in Lines
    BY <1>4, <2>1
  <2>3. t.entry + 1 \in 1..MaxLines
    BY <1>3, <1>4, <1>7, <2>1
  <2>4. IndexedDate(t.file) \in Nat
    BY <1>3, SearchFiles DEF IndexedDate
  <2> QED BY <1>3, <1>10, <2>2, <2>3, <2>4 DEF Found
<1> QED BY <1>1, <1>2, <1>3, <1>4, <1>5, <1>6, <1>9, <1>10, <1>11

\* A file read line by line, in the same terms.
LEMMA FileScanned ==
  ASSUME TypedFiles, TypedSearch, Turns, NEW t \in todo, ScanFile(t)
  PROVE  /\ t \in [file : Files] /\ t.file \in Files /\ WayOf(t.file) = "scan"
         /\ text[t.file] \in Seq(Lines) /\ Len(text[t.file]) <= MaxLines
         /\ pc = "asking" /\ todo' = todo \ {t}
         /\ UNCHANGED <<there, text, index, drift, unsure, pc, query, way, cache, answer, tight, writes>>
         /\ IF t.file \in there /\ InRange(DateOf[t.file], query) THEN found' = found \cup Scanned(t.file) ELSE found' = found
<1>1. WayOf(t.file) = "scan"
  BY DEF ScanFile, WayOf
<1>2. t \in [file : Files]
  BY <1>1 DEF Turns
<1>3. t.file \in Files
  BY <1>2
<1> QED BY <1>1, <1>2, <1>3 DEF ScanFile, Takes, TypedFiles

\* A domain asked through its index, in the same terms.
LEMMA IndexAsked ==
  ASSUME TypedFiles, TypedSearch, NEW d \in Doms, AskIndex(d)
  PROVE  /\ pc = "asking" /\ todo = {} /\ way[d] = "none" /\ query \in Queries
         /\ way' \in [Doms -> {"none", "fst", "scan"}]
         /\ \A e \in Doms : way'[e] = IF e = d THEN "fst" ELSE way[e]
         /\ cache' = <<>>
         /\ UNCHANGED <<there, text, index, drift, found, answer, pc, query, writes>>
         /\ unsure' \in [Files -> Fates]
         /\ \A f \in Files : /\ unsure'[f] # "rewritten" =>
                                  unsure[f] # "rewritten" /\ (DomainOf[f] = d => drift[f] # "rewritten")
                             /\ unsure'[f] = "same" =>
                                  unsure[f] = "same" /\ (DomainOf[f] = d => drift[f] = "same")
         /\ todo' \subseteq IndexSearch(d, query) /\ IndexSearch(d, query) \in SUBSET Spots
         /\ IsFiniteSet(todo') /\ Cardinality(todo') \in Nat /\ Cardinality(todo') <= Limit
         /\ Cardinality(IndexSearch(d, query)) <= Limit => todo' = IndexSearch(d, query)
         /\ IndexSearch(d, query) # {} => todo' # {}
         /\ tight' \in BOOLEAN
         /\ ~tight' => /\ ~tight
                       /\ \A i \in 1..Len(query.words) : ~(Cardinality(HitsOf(d, QueryWords(query)[i])) > Limit)
                       /\ ~(Cardinality(UNION {HitsOf(d, QueryWords(query)[i]) : i \in 1..Len(query.words)}) > Limit)
<1>1. /\ pc = "asking" /\ todo = {} /\ way[d] = "none" /\ cache' = <<>>
      /\ UNCHANGED <<there, text, index, drift, found, answer, pc, query, writes>>
  BY DEF AskIndex, Turn
<1>2. query \in Queries
  BY <1>1 DEF TypedSearch
<1>3. way' \in [Doms -> {"none", "fst", "scan"}] /\ \A e \in Doms : way'[e] = IF e = d THEN "fst" ELSE way[e]
  BY DEF AskIndex, TypedSearch
<1>4. unsure' = [f \in Files |-> IF DomainOf[f] = d THEN Worse(unsure[f], drift[f]) ELSE unsure[f]]
  BY DEF AskIndex
<1>5. \A a, b \in Fates : /\ Worse(a, b) \in Fates
                          /\ Worse(a, b) # "rewritten" => a # "rewritten" /\ b # "rewritten"
                          /\ Worse(a, b) = "same" => a = "same" /\ b = "same"
  BY DEF Fates, Worse
<1>6. \A f \in Files : unsure[f] \in Fates /\ drift[f] \in Fates
  BY DEF TypedFiles, TypedSearch
<1>7. /\ unsure' \in [Files -> Fates]
      /\ \A f \in Files : /\ unsure'[f] # "rewritten" =>
                               unsure[f] # "rewritten" /\ (DomainOf[f] = d => drift[f] # "rewritten")
                          /\ unsure'[f] = "same" =>
                               unsure[f] = "same" /\ (DomainOf[f] = d => drift[f] = "same")
  BY <1>4, <1>5, <1>6
<1>8. PICK hits \in SUBSET Spots : hits = IndexSearch(d, query)
  BY <1>2, SearchHits
<1>9. todo' \in kSubset(IF Cardinality(hits) < Limit THEN Cardinality(hits) ELSE Limit, hits)
  BY <1>8 DEF AskIndex
<1>10. PICK T : T = todo'
  OBVIOUS
<1>11. /\ T \subseteq hits /\ IsFiniteSet(T) /\ Cardinality(T) \in Nat /\ Cardinality(T) <= Limit
       /\ Cardinality(hits) <= Limit => T = hits
       /\ hits # {} => T # {}
  <2>1. T \in kSubset(IF Cardinality(hits) < Limit THEN Cardinality(hits) ELSE Limit, hits)
    BY <1>9, <1>10
  <2> QED BY <2>1, CutToLimit
<1>12. /\ todo' \subseteq IndexSearch(d, query) /\ IndexSearch(d, query) \in SUBSET Spots
       /\ IsFiniteSet(todo') /\ Cardinality(todo') \in Nat /\ Cardinality(todo') <= Limit
       /\ Cardinality(IndexSearch(d, query)) <= Limit => todo' = IndexSearch(d, query)
       /\ IndexSearch(d, query) # {} => todo' # {}
  BY <1>8, <1>10, <1>11
<1>13. DOMAIN query.words = 1..Len(query.words)
  BY <1>2, QueryParts
<1> DEFINE all == {HitsOf(d, QueryWords(query)[i]) : i \in 1..Len(query.words)}
<1>14. tight' = (tight \/ \E s \in all \cup {UNION all} : Cardinality(s) > Limit)
  <2>1. all = {HitsOf(d, QueryWords(query)[i]) : i \in DOMAIN query.words}
    BY <1>13
  <2>2. tight' = (tight \/ \E s \in {HitsOf(d, QueryWords(query)[i]) : i \in DOMAIN query.words}
                                   \cup {UNION {HitsOf(d, QueryWords(query)[i]) : i \in DOMAIN query.words}} : Cardinality(s) > Limit)
    BY DEF AskIndex
  <2> HIDE DEF all
  <2> QED BY <2>1, <2>2
<1>15. tight \in BOOLEAN
  BY DEF TypedSearch
<1>16. /\ tight' \in BOOLEAN
       /\ ~tight' => /\ ~tight
                     /\ \A i \in 1..Len(query.words) : ~(Cardinality(HitsOf(d, QueryWords(query)[i])) > Limit)
                     /\ ~(Cardinality(UNION all) > Limit)
  BY <1>14, <1>15, Zenon
<1> QED BY <1>1, <1>2, <1>3, <1>7, <1>12, <1>16

\* A domain asked line by line, in the same terms.
LEMMA FilesAsked ==
  ASSUME TypedFiles, TypedSearch, NEW d \in Doms, AskFiles(d)
  PROVE  /\ pc = "asking" /\ todo = {} /\ way[d] = "none" /\ query \in Queries
         /\ way' \in [Doms -> {"none", "fst", "scan"}]
         /\ \A e \in Doms : way'[e] = IF e = d THEN "scan" ELSE way[e]
         /\ cache' = <<>>
         /\ UNCHANGED <<there, text, index, drift, found, answer, pc, query, writes, unsure, tight>>
         /\ todo' \subseteq [file : Files] /\ IsFiniteSet(todo')
         /\ todo' = {[file |-> f] : f \in there \cap InDomain(d)}
         /\ \A f \in Files : [file |-> f] \in todo' <=> f \in there /\ DomainOf[f] = d
         /\ \A t \in todo' : DomainOf[t.file] = d
<1>1. /\ pc = "asking" /\ todo = {} /\ way[d] = "none" /\ cache' = <<>>
      /\ UNCHANGED <<there, text, index, drift, found, answer, pc, query, writes, unsure, tight>>
  BY DEF AskFiles, Turn
<1>2. query \in Queries
  BY <1>1 DEF TypedSearch
<1>3. way' \in [Doms -> {"none", "fst", "scan"}] /\ \A e \in Doms : way'[e] = IF e = d THEN "scan" ELSE way[e]
  BY DEF AskFiles, TypedSearch
<1> DEFINE fs == there \cap InDomain(d)
<1>4. todo' = {[file |-> f] : f \in fs}
  BY DEF AskFiles
<1>5. fs \subseteq Files /\ \A f \in Files : f \in fs <=> f \in there /\ DomainOf[f] = d
  BY DEF TypedFiles, InDomain
<1> HIDE DEF fs
<1>6. IsFiniteSet(todo')
  <2> DEFINE g == [f \in fs |-> [file |-> f]]
             T == {[file |-> f] : f \in fs}
  <2>1. g \in Surjection(fs, T)
    BY DEF Surjection
  <2>2. IsFiniteSet(fs)
    BY <1>5, SearchFiles, FS_Subset
  <2>3. IsFiniteSet(T)
    <3> HIDE DEF g, T
    <3> QED BY <2>1, <2>2, FS_Surjection
  <2> QED BY <1>4, <2>3
<1>7. ASSUME NEW f \in Files PROVE [file |-> f] \in todo' <=> f \in there /\ DomainOf[f] = d
  <2>1. ASSUME [file |-> f] \in todo' PROVE f \in fs
    <3>1. PICK g \in fs : [file |-> f] = [file |-> g]
      BY <1>4, <2>1
    <3>2. [file |-> f].file = [file |-> g].file
      BY <3>1
    <3>3. f = g
      BY <3>2
    <3> QED BY <3>3
  <2>2. f \in fs => [file |-> f] \in todo'
    BY <1>4
  <2> QED BY <1>5, <2>1, <2>2
<1>8. ASSUME NEW t \in todo' PROVE DomainOf[t.file] = d
  <2>1. PICK f \in fs : t = [file |-> f]
    BY <1>4
  <2> QED BY <1>5, <2>1
<1>9. todo' \subseteq [file : Files]
  BY <1>4, <1>5
<1> QED BY <1>1, <1>2, <1>3, <1>4, <1>6, <1>7, <1>8, <1>9 DEF fs

\* The search keeps its types.
LEMMA SearchTyped ==
  ASSUME TypedFiles, TypedSearch, Turns, [Next]_vars
  PROVE  TypedSearch'
<1>1. CASE Writing
  <2>1. UNCHANGED <<pc, query, way, todo, cache, found, answer, tight>>
    BY <1>1, WritingKeepsSearch
  <2>2. ASSUME NEW f \in Files, NEW fate \in Fates, Changes(f, fate)
        PROVE  unsure' \in [Files -> Fates]
    BY <2>2 DEF TypedSearch, Changes, Worse, Fates
  <2>3. unsure' \in [Files -> Fates]
    <3>1. ASSUME NEW f \in Files, NEW l \in Lines, AddLine(f, l) PROVE unsure' \in [Files -> Fates]
      BY <2>2, <3>1 DEF AddLine, Fates
    <3>2. ASSUME NEW f \in Files, RemoveFile(f) PROVE unsure' \in [Files -> Fates]
      BY <2>2, <3>2 DEF RemoveFile, Fates
    <3>3. ASSUME NEW d \in Doms, Build(d) PROVE unsure' \in [Files -> Fates]
      BY <3>3 DEF Build, TypedSearch
    <3> QED BY <1>1, <3>1, <3>2, <3>3 DEF Writing
  <2> QED BY <2>1, <2>3 DEF TypedSearch
<1>2. ASSUME NEW q \in Queries, Ask(q) PROVE TypedSearch'
  BY <1>2 DEF Ask, TypedSearch
<1>3. ASSUME NEW d \in Doms, AskIndex(d) PROVE TypedSearch'
  <2>1. todo' \subseteq Spots /\ IsFiniteSet(todo')
    BY <1>3, IndexAsked
  <2>2. /\ unsure' \in [Files -> Fates] /\ way' \in [Doms -> {"none", "fst", "scan"}] /\ tight' \in BOOLEAN
        /\ cache' = <<>> /\ UNCHANGED <<found, pc, query>>
    BY <1>3, IndexAsked
  <2> QED BY <2>1, <2>2 DEF TypedSearch
<1>4. ASSUME NEW d \in Doms, AskFiles(d) PROVE TypedSearch'
  BY <1>4, FilesAsked DEF TypedSearch
<1>5. ASSUME NEW t \in todo, TakeHit(t) PROVE TypedSearch'
  <2>1. IsFiniteSet(todo') /\ todo' \subseteq todo
    <3>1. todo' = todo \ {t}
      BY <1>5, HitTaken
    <3>2. IsFiniteSet(todo)
      BY DEF TypedSearch
    <3> QED BY <3>1, <3>2, FS_RemoveElement
  <2>2. IsFiniteSet(found') /\ found' \subseteq Found
    <3>0. IsFiniteSet(found) /\ found \subseteq Found
      BY DEF TypedSearch
    <3>1. CASE Finds(t)
      <4>1. PICK m \in Found : m = HitMatch(t)
        BY <1>5, <3>1, HitTaken
      <4>2. found' = found \cup {m}
        BY <1>5, <3>1, <4>1, HitTaken
      <4>3. IsFiniteSet(found \cup {m})
        BY <3>0, FS_AddElement
      <4> QED BY <3>0, <4>2, <4>3
    <3>2. CASE ~Finds(t)
      <4>1. found' = found
        BY <1>5, <3>2, HitTaken
      <4> QED BY <3>0, <4>1
    <3> QED BY <3>1, <3>2
  <2>3. DOMAIN cache' \subseteq Files /\ \A f \in DOMAIN cache' : cache'[f] \in Seq(Lines) /\ Len(cache'[f]) <= MaxLines
    <3>1. t.file \in Files /\ HitLines(t) \in Seq(Lines) /\ Len(HitLines(t)) <= MaxLines
      BY <1>5, HitTaken
    <3>2. \/ cache' = cache
          \/ /\ DOMAIN cache' = DOMAIN cache \cup {t.file}
             /\ \A g \in DOMAIN cache' : cache'[g] = IF g = t.file THEN HitLines(t) ELSE cache[g]
      BY <1>5, HitTaken
    <3> QED BY <3>1, <3>2 DEF TypedSearch
  <2>4. UNCHANGED <<unsure, pc, query, way, tight>>
    BY <1>5, HitTaken
  <2> QED BY <2>1, <2>2, <2>3, <2>4 DEF TypedSearch
<1>6. ASSUME NEW t \in todo, ScanFile(t) PROVE TypedSearch'
  <2>1. IsFiniteSet(todo') /\ todo' \subseteq todo
    <3>1. todo' = todo \ {t}
      BY <1>6, FileScanned
    <3>2. IsFiniteSet(todo)
      BY DEF TypedSearch
    <3> QED BY <3>1, <3>2, FS_RemoveElement
  <2>2. IsFiniteSet(Scanned(t.file)) /\ Scanned(t.file) \subseteq Found
    BY <1>6, FileScanned, ScannedLines
  <2>3. IsFiniteSet(found') /\ found' \subseteq Found
    <3>1. found' = found \cup Scanned(t.file) \/ found' = found
      BY <1>6, FileScanned
    <3>2. IsFiniteSet(found) /\ found \subseteq Found
      BY DEF TypedSearch
    <3>3. IsFiniteSet(found \cup Scanned(t.file))
      BY <2>2, <3>2, FS_Union
    <3> QED BY <2>2, <3>1, <3>2, <3>3
  <2>4. UNCHANGED <<unsure, pc, query, way, cache, tight>>
    BY <1>6, FileScanned
  <2> QED BY <2>1, <2>3, <2>4 DEF TypedSearch
<1>7. CASE Finish
  BY <1>7 DEF Finish, Asked, TypedSearch
<1>8. CASE Reply
  <2>1. DOMAIN cache' = {}
    BY <1>8 DEF Reply
  <2>2. IsFiniteSet(found')
    BY <1>8, FS_EmptySet DEF Reply
  <2> QED BY <1>8, <2>1, <2>2 DEF Reply, TypedSearch, Doms, Fates
<1>9. CASE UNCHANGED vars
  BY <1>9 DEF TypedSearch, vars, searching
<1> QED BY <1>1, <1>2, <1>3, <1>4, <1>5, <1>6, <1>7, <1>8, <1>9, WritingOrSearching DEF SearchStep

-----------------------------------------------------------------------------
(* The files and the index.                                                *)

\* What a change leaves of a file: its lines, or everything.
OldLines(f) == Len(text[f]) <= Len(text'[f]) /\ \A i \in 1..Len(text[f]) : text'[f][i] = text[f][i]
SameFile(f) == text'[f] = text[f] /\ (f \in there' <=> f \in there)

\* A file that only got longer and has no blank lines had none.
LEMMA PlainBefore ==
  ASSUME NEW f \in Files, TypedFiles, TypedFiles', OldLines(f), Plain(f)'
  PROVE  Plain(f)
<1>1. Len(text[f]) \in Nat /\ DOMAIN text[f] = 1..Len(text[f])
  BY DEF TypedFiles
<1>2. Len(text'[f]) \in Nat /\ DOMAIN text'[f] = 1..Len(text'[f])
  BY DEF TypedFiles
<1>3. \A i \in 1..Len(text[f]) : i \in 1..Len(text'[f]) /\ text'[f][i] = text[f][i]
  BY <1>1, <1>2 DEF OldLines
<1> QED BY <1>1, <1>2, <1>3 DEF Plain

\* What a change to a file leaves of it, by what the histories say became of it.
LEMMA FileChanged ==
  ASSUME TypedFiles, TypedSearch, IndexOK, NEW f \in Files,
         (\E l \in Lines : AddLine(f, l)) \/ RemoveFile(f)
  PROVE  /\ index' = index
         /\ pc = "idle" => unsure' = unsure
         /\ \A g \in Files :
              /\ g \in there' <=> text'[g] # <<>>
              /\ drift'[g] # "rewritten" => drift[g] # "rewritten" /\ OldLines(g)
              /\ drift'[g] = "same" => drift[g] = "same" /\ SameFile(g)
              /\ pc # "idle" /\ unsure'[g] # "rewritten" => unsure[g] # "rewritten" /\ OldLines(g)
              /\ pc # "idle" /\ unsure'[g] = "same" => unsure[g] = "same" /\ SameFile(g)
<1>1. text \in [Files -> Seq(Lines)] /\ Len(text[f]) \in Nat
      /\ drift \in [Files -> Fates] /\ unsure \in [Files -> Fates] /\ there \subseteq Files
  BY DEF TypedFiles, TypedSearch
<1>2. \A g \in Files : g \in there <=> text[g] # <<>>
  BY DEF IndexOK
<1>3. PICK fate \in {"grown", "rewritten"} :
        /\ Changes(f, fate)
        /\ fate = "grown" => OldLines(f)
        /\ f \in there' <=> text'[f] # <<>>
        /\ \A g \in Files \ {f} : text'[g] = text[g] /\ (g \in there' <=> g \in there)
  <2>1. ASSUME NEW l \in Lines, AddLine(f, l)
        PROVE  \E fate \in {"grown", "rewritten"} :
                 /\ Changes(f, fate)
                 /\ fate = "grown" => OldLines(f)
                 /\ f \in there' <=> text'[f] # <<>>
                 /\ \A g \in Files \ {f} : text'[g] = text[g] /\ (g \in there' <=> g \in there)
    <3>1. text' = [text EXCEPT ![f] = Append(text[f], l)] /\ there' = there \cup {f}
      BY <2>1 DEF AddLine
    <3>2. PICK x : x = Append(text[f], l)
      OBVIOUS
    <3>3. x \in Seq(Lines) /\ Len(x) = Len(text[f]) + 1 /\ x # <<>> /\ \A i \in 1..Len(text[f]) : x[i] = text[f][i]
      BY <1>1, <3>2
    <3>4. \A g \in Files : text'[g] = IF g = f THEN x ELSE text[g]
      BY <1>1, <3>1, <3>2
    <3>5. OldLines(f)
      BY <1>1, <3>3, <3>4 DEF OldLines
    <3>6. Changes(f, IF f \in there THEN "grown" ELSE "rewritten")
      BY <2>1 DEF AddLine
    <3>7. PICK fate \in {"grown", "rewritten"} : fate = IF f \in there THEN "grown" ELSE "rewritten"
      OBVIOUS
    <3>8. Changes(f, fate)
      BY <3>6, <3>7
    <3>9. /\ f \in there' <=> text'[f] # <<>>
          /\ \A g \in Files \ {f} : text'[g] = text[g] /\ (g \in there' <=> g \in there)
      BY <3>1, <3>3, <3>4
    <3> QED BY <3>5, <3>8, <3>9
  <2>2. ASSUME RemoveFile(f)
        PROVE  \E fate \in {"grown", "rewritten"} :
                 /\ Changes(f, fate)
                 /\ fate = "grown" => OldLines(f)
                 /\ f \in there' <=> text'[f] # <<>>
                 /\ \A g \in Files \ {f} : text'[g] = text[g] /\ (g \in there' <=> g \in there)
    <3>1. text' = [text EXCEPT ![f] = <<>>] /\ there' = there \ {f} /\ Changes(f, "rewritten")
      BY <2>2 DEF RemoveFile
    <3>2. /\ f \in there' <=> text'[f] # <<>>
          /\ \A g \in Files \ {f} : text'[g] = text[g] /\ (g \in there' <=> g \in there)
      BY <1>1, <3>1
    <3> QED BY <3>1, <3>2
  <2> QED BY <2>1, <2>2
<1>4. drift' = [drift EXCEPT ![f] = Worse(@, fate)] /\ index' = index
      /\ unsure' = IF pc # "idle" THEN [unsure EXCEPT ![f] = Worse(@, fate)] ELSE unsure
  BY <1>3 DEF Changes
<1>5. \A a \in Fates : /\ Worse(a, fate) # "same"
                       /\ Worse(a, fate) # "rewritten" => a # "rewritten" /\ fate = "grown"
  BY DEF Fates, Worse
<1>6. ASSUME NEW g \in Files, g # f PROVE OldLines(g) /\ SameFile(g)
  <2>1. text'[g] = text[g] /\ (g \in there' <=> g \in there) /\ Len(text[g]) \in Nat
    BY <1>1, <1>3, <1>6
  <2> QED BY <2>1 DEF OldLines, SameFile
<1> DEFINE Worsened(h) == [h EXCEPT ![f] = Worse(@, fate)]
<1>7. ASSUME NEW h \in [Files -> Fates], NEW g \in Files
      PROVE  /\ Worsened(h)[g] # "rewritten" => h[g] # "rewritten" /\ OldLines(g)
             /\ Worsened(h)[g] = "same" => h[g] = "same" /\ SameFile(g)
  <2>1. CASE g = f
    <3>1. Worsened(h)[g] = Worse(h[f], fate) /\ h[f] \in Fates
      BY <2>1
    <3> HIDE DEF Worsened
    <3> QED BY <1>3, <1>5, <2>1, <3>1
  <2>2. CASE g # f
    <3>1. Worsened(h)[g] = h[g]
      BY <2>2
    <3> HIDE DEF Worsened
    <3> QED BY <1>6, <2>2, <3>1
  <2> QED BY <2>1, <2>2
<1>8. ASSUME NEW g \in Files
      PROVE  /\ g \in there' <=> text'[g] # <<>>
             /\ drift'[g] # "rewritten" => drift[g] # "rewritten" /\ OldLines(g)
             /\ drift'[g] = "same" => drift[g] = "same" /\ SameFile(g)
             /\ pc # "idle" /\ unsure'[g] # "rewritten" => unsure[g] # "rewritten" /\ OldLines(g)
             /\ pc # "idle" /\ unsure'[g] = "same" => unsure[g] = "same" /\ SameFile(g)
  <2>1. g \in there' <=> text'[g] # <<>>
    BY <1>2, <1>3
  <2>2. /\ drift'[g] # "rewritten" => drift[g] # "rewritten" /\ OldLines(g)
        /\ drift'[g] = "same" => drift[g] = "same" /\ SameFile(g)
    <3>1. drift' = Worsened(drift)
      BY <1>4
    <3> HIDE DEF Worsened
    <3> QED BY <1>1, <1>7, <3>1
  <2>3. /\ pc # "idle" /\ unsure'[g] # "rewritten" => unsure[g] # "rewritten" /\ OldLines(g)
        /\ pc # "idle" /\ unsure'[g] = "same" => unsure[g] = "same" /\ SameFile(g)
    <3>1. pc # "idle" => unsure' = Worsened(unsure)
      BY <1>4
    <3> HIDE DEF Worsened
    <3> QED BY <1>1, <1>7, <3>1
  <2> QED BY <2>1, <2>2, <2>3
<1> QED BY <1>4, <1>8

\* What writers and builders do to a search that is under way.
LEMMA WritingFiles ==
  ASSUME TypedFiles, TypedSearch, IndexOK, Writing
  PROVE  /\ UNCHANGED <<pc, query, way, todo, cache, found, answer, tight>>
         /\ pc = "idle" => unsure' = unsure
         /\ \A g \in Files :
              /\ pc # "idle" /\ unsure'[g] # "rewritten" => unsure[g] # "rewritten" /\ OldLines(g)
              /\ pc # "idle" /\ unsure'[g] = "same" => unsure[g] = "same" /\ SameFile(g)
              /\ OldLines(g) /\ Plain(g)' => Plain(g)
<1>1. UNCHANGED <<pc, query, way, todo, cache, found, answer, tight>>
  BY WritingKeepsSearch
<1>2. TypedFiles'
  BY FilesTyped DEF Writing, Next, Doms
<1>3. ASSUME NEW g \in Files PROVE OldLines(g) /\ Plain(g)' => Plain(g)
  BY <1>2, PlainBefore
<1>4. ASSUME NEW f \in Files, (\E l \in Lines : AddLine(f, l)) \/ RemoveFile(f)
      PROVE  /\ pc = "idle" => unsure' = unsure
             /\ \A g \in Files :
                  /\ pc # "idle" /\ unsure'[g] # "rewritten" => unsure[g] # "rewritten" /\ OldLines(g)
                  /\ pc # "idle" /\ unsure'[g] = "same" => unsure[g] = "same" /\ SameFile(g)
  BY <1>4, FileChanged
<1>5. ASSUME NEW d \in Doms, Build(d)
      PROVE  /\ unsure' = unsure
             /\ \A g \in Files : OldLines(g) /\ SameFile(g)
  <2>1. UNCHANGED <<there, text, unsure>>
    BY <1>5 DEF Build
  <2>2. \A g \in Files : Len(text[g]) \in Nat
    BY DEF TypedFiles
  <2> QED BY <2>1, <2>2 DEF OldLines, SameFile
<1>6. CASE \E f \in Files : (\E l \in Lines : AddLine(f, l)) \/ RemoveFile(f)
  BY <1>1, <1>3, <1>4, <1>6
<1>7. CASE \E d \in Doms : Build(d)
  BY <1>1, <1>3, <1>5, <1>7
<1> QED BY <1>6, <1>7 DEF Writing

\* The entries of a file are its lines when none is blank, and no more of them otherwise.
LEMMA EntriesOf ==
  ASSUME TypedFiles, NEW f \in Files
  PROVE  /\ Entries(f) \in Seq(Lines) /\ Len(Entries(f)) \in Nat /\ DOMAIN Entries(f) = 1..Len(Entries(f))
         /\ text[f] \in Seq(Lines) /\ Len(text[f]) \in Nat /\ DOMAIN text[f] = 1..Len(text[f])
         /\ Len(Entries(f)) <= Len(text[f])
         /\ Plain(f) => Entries(f) = text[f]
         /\ \A i \in 1..Len(text[f]) : ~Blank(text[f][i]) => \E j \in 1..Len(Entries(f)) : Entries(f)[j] = text[f][i]
<1>1. text[f] \in Seq(Lines)
  BY DEF TypedFiles
<1>2. /\ Entries(f) \in Seq(Lines)
      /\ Len(Entries(f)) <= Len(text[f])
      /\ \A i \in 1..Len(text[f]) : ~Blank(text[f][i]) => \E j \in 1..Len(Entries(f)) : Entries(f)[j] = text[f][i]
      /\ (\A i \in 1..Len(text[f]) : ~Blank(text[f][i])) => Entries(f) = text[f]
  BY <1>1, NonBlankLines DEF Entries
<1>3. DOMAIN text[f] = 1..Len(text[f]) /\ Len(text[f]) \in Nat
  BY <1>1
<1>4. Len(Entries(f)) \in Nat /\ DOMAIN Entries(f) = 1..Len(Entries(f))
  BY <1>2
<1> QED BY <1>1, <1>2, <1>3, <1>4 DEF Plain

\* The keys of files, word by word.
LEMMA KeysOfFiles ==
  ASSUME TypedFiles, NEW fs \in SUBSET Files
  PROVE  /\ \A k \in Keys(fs) : k.file \in fs /\ k.entry + 1 \in 1..Len(Entries(k.file))
                                /\ HasWord(Entries(k.file)[k.entry + 1], k.word)
         /\ \A f \in fs : \A i \in 1..Len(Entries(f)) : \A w : HasWord(Entries(f)[i], w) =>
              [word |-> w, file |-> f, entry |-> i - 1] \in Keys(fs)
<1>1. ASSUME NEW k \in Keys(fs)
      PROVE  k.file \in fs /\ k.entry + 1 \in 1..Len(Entries(k.file)) /\ HasWord(Entries(k.file)[k.entry + 1], k.word)
  <2>1. PICK f \in fs : k \in UNION {{[word |-> Lower(s), file |-> f, entry |-> i - 1] : s \in Range(Entries(f)[i].text)} :
                                      i \in DOMAIN Entries(f)}
    BY DEF Keys
  <2>2. PICK i \in DOMAIN Entries(f) : k \in {[word |-> Lower(s), file |-> f, entry |-> i - 1] : s \in Range(Entries(f)[i].text)}
    BY <2>1
  <2>3. PICK s \in Range(Entries(f)[i].text) : k = [word |-> Lower(s), file |-> f, entry |-> i - 1]
    BY <2>2
  <2>4. i \in 1..Len(Entries(f)) /\ i \in Int
    BY EntriesOf
  <2>5. k.file = f /\ k.entry + 1 = i /\ k.word = Lower(s)
    BY <2>3, <2>4
  <2>6. HasWord(Entries(f)[i], Lower(s))
    BY DEF HasWord
  <2> QED BY <2>4, <2>5, <2>6
<1>2. ASSUME NEW f \in fs, NEW i \in 1..Len(Entries(f)), NEW w, HasWord(Entries(f)[i], w)
      PROVE  [word |-> w, file |-> f, entry |-> i - 1] \in Keys(fs)
  <2>1. PICK s \in Range(Entries(f)[i].text) : Lower(s) = w
    BY <1>2 DEF HasWord
  <2>2. i \in DOMAIN Entries(f)
    BY EntriesOf
  <2>3. [word |-> w, file |-> f, entry |-> i - 1] \in
          {[word |-> Lower(z), file |-> f, entry |-> i - 1] : z \in Range(Entries(f)[i].text)}
    BY <2>1
  <2> QED BY <2>2, <2>3 DEF Keys
<1> QED BY <1>1, <1>2

\* The keys stay true of the files that have not been replaced.
LEMMA IndexStep ==
  ASSUME TypedFiles, TypedSearch, IndexOK, [Next]_vars
  PROVE  IndexOK'
<1>0. TypedFiles'
  BY FilesTyped
<1>1. ASSUME NEW f \in Files, (\E l \in Lines : AddLine(f, l)) \/ RemoveFile(f) PROVE IndexOK'
  <2>1. index' = index /\ \A g \in Files : g \in there' <=> text'[g] # <<>>
    BY <1>1, FileChanged
  <2>2. ASSUME NEW g \in Files
        PROVE  /\ drift'[g] # "rewritten" => drift[g] # "rewritten" /\ OldLines(g)
               /\ drift'[g] = "same" => drift[g] = "same" /\ SameFile(g)
    BY <1>1, FileChanged
  <2>3. ASSUME NEW d \in Doms, NEW k \in index[d].keys
        PROVE  /\ DomainOf[k.file] = d
               /\ drift'[k.file] # "rewritten" /\ Plain(k.file)' =>
                    k.entry + 1 <= Len(text'[k.file]) /\ HasWord(text'[k.file][k.entry + 1], k.word)
               /\ drift'[k.file] = "same" => k.entry + 1 <= Len(text'[k.file])
    <3>1. PICK g \in Files : g = k.file
      BY KeyParts DEF TypedFiles
    <3>2. PICK e \in Nat : e = k.entry
      BY KeyParts, SearchBounds DEF TypedFiles
    <3>3. /\ DomainOf[g] = d
          /\ drift[g] # "rewritten" /\ Plain(g) => e + 1 <= Len(text[g]) /\ HasWord(text[g][e + 1], k.word)
          /\ drift[g] = "same" => e + 1 <= Len(text[g])
      BY <3>1, <3>2 DEF IndexOK
    <3>4. Len(text[g]) \in Nat /\ Len(text'[g]) \in Nat
      BY <1>0 DEF TypedFiles
    <3>5. ASSUME drift'[g] # "rewritten", Plain(g)'
          PROVE  e + 1 <= Len(text'[g]) /\ HasWord(text'[g][e + 1], k.word)
      <4>1. drift[g] # "rewritten" /\ OldLines(g) /\ Plain(g)
        BY <1>0, <2>2, <3>5, PlainBefore
      <4>2. e + 1 \in 1..Len(text[g]) /\ HasWord(text[g][e + 1], k.word)
        BY <3>3, <3>4, <4>1
      <4> QED BY <3>4, <4>1, <4>2 DEF OldLines
    <3>6. drift'[g] = "same" => e + 1 <= Len(text'[g])
      BY <2>2, <3>3 DEF SameFile
    <3>7. Plain(k.file)' <=> Plain(g)'
      BY <3>1, KeyParts DEF Plain
    <3> QED BY <3>1, <3>2, <3>3, <3>5, <3>6, <3>7
  <2>4. ASSUME NEW g \in Files, drift'[g] = "same",
               NEW i \in 1..Len(NonBlank(text'[g])), NEW w, HasWord(NonBlank(text'[g])[i], w)
        PROVE  [word |-> w, file |-> g, entry |-> i - 1] \in index[DomainOf[g]].keys
    <3>1. drift[g] = "same" /\ text'[g] = text[g]
      BY <2>2, <2>4 DEF SameFile
    <3> QED BY <2>4, <3>1 DEF IndexOK, Entries
  <2> QED BY <2>1, <2>3, <2>4 DEF IndexOK, Entries
<1>2. ASSUME NEW d \in Doms, Build(d) PROVE IndexOK'
  <2> DEFINE fs == there \cap InDomain(d)
  <2>1. index' = [index EXCEPT ![d] = [built |-> TRUE, files |-> fs, keys |-> Keys(fs)]]
        /\ drift' = [f \in Files |-> IF DomainOf[f] = d THEN "same" ELSE drift[f]] /\ UNCHANGED <<there, text>>
    BY <1>2 DEF Build
  <2>2. fs \in SUBSET Files /\ \A f \in Files : f \in fs <=> f \in there /\ DomainOf[f] = d
    BY DEF TypedFiles, InDomain
  <2>3. \A e \in Doms : index'[e].keys = IF e = d THEN Keys(fs) ELSE index[e].keys
    <3> HIDE DEF fs
    <3> QED BY <2>1 DEF TypedFiles
  <2>4. \A f \in Files : drift'[f] = IF DomainOf[f] = d THEN "same" ELSE drift[f]
    BY <2>1
  <2> HIDE DEF fs
  <2>5. \A f \in Files : f \in there' <=> text'[f] # <<>>
    BY <2>1 DEF IndexOK
  <2>6. ASSUME NEW e \in Doms, NEW k \in index'[e].keys
        PROVE  /\ DomainOf[k.file] = e
               /\ drift'[k.file] # "rewritten" /\ Plain(k.file)' =>
                    k.entry + 1 <= Len(text'[k.file]) /\ HasWord(text'[k.file][k.entry + 1], k.word)
               /\ drift'[k.file] = "same" => k.entry + 1 <= Len(text'[k.file])
    <3>0. k.file \in Files /\ text' = text
      BY <1>0, <2>1, KeyParts DEF TypedFiles
    <3>1. CASE e = d
      <4>1. k.file \in fs /\ k.entry + 1 \in 1..Len(Entries(k.file)) /\ HasWord(Entries(k.file)[k.entry + 1], k.word)
        BY <2>2, <2>3, <3>1, KeysOfFiles
      <4>2. DomainOf[k.file] = d
        BY <2>2, <4>1
      <4>3. Len(Entries(k.file)) <= Len(text[k.file]) /\ Len(text[k.file]) \in Nat /\ Len(Entries(k.file)) \in Nat
            /\ (Plain(k.file) => Entries(k.file) = text[k.file])
        BY <3>0, EntriesOf
      <4>4. k.entry + 1 <= Len(text[k.file])
        BY <4>1, <4>3
      <4>5. Plain(k.file)' => Plain(k.file)
        BY <3>0 DEF Plain
      <4> QED BY <3>0, <3>1, <4>1, <4>2, <4>3, <4>4, <4>5
    <3>2. CASE e # d
      <4>1. k \in index[e].keys
        BY <2>3, <3>2
      <4>2. DomainOf[k.file] = e
        BY <4>1 DEF IndexOK
      <4>3. drift'[k.file] = drift[k.file]
        BY <2>4, <3>0, <3>2, <4>2
      <4>4. Plain(k.file)' => Plain(k.file)
        BY <3>0 DEF Plain
      <4> QED BY <3>0, <4>1, <4>3, <4>4 DEF IndexOK
    <3> QED BY <3>1, <3>2
  <2>7. ASSUME NEW g \in Files, drift'[g] = "same",
               NEW i \in 1..Len(NonBlank(text'[g])), NEW w, HasWord(NonBlank(text'[g])[i], w)
        PROVE  [word |-> w, file |-> g, entry |-> i - 1] \in index'[DomainOf[g]].keys
    <3>0. i \in 1..Len(Entries(g)) /\ HasWord(Entries(g)[i], w) /\ DomainOf[g] \in Doms
      BY <2>1, <2>7, SearchFiles DEF Entries, Doms
    <3>1. CASE DomainOf[g] = d
      <4>1. Len(text[g]) # 0
        BY <3>0, EntriesOf
      <4>2. g \in there
        BY <4>1 DEF IndexOK
      <4>3. g \in fs
        BY <2>2, <3>1, <4>2
      <4> QED BY <2>2, <2>3, <3>0, <3>1, <4>3, KeysOfFiles
    <3>2. CASE DomainOf[g] # d
      <4>1. drift[g] = "same"
        BY <2>4, <2>7, <3>2
      <4> QED BY <2>3, <3>0, <3>2, <4>1 DEF IndexOK
    <3> QED BY <3>1, <3>2
  <2> QED BY <2>5, <2>6, <2>7 DEF IndexOK, Entries
<1>3. CASE SearchStep \/ UNCHANGED vars
  <2>1. UNCHANGED <<there, text, index, drift>>
    BY <1>3, SearchKeepsFiles DEF vars
  <2> QED BY <2>1 DEF IndexOK, Plain, Entries
<1> QED BY <1>1, <1>2, <1>3, WritingOrSearching DEF Writing

\* A hit is of its domain and, by the index, has the words it was found by.
LEMMA HitsOfDomain ==
  ASSUME TypedFiles, IndexOK, NEW d \in Doms, NEW q \in Queries, NEW h \in IndexSearch(d, q)
  PROVE  /\ h \in Spots /\ h.file \in Files /\ DomainOf[h.file] = d
         /\ drift[h.file] # "rewritten" /\ Plain(h.file) =>
              h.entry + 1 <= Len(text[h.file]) /\ HasWords(text[h.file][h.entry + 1], q)
         /\ drift[h.file] = "same" => h.entry + 1 <= Len(text[h.file])
<1>1. h \in Spots /\ h.file \in Files
  BY SearchHits DEF Spots
<1>2. ASSUME NEW i \in 1..Len(q.words), h \in HitsOf(d, QueryWords(q)[i])
      PROVE  /\ DomainOf[h.file] = d
             /\ drift[h.file] # "rewritten" /\ Plain(h.file) =>
                  h.entry + 1 <= Len(text[h.file]) /\ HasWord(text[h.file][h.entry + 1], QueryWords(q)[i])
             /\ drift[h.file] = "same" => h.entry + 1 <= Len(text[h.file])
  <2>1. PICK w : w = QueryWords(q)[i]
    OBVIOUS
  <2>2. PICK k : k = [word |-> w, file |-> h.file, entry |-> h.entry]
    OBVIOUS
  <2>3. k \in index[d].keys
    BY <1>2, <2>1, <2>2, HitSpots
  <2>4. k.word = w /\ k.file = h.file /\ k.entry = h.entry
    BY <2>2
  <2> QED BY <2>1, <2>3, <2>4 DEF IndexOK
<1>3. IF q.any THEN \E i \in 1..Len(q.words) : h \in HitsOf(d, QueryWords(q)[i])
      ELSE \A i \in 1..Len(q.words) : h \in HitsOf(d, QueryWords(q)[i])
  BY SearchHits
<1>4. Len(q.words) \in Nat \ {0} /\ Range(QueryWords(q)) = {QueryWords(q)[i] : i \in 1..Len(q.words)} /\ q.any \in BOOLEAN
  BY QueryParts
<1>5. PICK j \in 1..Len(q.words) : h \in HitsOf(d, QueryWords(q)[j])
  <2>1. 1 \in 1..Len(q.words)
    BY <1>4
  <2> QED BY <1>3, <2>1
<1>6. DomainOf[h.file] = d /\ (drift[h.file] = "same" => h.entry + 1 <= Len(text[h.file]))
      /\ (drift[h.file] # "rewritten" /\ Plain(h.file) => h.entry + 1 <= Len(text[h.file]))
  BY <1>2, <1>5
<1>7. ASSUME drift[h.file] # "rewritten", Plain(h.file) PROVE HasWords(text[h.file][h.entry + 1], q)
  <2>1. CASE q.any
    <3>1. HasWord(text[h.file][h.entry + 1], QueryWords(q)[j])
      BY <1>2, <1>5, <1>7
    <3> QED BY <1>4, <2>1, <3>1 DEF HasWords
  <2>2. CASE ~q.any
    <3>1. \A i \in 1..Len(q.words) : HasWord(text[h.file][h.entry + 1], QueryWords(q)[i])
      BY <1>2, <1>3, <1>7, <2>2
    <3> QED BY <1>4, <2>2, <3>1 DEF HasWords
  <2> QED BY <2>1, <2>2
<1> QED BY <1>1, <1>6, <1>7

-----------------------------------------------------------------------------
(* The turns of the domains, and what is found.                            *)

\* A search begins with nothing and ends with an answer.
LEMMA PhasesStep ==
  ASSUME TypedFiles, TypedSearch, Phases, IndexOK, [Next]_vars
  PROVE  Phases'
<1>0. found' = found => Answers' = Answers
  BY DEF Answers
<1>1. CASE Writing
  <2>1. /\ UNCHANGED <<pc, query, way, todo, cache, found, answer, tight>>
        /\ pc = "idle" => unsure' = unsure
    BY <1>1, WritingFiles
  <2> QED BY <1>0, <2>1 DEF Phases
<1>2. ASSUME NEW q \in Queries, Ask(q) PROVE Phases'
  BY <1>2 DEF Ask, Phases
<1>3. ASSUME NEW d \in Doms, AskIndex(d) \/ AskFiles(d) PROVE Phases'
  BY <1>3 DEF AskIndex, AskFiles, Turn, Phases
<1>4. ASSUME NEW t \in todo, TakeHit(t) \/ ScanFile(t) PROVE Phases'
  BY <1>4 DEF TakeHit, ScanFile, Takes, Phases
<1>5. CASE Finish
  <2>1. pc' = "done" /\ todo' = {} /\ answer' \in Answers /\ found' = found
    BY <1>5 DEF Finish, Asked
  <2> QED BY <1>0, <2>1 DEF Phases
<1>6. CASE Reply
  BY <1>6 DEF Reply, Phases, Doms
<1>7. CASE UNCHANGED vars
  BY <1>0, <1>7 DEF Phases, vars, searching
<1> QED BY <1>1, <1>2, <1>3, <1>4, <1>5, <1>6, <1>7, WritingOrSearching DEF SearchStep

\* What waits and what was found belong to domains that have been asked.
LEMMA TurnsStep ==
  ASSUME TypedFiles, TypedSearch, Phases, Turns, IndexOK, [Next]_vars
  PROVE  Turns'
<1>0. \A m \in found : m.file \in Files /\ DomainOf[m.file] \in Doms
  BY SearchFiles DEF TypedSearch, Found, Doms
<1>1. CASE Writing \/ (\E q \in Queries : Ask(q)) \/ Finish \/ UNCHANGED vars
  <2>1. UNCHANGED <<way, todo, found>>
    BY <1>1, WritingKeepsSearch DEF Ask, Finish, vars, searching
  <2> QED BY <2>1 DEF Turns, WayOf
<1>2. ASSUME NEW d \in Doms, AskIndex(d) PROVE Turns'
  <2>1. /\ way[d] = "none" /\ query \in Queries /\ found' = found /\ todo' \subseteq IndexSearch(d, query)
        /\ \A e \in Doms : way'[e] = IF e = d THEN "fst" ELSE way[e]
    BY <1>2, IndexAsked
  <2>2. ASSUME NEW t \in todo' PROVE way'[DomainOf[t.file]] = "fst" /\ t \in Spots
    <3>1. t \in Spots /\ DomainOf[t.file] = d
      BY <2>1, HitsOfDomain
    <3> QED BY <2>1, <3>1
  <2>3. ASSUME NEW m \in found PROVE way'[DomainOf[m.file]] # "none"
    BY <1>0, <2>1 DEF Turns, WayOf
  <2> QED BY <2>1, <2>2, <2>3 DEF Turns, WayOf
<1>3. ASSUME NEW d \in Doms, AskFiles(d) PROVE Turns'
  <2>1. /\ way[d] = "none" /\ found' = found /\ todo' \subseteq [file : Files] /\ \A t \in todo' : DomainOf[t.file] = d
        /\ \A e \in Doms : way'[e] = IF e = d THEN "scan" ELSE way[e]
    BY <1>3, FilesAsked
  <2>2. ASSUME NEW t \in todo' PROVE way'[DomainOf[t.file]] = "scan" /\ t \in [file : Files]
    BY <2>1
  <2>3. ASSUME NEW m \in found PROVE way'[DomainOf[m.file]] # "none"
    BY <1>0, <2>1 DEF Turns, WayOf
  <2> QED BY <2>1, <2>2, <2>3 DEF Turns, WayOf
<1>4. ASSUME NEW t \in todo, TakeHit(t) PROVE Turns'
  <2>1. way' = way /\ todo' \subseteq todo
    BY <1>4, HitTaken
  <2>2. ASSUME NEW m \in found' PROVE m \in found \/ m.file = t.file
    <3>1. found' = found \/ found' = found \cup {HitMatch(t)}
      BY <1>4, HitTaken
    <3>2. HitMatch(t).file = t.file
      BY DEF HitMatch, Match
    <3> QED BY <3>1, <3>2
  <2>3. WayOf(t.file) = "fst"
    BY <1>4, HitTaken
  <2> QED BY <2>1, <2>2, <2>3 DEF Turns, WayOf
<1>5. ASSUME NEW t \in todo, ScanFile(t) PROVE Turns'
  <2>1. way' = way /\ todo' \subseteq todo
    BY <1>5, FileScanned
  <2>2. ASSUME NEW m \in found' PROVE m \in found \/ m.file = t.file
    <3>1. found' = found \/ found' = found \cup Scanned(t.file)
      BY <1>5, FileScanned
    <3>2. \A n \in Scanned(t.file) : n.file = t.file
      BY <1>5, FileScanned, ScannedLines
    <3> QED BY <3>1, <3>2
  <2>3. WayOf(t.file) = "scan"
    BY <1>5, FileScanned
  <2> QED BY <2>1, <2>2, <2>3 DEF Turns, WayOf
<1>6. CASE Reply
  <2>1. todo' = {} /\ found' = {}
    BY <1>6 DEF Reply, Phases
  <2> QED BY <2>1 DEF Turns
<1> QED BY <1>1, <1>2, <1>3, <1>4, <1>5, <1>6, WritingOrSearching DEF SearchStep

\* The hits that wait stay true while files grow.
LEMMA TodoStep ==
  ASSUME TypedFiles, TypedSearch, Phases, Turns, IndexOK, TodoOK, [Next]_vars
  PROVE  TodoOK'
<1>0. TypedFiles'
  BY FilesTyped
<1>1. CASE Writing
  <2>1. /\ UNCHANGED <<pc, query, way, todo>>
    BY <1>1, WritingFiles
  <2>2. ASSUME NEW t \in todo, WayOf(t.file) = "fst"
        PROVE  /\ unsure'[t.file] # "rewritten" /\ Plain(t.file)' =>
                    t.entry + 1 <= Len(text'[t.file]) /\ HasWords(text'[t.file][t.entry + 1], query)
               /\ unsure'[t.file] = "same" => t.entry + 1 <= Len(text'[t.file])
    <3>1. pc # "idle" /\ t.file \in Files /\ t.entry \in Nat
      BY <2>2, SearchBounds DEF Phases, Turns, Spots
    <3>2. /\ unsure'[t.file] # "rewritten" => unsure[t.file] # "rewritten" /\ OldLines(t.file)
          /\ unsure'[t.file] = "same" => unsure[t.file] = "same" /\ SameFile(t.file)
          /\ OldLines(t.file) /\ Plain(t.file)' => Plain(t.file)
      BY <1>1, <3>1, WritingFiles
    <3>3. Len(text[t.file]) \in Nat /\ Len(text'[t.file]) \in Nat
      BY <1>0, <3>1 DEF TypedFiles
    <3>4. ASSUME unsure'[t.file] # "rewritten", Plain(t.file)'
          PROVE  t.entry + 1 <= Len(text'[t.file]) /\ HasWords(text'[t.file][t.entry + 1], query)
      <4>1. OldLines(t.file) /\ t.entry + 1 <= Len(text[t.file]) /\ HasWords(text[t.file][t.entry + 1], query)
        BY <2>2, <3>2, <3>4 DEF TodoOK
      <4>2. t.entry + 1 \in 1..Len(text[t.file])
        BY <3>1, <3>3, <4>1
      <4>3. text'[t.file][t.entry + 1] = text[t.file][t.entry + 1] /\ Len(text[t.file]) <= Len(text'[t.file])
        BY <4>1, <4>2 DEF OldLines
      <4> QED BY <3>1, <3>3, <4>1, <4>3
    <3>5. unsure'[t.file] = "same" => t.entry + 1 <= Len(text'[t.file])
      BY <2>2, <3>2 DEF TodoOK, SameFile
    <3> QED BY <3>4, <3>5
  <2> QED BY <2>1, <2>2 DEF TodoOK, WayOf
<1>2. CASE (\E q \in Queries : Ask(q)) \/ Finish \/ Reply
  <2>1. todo' = {}
    BY <1>2 DEF Ask, Finish, Asked, Reply, Phases
  <2> QED BY <2>1 DEF TodoOK
<1>3. ASSUME NEW d \in Doms, AskIndex(d) PROVE TodoOK'
  <2>1. query \in Queries /\ todo' \subseteq IndexSearch(d, query) /\ UNCHANGED <<text, query>>
    BY <1>3, IndexAsked
  <2>2. ASSUME NEW t \in todo'
        PROVE  /\ unsure'[t.file] # "rewritten" /\ Plain(t.file)' =>
                    t.entry + 1 <= Len(text[t.file]) /\ HasWords(text[t.file][t.entry + 1], query)
               /\ unsure'[t.file] = "same" => t.entry + 1 <= Len(text[t.file])
    <3>1. t \in IndexSearch(d, query)
      BY <2>1
    <3>2. t.file \in Files /\ DomainOf[t.file] = d
      BY <2>1, <3>1, HitsOfDomain
    <3>3. /\ unsure'[t.file] # "rewritten" => drift[t.file] # "rewritten"
          /\ unsure'[t.file] = "same" => drift[t.file] = "same"
      BY <1>3, <3>2, IndexAsked
    <3>4. Plain(t.file)' => Plain(t.file)
      BY <2>1 DEF Plain
    <3> QED BY <2>1, <3>1, <3>3, <3>4, HitsOfDomain
  <2> QED BY <2>1, <2>2 DEF TodoOK
<1>4. ASSUME NEW d \in Doms, AskFiles(d) PROVE TodoOK'
  <2>1. \A t \in todo' : way'[DomainOf[t.file]] # "fst"
    BY <1>4, FilesAsked
  <2> QED BY <2>1 DEF TodoOK, WayOf
<1>5. ASSUME NEW t \in todo, TakeHit(t) \/ ScanFile(t) PROVE TodoOK'
  <2>1. todo' \subseteq todo /\ UNCHANGED <<text, unsure, query, way>>
    BY <1>5 DEF TakeHit, ScanFile, Takes
  <2> QED BY <2>1 DEF TodoOK, WayOf, Plain
<1>6. CASE UNCHANGED vars
  BY <1>6 DEF TodoOK, WayOf, Plain, vars, searching
<1> QED BY <1>1, <1>2, <1>3, <1>4, <1>5, <1>6, WritingOrSearching DEF SearchStep

\* So do the lines read before.
LEMMA CacheStep ==
  ASSUME TypedFiles, TypedSearch, Phases, Turns, IndexOK, CacheOK, [Next]_vars
  PROVE  CacheOK'
<1>0. TypedFiles'
  BY FilesTyped
<1>1. CASE Writing
  <2>1. UNCHANGED <<pc, cache>>
    BY <1>1, WritingFiles
  <2>2. ASSUME NEW f \in DOMAIN cache
        PROVE  /\ unsure'[f] # "rewritten" =>
                    Len(cache[f]) <= Len(text'[f]) /\ \A i \in 1..Len(cache[f]) : cache[f][i] = text'[f][i]
               /\ unsure'[f] = "same" => cache[f] = text'[f]
    <3>1. pc # "idle" /\ f \in Files /\ Len(cache[f]) \in Nat
      BY DEF Phases, TypedSearch
    <3>2. /\ unsure'[f] # "rewritten" => unsure[f] # "rewritten" /\ OldLines(f)
          /\ unsure'[f] = "same" => unsure[f] = "same" /\ SameFile(f)
      BY <1>1, <3>1, WritingFiles
    <3>3. Len(text[f]) \in Nat /\ Len(text'[f]) \in Nat
      BY <1>0, <3>1 DEF TypedFiles
    <3>4. ASSUME unsure'[f] # "rewritten"
          PROVE  Len(cache[f]) <= Len(text'[f]) /\ \A i \in 1..Len(cache[f]) : cache[f][i] = text'[f][i]
      <4>1. OldLines(f) /\ Len(cache[f]) <= Len(text[f]) /\ \A i \in 1..Len(cache[f]) : cache[f][i] = text[f][i]
        BY <3>2, <3>4 DEF CacheOK
      <4>2. \A i \in 1..Len(cache[f]) : i \in 1..Len(text[f])
        BY <3>1, <3>3, <4>1
      <4> QED BY <3>1, <3>3, <4>1, <4>2 DEF OldLines
    <3>5. unsure'[f] = "same" => cache[f] = text'[f]
      BY <3>2 DEF CacheOK, SameFile
    <3> QED BY <3>4, <3>5
  <2> QED BY <2>1, <2>2 DEF CacheOK
<1>2. CASE (\E q \in Queries : Ask(q)) \/ Finish \/ (\E t \in todo : ScanFile(t)) \/ UNCHANGED vars
  <2>1. UNCHANGED <<cache, text, unsure>>
    BY <1>2 DEF Ask, Finish, ScanFile, Takes, vars, searching
  <2> QED BY <2>1 DEF CacheOK
<1>3. CASE (\E d \in Doms : AskIndex(d) \/ AskFiles(d)) \/ Reply
  <2>1. DOMAIN cache' = {}
    BY <1>3 DEF AskIndex, AskFiles, Turn, Reply
  <2> QED BY <2>1 DEF CacheOK
<1>4. ASSUME NEW t \in todo, TakeHit(t) PROVE CacheOK'
  <2>1. UNCHANGED <<text, unsure>> /\ t.file \in Files
    BY <1>4, HitTaken
  <2>2. \/ cache' = cache
        \/ /\ DOMAIN cache' = DOMAIN cache \cup {t.file}
           /\ \A g \in DOMAIN cache' : cache'[g] = IF g = t.file THEN HitLines(t) ELSE cache[g]
    BY <1>4, HitTaken
  <2>3. Len(text[t.file]) \in Nat
    BY <2>1 DEF TypedFiles
  <2>4. /\ unsure[t.file] # "rewritten" =>
             Len(HitLines(t)) <= Len(text[t.file]) /\ \A i \in 1..Len(HitLines(t)) : HitLines(t)[i] = text[t.file][i]
        /\ unsure[t.file] = "same" => HitLines(t) = text[t.file]
    BY <2>3 DEF HitLines, CacheOK
  <2> QED BY <2>1, <2>2, <2>4 DEF CacheOK
<1> QED BY <1>1, <1>2, <1>3, <1>4, WritingOrSearching DEF SearchStep

\* What a match says of its file.
FoundGood(m) ==
    /\ unsure[m.file] # "rewritten" /\ Plain(m.file) => Matches(m.file, m.text, query)
    /\ WayOf(m.file) = "fst" /\ unsure[m.file] = "same" =>
         m.line <= Len(text[m.file]) /\ m.text = text[m.file][m.line]

\* A match stays good while its file does.
LEMMA FoundStaysGood ==
  ASSUME NEW m, FoundGood(m),
         way'[DomainOf[m.file]] = way[DomainOf[m.file]], query' = query,
         unsure'[m.file] # "rewritten" /\ Plain(m.file)' => unsure[m.file] # "rewritten" /\ Plain(m.file),
         unsure'[m.file] = "same" => unsure[m.file] = "same" /\ text'[m.file] = text[m.file]
  PROVE  FoundGood(m)'
BY DEF FoundGood, WayOf, Matches

\* A hit taken, or a file read line by line, gives good matches only.
LEMMA FoundStep ==
  ASSUME TypedFiles, TypedSearch, Phases, Turns, IndexOK, TodoOK, CacheOK, FoundOK, [Next]_vars
  PROVE  FoundOK'
<1>0. FoundOK <=> \A m \in found : FoundGood(m)
  BY DEF FoundOK, ShownLinesMatch, FoundGood
<1> SUFFICES ASSUME NEW m \in found' PROVE FoundGood(m)'
  BY DEF FoundOK, ShownLinesMatch, FoundGood
<1>1. CASE Writing
  <2>1. /\ UNCHANGED <<pc, query, way, found>>
    BY <1>1, WritingFiles
  <2>2. m \in found /\ m.file \in Files /\ pc # "idle"
    BY <2>1 DEF Phases, TypedSearch, Found
  <2>3. /\ unsure'[m.file] # "rewritten" => unsure[m.file] # "rewritten" /\ OldLines(m.file)
        /\ unsure'[m.file] = "same" => unsure[m.file] = "same" /\ SameFile(m.file)
        /\ OldLines(m.file) /\ Plain(m.file)' => Plain(m.file)
    BY <1>1, <2>2, WritingFiles
  <2>4. FoundGood(m)
    BY <1>0, <2>2
  <2> QED BY <2>1, <2>3, <2>4, FoundStaysGood DEF SameFile
<1>2. CASE (\E q \in Queries : Ask(q)) \/ Reply
  <2>1. found' = {}
    BY <1>2 DEF Ask, Reply, Phases
  <2> QED BY <2>1
<1>3. CASE Finish \/ UNCHANGED vars
  <2>1. UNCHANGED <<found, way, query, unsure, text>>
    BY <1>3 DEF Finish, vars, searching
  <2>2. m \in found /\ FoundGood(m)
    BY <1>0, <2>1
  <2>3. Plain(m.file)' => Plain(m.file)
    BY <2>1 DEF Plain
  <2> QED BY <2>1, <2>2, <2>3, FoundStaysGood
<1>4. ASSUME NEW d \in Doms, AskIndex(d) PROVE FoundGood(m)'
  <2>1. /\ way[d] = "none" /\ \A e \in Doms : way'[e] = IF e = d THEN "fst" ELSE way[e]
        /\ UNCHANGED <<text, found, query>>
    BY <1>4, IndexAsked
  <2>2. m \in found /\ FoundGood(m) /\ m.file \in Files /\ DomainOf[m.file] \in Doms /\ DomainOf[m.file] # d
    BY <1>0, <2>1, SearchFiles DEF Turns, WayOf, TypedSearch, Found, Doms
  <2>3. /\ unsure'[m.file] # "rewritten" => unsure[m.file] # "rewritten"
        /\ unsure'[m.file] = "same" => unsure[m.file] = "same"
    BY <1>4, <2>2, IndexAsked
  <2>4. Plain(m.file)' => Plain(m.file)
    BY <2>1 DEF Plain
  <2> QED BY <2>1, <2>2, <2>3, <2>4, FoundStaysGood
<1>5. ASSUME NEW d \in Doms, AskFiles(d) PROVE FoundGood(m)'
  <2>1. /\ way[d] = "none" /\ \A e \in Doms : way'[e] = IF e = d THEN "scan" ELSE way[e]
        /\ UNCHANGED <<text, found, query, unsure>>
    BY <1>5, FilesAsked
  <2>2. m \in found /\ FoundGood(m) /\ m.file \in Files /\ DomainOf[m.file] \in Doms /\ DomainOf[m.file] # d
    BY <1>0, <2>1, SearchFiles DEF Turns, WayOf, TypedSearch, Found, Doms
  <2>3. Plain(m.file)' => Plain(m.file)
    BY <2>1 DEF Plain
  <2> QED BY <2>1, <2>2, <2>3, FoundStaysGood
<1>6. ASSUME NEW t \in todo, TakeHit(t) PROVE FoundGood(m)'
  <2>1. UNCHANGED <<text, unsure, query, way>> /\ WayOf(t.file) = "fst"
    BY <1>6, HitTaken
  <2>2. Plain(m.file)' => Plain(m.file)
    BY <2>1 DEF Plain
  <2>3. FoundGood(m)
    <3>1. CASE m \in found
      BY <1>0, <3>1
    <3>2. CASE m \notin found
      <4>1. Finds(t) /\ m = HitMatch(t)
        <5>1. IF Finds(t) THEN found' = found \cup {HitMatch(t)} ELSE found' = found
          BY <1>6, HitTaken
        <5> QED BY <3>2, <5>1
      <4>2. HitMatch(t) = [file |-> t.file, line |-> t.entry + 1, date |-> IndexedDate(t.file),
                           text |-> HitLines(t)[t.entry + 1]]
        BY <1>6, HitTaken
      <4>3. m.file = t.file /\ m.line = t.entry + 1 /\ m.text = HitLines(t)[t.entry + 1]
        BY <4>1, <4>2
      <4>4. t.file \in Files /\ t.entry \in Nat /\ HitLines(t) \in Seq(Lines) /\ Len(text[t.file]) \in Nat
        <5>1. t.file \in Files /\ t.entry \in Nat /\ HitLines(t) \in Seq(Lines)
          BY <1>6, HitTaken
        <5>2. Len(text[t.file]) \in Nat
          BY <5>1 DEF TypedFiles
        <5> QED BY <5>1, <5>2
      <4>5. t.entry + 1 \in 1..Len(HitLines(t))
        BY <4>1, <4>4 DEF Finds
      <4>6. /\ unsure[t.file] # "rewritten" => HitLines(t)[t.entry + 1] = text[t.file][t.entry + 1]
            /\ unsure[t.file] = "same" => HitLines(t) = text[t.file]
        BY <4>5 DEF HitLines, CacheOK
      <4>7. /\ query.exact => Phrase(m.text, query)
            /\ OfRole(m.file, m.text, query)
        BY <4>1, <4>3 DEF Finds
      <4>8. unsure[t.file] # "rewritten" /\ Plain(t.file) => HasWords(m.text, query)
        BY <2>1, <4>3, <4>6 DEF TodoOK
      <4>9. unsure[m.file] # "rewritten" /\ Plain(m.file) => Matches(m.file, m.text, query)
        BY <2>1, <4>3, <4>7, <4>8 DEF Matches, WayOf
      <4>10. unsure[m.file] = "same" => m.line <= Len(text[m.file]) /\ m.text = text[m.file][m.line]
        BY <4>3, <4>4, <4>5, <4>6
      <4> QED BY <4>9, <4>10 DEF FoundGood
    <3> QED BY <3>1, <3>2
  <2> QED BY <2>1, <2>2, <2>3, FoundStaysGood
<1>7. ASSUME NEW t \in todo, ScanFile(t) PROVE FoundGood(m)'
  <2>1. UNCHANGED <<text, unsure, query, way>> /\ WayOf(t.file) = "scan" /\ t.file \in Files
    BY <1>7, FileScanned
  <2>2. Plain(m.file)' => Plain(m.file)
    BY <2>1 DEF Plain
  <2>3. FoundGood(m)
    <3>1. CASE m \in found
      BY <1>0, <3>1
    <3>2. CASE m \notin found
      <4>1. m \in Scanned(t.file)
        BY <1>7, <3>2, FileScanned
      <4>2. m.file = t.file /\ Phrase(m.text, query) /\ OfRole(t.file, m.text, query)
        BY <1>7, <4>1, FileScanned, ScannedLines
      <4> QED BY <2>1, <4>2 DEF FoundGood, Matches, WayOf
    <3> QED BY <3>1, <3>2
  <2> QED BY <2>1, <2>2, <2>3, FoundStaysGood
<1> QED BY <1>1, <1>2, <1>3, <1>4, <1>5, <1>6, <1>7, WritingOrSearching DEF SearchStep

\* No line is found twice: a hit is taken out of what waits.
LEMMA OneByOneStep ==
  ASSUME TypedFiles, TypedSearch, Phases, Turns, IndexOK, OneByOne, [Next]_vars
  PROVE  OneByOne'
<1>0. \A m \in found : m.file \in Files
  BY DEF TypedSearch, Found
<1>1. CASE Writing \/ (\E q \in Queries : Ask(q)) \/ Finish \/ UNCHANGED vars
  <2>1. UNCHANGED <<way, todo, found>>
    BY <1>1, WritingKeepsSearch DEF Ask, Finish, vars, searching
  <2> QED BY <2>1 DEF OneByOne, WayOf
<1>2. CASE Reply
  <2>1. found' = {}
    BY <1>2 DEF Reply
  <2> QED BY <2>1 DEF OneByOne
<1>3. ASSUME NEW d \in Doms, AskIndex(d) \/ AskFiles(d) PROVE OneByOne'
  <2>1. found' = found /\ way[d] = "none" /\ \A t \in todo' : DomainOf[t.file] = d
    <3>1. CASE AskIndex(d)
      <4>1. found' = found /\ way[d] = "none" /\ query \in Queries /\ todo' \subseteq IndexSearch(d, query)
        BY <3>1, IndexAsked
      <4> QED BY <4>1, HitsOfDomain
    <3>2. CASE AskFiles(d)
      BY <3>2, FilesAsked
    <3> QED BY <1>3, <3>1, <3>2
  <2>2. ASSUME NEW t \in todo', NEW m \in found, m.file = t.file PROVE FALSE
    BY <2>1, <2>2 DEF Turns, WayOf
  <2> QED BY <2>1, <2>2 DEF OneByOne
<1>4. ASSUME NEW t \in todo, TakeHit(t) PROVE OneByOne'
  <2>1. /\ way' = way /\ todo' = todo \ {t} /\ t \in Spots /\ WayOf(t.file) = "fst" /\ t.entry \in Nat
        /\ found' = found \/ found' = found \cup {HitMatch(t)}
    BY <1>4, HitTaken
  <2>2. PICK h : h = HitMatch(t)
    OBVIOUS
  <2>3. h.file = t.file /\ h.line = t.entry + 1
    BY <2>2 DEF HitMatch, Match
  <2>4. \A m \in found : m.file = h.file => m.line # h.line
    BY <2>3 DEF OneByOne
  <2>5. ASSUME NEW m \in found', NEW n \in found', m.file = n.file, m.line = n.line PROVE m = n
    BY <2>1, <2>2, <2>4, <2>5 DEF OneByOne
  <2>6. ASSUME NEW s \in todo', NEW m \in found', m.file = s.file PROVE way[DomainOf[s.file]] = "fst" /\ m.line # s.entry + 1
    <3>1. s \in todo /\ s # t
      BY <2>1
    <3>2. CASE m \in found
      BY <2>6, <3>1, <3>2 DEF OneByOne, WayOf
    <3>3. CASE m = h
      <4>1. s.file = t.file /\ WayOf(s.file) = "fst"
        BY <2>1, <2>3, <2>6, <3>3
      <4>2. s \in Spots
        BY <3>1, <4>1 DEF Turns
      <4>3. s.entry # t.entry
        BY <2>1, <3>1, <4>1, <4>2 DEF Spots
      <4>4. s.entry \in Nat
        BY <4>2, SearchBounds DEF Spots
      <4> QED BY <2>1, <2>3, <3>3, <4>1, <4>3, <4>4 DEF WayOf
    <3> QED BY <2>1, <2>2, <3>2, <3>3
  <2> QED BY <2>1, <2>5, <2>6 DEF OneByOne, WayOf
<1>5. ASSUME NEW t \in todo, ScanFile(t) PROVE OneByOne'
  <2>1. /\ way' = way /\ todo' = todo \ {t} /\ t \in [file : Files] /\ t.file \in Files /\ WayOf(t.file) = "scan"
        /\ found' = found \/ found' = found \cup Scanned(t.file)
    BY <1>5, FileScanned
  <2>2. /\ \A m \in Scanned(t.file) : m.file = t.file
        /\ \A m, n \in Scanned(t.file) : m.line = n.line => m = n
    BY <1>5, FileScanned, ScannedLines
  <2>3. \A m \in found : m.file # t.file
    BY <2>1 DEF OneByOne
  <2>4. ASSUME NEW m \in found', NEW n \in found', m.file = n.file, m.line = n.line PROVE m = n
    BY <2>1, <2>2, <2>3, <2>4 DEF OneByOne
  <2>5. ASSUME NEW s \in todo', NEW m \in found', m.file = s.file PROVE way[DomainOf[s.file]] = "fst" /\ m.line # s.entry + 1
    <3>1. s \in todo /\ s # t
      BY <2>1
    <3>2. CASE m \in found
      BY <2>5, <3>1, <3>2 DEF OneByOne, WayOf
    <3>3. CASE m \in Scanned(t.file)
      <4>1. s.file = t.file /\ WayOf(s.file) = "scan"
        BY <2>1, <2>2, <2>5, <3>3
      <4>2. s \in [file : Files]
        BY <3>1, <4>1 DEF Turns
      <4>3. s = t
        BY <2>1, <4>1, <4>2
      <4> QED BY <3>1, <4>3
    <3> QED BY <2>1, <3>2, <3>3
  <2> QED BY <2>1, <2>4, <2>5 DEF OneByOne, WayOf
<1> QED BY <1>1, <1>2, <1>3, <1>4, <1>5, WritingOrSearching DEF SearchStep

-----------------------------------------------------------------------------
(* How many are found, and which are not missed.                           *)

\* What was found and what waits stay within the limits together.
LEMMA CountsStep ==
  ASSUME TypedFiles, TypedSearch, Phases, Turns, IndexOK, Counts, [Next]_vars
  PROVE  Counts'
<1> DEFINE For(S, d) == {m \in S : DomainOf[m.file] = d}
           In(S, f) == {m \in S : m.file = f}
<1>0. Limit \in Nat /\ MaxPerFile \in Nat /\ MaxPerFile > 0
  BY LimitIsPositive
<1>1. IsFiniteSet(found) /\ IsFiniteSet(todo)
  BY DEF TypedSearch
<1>2. ASSUME NEW d \in Doms, way[d] = "fst"
      PROVE  /\ Cardinality(For(found, d)) + Cardinality(For(todo, d)) <= Limit
             /\ \A f \in InDomain(d) : Cardinality(In(found, f)) <= MaxPerFile
  BY <1>2 DEF Counts, FoundFor, TodoFor, FoundIn
<1>3. ASSUME NEW S, IsFiniteSet(S), NEW d
      PROVE  IsFiniteSet(For(S, d)) /\ Cardinality(For(S, d)) \in Nat /\ Cardinality(For(S, d)) <= Cardinality(S)
             /\ IsFiniteSet(In(S, d)) /\ Cardinality(In(S, d)) \in Nat
  <2>1. For(S, d) \in SUBSET S /\ In(S, d) \in SUBSET S
    OBVIOUS
  <2> HIDE DEF For, In
  <2> QED BY <1>3, <2>1, Counted
<1> SUFFICES ASSUME NEW d \in Doms, way'[d] = "fst"
             PROVE  /\ Cardinality(For(found', d)) + Cardinality(For(todo', d)) <= Limit
                    /\ \A f \in InDomain(d) : Cardinality(In(found', f)) <= MaxPerFile
  BY DEF Counts, FoundFor, TodoFor, FoundIn
<1>4. CASE Writing \/ (\E q \in Queries : Ask(q)) \/ Finish \/ UNCHANGED vars
  <2>1. UNCHANGED <<way, todo, found>>
    BY <1>4, WritingKeepsSearch DEF Ask, Finish, vars, searching
  <2> QED BY <1>2, <2>1
<1>5. CASE Reply
  <2>1. way'[d] = "none"
    BY <1>5 DEF Reply, Doms
  <2> QED BY <2>1
<1>6. ASSUME NEW e \in Doms, AskIndex(e) \/ AskFiles(e),
             /\ way[e] = "none" /\ found' = found /\ \A t \in todo' : DomainOf[t.file] = e
             /\ \A c \in Doms : c # e => way'[c] = way[c]
             /\ IsFiniteSet(todo')
             /\ way'[e] = "fst" => Cardinality(todo') <= Limit
      PROVE  /\ Cardinality(For(found', d)) + Cardinality(For(todo', d)) <= Limit
             /\ \A f \in InDomain(d) : Cardinality(In(found', f)) <= MaxPerFile
  <2>1. CASE d = e
    <3>1. For(found, d) = {} /\ \A f \in InDomain(d) : In(found, f) = {}
      BY <1>6, <2>1 DEF Turns, WayOf, InDomain
    <3>2. Cardinality({}) = 0
      BY FS_EmptySet
    <3>3. IsFiniteSet(todo') /\ Cardinality(todo') <= Limit
      BY <1>6, <2>1
    <3>4. Cardinality(todo') \in Nat
      BY <3>3, Counted
    <3>5. PICK T : T = todo'
      OBVIOUS
    <3>6. Cardinality(For(T, d)) \in Nat /\ Cardinality(For(T, d)) <= Cardinality(T)
      <4> HIDE DEF For
      <4> QED BY <1>3, <3>3, <3>5
    <3> HIDE DEF For, In
    <3> QED BY <1>0, <1>6, <3>1, <3>2, <3>3, <3>4, <3>5, <3>6
  <2>2. CASE d # e
    <3>1. For(todo', d) = {} /\ way[d] = "fst"
      BY <1>6, <2>2
    <3>2. Cardinality({}) = 0
      BY FS_EmptySet
    <3> HIDE DEF For, In
    <3>3. Cardinality(For(found, d)) \in Nat /\ Cardinality(For(todo, d)) \in Nat
      BY <1>1, <1>3
    <3>4. /\ Cardinality(For(found, d)) + Cardinality(For(todo, d)) <= Limit
          /\ \A f \in InDomain(d) : Cardinality(In(found, f)) <= MaxPerFile
      BY <1>2, <3>1
    <3> QED BY <1>0, <1>6, <3>1, <3>2, <3>3, <3>4
  <2> QED BY <2>1, <2>2
<1>7. ASSUME NEW e \in Doms, AskIndex(e)
      PROVE  /\ Cardinality(For(found', d)) + Cardinality(For(todo', d)) <= Limit
             /\ \A f \in InDomain(d) : Cardinality(In(found', f)) <= MaxPerFile
  <2>1. /\ way[e] = "none" /\ found' = found /\ todo' \subseteq IndexSearch(e, query) /\ query \in Queries
        /\ \A c \in Doms : way'[c] = IF c = e THEN "fst" ELSE way[c]
        /\ IsFiniteSet(todo') /\ Cardinality(todo') <= Limit
    BY <1>7, IndexAsked
  <2>2. \A t \in todo' : DomainOf[t.file] = e
    BY <2>1, HitsOfDomain
  <2> HIDE DEF For, In
  <2> QED BY <1>6, <1>7, <2>1, <2>2
<1>8. ASSUME NEW e \in Doms, AskFiles(e)
      PROVE  /\ Cardinality(For(found', d)) + Cardinality(For(todo', d)) <= Limit
             /\ \A f \in InDomain(d) : Cardinality(In(found', f)) <= MaxPerFile
  <2>1. /\ way[e] = "none" /\ found' = found /\ \A t \in todo' : DomainOf[t.file] = e
        /\ \A c \in Doms : way'[c] = IF c = e THEN "scan" ELSE way[c]
        /\ IsFiniteSet(todo')
    BY <1>8, FilesAsked
  <2> HIDE DEF For, In
  <2> QED BY <1>6, <1>8, <2>1
<1>9. ASSUME NEW t \in todo, TakeHit(t)
      PROVE  /\ Cardinality(For(found', d)) + Cardinality(For(todo', d)) <= Limit
             /\ \A f \in InDomain(d) : Cardinality(In(found', f)) <= MaxPerFile
  <2>1. way' = way /\ todo' = todo \ {t} /\ IF Finds(t) THEN found' = found \cup {HitMatch(t)} ELSE found' = found
    BY <1>9, HitTaken
  <2>2. PICK h : h = HitMatch(t)
    OBVIOUS
  <2>3. h.file = t.file
    BY <2>2 DEF HitMatch, Match
  <2>4. /\ Cardinality(For(found, d)) + Cardinality(For(todo, d)) <= Limit
        /\ \A f \in InDomain(d) : Cardinality(In(found, f)) <= MaxPerFile
    BY <1>2, <2>1
  <2>5. Cardinality(For(found, d)) \in Nat /\ Cardinality(For(todo, d)) \in Nat
        /\ IsFiniteSet(For(found, d)) /\ IsFiniteSet(For(todo, d))
    <3> HIDE DEF For, In
    <3> QED BY <1>1, <1>3
  <2>6. Cardinality(For(found', d)) + Cardinality(For(todo', d)) <= Limit
    <3>1. CASE DomainOf[t.file] = d
      <4>1. For(todo', d) = For(todo, d) \ {t} /\ t \in For(todo, d)
        BY <2>1, <3>1
      <4>2. For(found', d) = For(found, d) \/ For(found', d) = For(found, d) \cup {h}
        BY <2>1, <2>2, <2>3, <3>1
      <4> HIDE DEF For
      <4>3. Cardinality(For(todo', d)) = Cardinality(For(todo, d)) - 1
        BY <2>5, <4>1, FS_RemoveElement
      <4>4. /\ Cardinality(For(found', d)) \in Nat
            /\ Cardinality(For(found', d)) <= Cardinality(For(found, d)) + 1
        <5>1. PICK F : F = For(found, d)
          OBVIOUS
        <5>2. IsFiniteSet(F) /\ Cardinality(F) \in Nat
          BY <2>5, <5>1
        <5>3. Cardinality(F \cup {h}) \in Nat /\ Cardinality(F \cup {h}) <= Cardinality(F) + 1
          <6>1. Cardinality(F \cup {h}) = IF h \in F THEN Cardinality(F) ELSE Cardinality(F) + 1
            BY <5>2, FS_AddElement
          <6> QED BY <5>2, <6>1
        <5> QED BY <4>2, <5>1, <5>2, <5>3
      <4> QED BY <1>0, <2>4, <2>5, <4>3, <4>4
    <3>2. CASE DomainOf[t.file] # d
      <4>1. For(todo', d) = For(todo, d)
        BY <2>1, <3>2
      <4>2. For(found', d) = For(found, d)
        BY <2>1, <2>2, <2>3, <3>2
      <4> HIDE DEF For
      <4> QED BY <2>4, <4>1, <4>2
    <3> QED BY <3>1, <3>2
  <2>7. ASSUME NEW f \in InDomain(d) PROVE Cardinality(In(found', f)) <= MaxPerFile
    <3>0. IsFiniteSet(In(found, f)) /\ Cardinality(In(found, f)) \in Nat
      <4> HIDE DEF For, In
      <4> QED BY <1>1, <1>3
    <3>1. CASE Finds(t) /\ f = t.file
      <4>1. Cardinality(In(found, f)) < MaxPerFile
        BY <3>1 DEF Finds, Wanted, FoundIn
      <4>2. In(found', f) \in SUBSET (In(found, f) \cup {h})
        BY <2>1, <2>2
      <4> HIDE DEF In
      <4>3. PICK F : F = In(found, f)
        OBVIOUS
      <4>4. IsFiniteSet(F \cup {h}) /\ Cardinality(F \cup {h}) <= MaxPerFile
        <5>1. IsFiniteSet(F) /\ Cardinality(F) \in Nat /\ Cardinality(F) < MaxPerFile
          BY <3>0, <4>1, <4>3
        <5>2. IsFiniteSet(F \cup {h}) /\ Cardinality(F \cup {h}) = IF h \in F THEN Cardinality(F) ELSE Cardinality(F) + 1
          BY <5>1, FS_AddElement
        <5> QED BY <1>0, <5>1, <5>2
      <4>5. /\ Cardinality(In(found', f)) \in Nat /\ Cardinality(F \cup {h}) \in Nat
            /\ Cardinality(In(found', f)) <= Cardinality(F \cup {h})
        BY <4>2, <4>3, <4>4, Counted
      <4> QED BY <1>0, <4>4, <4>5
    <3>2. CASE ~(Finds(t) /\ f = t.file)
      <4>1. In(found', f) = In(found, f)
        BY <2>1, <2>2, <2>3, <3>2
      <4> HIDE DEF In
      <4> QED BY <2>4, <4>1
    <3> QED BY <3>1, <3>2
  <2> QED BY <2>6, <2>7
<1>10. ASSUME NEW t \in todo, ScanFile(t)
       PROVE  /\ Cardinality(For(found', d)) + Cardinality(For(todo', d)) <= Limit
              /\ \A f \in InDomain(d) : Cardinality(In(found', f)) <= MaxPerFile
  <2>1. /\ way' = way /\ todo' = todo \ {t} /\ WayOf(t.file) = "scan"
        /\ found' = found \/ found' = found \cup Scanned(t.file)
    BY <1>10, FileScanned
  <2>2. \A m \in Scanned(t.file) : m.file = t.file
    BY <1>10, FileScanned, ScannedLines
  <2>3. DomainOf[t.file] # d
    BY <2>1 DEF WayOf
  <2>4. For(todo', d) = For(todo, d) /\ For(found', d) = For(found, d)
    BY <2>1, <2>2, <2>3
  <2>5. \A f \in InDomain(d) : In(found', f) = In(found, f)
    BY <2>1, <2>2, <2>3 DEF InDomain
  <2>6. way[d] = "fst"
    BY <2>1
  <2> HIDE DEF For, In
  <2> QED BY <1>2, <2>4, <2>5, <2>6
<1> QED BY <1>4, <1>5, <1>7, <1>8, <1>9, <1>10, WritingOrSearching DEF SearchStep

\* Nothing of the file is missed.
NoneMissedIn(f) ==
    /\ WayOf(f) = "fst" /\ ~tight /\ Plain(f) /\ InRange(IndexedDate(f), query) =>
         \A n \in 1..Len(text[f]) : Matches(f, text[f][n], query) =>
           \/ Cardinality(FoundIn(f)) = MaxPerFile
           \/ \E m \in FoundIn(f) : m.line = n
           \/ [file |-> f, entry |-> n - 1] \in todo
    /\ WayOf(f) = "scan" /\ InRange(DateOf[f], query) =>
         [file |-> f] \in todo \/ FoundIn(f) = Scanned(f)

\* A step that leaves a file, its matches and its hits alone loses none of its lines.
LEMMA NoneMissedStays ==
  ASSUME NEW f, NoneMissedIn(f),
         way'[DomainOf[f]] = way[DomainOf[f]], query' = query, text'[f] = text[f], ~tight' => ~tight,
         {m \in found' : m.file = f} = {m \in found : m.file = f},
         \A t \in todo : t.file = f => t \in todo'
  PROVE  NoneMissedIn(f)'
<1>1. (Plain(f)' => Plain(f)) /\ Scanned(f)' = Scanned(f) /\ FoundIn(f)' = FoundIn(f)
  BY DEF Plain, Scanned, FoundIn
<1>2. ASSUME way'[DomainOf[f]] = "fst", ~tight', Plain(f)', InRange(IndexedDate(f), query'),
             NEW n \in 1..Len(text'[f]),
             /\ IF way'[DomainOf[f]] = "fst"
                THEN HasWords(text'[f][n], query') /\ (query'.exact => Phrase(text'[f][n], query'))
                ELSE Phrase(text'[f][n], query')
             /\ OfRole(f, text'[f][n], query')
      PROVE  \/ Cardinality(FoundIn(f)') = MaxPerFile
             \/ \E m \in FoundIn(f)' : m.line = n
             \/ [file |-> f, entry |-> n - 1] \in todo'
  <2>1. WayOf(f) = "fst" /\ ~tight /\ Plain(f) /\ InRange(IndexedDate(f), query)
    BY <1>1, <1>2 DEF WayOf
  <2>2. n \in 1..Len(text[f]) /\ Matches(f, text[f][n], query)
    BY <1>2 DEF Matches
  <2>3. \/ Cardinality(FoundIn(f)) = MaxPerFile
        \/ \E m \in FoundIn(f) : m.line = n
        \/ [file |-> f, entry |-> n - 1] \in todo
    BY <2>1, <2>2 DEF NoneMissedIn
  <2>4. [file |-> f, entry |-> n - 1].file = f
    OBVIOUS
  <2> QED BY <1>1, <2>3, <2>4
<1>3. ASSUME way'[DomainOf[f]] = "scan", InRange(DateOf[f], query')
      PROVE  [file |-> f] \in todo' \/ FoundIn(f)' = Scanned(f)'
  <2>1. [file |-> f].file = f
    OBVIOUS
  <2> QED BY <1>1, <1>3, <2>1 DEF NoneMissedIn, WayOf
<1> QED BY <1>2, <1>3 DEF NoneMissedIn, WayOf, Matches

\* When no limit was met, every line of a file nobody has touched since it was
\* indexed that has the words is a hit that waits.
LEMMA NoneMissedAtFirst ==
  ASSUME TypedFiles, TypedSearch, IndexOK, NEW d \in Doms, AskIndex(d),
         NEW f \in Files, DomainOf[f] = d, unsure'[f] = "same", ~tight', Plain(f),
         NEW n \in 1..Len(text[f]), HasWords(text[f][n], query)
  PROVE  [file |-> f, entry |-> n - 1] \in todo'
<1>1. query \in Queries /\ drift[f] = "same"
  BY IndexAsked
<1>2. Entries(f) = text[f] /\ Len(text[f]) \in Nat /\ Len(text[f]) <= MaxLines
  BY EntriesOf DEF TypedFiles
<1>3. PICK h : h = [file |-> f, entry |-> n - 1]
  OBVIOUS
<1>4. h \in Spots /\ h.file = f /\ h.entry = n - 1
  <2>1. n - 1 \in 0..MaxLines
    BY <1>2, SearchBounds
  <2> QED BY <1>3, <2>1 DEF Spots
<1>5. ASSUME NEW w, HasWord(text[f][n], w) PROVE h \in HitsOf(d, w)
  <2>1. [word |-> w, file |-> f, entry |-> n - 1] \in index[d].keys
    BY <1>1, <1>2, <1>5 DEF IndexOK
  <2> QED BY <1>4, <2>1, HitSpots
<1>6. Range(QueryWords(query)) = {QueryWords(query)[i] : i \in 1..Len(query.words)} /\ query.any \in BOOLEAN
  BY <1>1, QueryParts
<1>7. IF query.any THEN \E i \in 1..Len(query.words) : h \in HitsOf(d, QueryWords(query)[i])
      ELSE \A i \in 1..Len(query.words) : h \in HitsOf(d, QueryWords(query)[i])
  <2>1. CASE query.any
    <3>1. PICK w \in Range(QueryWords(query)) : HasWord(text[f][n], w)
      BY <2>1 DEF HasWords
    <3>2. PICK i \in 1..Len(query.words) : w = QueryWords(query)[i]
      BY <1>6, <3>1
    <3> QED BY <1>5, <2>1, <3>1, <3>2
  <2>2. CASE ~query.any
    <3>1. \A w \in Range(QueryWords(query)) : HasWord(text[f][n], w)
      BY <2>2 DEF HasWords
    <3>2. \A i \in 1..Len(query.words) : HasWord(text[f][n], QueryWords(query)[i])
      BY <1>6, <3>1
    <3> QED BY <1>5, <2>2, <3>2
  <2> QED BY <2>1, <2>2
<1>8. Limit \in Nat
  BY LimitIsPositive
<1>9. ASSUME NEW i \in 1..Len(query.words)
      PROVE  HitsOf(d, QueryWords(query)[i]) \in SUBSET Spots /\ Cardinality(HitsOf(d, QueryWords(query)[i])) <= Limit
  <2>1. HitsOf(d, QueryWords(query)[i]) \in SUBSET Spots
    BY HitSpots
  <2>2. Cardinality(HitsOf(d, QueryWords(query)[i])) \in Nat
    BY <2>1, SpotsAreFinite, Counted
  <2>3. ~(Cardinality(HitsOf(d, QueryWords(query)[i])) > Limit)
    BY IndexAsked
  <2> QED BY <1>8, <2>1, <2>2, <2>3
<1>10. Cardinality(UNION {HitsOf(d, QueryWords(query)[i]) : i \in 1..Len(query.words)}) <= Limit
  <2>1. PICK U : U = UNION {HitsOf(d, QueryWords(query)[i]) : i \in 1..Len(query.words)}
    OBVIOUS
  <2>2. U \in SUBSET Spots
    BY <1>9, <2>1
  <2>3. Cardinality(U) \in Nat
    BY <2>2, SpotsAreFinite, Counted
  <2>4. ~(Cardinality(U) > Limit)
    BY <2>1, IndexAsked
  <2> QED BY <1>8, <2>1, <2>3, <2>4
<1>11. Cardinality(IndexSearch(d, query)) <= Limit /\ h \in IndexSearch(d, query)
  BY <1>1, <1>7, <1>9, <1>10, SearchHits
<1>12. todo' = IndexSearch(d, query)
  BY <1>11, IndexAsked
<1> QED BY <1>3, <1>11, <1>12

\* No step loses a line that answers, but to the cap of its file.
LEMMA NoneMissedStep ==
  ASSUME TypedFiles, TypedSearch, Phases, Turns, IndexOK, TodoOK, CacheOK, FoundOK, OneByOne, Counts, NoneMissed, [Next]_vars
  PROVE  NoneMissed'
<1>0. TypedFiles' /\ TypedFiles
  BY FilesTyped
<1> SUFFICES ASSUME NEW f \in there', unsure'[f] = "same"
             PROVE  NoneMissedIn(f)'
  BY DEF NoneMissed, NoneMissedIn
<1>1. f \in Files /\ DomainOf[f] \in Doms
  BY <1>0, SearchFiles DEF TypedFiles, Doms
<1>2. f \in there /\ unsure[f] = "same" => NoneMissedIn(f)
  BY DEF NoneMissed, NoneMissedIn
<1>3. ASSUME way'[DomainOf[f]] = "none" PROVE NoneMissedIn(f)'
  BY <1>3 DEF NoneMissedIn, WayOf
<1>4. CASE Writing
  <2>1. UNCHANGED <<pc, query, way, todo, found, tight>>
    BY <1>4, WritingFiles
  <2>2. CASE pc = "idle"
    BY <1>1, <1>3, <2>1, <2>2 DEF Phases
  <2>3. CASE pc # "idle"
    <3>1. unsure[f] = "same" /\ text'[f] = text[f] /\ f \in there
      BY <1>1, <1>4, <2>3, WritingFiles DEF SameFile
    <3>2. NoneMissedIn(f)
      BY <1>2, <3>1
    <3> QED BY <2>1, <3>1, <3>2, NoneMissedStays
  <2> QED BY <2>2, <2>3
<1>5. CASE (\E q \in Queries : Ask(q)) \/ Reply
  <2>1. way'[DomainOf[f]] = "none"
    BY <1>1, <1>5 DEF Ask, Reply, Phases, Doms
  <2> QED BY <1>3, <2>1
<1>6. CASE Finish \/ UNCHANGED vars
  <2>1. UNCHANGED <<there, text, unsure, query, way, todo, found, tight>>
    BY <1>6 DEF Finish, vars, searching
  <2>2. NoneMissedIn(f)
    BY <1>2, <2>1
  <2> QED BY <2>1, <2>2, NoneMissedStays
<1>7. ASSUME NEW d \in Doms, AskIndex(d), DomainOf[f] # d PROVE NoneMissedIn(f)'
  <2>1. /\ UNCHANGED <<there, text, query, found>> /\ (~tight' => ~tight) /\ todo = {}
        /\ way'[DomainOf[f]] = way[DomainOf[f]] /\ unsure[f] = "same"
    BY <1>1, <1>7, IndexAsked
  <2>2. NoneMissedIn(f)
    BY <1>2, <2>1
  <2> QED BY <2>1, <2>2, NoneMissedStays
<1>8. ASSUME NEW d \in Doms, AskIndex(d), DomainOf[f] = d PROVE NoneMissedIn(f)'
  <2>1. way'[d] = "fst" /\ UNCHANGED <<text, query>>
    BY <1>8, IndexAsked
  <2>2. Plain(f)' => Plain(f)
    BY <2>1 DEF Plain
  <2>3. ASSUME ~tight', Plain(f), NEW n \in 1..Len(text[f]), HasWords(text[f][n], query)
        PROVE  [file |-> f, entry |-> n - 1] \in todo'
    BY <1>1, <1>8, <2>3, NoneMissedAtFirst
  <2> QED BY <1>8, <2>1, <2>2, <2>3 DEF NoneMissedIn, WayOf, Matches
<1>9. ASSUME NEW d \in Doms, AskFiles(d), DomainOf[f] # d PROVE NoneMissedIn(f)'
  <2>1. /\ UNCHANGED <<there, text, query, found, tight, unsure>> /\ todo = {}
        /\ way'[DomainOf[f]] = way[DomainOf[f]]
    BY <1>1, <1>9, FilesAsked
  <2>2. NoneMissedIn(f)
    BY <1>2, <2>1
  <2> QED BY <2>1, <2>2, NoneMissedStays
<1>10. ASSUME NEW d \in Doms, AskFiles(d), DomainOf[f] = d PROVE NoneMissedIn(f)'
  <2>1. way'[d] = "scan" /\ there' = there /\ ([file |-> f] \in todo' <=> f \in there /\ DomainOf[f] = d)
    BY <1>1, <1>10, FilesAsked
  <2> QED BY <1>10, <2>1 DEF NoneMissedIn, WayOf
<1>11. ASSUME NEW t \in todo, TakeHit(t) PROVE NoneMissedIn(f)'
  <2>1. /\ UNCHANGED <<there, text, unsure, query, way, tight>> /\ todo' = todo \ {t}
        /\ IF Finds(t) THEN found' = found \cup {HitMatch(t)} ELSE found' = found
        /\ t.file \in Files /\ t.entry \in Nat /\ WayOf(t.file) = "fst" /\ t \in Spots
    BY <1>11, HitTaken
  <2>2. PICK h : h = HitMatch(t)
    OBVIOUS
  <2>3. h.file = t.file /\ h.line = t.entry + 1
    BY <2>2 DEF HitMatch, Match
  <2>4. NoneMissedIn(f)
    BY <1>2, <2>1
  <2>5. CASE f # t.file
    <3>1. {m \in found' : m.file = f} = {m \in found : m.file = f}
      BY <2>1, <2>2, <2>3, <2>5
    <3>2. \A s \in todo : s.file = f => s \in todo'
      BY <2>1, <2>5
    <3> QED BY <2>1, <2>4, <3>1, <3>2, NoneMissedStays
  <2>6. CASE f = t.file
    <3>1. SUFFICES ASSUME ~tight, Plain(f)', InRange(IndexedDate(f), query),
                          NEW n \in 1..Len(text[f]), HasWords(text[f][n], query),
                          query.exact => Phrase(text[f][n], query), OfRole(f, text[f][n], query)
                   PROVE  \/ Cardinality(FoundIn(f)') = MaxPerFile
                          \/ \E m \in FoundIn(f)' : m.line = n
                          \/ [file |-> f, entry |-> n - 1] \in todo'
      BY <2>1, <2>6 DEF NoneMissedIn, WayOf, Matches
    <3>2. Plain(f)
      BY <2>1, <3>1 DEF Plain
    <3>3. Matches(f, text[f][n], query)
      BY <2>1, <2>6, <3>1 DEF Matches, WayOf
    <3>4. \/ Cardinality(FoundIn(f)) = MaxPerFile
          \/ \E m \in FoundIn(f) : m.line = n
          \/ [file |-> f, entry |-> n - 1] \in todo
      BY <2>1, <2>4, <2>6, <3>1, <3>2, <3>3 DEF NoneMissedIn
    <3>5. FoundIn(f) \in SUBSET found /\ FoundIn(f) \subseteq FoundIn(f)' /\ IsFiniteSet(found)
      BY <2>1 DEF FoundIn, TypedSearch
    <3>6. CASE Cardinality(FoundIn(f)) = MaxPerFile
      <4>1. ~Finds(t)
        BY <2>6, <3>6, LimitIsPositive DEF Finds, Wanted
      <4>2. FoundIn(f)' = FoundIn(f)
        BY <2>1, <4>1 DEF FoundIn
      <4> QED BY <3>6, <4>2
    <3>7. CASE \E m \in FoundIn(f) : m.line = n
      BY <3>5, <3>7
    <3>8. CASE [file |-> f, entry |-> n - 1] \in todo /\ [file |-> f, entry |-> n - 1] # t
      BY <2>1, <3>8
    <3>9. CASE [file |-> f, entry |-> n - 1] = t /\ Cardinality(FoundIn(f)) # MaxPerFile
      <4>1. t.entry + 1 = n /\ n \in Nat /\ Len(text[f]) \in Nat
        <5>1. t.entry = n - 1
          BY <3>9
        <5>2. Len(text[f]) \in Nat
          BY <1>1 DEF TypedFiles
        <5> QED BY <5>1, <5>2
      <4>2. HitLines(t) = text[f]
        BY <1>2, <2>1, <2>6 DEF HitLines, CacheOK
      <4>3. Cardinality(FoundIn(f)) < MaxPerFile
        <5>1. Cardinality(FoundIn(f)) <= MaxPerFile
          BY <1>1, <2>1, <2>6 DEF Counts, WayOf, InDomain
        <5>2. Cardinality(FoundIn(f)) \in Nat /\ MaxPerFile \in Nat
          BY <3>5, Counted, LimitIsPositive
        <5> QED BY <3>9, <5>1, <5>2
      <4>4. Cardinality(FoundFor(DomainOf[f])) < MaxCollect
        <5>1. Cardinality(FoundFor(DomainOf[f])) + Cardinality(TodoFor(DomainOf[f])) <= Limit
          BY <1>1, <2>1, <2>6 DEF Counts, WayOf
        <5>2. FoundFor(DomainOf[f]) \in SUBSET found /\ TodoFor(DomainOf[f]) \in SUBSET todo /\ t \in TodoFor(DomainOf[f])
              /\ IsFiniteSet(found) /\ IsFiniteSet(todo)
          BY <2>6 DEF FoundFor, TodoFor, TypedSearch
        <5>3. Cardinality(FoundFor(DomainOf[f])) \in Nat
          BY <5>2, Counted
        <5>4. PICK T : T = TodoFor(DomainOf[f])
          OBVIOUS
        <5>5. IsFiniteSet(T) /\ T # {}
          BY <5>2, <5>4, Counted
        <5>6. Cardinality(T) \in Nat /\ Cardinality(T) # 0
          BY <5>5, Counted
        <5>7. Limit \in Nat /\ MaxCollect \in Nat /\ MaxCollect >= Limit
          BY LimitIsPositive
        <5> QED BY <5>1, <5>3, <5>4, <5>6, <5>7
      <4>5. Wanted(t)
        BY <2>1, <2>6, <3>1, <4>3, <4>4 DEF Wanted
      <4>6. Finds(t)
        BY <2>6, <3>1, <4>1, <4>2, <4>5 DEF Finds
      <4>7. h \in FoundIn(f)' /\ h.line = n
        BY <2>1, <2>2, <2>3, <2>6, <4>1, <4>6 DEF FoundIn
      <4> QED BY <4>7
    <3> QED BY <3>4, <3>6, <3>7, <3>8, <3>9
  <2> QED BY <2>5, <2>6
<1>12. ASSUME NEW t \in todo, ScanFile(t) PROVE NoneMissedIn(f)'
  <2>1. /\ UNCHANGED <<there, text, unsure, query, way, tight>> /\ todo' = todo \ {t}
        /\ WayOf(t.file) = "scan"
        /\ IF t.file \in there /\ InRange(DateOf[t.file], query) THEN found' = found \cup Scanned(t.file) ELSE found' = found
    BY <1>12, FileScanned
  <2>2. \A m \in Scanned(t.file) : m.file = t.file
    BY <1>12, FileScanned, ScannedLines
  <2>3. NoneMissedIn(f) /\ f \in there
    BY <1>2, <2>1
  <2>4. CASE f # t.file
    <3>1. {m \in found' : m.file = f} = {m \in found : m.file = f}
      BY <2>1, <2>2, <2>4
    <3>2. \A s \in todo : s.file = f => s \in todo'
      BY <2>1, <2>4
    <3> QED BY <2>1, <2>3, <3>1, <3>2, NoneMissedStays
  <2>5. CASE f = t.file
    <3>1. \A m \in found : m.file # f
      BY <2>1, <2>5 DEF OneByOne
    <3>2. ASSUME InRange(DateOf[f], query) PROVE FoundIn(f)' = Scanned(f)
      <4>1. found' = found \cup Scanned(f)
        BY <2>1, <2>3, <2>5, <3>2
      <4>2. {m \in found' : m.file = f} = Scanned(f)
        BY <2>2, <2>5, <3>1, <4>1
      <4> QED BY <4>2 DEF FoundIn
    <3>3. Scanned(f)' = Scanned(f)
      BY <2>1 DEF Scanned
    <3> QED BY <2>1, <2>5, <3>2, <3>3 DEF NoneMissedIn, WayOf
  <2> QED BY <2>4, <2>5
<1> QED BY <1>4, <1>5, <1>6, <1>7, <1>8, <1>9, <1>10, <1>11, <1>12, WritingOrSearching DEF SearchStep

-----------------------------------------------------------------------------
(* What the limits leave.                                                  *)

\* An index that holds the words of a line nobody has touched gives a hit.
LEMMA SomeLeftAtFirst ==
  ASSUME TypedFiles, TypedSearch, IndexOK, NEW d \in Doms, AskIndex(d), query.any,
         NEW f \in Files, DomainOf[f] = d, unsure'[f] = "same",
         NEW n \in 1..Len(text[f]), HasWords(text[f][n], query)
  PROVE  todo' # {}
<1>1. query \in Queries /\ drift[f] = "same"
  BY IndexAsked
<1>2. Range(QueryWords(query)) = {QueryWords(query)[i] : i \in 1..Len(query.words)}
  BY <1>1, QueryParts
<1>3. PICK i \in 1..Len(query.words) : HasWord(text[f][n], QueryWords(query)[i])
  BY <1>2 DEF HasWords
<1>4. PICK w : w = QueryWords(query)[i]
  OBVIOUS
<1>5. text[f][n] \in Lines
  BY DEF TypedFiles
<1>6. ~Blank(text[f][n])
  BY <1>3, <1>5, LineText
<1>7. PICK j \in 1..Len(Entries(f)) : Entries(f)[j] = text[f][n]
  BY <1>6, EntriesOf
<1>8. [word |-> w, file |-> f, entry |-> j - 1] \in index[d].keys
  BY <1>1, <1>3, <1>4, <1>7 DEF IndexOK
<1>9. PICK h : h = [file |-> f, entry |-> j - 1]
  OBVIOUS
<1>10. h \in Spots /\ h.file = f /\ h.entry = j - 1
  <2>1. Len(Entries(f)) \in Nat /\ Len(text[f]) \in Nat /\ Len(Entries(f)) <= Len(text[f]) /\ Len(text[f]) <= MaxLines
    BY EntriesOf DEF TypedFiles
  <2>2. j - 1 \in 0..MaxLines
    BY <2>1, SearchBounds
  <2> QED BY <1>9, <2>2 DEF Spots
<1>11. h \in HitsOf(d, w)
  BY <1>8, <1>10, HitSpots
<1>12. IndexSearch(d, query) # {}
  BY <1>1, <1>4, <1>11, SearchHits
<1> QED BY <1>12, IndexAsked

\* The first hit taken of a domain is found, whatever the limits.
LEMMA FirstHitFound ==
  ASSUME TypedFiles, TypedSearch, Turns, IndexOK, TodoOK, CacheOK, NEW t \in todo, TakeHit(t),
         Unfiltered(query), unsure[t.file] = "same", FoundFor(DomainOf[t.file]) = {}
  PROVE  HitMatch(t) \in found'
<1>1. t.file \in Files /\ t.entry \in Nat /\ WayOf(t.file) = "fst" /\ Len(text[t.file]) \in Nat
  <2>1. t.file \in Files /\ t.entry \in Nat /\ WayOf(t.file) = "fst"
    BY HitTaken
  <2> QED BY <2>1 DEF TypedFiles
<1>2. t.entry + 1 <= Len(text[t.file])
  BY <1>1 DEF TodoOK
<1>3. HitLines(t) = text[t.file]
  BY DEF HitLines, CacheOK
<1>4. t.file \in there
  <2>1. Len(text[t.file]) # 0
    BY <1>1, <1>2
  <2>2. text[t.file] # <<>>
    BY <2>1
  <2> QED BY <1>1, <2>2 DEF IndexOK
<1>5. FoundIn(t.file) = {}
  BY DEF FoundIn, FoundFor
<1>6. Cardinality(FoundIn(t.file)) < MaxPerFile /\ Cardinality(FoundFor(DomainOf[t.file])) < MaxCollect
  <2>1. Cardinality({}) = 0
    BY FS_EmptySet
  <2>2. MaxPerFile \in Nat /\ MaxPerFile > 0 /\ MaxCollect \in Nat /\ MaxCollect > 0
    BY LimitIsPositive
  <2> QED BY <1>5, <2>1, <2>2
<1>7. InRange(IndexedDate(t.file), query)
  <2>1. InRange(DateOf[t.file], query)
    BY <1>1 DEF Unfiltered
  <2> QED BY <2>1 DEF IndexedDate, InRange
<1>8. ~query.exact /\ query.role = "any"
  BY DEF Unfiltered
<1>9. OfRole(t.file, HitLines(t)[t.entry + 1], query)
  BY <1>8 DEF OfRole
<1>10. Wanted(t)
  BY <1>4, <1>6, <1>7 DEF Wanted
<1>11. Finds(t)
  BY <1>2, <1>3, <1>8, <1>9, <1>10 DEF Finds
<1>12. IF Finds(t) THEN found' = found \cup {HitMatch(t)} ELSE found' = found
  BY HitTaken
<1> QED BY <1>11, <1>12

\* No step of a search loses its last hit.
LEMMA SomeLeftStep ==
  ASSUME TypedFiles, TypedSearch, Phases, Turns, IndexOK, TodoOK, CacheOK, pc # "idle" => SomeLeft, [Next]_vars
  PROVE  (pc # "idle" => SomeLeft)'
<1> DEFINE Left(S, d) == {m \in S : DomainOf[m.file] = d}
           Asks(d) == /\ \A f \in InDomain(d) : unsure[f] = "same"
                      /\ \E f \in there \cap InDomain(d) : \E i \in 1..Len(text[f]) : HasWords(text[f][i], query)
<1>0. there \subseteq Files /\ there' \subseteq Files /\ \A d : InDomain(d) \subseteq Files
  BY FilesTyped DEF TypedFiles, InDomain
<1> SUFFICES ASSUME pc' # "idle", query'.any, Unfiltered(query'), NEW d \in Doms, way'[d] = "fst",
                    \A f \in InDomain(d) : unsure'[f] = "same",
                    NEW f \in there' \cap InDomain(d), NEW i \in 1..Len(text'[f]), HasWords(text'[f][i], query')
             PROVE  Left(found', d) # {} \/ Left(todo', d) # {}
  BY DEF SomeLeft, FoundFor, TodoFor
<1>1. f \in Files /\ DomainOf[f] = d
  BY DEF InDomain
<1>2. ASSUME pc # "idle", query' = query, way'[d] = way[d], text'[f] = text[f], f \in there,
             \A g \in InDomain(d) : unsure[g] = "same"
      PROVE  Left(found, d) # {} \/ Left(todo, d) # {}
  <2>1. query.any /\ Unfiltered(query) /\ way[d] = "fst"
    BY <1>2
  <2>2. f \in there \cap InDomain(d) /\ i \in 1..Len(text[f]) /\ HasWords(text[f][i], query)
    BY <1>2
  <2> QED BY <1>2, <2>1, <2>2 DEF SomeLeft, FoundFor, TodoFor
<1>3. CASE Writing
  <2>1. UNCHANGED <<pc, query, way, todo, found>>
    BY <1>3, WritingFiles
  <2>2. \A g \in InDomain(d) : unsure[g] = "same" /\ SameFile(g)
    BY <1>0, <1>3, <2>1, WritingFiles
  <2>3. text'[f] = text[f] /\ f \in there
    BY <2>2 DEF SameFile
  <2> QED BY <1>2, <2>1, <2>2, <2>3
<1>4. CASE (\E q \in Queries : Ask(q)) \/ Reply
  <2>1. way'[d] = "none"
    BY <1>4 DEF Ask, Reply, Phases, Doms
  <2> QED BY <2>1
<1>5. CASE Finish \/ UNCHANGED vars
  <2>1. UNCHANGED <<there, text, unsure, query, way, todo, found>> /\ pc # "idle"
    BY <1>5 DEF Finish, Asked, vars, searching
  <2> QED BY <1>2, <2>1
<1>6. ASSUME NEW e \in Doms, AskIndex(e) PROVE Left(found', d) # {} \/ Left(todo', d) # {}
  <2>1. /\ UNCHANGED <<there, text, query, found>> /\ todo = {} /\ pc # "idle"
        /\ way'[d] = IF d = e THEN "fst" ELSE way[d]
        /\ query \in Queries /\ todo' \subseteq IndexSearch(e, query)
    BY <1>6, IndexAsked
  <2>2. CASE d = e
    <3>1. todo' # {}
      BY <1>1, <1>6, <2>1, <2>2, SomeLeftAtFirst
    <3>2. \A t \in todo' : DomainOf[t.file] = d
      BY <2>1, <2>2, HitsOfDomain
    <3> QED BY <3>1, <3>2
  <2>3. CASE d # e
    <3>1. \A g \in InDomain(d) : unsure[g] = "same"
      BY <1>0, <1>6, IndexAsked
    <3> QED BY <1>2, <2>1, <2>3, <3>1
  <2> QED BY <2>2, <2>3
<1>7. ASSUME NEW e \in Doms, AskFiles(e) PROVE Left(found', d) # {} \/ Left(todo', d) # {}
  <2>1. /\ UNCHANGED <<there, text, query, found, unsure>> /\ todo = {} /\ pc # "idle"
        /\ way'[d] = IF d = e THEN "scan" ELSE way[d]
    BY <1>7, FilesAsked
  <2> QED BY <1>2, <2>1
<1>8. ASSUME NEW t \in todo, TakeHit(t) PROVE Left(found', d) # {} \/ Left(todo', d) # {}
  <2>1. /\ UNCHANGED <<there, text, unsure, query, way>> /\ todo' = todo \ {t} /\ pc # "idle"
        /\ found \subseteq found' /\ t.file \in Files
    BY <1>8, HitTaken
  <2>2. Left(found, d) # {} \/ Left(todo, d) # {}
    BY <1>2, <2>1
  <2>3. CASE Left(found, d) # {}
    BY <2>1, <2>3
  <2>4. CASE Left(found, d) = {} /\ DomainOf[t.file] = d
    <3>1. unsure[t.file] = "same" /\ Unfiltered(query)
      BY <2>1, <2>4 DEF InDomain
    <3>2. FoundFor(DomainOf[t.file]) = {}
      BY <2>4 DEF FoundFor
    <3>3. HitMatch(t) \in found'
      BY <1>8, <3>1, <3>2, FirstHitFound
    <3>4. HitMatch(t).file = t.file
      BY DEF HitMatch, Match
    <3>5. HitMatch(t) \in Left(found', d)
      BY <2>4, <3>3, <3>4
    <3> QED BY <3>5
  <2>5. CASE Left(todo, d) # {} /\ DomainOf[t.file] # d
    BY <2>1, <2>5
  <2> QED BY <2>2, <2>3, <2>4, <2>5
<1>9. ASSUME NEW t \in todo, ScanFile(t) PROVE Left(found', d) # {} \/ Left(todo', d) # {}
  <2>1. /\ UNCHANGED <<there, text, unsure, query, way>> /\ todo' = todo \ {t} /\ pc # "idle"
        /\ found \subseteq found' /\ WayOf(t.file) = "scan"
    BY <1>9, FileScanned
  <2>2. Left(found, d) # {} \/ Left(todo, d) # {}
    BY <1>2, <2>1
  <2>3. DomainOf[t.file] # d
    BY <2>1 DEF WayOf
  <2>4. Left(todo, d) \subseteq Left(todo', d) /\ Left(found, d) \subseteq Left(found', d)
    BY <2>1, <2>3
  <2> QED BY <2>2, <2>4
<1> QED BY <1>3, <1>4, <1>5, <1>6, <1>7, <1>8, <1>9, WritingOrSearching DEF SearchStep

-----------------------------------------------------------------------------
(* The theorems.                                                           *)

\* The invariant holds at first.
LEMMA InitInvariant ==
  ASSUME Init
  PROVE  IInv
<1>1. /\ text \in [Files -> BoundedSeq(Lines, MaxLines)]
      /\ there = {f \in Files : text[f] # <<>>}
      /\ index = [d \in Doms |-> NoIndex]
      /\ drift = [f \in Files |-> "rewritten"]
      /\ unsure = [f \in Files |-> "same"]
      /\ pc = "idle" /\ query = NoQuery
      /\ way = [d \in Doms |-> "none"]
      /\ todo = {} /\ cache = <<>> /\ found = {} /\ answer = <<>>
      /\ tight = FALSE /\ writes = 0
  BY DEF Init, Doms
<1>2. \A f \in Files : text[f] \in Seq(Lines) /\ Len(text[f]) <= MaxLines
  BY <1>1, BoundedLines
<1>3. TypedFiles
  <2>1. text \in [Files -> Seq(Lines)]
    BY <1>1, <1>2
  <2>2. NoIndex \in [built : BOOLEAN, files : SUBSET Files, keys : SUBSET Indexed] /\ NoIndex.files = {}
    BY DEF NoIndex
  <2> QED BY <1>1, <1>2, <2>1, <2>2, SearchBounds DEF TypedFiles, Fates
<1>4. TypedSearch
  <2>1. unsure \in [Files -> Fates] /\ way \in [Doms -> {"none", "fst", "scan"}]
    <3>1. "same" \in Fates
      BY DEF Fates
    <3> QED BY <1>1, <3>1
  <2>2. DOMAIN cache = {}
    <3>1. cache = <<>>
      BY <1>1
    <3>2. DOMAIN <<>> = {}
      OBVIOUS
    <3> QED BY <3>1, <3>2
  <2>3. IsFiniteSet(todo) /\ IsFiniteSet(found)
    BY <1>1, FS_EmptySet
  <2>4. pc = "idle" /\ query = NoQuery /\ todo = {} /\ found = {} /\ tight = FALSE
    BY <1>1
  <2> QED BY <2>1, <2>2, <2>3, <2>4 DEF TypedSearch
<1>5. Phases
  BY <1>1 DEF Phases
<1>6. Turns /\ TodoOK /\ CacheOK /\ FoundOK /\ OneByOne
  BY <1>1 DEF Turns, TodoOK, CacheOK, FoundOK, ShownLinesMatch, OneByOne
<1>7. IndexOK
  BY <1>1 DEF IndexOK, NoIndex
<1>8. Counts
  BY <1>1 DEF Counts
<1>9. NoneMissed
  BY <1>1, SearchFiles DEF NoneMissed, WayOf, Doms
<1> QED BY <1>1, <1>3, <1>4, <1>5, <1>6, <1>7, <1>8, <1>9 DEF IInv

\* Every step keeps it.
LEMMA NextInvariant ==
  ASSUME IInv, [Next]_vars
  PROVE  IInv'
<1>1. /\ TypedFiles /\ TypedSearch /\ Phases /\ Turns /\ IndexOK /\ TodoOK /\ CacheOK /\ FoundOK /\ OneByOne
      /\ Counts /\ NoneMissed /\ (pc # "idle" => SomeLeft)
  BY DEF IInv
<1>2. TypedFiles' /\ TypedSearch'
  BY <1>1, FilesTyped, SearchTyped
<1>3. Phases' /\ Turns' /\ IndexOK'
  BY <1>1, PhasesStep, TurnsStep, IndexStep
<1>4. TodoOK' /\ CacheOK' /\ FoundOK'
  BY <1>1, TodoStep, CacheStep, FoundStep
<1>5. OneByOne' /\ Counts' /\ NoneMissed'
  BY <1>1, OneByOneStep, CountsStep, NoneMissedStep
<1>6. (pc # "idle" => SomeLeft)'
  BY <1>1, SomeLeftStep
<1> QED BY <1>2, <1>3, <1>4, <1>5, <1>6 DEF IInv

\* The parts above, together, hold in every state of a search and of the
\* files and indexes it reads, whoever writes them (server.py:511-616).
THEOREM SearchInvariant == Spec => []IInv
<1>1. Init => IInv
  BY InitInvariant
<1>2. IInv /\ [Next]_vars => IInv'
  BY NextInvariant
<1> QED BY <1>1, <1>2, PTL DEF Spec

\* What the answers are.
LEMMA AnswerParts ==
  ASSUME IsFiniteSet(found), NEW a \in Answers
  PROVE  \E s : /\ s \in [1..Cardinality(found) -> found] /\ Cardinality(found) \in Nat
                /\ \A i, j \in 1..Cardinality(found) : i # j => s[i] # s[j]
                /\ \A m \in found : \E i \in 1..Cardinality(found) : s[i] = m
                /\ Sorted(s)
                /\ Len(a) = IF Cardinality(found) < MaxResults THEN Cardinality(found) ELSE MaxResults
                /\ DOMAIN a = 1..Len(a)
                /\ \A i \in 1..Len(a) : i \in 1..Cardinality(found) /\ a[i] = s[i]
<1> DEFINE n == Cardinality(found)
<1>1. n \in Nat /\ MaxResults \in Nat /\ MaxResults > 0
  BY Counted, SearchBounds
<1>2. PICK s \in SetToSeqs(found) : Sorted(s) /\ a = Cut(s)
  BY DEF Answers
<1>3. s \in [1..n -> found] /\ \A i, j \in 1..n : i # j => s[i] # s[j]
  BY DEF SetToSeqs
<1> HIDE DEF n
<1>4. \A m \in found : \E i \in 1..n : s[i] = m
  <2>1. s \in Injection(1..n, found)
    BY <1>3 DEF Injection, IsInjective
  <2>2. Cardinality(1..n) = n
    BY <1>1, FS_Interval
  <2>3. s \in Surjection(1..n, found)
    BY <2>1, <2>2, FS_Injection DEF n
  <2> QED BY <2>3 DEF Surjection
<1>5. s \in Seq(found) /\ Len(s) = n
  BY <1>1, <1>3
<1>6. /\ Len(a) = IF n < MaxResults THEN n ELSE MaxResults
      /\ DOMAIN a = 1..Len(a)
      /\ \A i \in 1..Len(a) : i \in 1..n /\ a[i] = s[i]
  <2>1. CASE n > MaxResults
    <3>1. a = SubSeq(s, 1, MaxResults)
      BY <1>2, <1>5, <2>1 DEF Cut
    <3> QED BY <1>1, <1>5, <2>1, <3>1
  <2>2. CASE n <= MaxResults
    <3>1. a = s
      BY <1>1, <1>2, <1>5, <2>2 DEF Cut
    <3> QED BY <1>1, <1>5, <2>2, <3>1
  <2> QED BY <1>1, <2>1, <2>2
<1> QED BY <1>1, <1>2, <1>3, <1>4, <1>6 DEF n

\* The state of a search has the types the code gives it: hits and matches name
\* files and lines there can be, and no more is answered than max_results.
THEOREM SearchTypes == Spec => []TypeOK
<1>1. IInv => TypeOK
  <2> SUFFICES ASSUME IInv PROVE TypeOK
    OBVIOUS
  <2>1. TypedFiles /\ TypedSearch /\ Phases
    BY DEF IInv
  <2>2. text \in [Files -> BoundedSeq(Lines, MaxLines)]
    <3>1. text \in [Files -> Seq(Lines)] /\ \A f \in Files : text[f] \in BoundedSeq(Lines, MaxLines)
      BY <2>1, BoundedLines DEF TypedFiles
    <3> QED BY <3>1
  <2>3. \A d \in Doms : /\ index[d].files \subseteq InDomain(d)
                        /\ index[d].keys \subseteq Indexed
                        /\ ~index[d].built => index[d] = NoIndex
    BY <2>1 DEF TypedFiles
  <2>4. \A m \in found : m.file \in Files /\ m.line \in 1..MaxLines /\ m.text \in Lines
    BY <2>1 DEF TypedSearch, Found
  <2>5. answer \in {<<>>} \/ (Range(answer) \subseteq found /\ Len(answer) <= MaxResults)
    <3>1. CASE pc = "done"
      <4>1. answer \in Answers /\ IsFiniteSet(found)
        BY <2>1, <3>1 DEF Phases, TypedSearch
      <4>2. PICK s : /\ s \in [1..Cardinality(found) -> found] /\ Cardinality(found) \in Nat
                     /\ Len(answer) = IF Cardinality(found) < MaxResults THEN Cardinality(found) ELSE MaxResults
                     /\ DOMAIN answer = 1..Len(answer)
                     /\ \A i \in 1..Len(answer) : i \in 1..Cardinality(found) /\ answer[i] = s[i]
        BY <4>1, AnswerParts
      <4>3. \A i \in DOMAIN answer : answer[i] \in found
        BY <4>2
      <4>4. Len(answer) <= MaxResults
        BY <4>2, SearchBounds
      <4> QED BY <4>3, <4>4 DEF Range
    <3>2. CASE pc # "done"
      BY <2>1, <3>2 DEF Phases
    <3> QED BY <3>1, <3>2
  <2> QED BY <2>1, <2>2, <2>3, <2>4, <2>5 DEF TypeOK, TypedFiles, TypedSearch, Doms
<1> QED BY <1>1, SearchInvariant, PTL

\* A hit found in the index before its file grew, and read after, shows a line
\* that answers the query, unless the file was replaced meanwhile and as long as
\* it has no blank lines.
THEOREM LinesMatch == Spec => []ShownLinesMatch
<1>1. IInv => ShownLinesMatch
  BY DEF IInv, FoundOK
<1> QED BY <1>1, SearchInvariant, PTL

\* When no index held more hits than it was asked for, a file nobody has changed
\* gives every line that answers the query, up to its cap.
THEOREM NothingMissed == Spec => []NothingIsMissed
<1>1. IInv => NothingIsMissed
  <2> SUFFICES ASSUME IInv, Asked, ~tight, NEW f \in there, unsure[f] = "same", Plain(f),
                      InRange(IF way[DomainOf[f]] = "fst" THEN IndexedDate(f) ELSE DateOf[f], query)
               PROVE  LET all == {n \in DOMAIN text[f] : Matches(f, text[f][n], query)}
                      IN  Cardinality(FoundIn(f)) =
                            IF Cardinality(all) < MaxPerFile THEN Cardinality(all) ELSE MaxPerFile
    BY DEF NothingIsMissed
  <2> DEFINE all == {n \in 1..Len(text[f]) : Matches(f, text[f][n], query)}
             F == FoundIn(f)
  <2>1. TypedFiles /\ TypedSearch /\ FoundOK /\ OneByOne /\ Counts /\ NoneMissed
    BY DEF IInv
  <2>2. f \in Files /\ DomainOf[f] \in Doms /\ text[f] \in Seq(Lines) /\ Len(text[f]) <= MaxLines
        /\ DOMAIN text[f] = 1..Len(text[f]) /\ Len(text[f]) \in Nat
    BY <2>1, SearchFiles DEF TypedFiles, Doms
  <2>3. todo = {} /\ way[DomainOf[f]] \in {"fst", "scan"}
    BY <2>1, <2>2 DEF Asked, TypedSearch, Doms
  <2>4. Cardinality(F) = IF Cardinality(all) < MaxPerFile THEN Cardinality(all) ELSE MaxPerFile
    <3>1. CASE way[DomainOf[f]] = "fst"
      <4>1. F \in SUBSET found /\ IsFiniteSet(found)
        BY <2>1 DEF FoundIn, TypedSearch
      <4>2. IsFiniteSet(F) /\ Cardinality(F) \in Nat
        <5> HIDE DEF F
        <5> QED BY <4>1, Counted
      <4>3. all \in SUBSET (1..Len(text[f])) /\ IsFiniteSet(1..Len(text[f]))
        <5>1. all \in SUBSET (1..Len(text[f]))
          OBVIOUS
        <5>2. IsFiniteSet(1..Len(text[f]))
          <6> HIDE DEF all, F
          <6>1. 1 \in Int /\ Len(text[f]) \in Int
            BY <2>2
          <6> QED BY <6>1, FS_Interval
        <5> QED BY <5>1, <5>2
      <4>4. IsFiniteSet(all) /\ Cardinality(all) \in Nat
        <5> HIDE DEF all
        <5> QED BY <4>3, Counted
      <4>5. \A m \in F : m.line \in all
        <5> SUFFICES ASSUME NEW m \in F PROVE m.line \in all
          OBVIOUS
        <5>1. m \in found /\ m.file = f /\ m.line \in 1..MaxLines /\ MaxLines \in Nat
          BY <2>1, SearchBounds DEF FoundIn, TypedSearch, Found
        <5>2. m.line <= Len(text[f]) /\ m.text = text[f][m.line] /\ Matches(f, m.text, query)
          BY <2>1, <3>1, <5>1 DEF FoundOK, ShownLinesMatch, WayOf
        <5>3. m.line \in 1..Len(text[f])
          BY <2>2, <5>1, <5>2
        <5> QED BY <5>2, <5>3
      <4>6. \A m, n \in F : m.line = n.line => m = n
        BY <2>1 DEF OneByOne, FoundIn
      <4> DEFINE g == [m \in F |-> m.line]
      <4>7. g \in Injection(F, all)
        <5> HIDE DEF all, F
        <5> QED BY <4>5, <4>6 DEF Injection, IsInjective
      <4>8. Cardinality(F) <= Cardinality(all) /\ (Cardinality(F) = Cardinality(all) <=> g \in Surjection(F, all))
        <5> HIDE DEF g, F, all
        <5> QED BY <4>4, <4>7, FS_Injection
      <4>9. Cardinality(F) <= MaxPerFile
        BY <2>1, <2>2, <3>1 DEF Counts, InDomain
      <4>10. Cardinality(F) = MaxPerFile \/ \A n \in all : \E m \in F : m.line = n
        <5>1. InRange(IndexedDate(f), query) /\ WayOf(f) = "fst"
          BY <3>1 DEF WayOf
        <5> QED BY <2>1, <2>3, <5>1 DEF NoneMissed
      <4>11. CASE Cardinality(F) = MaxPerFile
        <5> HIDE DEF g, F, all
        <5> QED BY <4>2, <4>4, <4>8, <4>11
      <4>12. CASE \A n \in all : \E m \in F : m.line = n
        <5>1. g \in Surjection(F, all)
          <6> HIDE DEF F, all
          <6> QED BY <4>5, <4>12 DEF Surjection
        <5>2. MaxPerFile \in Nat
          BY LimitIsPositive
        <5> HIDE DEF g, F, all
        <5> QED BY <4>2, <4>4, <4>8, <4>9, <5>1, <5>2
      <4> QED BY <4>10, <4>11, <4>12
    <3>2. CASE way[DomainOf[f]] = "scan"
      <4>1. F = Scanned(f)
        <5>1. InRange(DateOf[f], query) /\ WayOf(f) = "scan"
          BY <3>2 DEF WayOf
        <5> QED BY <2>1, <2>3, <5>1 DEF NoneMissed
      <4>2. all = {n \in 1..Len(text[f]) : Phrase(text[f][n], query) /\ OfRole(f, text[f][n], query)}
        BY <3>2 DEF Matches
      <4> HIDE DEF F, all
      <4> QED BY <2>2, <4>1, <4>2, ScannedLines
    <3> QED BY <2>3, <3>1, <3>2
  <2> QED BY <2>2, <2>4
<1> QED BY <1>1, SearchInvariant, PTL

\* A query for any of its words is not left without an answer by the limits.
THEOREM SomethingIsLeft == Spec => []LimitsLeaveSomething
<1>1. IInv => LimitsLeaveSomething
  <2> SUFFICES ASSUME IInv, Asked, query.any, Unfiltered(query), NEW d \in Doms, way[d] = "fst",
                      \A f \in InDomain(d) : unsure[f] = "same",
                      NEW f \in there \cap InDomain(d), NEW i \in DOMAIN text[f], HasWords(text[f][i], query)
               PROVE  FoundFor(d) # {}
    BY DEF LimitsLeaveSomething, Doms
  <2>1. SomeLeft /\ todo = {} /\ TypedFiles
    BY DEF IInv, Asked
  <2>2. i \in 1..Len(text[f])
    BY <2>1 DEF TypedFiles
  <2>3. TodoFor(d) = {}
    BY <2>1 DEF TodoFor
  <2> QED BY <2>1, <2>2, <2>3 DEF SomeLeft
<1> QED BY <1>1, SearchInvariant, PTL

\* Nothing that was found and left out is newer than what the caller gets, who gets
\* no line twice and as many lines as there are, up to max_results.
THEOREM NewestKept == Spec => []NewestAreKept
<1>1. IInv => NewestAreKept
  <2> SUFFICES ASSUME IInv, pc = "done"
               PROVE  /\ Len(answer) = IF Cardinality(found) < MaxResults THEN Cardinality(found) ELSE MaxResults
                      /\ \A m \in found \ Range(answer) : \A i \in DOMAIN answer : m.date <= answer[i].date
                      /\ \A i, j \in DOMAIN answer : answer[i].file = answer[j].file /\ answer[i].line = answer[j].line => i = j
    BY DEF NewestAreKept
  <2>1. answer \in Answers /\ IsFiniteSet(found) /\ found \subseteq Found /\ OneByOne
    BY DEF IInv, Phases, TypedSearch
  <2>2. PICK s : /\ s \in [1..Cardinality(found) -> found] /\ Cardinality(found) \in Nat
                 /\ \A i, j \in 1..Cardinality(found) : i # j => s[i] # s[j]
                 /\ \A m \in found : \E i \in 1..Cardinality(found) : s[i] = m
                 /\ Sorted(s)
                 /\ Len(answer) = IF Cardinality(found) < MaxResults THEN Cardinality(found) ELSE MaxResults
                 /\ DOMAIN answer = 1..Len(answer)
                 /\ \A i \in 1..Len(answer) : i \in 1..Cardinality(found) /\ answer[i] = s[i]
    BY <2>1, AnswerParts
  <2>3. Len(answer) \in Nat
    BY <2>2, SearchBounds
  <2>4. ASSUME NEW m \in found \ Range(answer), NEW i \in DOMAIN answer PROVE m.date <= answer[i].date
    <3>1. PICK k \in 1..Cardinality(found) : s[k] = m
      BY <2>2
    <3>2. k \notin 1..Len(answer)
      BY <2>2, <3>1 DEF Range
    <3>3. i \in 1..Len(answer) /\ i < k /\ i \in 1..Cardinality(found) /\ answer[i] = s[i]
      BY <2>2, <2>3, <2>4, <3>2
    <3>4. s[i].date > s[k].date \/ s[i].date = s[k].date
      BY <2>2, <3>3 DEF Sorted
    <3>5. s[i].date \in Nat /\ s[k].date \in Nat
      BY <2>1, <2>2, <3>3 DEF Found
    <3> QED BY <3>1, <3>3, <3>4, <3>5
  <2>5. ASSUME NEW i \in DOMAIN answer, NEW j \in DOMAIN answer,
               answer[i].file = answer[j].file, answer[i].line = answer[j].line
        PROVE  i = j
    <3>1. i \in 1..Cardinality(found) /\ j \in 1..Cardinality(found) /\ answer[i] = s[i] /\ answer[j] = s[j]
      BY <2>2
    <3>2. s[i] \in found /\ s[j] \in found
      BY <2>2, <3>1
    <3>3. s[i] = s[j]
      BY <2>1, <2>5, <3>1, <3>2 DEF OneByOne
    <3> QED BY <2>2, <3>1, <3>3
  <2> QED BY <2>2, <2>4, <2>5
<1> QED BY <1>1, SearchInvariant, PTL

=============================================================================
